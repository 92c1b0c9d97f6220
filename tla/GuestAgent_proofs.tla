------------------------- MODULE GuestAgent_proofs -------------------------
(***************************************************************************)
(* Proofs about GuestAgent, for any clients and any number of requests and *)
(* cuts: a cut request spoils at most one other; a reply taken is that to  *)
(* the request sent or to one that another process has given up on; and a  *)
(* shutdown reported graceful by a process that was not misled was         *)
(* accepted by the agent.                                                  *)
(***************************************************************************)
EXTENDS GuestAgent, SequenceTheorems, FiniteSetTheorems, TLAPS

-----------------------------------------------------------------------------
(* Taking the first element of a queue. *)
LEMMA HeadAndTail ==
    ASSUME NEW S, NEW q \in Seq(S), q # <<>>
    PROVE  /\ Tail(q) \in Seq(S) /\ Head(q) \in S /\ Head(q) = q[1]
           /\ Len(q) \in Nat /\ Len(q) > 0 /\ 1 \in DOMAIN q
           /\ DOMAIN q = 1 .. Len(q) /\ DOMAIN Tail(q) = 1 .. Len(q) - 1
           /\ \A i \in 1 .. Len(q) - 1 : Tail(q)[i] = q[i + 1]
BY HeadTailProperties, LenProperties, EmptySeq

(* Adding an element to a queue. *)
LEMMA AppendFacts ==
    ASSUME NEW S, NEW q \in Seq(S), NEW e \in S
    PROVE  /\ Append(q, e) \in Seq(S) /\ Append(q, e) # <<>> /\ Len(q) \in Nat
           /\ DOMAIN q = 1 .. Len(q) /\ DOMAIN Append(q, e) = 1 .. Len(q) + 1
           /\ \A i \in 1 .. Len(q) : Append(q, e)[i] = q[i]
           /\ Append(q, e)[Len(q) + 1] = e
BY AppendProperties, LenProperties

-----------------------------------------------------------------------------
(***************************************************************************)
(* The clients: what a step does to the record of the client it is of.     *)
(***************************************************************************)
Others(c) == \A d \in Clients : d # c => clients'[d] = clients[d]

(* execute has returned or raised: the client waits for nothing. *)
LEMMA ClosedFacts ==
    ASSUME TypeOK, NEW c \in Clients, NEW own \in BOOLEAN, NEW p \in Phases,
           NEW res \in Results, Closed(c, own, p, res)
    PROVE  /\ clients' \in [Clients -> Client] /\ Others(c)
           /\ clients'[c].phase = p /\ ~clients'[c].waiting /\ clients'[c].inbox = <<>>
           /\ clients'[c].own = own /\ clients'[c].result = res
           /\ clients'[c].id = clients[c].id /\ clients'[c].serial = clients[c].serial
           /\ clients'[c].since = clients[c].since
<1>1. <<>> \in Seq(Reply)
  BY EmptySeq
<1> QED BY <1>1, ZenonT(60) DEF TypeOK, Closed, Client, Others

LEMMA RaisedFacts ==
    ASSUME TypeOK, NEW c \in Clients, NEW own \in BOOLEAN, Raised(c, own)
    PROVE  \E p \in Phases, res \in Results :
             /\ Closed(c, own, p, res) /\ ~In(c, {"off", "stop"})
             /\ p # "down" /\ (res = "graceful" => In(c, {"down"}))
BY DEF Raised, In, Phases, Results

LEMMA ReturnedFacts ==
    ASSUME TypeOK, NEW c \in Clients, NEW own \in BOOLEAN, Returned(c, own)
    PROVE  \E p \in Phases, res \in Results :
             /\ Closed(c, own, p, res) /\ ~In(c, {"off", "stop"})
             /\ res # "graceful" /\ (p = "down" => In(c, {"shutdown", "down"}))
BY DEF Returned, In, Phases, Results

(* A new process of client c. *)
LEMMA StartFacts ==
    ASSUME clients \in [Clients -> Client], sent \in 0 .. MaxRequests,
           NEW c \in Clients, NEW p \in Phases,
           clients' = [clients EXCEPT ![c] =
             [NewClient EXCEPT !.phase = p, !.serial = clients[c].serial, !.since = sent]]
    PROVE  /\ clients' \in [Clients -> Client] /\ Others(c)
           /\ clients'[c].phase = p /\ ~clients'[c].waiting /\ clients'[c].inbox = <<>>
           /\ clients'[c].id = 0 /\ clients'[c].serial = clients[c].serial
           /\ clients'[c].since = sent /\ clients'[c].result = "none"
<1> DEFINE r == [NewClient EXCEPT !.phase = p, !.serial = clients[c].serial, !.since = sent]
<1>1. /\ r.phase = p /\ ~r.waiting /\ r.inbox = <<>> /\ r.id = 0
      /\ r.serial = clients[c].serial /\ r.since = sent /\ r.result = "none"
  BY DEF NewClient
<1>2. r \in Client
  <2>1. clients[c].serial \in 0 .. MaxRequests
    BY DEF Client
  <2>2. <<>> \in Seq(Reply) /\ 0 \in 0 .. MaxRequests /\ "none" \in Results
    BY EmptySeq, GuestAgentAssumption DEF Results
  <2> QED BY <2>1, <2>2, ZenonT(60) DEF Client, NewClient
<1> HIDE DEF r
<1>3. clients' = [clients EXCEPT ![c] = r]
  BY DEF r
<1> QED BY <1>1, <1>2, <1>3 DEF Others

(***************************************************************************)
(* The conditions on clients and on the connection in TypeOK.              *)
(***************************************************************************)
ClientsOK ==
    /\ clients \in [Clients -> Client]
    /\ \A c \in Clients : clients[c].phase \in {"off", "stop"} => ~clients[c].waiting
    /\ \A c \in Clients : clients[c].inbox # <<>> => clients[c].waiting
    /\ conn \in Clients \cup {NoClient}
    /\ conn # NoClient => clients[conn].waiting
    /\ \A c \in Clients : clients[c].id <= sent /\ clients[c].serial <= sent

WireOK ==
    /\ sent \in 0 .. MaxRequests
    /\ backlog \in Seq(Request)
    /\ port \in Seq(Request)
    /\ agent \in Reply \cup {NoRequest}
    /\ guest \in {"boot", "up", "down"}
    /\ poweroff \in BOOLEAN /\ begun \in BOOLEAN
    /\ cuts \in 0 .. MaxCuts /\ spoiled \in Nat

(* The requests cut short that are on their way are finitely many. *)
LEMMA CutFacts ==
    ASSUME WireOK
    PROVE  /\ IsFiniteSet(CutOnTheirWay) /\ Cardinality(CutOnTheirWay) \in Nat
           /\ \A x : x \in CutOnTheirWay <=>
                  \/ \E i \in DOMAIN port : port[i].cut /\ x = port[i].serial
                  \/ \E i \in DOMAIN backlog :
                       backlog[i].cut /\ x = backlog[i].serial
<1>1. \A x : x \in CutOnTheirWay <=>
           \/ \E i \in DOMAIN port : port[i].cut /\ x = port[i].serial
           \/ \E i \in DOMAIN backlog :
                backlog[i].cut /\ x = backlog[i].serial
  BY DEF CutOnTheirWay
<1>2. \A i \in DOMAIN port : port[i].serial \in 1 .. MaxRequests
  <2>1. \A i \in DOMAIN port : port[i] \in Request
    BY ElementOfSeq, LenProperties DEF WireOK
  <2> QED BY <2>1 DEF Request, Serials
<1>3. \A i \in DOMAIN backlog : backlog[i].serial \in 1 .. MaxRequests
  <2>1. \A i \in DOMAIN backlog : backlog[i] \in Request
    BY ElementOfSeq, LenProperties DEF WireOK
  <2> QED BY <2>1 DEF Request, Serials
<1>4. CutOnTheirWay \subseteq 1 .. MaxRequests
  BY <1>1, <1>2, <1>3
<1>5. IsFiniteSet(1 .. MaxRequests)
  <2>1. 1 \in Int /\ MaxRequests \in Int
    BY GuestAgentAssumption
  <2> QED BY <2>1, FS_Interval
<1>6. IsFiniteSet(CutOnTheirWay)
  BY <1>4, <1>5, FS_Subset
<1>7. Cardinality(CutOnTheirWay) \in Nat
  BY <1>6, FS_CardinalityType
<1> QED BY <1>1, <1>6, <1>7

LEMMA CInvParts == CInv <=> ClientsOK /\ WireOK /\ InOrder /\ CutsCounted
<1>1. CInv => ClientsOK /\ WireOK /\ InOrder /\ CutsCounted
  BY GuestAgentAssumption DEF CInv, TypeOK, ClientsOK, WireOK
<1>2. ASSUME ClientsOK, WireOK, InOrder, CutsCounted PROVE CInv
  <2>1. spoiled \in 0 .. MaxRequests
    <3>1. /\ spoiled \in Nat /\ cuts \in Nat /\ sent \in Nat /\ sent <= MaxRequests
          /\ MaxRequests \in Nat /\ begun \in BOOLEAN
      BY <1>2, GuestAgentAssumption DEF WireOK
    <3>2. Cardinality(CutOnTheirWay) \in Nat
      BY <1>2, CutFacts
    <3> QED BY <1>2, <3>1, <3>2 DEF CutsCounted
  <2> QED BY <1>2, <2>1 DEF CInv, TypeOK, ClientsOK, WireOK
<1> QED BY <1>1, <1>2

(* A call of client c has ended and its connection, if any, is closed. *)
LEMMA ClosedKeepsClients ==
    ASSUME TypeOK, ClientsOK, NEW c \in Clients, NEW own \in BOOLEAN, NEW p \in Phases,
           NEW res \in Results, Closed(c, own, p, res), sent' = sent,
           Hangup(c) \/ (conn' = conn /\ ~clients[c].waiting) \/ conn' = NoClient
    PROVE  ClientsOK'
<1>1. /\ clients' \in [Clients -> Client] /\ Others(c)
      /\ ~clients'[c].waiting /\ clients'[c].inbox = <<>>
      /\ clients'[c].id = clients[c].id /\ clients'[c].serial = clients[c].serial
  BY ClosedFacts
<1>2. /\ \A d \in Clients : clients'[d].phase \in {"off", "stop"} => ~clients'[d].waiting
      /\ \A d \in Clients : clients'[d].inbox # <<>> => clients'[d].waiting
  BY <1>1 DEF ClientsOK, Others
<1>3. conn' \in Clients \cup {NoClient}
  BY DEF ClientsOK, Hangup
<1>4. conn' # NoClient => clients'[conn'].waiting
  <2>1. conn' # NoClient => conn' = conn /\ conn # c
    BY DEF ClientsOK, Hangup
  <2> QED BY <1>1, <2>1 DEF ClientsOK, Others
<1>5. \A d \in Clients : clients'[d].id <= sent' /\ clients'[d].serial <= sent'
  BY <1>1 DEF ClientsOK, Others
<1> QED BY <1>1, <1>2, <1>3, <1>4, <1>5 DEF ClientsOK

-----------------------------------------------------------------------------
(***************************************************************************)
(* The wire: what InOrder and CutsCounted say through each way of moving a *)
(* request.                                                                *)
(***************************************************************************)
LEMMA WireFacts ==
    ASSUME WireOK
    PROVE  /\ sent \in Nat /\ cuts \in Nat /\ spoiled \in Nat
           /\ Len(port) \in Nat /\ DOMAIN port = 1 .. Len(port)
           /\ Len(backlog) \in Nat /\ DOMAIN backlog = 1 .. Len(backlog)
           /\ \A i \in DOMAIN port : port[i] \in Request /\ port[i].serial \in Nat
           /\ \A i \in DOMAIN backlog :
                /\ backlog[i] \in Request
                /\ backlog[i].serial \in Nat
<1>1. /\ Len(port) \in Nat /\ DOMAIN port = 1 .. Len(port)
      /\ Len(backlog) \in Nat /\ DOMAIN backlog = 1 .. Len(backlog)
  BY LenProperties DEF WireOK
<1>2. \A i \in DOMAIN port : port[i] \in Request
  BY ElementOfSeq, LenProperties DEF WireOK
<1>3. \A i \in DOMAIN backlog : backlog[i] \in Request
  BY ElementOfSeq, LenProperties DEF WireOK
<1>4. sent \in Nat /\ cuts \in Nat /\ spoiled \in Nat
  BY DEF WireOK
<1> QED BY <1>1, <1>2, <1>3, <1>4 DEF Request, Serials

LEMMA LessCounted ==
    ASSUME NEW n \in Nat, NEW n2 \in Nat, NEW s \in Nat, NEW s2 \in Nat, NEW o \in Nat,
           NEW o2 \in Nat, NEW k \in Nat, n2 <= n, n + s + o <= k, s2 + o2 <= s + o
    PROVE  n2 + s2 + o2 <= k
OBVIOUS

LEMMA OneMore ==
    ASSUME NEW S, IsFiniteSet(S), NEW x
    PROVE  /\ Cardinality(S \cup {x}) \in Nat
           /\ Cardinality(S \cup {x}) <= Cardinality(S) + 1
<1>1. Cardinality(S) \in Nat
  BY FS_CardinalityType
<1> QED BY <1>1, FS_AddElement

(* No cut request is new and no more lines are spoiled: the count stands. *)
LEMMA FewerCuts ==
    ASSUME WireOK, WireOK', CutsCounted, sent' = sent, cuts' = cuts,
           CutOnTheirWay' \subseteq CutOnTheirWay,
           spoiled' + (IF begun' THEN 1 ELSE 0) <= spoiled + (IF begun THEN 1 ELSE 0)
    PROVE  CutsCounted'
<1>1. /\ IsFiniteSet(CutOnTheirWay) /\ Cardinality(CutOnTheirWay) \in Nat
  BY CutFacts
<1>2. /\ IsFiniteSet(CutOnTheirWay') /\ Cardinality(CutOnTheirWay') <= Cardinality(CutOnTheirWay)
  BY <1>1, FS_Subset
<1>3. Cardinality(CutOnTheirWay') \in Nat
  BY <1>2, FS_CardinalityType
<1>4. /\ spoiled \in Nat /\ cuts \in Nat /\ sent \in Nat /\ spoiled' \in Nat
      /\ begun \in BOOLEAN /\ begun' \in BOOLEAN
  BY DEF WireOK
<1> DEFINE on == IF begun THEN 1 ELSE 0
           on2 == IF begun' THEN 1 ELSE 0
           n == Cardinality(CutOnTheirWay)
           n2 == Cardinality(CutOnTheirWay')
<1>5. on \in Nat /\ on2 \in Nat /\ spoiled' + on2 <= spoiled + on
  BY <1>4
<1>6. n + spoiled + on <= cuts /\ cuts <= sent
  BY DEF CutsCounted
<1>7. n \in Nat /\ n2 \in Nat /\ n2 <= n
  BY <1>1, <1>2, <1>3
<1>8. n2 + spoiled' + on2 <= cuts' /\ cuts' <= sent'
  <2> HIDE DEF on, on2, n, n2
  <2> QED BY <1>4, <1>5, <1>6, <1>7, LessCounted
<1> QED BY <1>8 DEF CutsCounted

LEMMA StillWire ==
    ASSUME WireOK, InOrder, CutsCounted,
           sent' = sent, cuts' = cuts, backlog' = backlog, port' = port,
           begun' = begun, spoiled' = spoiled
    PROVE  InOrder' /\ CutsCounted'
BY DEF InOrder, CutsCounted, CutOnTheirWay

(* A request sent goes to the end of the queue. *)
LEMMA Enqueued ==
    ASSUME WireOK, WireOK', InOrder, CutsCounted,
           NEW e \in Request, e.serial = sent + 1,
           sent' = sent + 1, cuts' = cuts + (IF e.cut THEN 1 ELSE 0),
           backlog' = Append(backlog, e), port' = port, begun' = begun, spoiled' = spoiled
    PROVE  InOrder' /\ CutsCounted'
<1>1. /\ sent \in Nat /\ cuts \in Nat /\ spoiled \in Nat
      /\ Len(port) \in Nat /\ DOMAIN port = 1 .. Len(port)
      /\ \A i \in DOMAIN port : port[i].serial \in Nat
      /\ \A i \in DOMAIN backlog : backlog[i].serial \in Nat
  BY WireFacts
<1>2. /\ Len(backlog) \in Nat
      /\ DOMAIN backlog = 1 .. Len(backlog) /\ DOMAIN backlog' = 1 .. Len(backlog) + 1
      /\ \A i \in 1 .. Len(backlog) : backlog'[i] = backlog[i]
      /\ backlog'[Len(backlog) + 1] = e
  BY AppendFacts DEF WireOK
<1>3. \A i \in DOMAIN backlog' : i \in DOMAIN backlog \/ i = Len(backlog) + 1
  BY <1>2
<1>4. \A i, j \in DOMAIN backlog' :
         i < j => backlog'[i].serial < backlog'[j].serial
  <2> SUFFICES ASSUME NEW i \in DOMAIN backlog', NEW j \in DOMAIN backlog', i < j
               PROVE  backlog'[i].serial < backlog'[j].serial
    OBVIOUS
  <2>1. i \in DOMAIN backlog
    BY <1>2
  <2>2. backlog[i].serial <= sent /\ backlog'[i] = backlog[i]
    BY <1>2, <2>1 DEF InOrder
  <2>3. CASE j \in DOMAIN backlog
    BY <1>2, <2>1, <2>3 DEF InOrder
  <2>4. CASE j = Len(backlog) + 1
    BY <1>1, <1>2, <2>1, <2>2, <2>4
  <2> QED BY <1>3, <2>3, <2>4
<1>5. \A i \in DOMAIN port', j \in DOMAIN backlog' :
         port'[i].serial < backlog'[j].serial
  <2> SUFFICES ASSUME NEW i \in DOMAIN port, NEW j \in DOMAIN backlog'
               PROVE  port[i].serial < backlog'[j].serial
    OBVIOUS
  <2>1. port[i].serial <= sent
    BY DEF InOrder
  <2>2. CASE j \in DOMAIN backlog
    BY <1>2, <2>2 DEF InOrder
  <2>3. CASE j = Len(backlog) + 1
    BY <1>1, <1>2, <2>1, <2>3
  <2> QED BY <1>3, <2>2, <2>3
<1>6. \A j \in DOMAIN backlog' : backlog'[j].serial <= sent'
  BY <1>1, <1>2, <1>3 DEF InOrder
<1>7. \A i \in DOMAIN port' : port'[i].serial <= sent'
  BY <1>1 DEF InOrder
<1>8. InOrder'
  BY <1>4, <1>5, <1>6, <1>7 DEF InOrder
<1>9. CutsCounted'
  <2>1. /\ IsFiniteSet(CutOnTheirWay) /\ Cardinality(CutOnTheirWay) \in Nat
    BY CutFacts
  <2>2. CutOnTheirWay' = IF e.cut THEN CutOnTheirWay \cup {sent + 1} ELSE CutOnTheirWay
    BY <1>2, <1>3 DEF CutOnTheirWay
  <2> DEFINE on == IF begun THEN 1 ELSE 0
             new == IF e.cut THEN 1 ELSE 0
             n == Cardinality(CutOnTheirWay)
             n2 == Cardinality(CutOnTheirWay')
  <2>3. n2 \in Nat /\ n2 <= n + new
    <3>1. CASE e.cut
      <4>1. CutOnTheirWay' = CutOnTheirWay \cup {sent + 1}
        BY <2>2, <3>1
      <4>3. /\ Cardinality(CutOnTheirWay \cup {sent + 1}) \in Nat
            /\ Cardinality(CutOnTheirWay \cup {sent + 1}) <= Cardinality(CutOnTheirWay) + 1
        BY <2>1, OneMore
      <4> QED BY <3>1, <4>1, <4>3
    <3>2. CASE ~e.cut
      BY <2>1, <2>2, <3>2
    <3> QED BY <3>1, <3>2
  <2>4. n \in Nat /\ on \in Nat /\ new \in Nat /\ cuts' = cuts + new
    BY <2>1
  <2>5. n + spoiled + on <= cuts /\ cuts <= sent
    BY DEF CutsCounted
  <2>6. n2 + spoiled' + on <= cuts' /\ cuts' <= sent'
    <3>1. new <= 1
      OBVIOUS
    <3> HIDE DEF on, new, n, n2
    <3> QED BY <1>1, <2>3, <2>4, <2>5, <3>1
  <2> QED BY <2>6 DEF CutsCounted
<1> QED BY <1>8, <1>9

(* QEMU hands the first request of the queue on, or loses it. *)
LEMMA HandedOn ==
    ASSUME WireOK, WireOK', InOrder, CutsCounted, backlog # <<>>,
           sent' = sent, cuts' = cuts, begun' = begun, spoiled' = spoiled,
           backlog' = Tail(backlog),
           port' = Append(port, Head(backlog)) \/ port' = port
    PROVE  InOrder' /\ CutsCounted'
<1>1. /\ sent \in Nat /\ spoiled \in Nat
      /\ Len(port) \in Nat /\ DOMAIN port = 1 .. Len(port)
      /\ \A i \in DOMAIN port : port[i].serial \in Nat
      /\ \A i \in DOMAIN backlog : backlog[i].serial \in Nat
  BY WireFacts
<1>2. /\ Head(backlog) \in Request /\ Head(backlog) = backlog[1]
      /\ Len(backlog) \in Nat /\ Len(backlog) > 0 /\ 1 \in DOMAIN backlog
      /\ DOMAIN backlog = 1 .. Len(backlog) /\ DOMAIN backlog' = 1 .. Len(backlog) - 1
      /\ \A i \in 1 .. Len(backlog) - 1 : backlog'[i] = backlog[i + 1]
  BY HeadAndTail DEF WireOK
<1>3. \A i \in DOMAIN backlog' : i + 1 \in DOMAIN backlog /\ backlog'[i] = backlog[i + 1] /\ 1 < i + 1
  BY <1>2
<1>4. \A i \in DOMAIN port' : \/ i \in DOMAIN port /\ port'[i] = port[i]
                              \/ i = Len(port) + 1 /\ port'[i] = backlog[1]
  <2>1. CASE port' = port
    BY <2>1
  <2>2. CASE port' = Append(port, Head(backlog))
    <3>1. Head(backlog) \in Request
      BY <1>2
    <3>2. /\ DOMAIN port' = 1 .. Len(port) + 1
          /\ \A i \in 1 .. Len(port) : port'[i] = port[i]
          /\ port'[Len(port) + 1] = Head(backlog)
      BY <2>2, <3>1, AppendFacts DEF WireOK
    <3> QED BY <1>1, <1>2, <3>2
  <2> QED BY <2>1, <2>2
<1>5. \A i, j \in DOMAIN port' : i < j => port'[i].serial < port'[j].serial
  <2> SUFFICES ASSUME NEW i \in DOMAIN port', NEW j \in DOMAIN port', i < j
               PROVE  port'[i].serial < port'[j].serial
    OBVIOUS
  <2>1. CASE i \in DOMAIN port /\ port'[i] = port[i] /\ j \in DOMAIN port /\ port'[j] = port[j]
    BY <2>1 DEF InOrder
  <2>2. CASE i \in DOMAIN port /\ port'[i] = port[i] /\ port'[j] = backlog[1]
    BY <1>2, <2>2 DEF InOrder
  <2>3. CASE i = Len(port) + 1
    BY <1>1, <1>4, <2>3
  <2> QED BY <1>4, <2>1, <2>2, <2>3
<1>6. \A i, j \in DOMAIN backlog' :
         i < j => backlog'[i].serial < backlog'[j].serial
  <2> SUFFICES ASSUME NEW i \in DOMAIN backlog', NEW j \in DOMAIN backlog', i < j
               PROVE  backlog'[i].serial < backlog'[j].serial
    OBVIOUS
  <2>1. i + 1 \in DOMAIN backlog /\ j + 1 \in DOMAIN backlog /\ i + 1 < j + 1
    BY <1>2
  <2>2. backlog[i + 1].serial < backlog[j + 1].serial
    BY <2>1 DEF InOrder
  <2> QED BY <1>3, <2>2
<1>7. \A i \in DOMAIN port', j \in DOMAIN backlog' :
         port'[i].serial < backlog'[j].serial
  <2> SUFFICES ASSUME NEW i \in DOMAIN port', NEW j \in DOMAIN backlog'
               PROVE  port'[i].serial < backlog'[j].serial
    OBVIOUS
  <2>1. j + 1 \in DOMAIN backlog /\ 1 \in DOMAIN backlog /\ 1 < j + 1
    BY <1>2, <1>3
  <2>2. CASE i \in DOMAIN port /\ port'[i] = port[i]
    <3>1. port[i].serial < backlog[j + 1].serial
      BY <2>1, <2>2 DEF InOrder
    <3> QED BY <1>3, <2>2, <3>1
  <2>3. CASE port'[i] = backlog[1]
    <3>1. backlog[1].serial < backlog[j + 1].serial
      BY <2>1 DEF InOrder
    <3> QED BY <1>3, <2>3, <3>1
  <2> QED BY <1>4, <2>2, <2>3
<1>8. /\ \A i \in DOMAIN port' : port'[i].serial <= sent
      /\ \A j \in DOMAIN backlog' : backlog'[j].serial <= sent
  BY <1>2, <1>3, <1>4 DEF InOrder
<1>9. InOrder'
  BY <1>5, <1>6, <1>7, <1>8 DEF InOrder
<1>10. CutOnTheirWay' \subseteq CutOnTheirWay
  <2>1. ASSUME NEW i \in DOMAIN port', port'[i].cut
        PROVE  port'[i].serial \in CutOnTheirWay
    BY <1>2, <1>4, <2>1 DEF CutOnTheirWay
  <2>2. ASSUME NEW i \in DOMAIN backlog', backlog'[i].cut
        PROVE  backlog'[i].serial \in CutOnTheirWay
    BY <1>3, <2>2 DEF CutOnTheirWay
  <2> QED BY <2>1, <2>2 DEF CutOnTheirWay
<1>11. CutsCounted'
  BY <1>1, <1>10, FewerCuts
<1> QED BY <1>9, <1>11

(* The agent has taken a request from the port. *)
LEMMA TakenFromPort ==
    ASSUME WireOK, InOrder, port # <<>>,
           sent' = sent, backlog' = backlog, port' = Tail(port)
    PROVE  /\ InOrder' /\ Head(port) \in Request /\ Head(port) = port[1] /\ 1 \in DOMAIN port
           /\ CutOnTheirWay' \subseteq CutOnTheirWay \ {Head(port).serial}
           /\ Head(port).cut => Head(port).serial \in CutOnTheirWay
<1>1. /\ sent \in Nat
      /\ \A i \in DOMAIN port : port[i].serial \in Nat
      /\ \A i \in DOMAIN backlog : backlog[i].serial \in Nat
  BY WireFacts
<1>2. /\ Head(port) \in Request /\ Head(port) = port[1]
      /\ Len(port) \in Nat /\ Len(port) > 0 /\ 1 \in DOMAIN port
      /\ DOMAIN port = 1 .. Len(port) /\ DOMAIN port' = 1 .. Len(port) - 1
      /\ \A i \in 1 .. Len(port) - 1 : port'[i] = port[i + 1]
  BY HeadAndTail DEF WireOK
<1>3. \A i \in DOMAIN port' : /\ i + 1 \in DOMAIN port /\ port'[i] = port[i + 1]
                              /\ 1 < i + 1 /\ i \in Nat
  BY <1>2
<1>4. \A i, j \in DOMAIN port' : i < j => port'[i].serial < port'[j].serial
  <2> SUFFICES ASSUME NEW i \in DOMAIN port', NEW j \in DOMAIN port', i < j
               PROVE  port'[i].serial < port'[j].serial
    OBVIOUS
  <2>1. i + 1 \in DOMAIN port /\ j + 1 \in DOMAIN port /\ i + 1 < j + 1
    BY <1>2
  <2>2. port[i + 1].serial < port[j + 1].serial
    BY <2>1 DEF InOrder
  <2> QED BY <1>3, <2>2
<1>5. \A i \in DOMAIN port', j \in DOMAIN backlog' : port'[i].serial < backlog'[j].serial
  BY <1>3 DEF InOrder
<1>6. InOrder'
  BY <1>3, <1>4, <1>5 DEF InOrder
<1>7. CutOnTheirWay' \subseteq CutOnTheirWay \ {Head(port).serial}
  <2>1. ASSUME NEW i \in DOMAIN port', port'[i].cut
        PROVE  /\ port'[i].serial \in CutOnTheirWay
               /\ port'[i].serial # Head(port).serial
    <3>1. port[1].serial < port[i + 1].serial
      BY <1>2, <1>3 DEF InOrder
    <3>2. port[1].serial \in Nat /\ port[i + 1].serial \in Nat
      BY <1>1, <1>2, <1>3
    <3>3. port'[i].serial # Head(port).serial
      BY <1>2, <1>3, <3>1, <3>2
    <3> QED BY <1>3, <2>1, <3>3 DEF CutOnTheirWay
  <2>2. ASSUME NEW i \in DOMAIN backlog, backlog[i].cut
        PROVE  /\ backlog[i].serial \in CutOnTheirWay
               /\ backlog[i].serial # Head(port).serial
    <3>1. port[1].serial < backlog[i].serial
      BY <1>2 DEF InOrder
    <3>2. port[1].serial \in Nat /\ backlog[i].serial \in Nat
      BY <1>1, <1>2
    <3>3. backlog[i].serial # Head(port).serial
      BY <1>2, <3>1, <3>2
    <3> QED BY <2>2, <3>3 DEF CutOnTheirWay
  <2> QED BY <2>1, <2>2 DEF CutOnTheirWay
<1>8. Head(port).cut => Head(port).serial \in CutOnTheirWay
  BY <1>2 DEF CutOnTheirWay
<1> QED BY <1>2, <1>6, <1>7, <1>8

(* QEMU has exited. *)
LEMMA WireEmptied ==
    ASSUME WireOK, WireOK', CutsCounted, sent' = sent, cuts' = cuts,
           backlog' = <<>>, port' = <<>>, begun' = FALSE, spoiled' = spoiled
    PROVE  InOrder' /\ CutsCounted'
<1>1. InOrder'
  BY DEF InOrder
<1>2. CutOnTheirWay' \subseteq CutOnTheirWay
  BY DEF CutOnTheirWay
<1>3. spoiled \in Nat
  BY DEF WireOK
<1> QED BY <1>1, <1>2, <1>3, FewerCuts

-----------------------------------------------------------------------------
(***************************************************************************)
(* The inductive invariant, in the parts that are proved apart, through    *)
(* every action.                                                           *)
(***************************************************************************)
Parts == ClientsOK /\ WireOK /\ InOrder /\ CutsCounted

LEMMA StartKeepsParts == ASSUME Parts, NEW c \in Clients, Start(c) PROVE Parts'
<1>1. ClientsOK /\ WireOK /\ InOrder /\ CutsCounted
  BY DEF Parts
<1>2. PICK p \in {"info", "command", "ready", "shutdown"} :
        clients' = [clients EXCEPT ![c] =
          [NewClient EXCEPT !.phase = p, !.serial = clients[c].serial, !.since = sent]]
  BY DEF Start
<1>3. UNCHANGED <<sent, cuts, backlog, conn, port, agent, begun, guest, poweroff, spoiled>>
  BY DEF Start, channel
<1>4. p \in Phases /\ "none" \in Results
  BY DEF Phases, Results
<1>5. /\ clients' \in [Clients -> Client] /\ Others(c)
      /\ clients'[c].phase = p /\ ~clients'[c].waiting /\ clients'[c].inbox = <<>>
      /\ clients'[c].id = 0 /\ clients'[c].serial = clients[c].serial
  <2>1. clients \in [Clients -> Client] /\ sent \in 0 .. MaxRequests
    BY <1>1 DEF ClientsOK, WireOK
  <2> QED BY <1>2, <1>4, <2>1, StartFacts
<1>6. ClientsOK'
  <2>1. ~clients[c].waiting
    BY <1>1 DEF ClientsOK, Start, In
  <2>2. 0 <= sent
    BY <1>1 DEF WireOK
  <2> QED BY <1>1, <1>3, <1>5, <2>1, <2>2 DEF ClientsOK, Others
<1>7. WireOK'
  BY <1>1, <1>3 DEF WireOK
<1>8. InOrder' /\ CutsCounted'
  BY <1>1, <1>3, StillWire
<1> QED BY <1>6, <1>7, <1>8 DEF Parts

(* What a request sent does to its client and to the queue. *)
NewRequest(c, shutdown, cut) ==
    [id |-> clients[c].id + 1, from |-> c, serial |-> sent + 1,
     shutdown |-> shutdown, cut |-> cut]

LEMMA SentFacts ==
    ASSUME Parts, NEW c \in Clients, NEW s \in BOOLEAN, NEW cut \in BOOLEAN, sent < MaxRequests
    PROVE  /\ NewRequest(c, s, cut)
                 \in Request
           /\ sent + 1 \in 0 .. MaxRequests /\ sent + 1 # 0 /\ clients[c].id + 1 \in 0 .. MaxRequests
           /\ clients[c].id + 1 <= sent + 1
           /\ \A d \in Clients : clients[d].id <= sent + 1 /\ clients[d].serial <= sent + 1
<1>1. /\ sent \in Nat /\ MaxRequests \in Nat
      /\ \A d \in Clients : clients[d].id \in Nat /\ clients[d].serial \in Nat
      /\ \A d \in Clients : clients[d].id <= sent /\ clients[d].serial <= sent
  BY GuestAgentAssumption DEF Parts, ClientsOK, WireOK, Client
<1>2. clients[c].id + 1 \in Serials /\ sent + 1 \in Serials
  BY <1>1 DEF Serials
<1> QED BY <1>1, <1>2 DEF Request, NewRequest

LEMMA SendKeepsParts == ASSUME Parts, NEW c \in Clients, Send(c) PROVE Parts'
<1>1. ClientsOK /\ WireOK /\ InOrder /\ CutsCounted
  BY DEF Parts
<1>2. PICK s \in BOOLEAN :
        backlog' = Append(backlog,
              NewRequest(c, s, FALSE))
  BY DEF Send, NewRequest
<1>3. /\ UNCHANGED <<conn, port, agent, begun, guest, poweroff, cuts, spoiled>>
      /\ sent' = sent + 1 /\ sent < MaxRequests /\ ~In(c, {"off", "stop"})
      /\ clients' = [clients EXCEPT ![c] =
                      [@ EXCEPT !.waiting = TRUE,
                                !.id = clients[c].id + 1, !.serial = sent + 1]]
  BY DEF Send
<1> DEFINE e == NewRequest(c, s, FALSE)
<1>4. /\ e \in Request
      /\ sent + 1 \in 0 .. MaxRequests /\ sent + 1 # 0 /\ clients[c].id + 1 \in 0 .. MaxRequests
      /\ clients[c].id + 1 <= sent + 1
      /\ \A d \in Clients : clients[d].id <= sent + 1 /\ clients[d].serial <= sent + 1
  BY <1>3, SentFacts
<1>5. /\ clients' \in [Clients -> Client] /\ Others(c)
      /\ clients'[c].phase = clients[c].phase /\ clients'[c].waiting
      /\ clients'[c].id = clients[c].id + 1 /\ clients'[c].serial = sent + 1
      /\ clients'[c].inbox = clients[c].inbox
  BY <1>1, <1>3, <1>4, ZenonT(60) DEF ClientsOK, Client, Others
<1>6. ClientsOK'
  <2>1. \A d \in Clients : clients'[d].id <= sent' /\ clients'[d].serial <= sent'
    BY <1>3, <1>4, <1>5 DEF Others
  <2>2. conn' # NoClient => clients'[conn'].waiting
    BY <1>1, <1>3, <1>5 DEF ClientsOK, Others
  <2> QED BY <1>1, <1>3, <1>5, <2>1, <2>2 DEF ClientsOK, Others, In
<1>7. WireOK'
  <2>1. backlog' \in Seq(Request)
    BY <1>1, <1>2, <1>4, AppendFacts DEF WireOK
  <2> QED BY <1>1, <1>3, <1>4, <2>1 DEF WireOK
<1>8. InOrder' /\ CutsCounted'
  <2>1. e.serial = sent + 1 /\ ~e.cut /\ backlog' = Append(backlog, e)
    BY <1>2 DEF NewRequest
  <2> HIDE DEF e
  <2>2. cuts' = cuts + (IF e.cut THEN 1 ELSE 0)
    <3>1. cuts \in Nat /\ cuts' = cuts
      BY <1>1, <1>3 DEF WireOK
    <3> QED BY <2>1, <3>1
  <2> QED BY <1>1, <1>3, <1>4, <1>7, <2>1, <2>2, Enqueued
<1> QED BY <1>6, <1>7, <1>8 DEF Parts

LEMMA SendCutKeepsParts == ASSUME Parts, NEW c \in Clients, SendCut(c) PROVE Parts'
<1>1. ClientsOK /\ WireOK /\ InOrder /\ CutsCounted
  BY DEF Parts
<1> DEFINE e == NewRequest(c, FALSE, TRUE)
<1>2. /\ UNCHANGED <<conn, port, agent, begun, guest, poweroff, spoiled>>
      /\ sent' = sent + 1 /\ sent < MaxRequests /\ ~clients[c].waiting
      /\ cuts' = cuts + 1 /\ cuts < MaxCuts /\ backlog' = Append(backlog, e)
      /\ clients' = [clients EXCEPT ![c] =
                      [@ EXCEPT !.phase = "off", !.id = clients[c].id + 1,
                                !.serial = sent + 1, !.result = "failed"]]
  BY DEF SendCut, NewRequest
<1>3. /\ e \in Request
      /\ sent + 1 \in 0 .. MaxRequests /\ sent + 1 # 0 /\ clients[c].id + 1 \in 0 .. MaxRequests
      /\ clients[c].id + 1 <= sent + 1
      /\ \A d \in Clients : clients[d].id <= sent + 1 /\ clients[d].serial <= sent + 1
  BY <1>2, SentFacts
<1>4. "off" \in Phases /\ "failed" \in Results
  BY DEF Phases, Results
<1>5. /\ clients' \in [Clients -> Client] /\ Others(c)
      /\ clients'[c].phase = "off" /\ clients'[c].waiting = clients[c].waiting
      /\ clients'[c].id = clients[c].id + 1 /\ clients'[c].serial = sent + 1
      /\ clients'[c].inbox = clients[c].inbox
  <2> DEFINE r == [clients[c] EXCEPT !.phase = "off", !.id = clients[c].id + 1,
                          !.serial = sent + 1, !.result = "failed"]
  <2>1. clients[c] \in Client /\ clients \in [Clients -> Client]
    BY <1>1 DEF ClientsOK
  <2>2. /\ r \in Client /\ r.phase = "off" /\ r.waiting = clients[c].waiting
        /\ r.id = clients[c].id + 1 /\ r.serial = sent + 1 /\ r.inbox = clients[c].inbox
    BY <1>3, <1>4, <2>1 DEF Client
  <2>3. clients' = [clients EXCEPT ![c] = r]
    BY <1>2
  <2> HIDE DEF r
  <2> QED BY <2>1, <2>2, <2>3 DEF Others
<1>6. ClientsOK'
  <2>1. \A d \in Clients : clients'[d].id <= sent' /\ clients'[d].serial <= sent'
    BY <1>2, <1>3, <1>5 DEF Others
  <2>2. conn' # NoClient => clients'[conn'].waiting
    BY <1>1, <1>2, <1>5 DEF ClientsOK, Others
  <2> QED BY <1>1, <1>2, <1>5, <2>1, <2>2 DEF ClientsOK, Others
<1>7. WireOK'
  <2>1. backlog' \in Seq(Request)
    BY <1>1, <1>2, <1>3, AppendFacts DEF WireOK
  <2>2. cuts' \in 0 .. MaxCuts
    BY <1>1, <1>2, GuestAgentAssumption DEF WireOK
  <2> QED BY <1>1, <1>2, <1>3, <2>1, <2>2 DEF WireOK
<1>8. InOrder' /\ CutsCounted'
  <2>1. e.serial = sent + 1 /\ e.cut = TRUE
    BY DEF NewRequest
  <2>2. cuts' = cuts + (IF e.cut THEN 1 ELSE 0)
    BY <1>1, <1>2, <2>1 DEF WireOK
  <2> HIDE DEF e
  <2> QED BY <1>1, <1>2, <1>3, <1>7, <2>1, <2>2, Enqueued
<1> QED BY <1>6, <1>7, <1>8 DEF Parts

(* A step of the clients leaves the wire alone. *)
LEMMA OffTheWire ==
    ASSUME WireOK, InOrder, CutsCounted,
           UNCHANGED <<sent, cuts, backlog, port, agent, begun, guest, poweroff, spoiled>>
    PROVE  WireOK' /\ InOrder' /\ CutsCounted'
<1>1. WireOK'
  BY DEF WireOK
<1>2. InOrder' /\ CutsCounted'
  BY StillWire
<1> QED BY <1>1, <1>2

LEMMA ConnectFailsKeepsParts == ASSUME Parts, NEW c \in Clients, ConnectFails(c) PROVE Parts'
<1>1. TypeOK /\ ClientsOK /\ WireOK /\ InOrder /\ CutsCounted
  BY CInvParts DEF Parts, CInv
<1>2. /\ UNCHANGED <<sent, cuts, backlog, port, agent, begun, guest, poweroff, spoiled>>
      /\ conn' = conn /\ ~clients[c].waiting /\ Raised(c, clients[c].own)
  BY DEF ConnectFails, channel
<1>5. clients[c].own \in BOOLEAN
  BY <1>1 DEF ClientsOK, Client
<1>3. PICK p \in Phases, res \in Results : Closed(c, clients[c].own, p, res)
  BY <1>1, <1>2, <1>5, RaisedFacts
<1>4. ClientsOK'
  BY <1>1, <1>2, <1>3, <1>5, ClosedKeepsClients
<1> QED BY <1>1, <1>2, <1>4, OffTheWire DEF Parts

LEMMA TakeKeepsParts == ASSUME Parts, NEW c \in Clients, Take(c) PROVE Parts'
<1>1. TypeOK /\ ClientsOK /\ WireOK /\ InOrder /\ CutsCounted
  BY CInvParts DEF Parts, CInv
<1>2. /\ UNCHANGED <<sent, cuts, backlog, port, agent, begun, guest, poweroff, spoiled>>
      /\ Hangup(c)
  BY DEF Take
<1>3. PICK own \in BOOLEAN : Returned(c, own) \/ Raised(c, own)
  BY DEF Take
<1>4. PICK p \in Phases, res \in Results : Closed(c, own, p, res)
  BY <1>1, <1>3, RaisedFacts, ReturnedFacts
<1>5. ClientsOK'
  BY <1>1, <1>2, <1>4, ClosedKeepsClients
<1> QED BY <1>1, <1>2, <1>5, OffTheWire DEF Parts

LEMMA RecvFailsKeepsParts == ASSUME Parts, NEW c \in Clients, RecvFails(c) PROVE Parts'
<1>1. TypeOK /\ ClientsOK /\ WireOK /\ InOrder /\ CutsCounted
  BY CInvParts DEF Parts, CInv
<1>2. /\ UNCHANGED <<sent, cuts, backlog, port, agent, begun, guest, poweroff, spoiled>>
      /\ Hangup(c) /\ Raised(c, clients[c].own)
  BY DEF RecvFails
<1>5. clients[c].own \in BOOLEAN
  BY <1>1 DEF ClientsOK, Client
<1>3. PICK p \in Phases, res \in Results : Closed(c, clients[c].own, p, res)
  BY <1>1, <1>2, <1>5, RaisedFacts
<1>4. ClientsOK'
  BY <1>1, <1>2, <1>3, <1>5, ClosedKeepsClients
<1> QED BY <1>1, <1>2, <1>4, OffTheWire DEF Parts

LEMMA SkipKeepsParts == ASSUME Parts, NEW c \in Clients, Skip(c) PROVE Parts'
<1>1. ClientsOK /\ WireOK /\ InOrder /\ CutsCounted
  BY DEF Parts
<1>2. UNCHANGED <<sent, cuts, backlog, conn, port, agent, begun, guest, poweroff, spoiled>>
  BY DEF Skip, channel
<1>3. /\ clients[c] \in Client /\ clients[c].inbox \in Seq(Reply) /\ clients[c].inbox # <<>>
      /\ clients' = [clients EXCEPT ![c].inbox = Tail(clients[c].inbox)]
  BY <1>1 DEF ClientsOK, Client, Skip
<1>4. Tail(clients[c].inbox) \in Seq(Reply) /\ clients[c].waiting
  BY <1>1, <1>3, HeadAndTail DEF ClientsOK
<1>5. /\ clients' \in [Clients -> Client] /\ Others(c)
      /\ clients'[c].phase = clients[c].phase /\ clients'[c].waiting = clients[c].waiting
      /\ clients'[c].id = clients[c].id /\ clients'[c].serial = clients[c].serial
  BY <1>1, <1>3, <1>4 DEF ClientsOK, Client, Others
<1>6. ClientsOK'
  BY <1>1, <1>2, <1>4, <1>5 DEF ClientsOK, Others
<1> QED BY <1>1, <1>2, <1>6, OffTheWire DEF Parts

LEMMA DeadlineKeepsParts == ASSUME Parts, NEW c \in Clients, Deadline(c) PROVE Parts'
<1>1. ClientsOK /\ WireOK /\ InOrder /\ CutsCounted
  BY DEF Parts
<1>2. /\ UNCHANGED <<sent, cuts, backlog, conn, port, agent, begun, guest, poweroff, spoiled>>
      /\ clients' = [clients EXCEPT ![c].late = TRUE]
  BY DEF Deadline, channel
<1>3. /\ clients' \in [Clients -> Client] /\ Others(c)
      /\ clients'[c].phase = clients[c].phase /\ clients'[c].waiting = clients[c].waiting
      /\ clients'[c].inbox = clients[c].inbox
      /\ clients'[c].id = clients[c].id /\ clients'[c].serial = clients[c].serial
  BY <1>1, <1>2 DEF ClientsOK, Client, Others
<1>4. ClientsOK'
  BY <1>1, <1>2, <1>3 DEF ClientsOK, Others
<1> QED BY <1>1, <1>2, <1>4, OffTheWire DEF Parts

LEMMA ExitKeepsWire ==
    ASSUME WireOK, CutsCounted, QemuExits, UNCHANGED <<sent, poweroff, cuts, spoiled>>
    PROVE  WireOK' /\ InOrder' /\ CutsCounted'
<1>1. /\ sent' = sent /\ cuts' = cuts /\ spoiled' = spoiled /\ poweroff' = poweroff
      /\ backlog' = <<>> /\ port' = <<>> /\ begun' = FALSE /\ guest' = "down" /\ agent' = NoRequest
  BY DEF QemuExits
<1>2. WireOK'
  <2>1. <<>> \in Seq(Request) /\ <<>> \in Seq(Request)
    BY EmptySeq
  <2> QED BY <1>1, <2>1 DEF WireOK
<1> QED BY <1>1, <1>2, WireEmptied

LEMMA HardStopKeepsParts == ASSUME Parts, NEW c \in Clients, HardStop(c) PROVE Parts'
<1>1. TypeOK /\ ClientsOK /\ WireOK /\ InOrder /\ CutsCounted
  BY CInvParts DEF Parts, CInv
<1>2. /\ ~clients[c].waiting /\ UNCHANGED <<sent, poweroff, cuts, spoiled>>
      /\ "off" \in Phases /\ "failed" \in Results /\ "hard_stopped" \in Results
      /\ clients[c].own \in BOOLEAN
  BY <1>1 DEF HardStop, In, ClientsOK, Client, Phases, Results
<1>3. CASE Closed(c, clients[c].own, "off", "hard_stopped") /\ QemuExits
  <2>1. conn' = NoClient
    BY <1>3 DEF QemuExits
  <2>2. ClientsOK'
    BY <1>1, <1>2, <1>3, <2>1, ClosedKeepsClients
  <2> QED BY <1>1, <1>2, <1>3, <2>2, ExitKeepsWire DEF Parts
<1>4. CASE /\ Closed(c, clients[c].own, "off", "failed")
           /\ UNCHANGED <<backlog, conn, port, agent, begun, guest>>
  <2>1. ClientsOK'
    BY <1>1, <1>2, <1>4, ClosedKeepsClients
  <2> QED BY <1>1, <1>2, <1>4, <2>1, OffTheWire DEF Parts
<1> QED BY <1>3, <1>4 DEF HardStop

LEMMA AcceptKeepsParts == ASSUME Parts, Accept PROVE Parts'
<1>1. ClientsOK /\ WireOK /\ InOrder /\ CutsCounted
  BY DEF Parts
<1>2. /\ UNCHANGED <<clients, sent, agent, begun, guest, poweroff, cuts, spoiled>>
      /\ backlog # <<>> /\ backlog' = Tail(backlog)
      /\ port' = Append(port, Head(backlog)) \/ port' = port
      /\ conn' = NoClient \/ (conn' = Head(backlog).from /\ clients[Head(backlog).from].waiting)
  BY Zenon DEF Accept
<1>3. Head(backlog) \in Request
  BY <1>1, <1>2, HeadAndTail DEF WireOK
<1>4. ClientsOK'
  <2>1. Head(backlog).from \in Clients
    BY <1>3 DEF Request
  <2>2. conn' \in Clients \cup {NoClient} /\ (conn' # NoClient => clients[conn'].waiting)
    BY <1>2, <2>1
  <2> QED BY <1>1, <1>2, <2>2 DEF ClientsOK
<1>5. WireOK'
  <2>1. backlog' \in Seq(Request)
    BY <1>1, <1>2, HeadAndTail DEF WireOK
  <2>2. Head(backlog) \in Request
    BY <1>3
  <2>3. port' \in Seq(Request)
    <3>1. port \in Seq(Request)
      BY <1>1 DEF WireOK
    <3>2. Append(port, Head(backlog)) \in Seq(Request)
      BY <2>2, <3>1, AppendFacts
    <3> QED BY <1>2, <3>1, <3>2
  <2> QED BY <1>1, <1>2, <2>1, <2>3 DEF WireOK
<1>6. InOrder' /\ CutsCounted'
  BY <1>1, <1>2, <1>5, HandedOn
<1> QED BY <1>4, <1>5, <1>6 DEF Parts

LEMMA AgentStartKeepsParts == ASSUME Parts, AgentStart PROVE Parts'
<1>1. ClientsOK' /\ WireOK'
  BY DEF Parts, AgentStart, ClientsOK, WireOK
<1>2. InOrder' /\ CutsCounted'
  BY StillWire DEF Parts, AgentStart
<1> QED BY <1>1, <1>2 DEF Parts

(* What the agent reads is typed, and leaves the port. *)
LEMMA ReadsFacts ==
    ASSUME Parts, NEW cut \in BOOLEAN, Reads(cut)
    PROVE  /\ ClientsOK' /\ InOrder' /\ port' \in Seq(Request)
           /\ Head(port) \in Request /\ Head(port).cut = cut
           /\ CutOnTheirWay' \subseteq CutOnTheirWay \ {Head(port).serial}
           /\ Head(port).cut => Head(port).serial \in CutOnTheirWay
           /\ UNCHANGED <<clients, sent, backlog, conn, guest, cuts>>
<1>1. ClientsOK /\ WireOK /\ InOrder /\ CutsCounted
  BY DEF Parts
<1>2. /\ UNCHANGED <<clients, sent, backlog, conn, guest, cuts>>
      /\ port # <<>> /\ Head(port).cut = cut /\ port' = Tail(port)
  BY DEF Reads
<1>3. port' \in Seq(Request)
  BY <1>1, <1>2, HeadAndTail DEF WireOK
<1>4. ClientsOK'
  BY <1>1, <1>2 DEF ClientsOK
<1> QED BY <1>1, <1>2, <1>3, <1>4, TakenFromPort

LEMMA OneLess ==
    ASSUME NEW S, NEW T, NEW x \in S, IsFiniteSet(S), T \subseteq S \ {x}
    PROVE  /\ Cardinality(S) \in Nat /\ Cardinality(T) \in Nat
           /\ Cardinality(T) + 1 <= Cardinality(S)
<1>1. Cardinality(S) \in Nat
  BY FS_CardinalityType
<1>2. IsFiniteSet(S \ {x}) /\ Cardinality(S \ {x}) = Cardinality(S) - 1
  BY FS_RemoveElement
<1>3. IsFiniteSet(T) /\ Cardinality(T) <= Cardinality(S \ {x})
  BY <1>2, FS_Subset
<1>4. Cardinality(T) \in Nat
  BY <1>3, FS_CardinalityType
<1> QED BY <1>1, <1>2, <1>3, <1>4

LEMMA BegunCounted ==
    ASSUME NEW n \in Nat, NEW n2 \in Nat, NEW s \in Nat, NEW o \in Nat,
           NEW k \in Nat, n2 + 1 <= n, n + s + o <= k
    PROVE  n2 + s + 1 <= k
OBVIOUS

LEMMA BeginLineKeepsParts == ASSUME Parts, BeginLine PROVE Parts'
<1>1. ClientsOK /\ WireOK /\ InOrder /\ CutsCounted
  BY DEF Parts
<1>2. Reads(TRUE) /\ begun' = TRUE /\ UNCHANGED <<agent, poweroff, spoiled>>
  BY DEF BeginLine
<1>3. /\ ClientsOK' /\ InOrder' /\ port' \in Seq(Request) /\ Head(port).cut = TRUE
      /\ CutOnTheirWay' \subseteq CutOnTheirWay \ {Head(port).serial}
      /\ Head(port).cut => Head(port).serial \in CutOnTheirWay
      /\ UNCHANGED <<clients, sent, backlog, conn, guest, cuts>>
  BY <1>2, ReadsFacts
<1>4. WireOK'
  BY <1>1, <1>2, <1>3 DEF WireOK
<1>5. CutsCounted'
  <2> DEFINE on == IF begun THEN 1 ELSE 0
             n == Cardinality(CutOnTheirWay)
             n2 == Cardinality(CutOnTheirWay')
  <2>1. IsFiniteSet(CutOnTheirWay)
    BY <1>1, CutFacts
  <2>2. n \in Nat /\ n2 \in Nat /\ n2 + 1 <= n
    BY <1>3, <2>1, OneLess
  <2>3. on \in Nat /\ spoiled \in Nat /\ cuts \in Nat
    BY <1>1 DEF WireOK
  <2>4. n + spoiled + on <= cuts /\ cuts <= sent
    BY <1>1 DEF CutsCounted
  <2>5. n2 + spoiled + 1 <= cuts
    <3> HIDE DEF n, n2, on
    <3> QED BY <2>2, <2>3, <2>4, BegunCounted
  <2> QED BY <1>2, <1>3, <2>4, <2>5 DEF CutsCounted
<1> QED BY <1>3, <1>4, <1>5 DEF Parts

LEMMA SpoiledLineKeepsParts == ASSUME Parts, SpoiledLine PROVE Parts'
<1>1. ClientsOK /\ WireOK /\ InOrder /\ CutsCounted
  BY DEF Parts
<1>2. /\ Reads(FALSE) /\ begun /\ begun' = FALSE /\ spoiled' = spoiled + 1 /\ poweroff' = poweroff
      /\ agent' = Answer(NoId, FALSE)
  BY DEF SpoiledLine
<1>3. /\ ClientsOK' /\ InOrder' /\ port' \in Seq(Request) /\ Head(port) \in Request
      /\ CutOnTheirWay' \subseteq CutOnTheirWay \ {Head(port).serial}
      /\ UNCHANGED <<clients, sent, backlog, conn, guest, cuts>>
  BY <1>2, ReadsFacts
<1>4. WireOK'
  <2>1. agent' \in Reply
    BY <1>2, <1>3 DEF Request, Reply, Answer
  <2>2. spoiled' \in Nat
    <3>1. spoiled \in Nat
      BY <1>1 DEF WireOK
    <3>2. spoiled' = spoiled + 1
      BY DEF SpoiledLine
    <3> QED BY <3>1, <3>2
  <2>3. agent' \in Reply \cup {NoRequest}
    BY <2>1
  <2> QED BY <1>1, <1>2, <1>3, <2>2, <2>3 DEF WireOK
<1>5. CutsCounted'
  <2>1. spoiled' + (IF begun' THEN 1 ELSE 0) <= spoiled + (IF begun THEN 1 ELSE 0)
    BY <1>1, <1>2 DEF WireOK
  <2> QED BY <1>1, <1>3, <1>4, <2>1, FewerCuts
<1> QED BY <1>3, <1>4, <1>5 DEF Parts

LEMMA ProcessLineKeepsParts == ASSUME Parts, ProcessLine PROVE Parts'
<1>1. ClientsOK /\ WireOK /\ InOrder /\ CutsCounted
  BY DEF Parts
<1>2. PICK ok \in BOOLEAN :
        /\ agent' = Answer(Head(port).id, ok)
        /\ poweroff' = (poweroff \/ (ok /\ Head(port).shutdown))
  BY DEF ProcessLine
<1>3. Reads(FALSE) /\ UNCHANGED <<begun, spoiled>>
  BY DEF ProcessLine
<1>4. /\ ClientsOK' /\ InOrder' /\ port' \in Seq(Request) /\ Head(port) \in Request
      /\ CutOnTheirWay' \subseteq CutOnTheirWay \ {Head(port).serial}
      /\ UNCHANGED <<clients, sent, backlog, conn, guest, cuts>>
  BY <1>3, ReadsFacts
<1>5. WireOK'
  <2>1. agent' \in Reply
    BY <1>2, <1>4 DEF Request, Reply, Answer
  <2> QED BY <1>1, <1>2, <1>3, <1>4, <2>1 DEF WireOK
<1>6. CutsCounted'
  <2>1. spoiled' + (IF begun' THEN 1 ELSE 0) <= spoiled + (IF begun THEN 1 ELSE 0)
    BY <1>1, <1>3 DEF WireOK
  <2> QED BY <1>1, <1>4, <1>5, <2>1, FewerCuts
<1> QED BY <1>4, <1>5, <1>6 DEF Parts

LEMMA WriteReplyKeepsParts == ASSUME Parts, WriteReply PROVE Parts'
<1>1. ClientsOK /\ WireOK /\ InOrder /\ CutsCounted
  BY DEF Parts
<1>2. /\ UNCHANGED <<sent, backlog, conn, port, begun, guest, poweroff, cuts, spoiled>>
      /\ agent # NoRequest /\ conn # NoClient /\ agent' = NoRequest
      /\ clients' = [clients EXCEPT ![conn].inbox = Append(clients[conn].inbox, agent)]
  BY DEF WriteReply
<1>3. /\ conn \in Clients /\ clients[conn] \in Client /\ clients[conn].waiting
      /\ clients[conn].inbox \in Seq(Reply) /\ agent \in Reply
  BY <1>1, <1>2 DEF ClientsOK, WireOK, Client
<1>4. Append(clients[conn].inbox, agent) \in Seq(Reply)
  BY <1>3, AppendFacts
<1>5. /\ clients' \in [Clients -> Client] /\ Others(conn)
      /\ clients'[conn].phase = clients[conn].phase
      /\ clients'[conn].waiting = clients[conn].waiting
      /\ clients'[conn].id = clients[conn].id /\ clients'[conn].serial = clients[conn].serial
  BY <1>1, <1>2, <1>3, <1>4 DEF ClientsOK, Client, Others
<1>6. ClientsOK'
  BY <1>1, <1>2, <1>3, <1>5 DEF ClientsOK, Others
<1>7. WireOK'
  BY <1>1, <1>2 DEF WireOK
<1>8. InOrder' /\ CutsCounted'
  BY <1>1, <1>2, StillWire
<1> QED BY <1>6, <1>7, <1>8 DEF Parts

LEMMA WriteFailsKeepsParts == ASSUME Parts, WriteFails PROVE Parts'
<1>1. ClientsOK' /\ WireOK'
  BY DEF Parts, WriteFails, ClientsOK, WireOK
<1>2. InOrder' /\ CutsCounted'
  BY StillWire DEF Parts, WriteFails
<1> QED BY <1>1, <1>2 DEF Parts

LEMMA GuestDownKeepsParts == ASSUME Parts, GuestDown PROVE Parts'
<1>1. ClientsOK'
  BY DEF Parts, GuestDown, QemuExits, ClientsOK
<1>2. WireOK' /\ InOrder' /\ CutsCounted'
  BY ExitKeepsWire DEF Parts, GuestDown
<1> QED BY <1>1, <1>2 DEF Parts

LEMMA InitParts == Init => Parts
<1> SUFFICES ASSUME Init PROVE Parts
  OBVIOUS
<1>1. <<>> \in Seq(Reply) /\ <<>> \in Seq(Request)
  BY EmptySeq
<1>2. NewClient \in Client
  BY <1>1, GuestAgentAssumption DEF NewClient, Client, Phases, Results
<1>3. ClientsOK
  BY <1>2 DEF Init, ClientsOK, NewClient
<1>4. WireOK
  <2>1. 0 \in 0 .. MaxRequests /\ 0 \in 0 .. MaxCuts /\ 0 \in Nat
    BY GuestAgentAssumption
  <2>2. FALSE \in BOOLEAN /\ NoRequest \in Reply \cup {NoRequest}
    OBVIOUS
  <2> QED BY <1>1, <2>1, <2>2 DEF Init, WireOK
<1>5. InOrder
  BY DEF Init, InOrder
<1>6. CutsCounted
  <2>1. CutOnTheirWay = {}
    BY DEF Init, CutOnTheirWay
  <2>2. Cardinality({}) = 0
    BY FS_EmptySet
  <2> QED BY <2>1, <2>2 DEF Init, CutsCounted
<1> QED BY <1>3, <1>4, <1>5, <1>6 DEF Parts

LEMMA NextKeepsParts == Parts /\ [Next]_vars => Parts'
<1> SUFFICES ASSUME Parts, [Next]_vars PROVE Parts'
  OBVIOUS
<1>1. ASSUME NEW c \in Clients,
             \/ Start(c) \/ Execute(c) \/ SendCut(c) \/ Receive(c) \/ Deadline(c) \/ HardStop(c)
      PROVE  Parts'
  BY <1>1, StartKeepsParts, SendKeepsParts, ConnectFailsKeepsParts, SendCutKeepsParts,
     SkipKeepsParts, TakeKeepsParts, RecvFailsKeepsParts, DeadlineKeepsParts, HardStopKeepsParts
     DEF Execute, Receive
<1>2. CASE UNCHANGED vars
  <2>1. ClientsOK' /\ WireOK'
    BY <1>2 DEF vars, Parts, ClientsOK, WireOK
  <2>2. InOrder' /\ CutsCounted'
    BY <1>2, StillWire DEF vars, Parts
  <2> QED BY <2>1, <2>2 DEF Parts
<1> QED BY <1>1, <1>2, AcceptKeepsParts, AgentStartKeepsParts, BeginLineKeepsParts,
           SpoiledLineKeepsParts, ProcessLineKeepsParts, WriteReplyKeepsParts,
           WriteFailsKeepsParts, GuestDownKeepsParts DEF Next

(***************************************************************************)
(* Requests stay in order, and every cut one is counted, whatever clients  *)
(* there are.                                                              *)
(***************************************************************************)
THEOREM ChannelInvariance == Spec => []CInv
<1>1. Spec => []Parts
  BY InitParts, NextKeepsParts, PTL DEF Spec
<1>2. Parts => CInv
  BY CInvParts DEF Parts
<1> QED BY <1>1, <1>2, PTL

(***************************************************************************)
(* No more whole requests go unread than were cut short (sendall in        *)
(* GuestAgentClient.execute, the agent's line buffer in serve).            *)
(***************************************************************************)
THEOREM CutsSpoilFew == Spec => []CutSpoilsOne
<1>1. CInv => CutSpoilsOne
  <2> SUFFICES ASSUME CInv PROVE CutSpoilsOne
    OBVIOUS
  <2>1. WireOK /\ CutsCounted
    BY CInvParts
  <2> DEFINE on == IF begun THEN 1 ELSE 0
             n == Cardinality(CutOnTheirWay)
  <2>2. n \in Nat /\ on \in Nat /\ spoiled \in Nat /\ cuts \in Nat
    BY <2>1, CutFacts DEF WireOK
  <2>3. n + spoiled + on <= cuts
    BY <2>1 DEF CutsCounted
  <2>4. spoiled + on <= cuts
    <3> HIDE DEF n, on
    <3> QED BY <2>2, <2>3
  <2> QED BY <2>4 DEF CutSpoilsOne
<1> QED BY <1>1, ChannelInvariance, PTL

-----------------------------------------------------------------------------
(***************************************************************************)
(* The messages.  What a queue holds after its ends have moved.            *)
(***************************************************************************)
LEMMA TailOn ==
    ASSUME NEW S, NEW q \in Seq(S), q # <<>>
    PROVE  On(Tail(q)) \subseteq On(q) /\ Head(q) \in On(q) /\ Head(q) \in S
<1>1. /\ Head(q) \in S /\ Head(q) = q[1] /\ 1 \in DOMAIN q
      /\ Len(q) \in Nat /\ DOMAIN q = 1 .. Len(q) /\ DOMAIN Tail(q) = 1 .. Len(q) - 1
      /\ \A i \in 1 .. Len(q) - 1 : Tail(q)[i] = q[i + 1]
  BY HeadAndTail
<1>2. \A i \in DOMAIN Tail(q) : i + 1 \in DOMAIN q /\ Tail(q)[i] = q[i + 1]
  BY <1>1
<1> QED BY <1>1, <1>2 DEF On

LEMMA AppendOn ==
    ASSUME NEW S, NEW q \in Seq(S), NEW e \in S
    PROVE  On(Append(q, e)) = On(q) \cup {e}
<1>1. /\ Len(q) \in Nat
      /\ DOMAIN q = 1 .. Len(q) /\ DOMAIN Append(q, e) = 1 .. Len(q) + 1
      /\ \A i \in 1 .. Len(q) : Append(q, e)[i] = q[i]
      /\ Append(q, e)[Len(q) + 1] = e
  BY AppendFacts
<1>2. \A i \in DOMAIN Append(q, e) : i \in DOMAIN q \/ i = Len(q) + 1
  BY <1>1
<1>3. \A i \in DOMAIN q : i \in DOMAIN Append(q, e)
  BY <1>1
<1>4. Len(q) + 1 \in DOMAIN Append(q, e)
  BY <1>1
<1> QED BY <1>1, <1>2, <1>3, <1>4 DEF On

LEMMA EmptyOn == On(<<>>) = {}
BY DEF On

LEMMA OnTyped == ASSUME NEW S, NEW q \in Seq(S) PROVE On(q) \subseteq S
BY ElementOfSeq, LenProperties DEF On

(* Serial numbers and ids are numbers. *)
LEMMA MessageTypes ==
    ASSUME Parts
    PROVE  /\ sent \in Nat
           /\ \A m \in Messages : m.serial \in Nat /\ m.id \in Nat
           /\ \A c \in Clients : /\ clients[c].id \in Nat /\ clients[c].serial \in Nat
                                 /\ clients[c].since \in Nat
                                 /\ clients[c].own \in BOOLEAN
                                 /\ clients[c].inbox \in Seq(Reply)
                                 /\ clients[c].serial <= sent
<1>1. /\ sent \in Nat /\ clients \in [Clients -> Client]
      /\ \A c \in Clients : clients[c].serial <= sent
  BY DEF Parts, ClientsOK, WireOK
<1>2. On(backlog) \subseteq Request /\ On(port) \subseteq Request
  BY OnTyped DEF Parts, WireOK
<1>3. \A c \in Clients : clients[c].inbox \in Seq(Reply) /\ On(clients[c].inbox) \subseteq Reply
  BY <1>1, OnTyped DEF Client
<1>4. {agent} \ {NoRequest} \subseteq Reply
  BY DEF Parts, WireOK
<1>5. \A m \in Messages : m \in Request \/ m \in Reply
  BY <1>2, <1>3, <1>4 DEF Messages, AtAgent
<1>6. \A m \in Request \cup Reply : m.serial \in Nat /\ m.id \in Nat
  BY DEF Request, Reply, Serials, NoId
<1>7. \A c \in Clients : /\ clients[c].id \in Nat /\ clients[c].serial \in Nat
                         /\ clients[c].since \in Nat /\ clients[c].own \in BOOLEAN
  BY <1>1 DEF Client
<1> QED BY <1>1, <1>3, <1>5, <1>6, <1>7

Rest == Numbered /\ Connected /\ Asked /\ GracefulMeansAsked

(* Who the messages of a step come from: all were there before. *)
NoNewMessage ==
    /\ On(backlog') \subseteq On(backlog) /\ On(port') \subseteq On(port)
    /\ agent' = agent \/ agent' = NoRequest
    /\ \A c \in Clients : On(clients'[c].inbox) \subseteq On(clients[c].inbox)

(* What a step that sends nothing may do to client c. *)
Moves(c) ==
    /\ clients'[c].serial = clients[c].serial
    /\ \/ clients'[c].since = clients[c].since /\ clients'[c].id = clients[c].id
       \/ clients'[c].since = sent
    /\ clients'[c].waiting =>
         /\ clients[c].waiting /\ clients'[c].id = clients[c].id
         /\ clients'[c].phase = clients[c].phase
         /\ conn = c => conn' = c
    /\ clients'[c].own /\ (clients'[c].phase = "down" \/ clients'[c].result = "graceful")
         => poweroff'

LEMMA MovesKeepRest ==
    ASSUME Parts, Rest, NoNewMessage, sent' = sent, poweroff => poweroff',
           \A c \in Clients : Moves(c)
    PROVE  Rest'
<1>1. Messages' \subseteq Messages /\ AtAgent' \subseteq AtAgent
  BY DEF Messages, AtAgent, NoNewMessage
<1>2. ASSUME NEW m \in Messages', NEW c \in Clients PROVE NumberedFor(c, m)'
  <2>1. m \in Messages /\ NumberedFor(c, m) /\ m.serial <= sent
    BY <1>1, <1>2 DEF Rest, Numbered
  <2>2. m.serial \in Nat /\ sent \in Nat
    BY <2>1, MessageTypes
  <2>3. clients'[c].serial = clients[c].serial
    BY DEF Moves
  <2>4. CASE clients'[c].since = clients[c].since /\ clients'[c].id = clients[c].id
    BY <2>1, <2>3, <2>4 DEF NumberedFor
  <2>5. CASE clients'[c].since = sent
    BY <2>1, <2>2, <2>3, <2>5 DEF NumberedFor
  <2> QED BY <2>4, <2>5 DEF Moves
<1>3. Numbered'
  BY <1>1, <1>2 DEF Rest, Numbered, Moves
<1>4. Connected'
  BY <1>1 DEF Rest, Connected, Moves, NoNewMessage
<1>5. ASSUME NEW c \in Clients, In(c, {"shutdown"})', clients'[c].waiting
      PROVE  ShutdownAwaited(c)'
  <2>1. /\ ShutdownAwaited(c) /\ clients'[c].serial = clients[c].serial
    BY <1>5 DEF Rest, Asked, Moves, In
  <2>2. {agent'} \ {NoRequest} \subseteq {agent} \ {NoRequest}
    BY DEF NoNewMessage
  <2> QED BY <2>1, <2>2 DEF ShutdownAwaited, NoNewMessage
<1>6. Asked' /\ GracefulMeansAsked'
  BY <1>5 DEF Asked, GracefulMeansAsked, Moves, In
<1> QED BY <1>3, <1>4, <1>6 DEF Rest

(* A client that a step leaves alone. *)
LEMMA StaysMoves ==
    ASSUME Parts, Rest, NEW c \in Clients, clients'[c] = clients[c], poweroff => poweroff',
           conn = c => conn' = c \/ ~clients[c].waiting
    PROVE  Moves(c)
BY DEF Moves, Rest, Asked, GracefulMeansAsked, In

(* The call of client c ends. *)
LEMMA CallEnds ==
    ASSUME Parts, Rest, NEW c \in Clients, NEW own \in BOOLEAN, NEW p \in Phases,
           NEW res \in Results, Closed(c, own, p, res), sent' = sent, poweroff' = poweroff,
           own /\ (p = "down" \/ res = "graceful") => poweroff,
           conn' = conn \/ Hangup(c),
           UNCHANGED <<backlog, port, agent>>
    PROVE  Rest'
<1>1. TypeOK
  BY CInvParts DEF Parts, CInv
<1>2. /\ Others(c) /\ clients'[c].phase = p /\ ~clients'[c].waiting /\ clients'[c].inbox = <<>>
      /\ clients'[c].own = own /\ clients'[c].result = res
      /\ clients'[c].id = clients[c].id /\ clients'[c].serial = clients[c].serial
      /\ clients'[c].since = clients[c].since
  BY <1>1, ClosedFacts, ZenonT(60)
<1>3. Moves(c)
  BY <1>2 DEF Moves
<1>4. ASSUME NEW d \in Clients, d # c PROVE Moves(d)
  <2>1. conn = d => conn' = d
    BY <1>4 DEF Hangup
  <2> QED BY <1>2, <1>4, <2>1, StaysMoves DEF Others
<1>5. NoNewMessage
  BY <1>2, EmptyOn DEF NoNewMessage, Others
<1> QED BY <1>3, <1>4, <1>5, MovesKeepRest

LEMMA RaisedKeepsRest ==
    ASSUME Parts, Rest, NEW c \in Clients, Raised(c, clients[c].own),
           UNCHANGED <<sent, poweroff, backlog, port, agent>>, conn' = conn \/ Hangup(c)
    PROVE  Rest'
<1>1. TypeOK
  BY CInvParts DEF Parts, CInv
<1>2. clients[c].own \in BOOLEAN
  BY MessageTypes
<1>3. PICK p \in Phases, res \in Results :
        /\ Closed(c, clients[c].own, p, res)
        /\ p # "down" /\ (res = "graceful" => In(c, {"down"}))
  BY <1>1, <1>2, RaisedFacts
<1>4. clients[c].own /\ res = "graceful" => poweroff
  BY <1>3 DEF Rest, Asked
<1> QED BY <1>2, <1>3, <1>4, CallEnds

LEMMA ConnectFailsKeepsRest ==
    ASSUME Parts, Rest, NEW c \in Clients, ConnectFails(c) PROVE Rest'
BY RaisedKeepsRest DEF ConnectFails, channel

LEMMA RecvFailsKeepsRest ==
    ASSUME Parts, Rest, NEW c \in Clients, RecvFails(c) PROVE Rest'
BY RaisedKeepsRest DEF RecvFails

LEMMA TakeKeepsRest ==
    ASSUME Parts, Rest, NEW c \in Clients, Take(c) PROVE Rest'
<1>1. TypeOK
  BY CInvParts DEF Parts, CInv
<1> DEFINE r == Head(clients[c].inbox)
           own == clients[c].own /\ r.serial = clients[c].serial
<1>2. /\ UNCHANGED <<sent, backlog, port, agent, poweroff>> /\ Hangup(c)
      /\ clients[c].inbox # <<>>
      /\ \/ r.ok /\ Returned(c, own)
         \/ ~r.ok /\ Raised(c, own)
  BY DEF Take
<1>3. clients[c].inbox \in Seq(Reply) /\ clients[c].waiting /\ clients[c].own \in BOOLEAN
  BY <1>1, <1>2 DEF TypeOK, Client
<1>4. r \in On(clients[c].inbox)
  BY <1>2, <1>3, TailOn
<1>5. own \in BOOLEAN
  BY <1>3
<1>6. r.ok /\ In(c, {"shutdown"}) /\ own => poweroff
  BY <1>3, <1>4 DEF Rest, Asked, ShutdownAwaited
<1>7. In(c, {"down"}) /\ own => poweroff
  BY DEF Rest, Asked
<1> HIDE DEF own, r
<1>8. PICK p \in Phases, res \in Results :
        /\ Closed(c, own, p, res)
        /\ p = "down" => r.ok /\ In(c, {"shutdown", "down"})
        /\ res = "graceful" => In(c, {"down"})
  <2>1. CASE r.ok /\ Returned(c, own)
    BY <1>1, <1>5, <2>1, ReturnedFacts
  <2>2. CASE ~r.ok /\ Raised(c, own)
    BY <1>1, <1>5, <2>2, RaisedFacts
  <2> QED BY <1>2, <2>1, <2>2
<1>9. own /\ (p = "down" \/ res = "graceful") => poweroff
  BY <1>6, <1>7, <1>8 DEF In
<1> QED BY <1>2, <1>5, <1>8, <1>9, CallEnds

LEMMA StartKeepsRest ==
    ASSUME Parts, Rest, NEW c \in Clients, Start(c) PROVE Rest'
<1>1. PICK p \in {"info", "command", "ready", "shutdown"} :
        clients' = [clients EXCEPT ![c] =
          [NewClient EXCEPT !.phase = p, !.serial = clients[c].serial, !.since = sent]]
  BY DEF Start
<1>2. /\ UNCHANGED <<sent, backlog, conn, port, agent, poweroff>>
      /\ clients \in [Clients -> Client] /\ sent \in 0 .. MaxRequests
      /\ p \in Phases /\ p # "down"
  BY DEF Start, channel, Parts, ClientsOK, WireOK, Phases
<1>3. /\ Others(c)
      /\ clients'[c].phase = p /\ ~clients'[c].waiting /\ clients'[c].inbox = <<>>
      /\ clients'[c].id = 0 /\ clients'[c].serial = clients[c].serial
      /\ clients'[c].since = sent /\ clients'[c].result = "none"
  BY <1>1, <1>2, StartFacts
<1>4. Moves(c)
  BY <1>2, <1>3 DEF Moves
<1>5. ASSUME NEW d \in Clients, d # c PROVE Moves(d)
  BY <1>2, <1>3, <1>5, StaysMoves DEF Others
<1>6. NoNewMessage
  BY <1>2, <1>3, EmptyOn DEF NoNewMessage, Others
<1> QED BY <1>2, <1>4, <1>5, <1>6, MovesKeepRest

LEMMA SkipKeepsRest ==
    ASSUME Parts, Rest, NEW c \in Clients, Skip(c) PROVE Rest'
<1>1. /\ clients \in [Clients -> Client] /\ clients[c] \in Client
      /\ clients[c].inbox \in Seq(Reply) /\ clients[c].inbox # <<>>
  BY DEF Parts, ClientsOK, Client, Skip
<1>2. /\ UNCHANGED <<sent, backlog, conn, port, agent, poweroff>>
      /\ clients' = [clients EXCEPT ![c].inbox = Tail(clients[c].inbox)]
  BY DEF Skip, channel
<1>3. /\ clients'[c].phase = clients[c].phase /\ clients'[c].waiting = clients[c].waiting
      /\ clients'[c].id = clients[c].id /\ clients'[c].serial = clients[c].serial
      /\ clients'[c].own = clients[c].own /\ clients'[c].result = clients[c].result
      /\ clients'[c].since = clients[c].since
      /\ clients'[c].inbox = Tail(clients[c].inbox) /\ Others(c)
  BY <1>1, <1>2 DEF Client, Others
<1>4. Moves(c)
  BY <1>2, <1>3 DEF Moves, Rest, Asked, GracefulMeansAsked, In
<1>5. ASSUME NEW d \in Clients, d # c PROVE Moves(d)
  BY <1>2, <1>3, <1>5, StaysMoves DEF Others
<1>6. NoNewMessage
  BY <1>1, <1>2, <1>3, TailOn DEF NoNewMessage, Others
<1> QED BY <1>2, <1>4, <1>5, <1>6, MovesKeepRest

LEMMA DeadlineKeepsRest ==
    ASSUME Parts, Rest, NEW c \in Clients, Deadline(c) PROVE Rest'
<1>1. clients \in [Clients -> Client] /\ clients[c] \in Client
  BY DEF Parts, ClientsOK
<1>2. /\ UNCHANGED <<sent, backlog, conn, port, agent, poweroff>>
      /\ clients' = [clients EXCEPT ![c].late = TRUE]
  BY DEF Deadline, channel
<1>3. /\ clients'[c].phase = clients[c].phase /\ clients'[c].waiting = clients[c].waiting
      /\ clients'[c].id = clients[c].id /\ clients'[c].serial = clients[c].serial
      /\ clients'[c].own = clients[c].own /\ clients'[c].result = clients[c].result
      /\ clients'[c].since = clients[c].since
      /\ clients'[c].inbox = clients[c].inbox /\ Others(c)
  BY <1>1, <1>2 DEF Client, Others
<1>4. Moves(c)
  BY <1>2, <1>3 DEF Moves, Rest, Asked, GracefulMeansAsked, In
<1>5. ASSUME NEW d \in Clients, d # c PROVE Moves(d)
  BY <1>2, <1>3, <1>5, StaysMoves DEF Others
<1>6. NoNewMessage
  BY <1>2, <1>3 DEF NoNewMessage, Others
<1> QED BY <1>2, <1>4, <1>5, <1>6, MovesKeepRest

(* A request that goes into the queue has a new number. *)
LEMMA SentKeepsNumbered ==
    ASSUME Parts, Rest, NEW c \in Clients, NEW s \in BOOLEAN, NEW cut \in BOOLEAN,
           sent < MaxRequests, sent' = sent + 1, NEW e, e = NewRequest(c, s, cut),
           backlog' = Append(backlog, e), UNCHANGED <<port, agent>>,
           Others(c), clients'[c].id = clients[c].id + 1, clients'[c].serial = sent + 1,
           clients'[c].since = clients[c].since, clients'[c].inbox = clients[c].inbox
    PROVE  /\ Numbered' /\ AtAgent' = AtAgent
           /\ On(backlog') = On(backlog) \cup {e}
           /\ \A m \in Messages : m.serial # sent + 1
           /\ e.serial = sent + 1 /\ e.shutdown = s
           /\ \A d \in Clients : clients[d].serial # sent + 1
<1>1. /\ e.serial = sent + 1 /\ e.from = c /\ e.id = clients[c].id + 1 /\ e.shutdown = s
  BY DEF NewRequest
<1>2. e \in Request
  BY SentFacts
<1>3. /\ sent \in Nat /\ \A m \in Messages : m.serial \in Nat /\ m.id \in Nat /\ m.serial <= sent
      /\ \A d \in Clients : /\ clients[d].id \in Nat /\ clients[d].serial \in Nat
                            /\ clients[d].since \in Nat
                            /\ clients[d].serial <= sent
  BY MessageTypes DEF Rest, Numbered
<1>4. On(backlog') = On(backlog) \cup {e}
  <2>1. backlog \in Seq(Request) /\ backlog' = Append(backlog, e)
    BY DEF Parts, WireOK
  <2> QED BY <1>2, <2>1, AppendOn
<1>5. AtAgent' = AtAgent /\ Messages' = Messages \cup {e}
  BY <1>4 DEF Messages, AtAgent, Others
<1>6. ASSUME NEW m \in Messages, NEW d \in Clients PROVE NumberedFor(d, m)'
  <2>1. NumberedFor(d, m) /\ m.serial \in Nat /\ m.id \in Nat /\ m.serial <= sent
    BY <1>3 DEF Rest, Numbered
  <2>2. CASE d = c
    <3>1. m.serial # clients'[c].serial
      BY <1>3, <2>1
    <3>2. ASSUME m.from = c, m.serial > clients[c].since
          PROVE  m.id <= clients[c].id + 1 /\ m.id # clients[c].id + 1
      <4>1. m.id <= clients[c].id /\ clients[c].id \in Nat
        BY <1>3, <2>1, <2>2, <3>2 DEF NumberedFor
      <4> QED BY <2>1, <4>1
    <3> QED BY <2>2, <3>1, <3>2 DEF NumberedFor
  <2>3. CASE d # c
    BY <2>1, <2>3 DEF NumberedFor, Others
  <2> QED BY <2>2, <2>3
<1>7. ASSUME NEW d \in Clients PROVE NumberedFor(d, e)'
  <2>1. CASE d = c
    <3>1. e.from = c /\ e.id <= clients'[c].id /\ e.serial = clients'[c].serial
      BY <1>1, <1>3
    <3> QED BY <2>1, <3>1 DEF NumberedFor
  <2>2. CASE d # c
    <3>1. clients'[d].serial # e.serial /\ e.from # d
      BY <1>1, <1>3, <2>2 DEF Others
    <3> QED BY <3>1 DEF NumberedFor
  <2> QED BY <2>1, <2>2
<1>8. \A m \in Messages' : m.serial <= sent'
  BY <1>1, <1>3, <1>5
<1>9. \A d \in Clients : clients'[d].waiting => clients'[d].id > 0
  <2>1. clients'[c].id > 0
    BY <1>3
  <2> QED BY <2>1 DEF Rest, Numbered, Others
<1>10. \A m \in Messages', d \in Clients : NumberedFor(d, m)'
  BY <1>5, <1>6, <1>7
<1>11. Numbered'
  BY <1>8, <1>9, <1>10 DEF Numbered
<1>12. \A m \in Messages : m.serial # sent + 1
  BY <1>3
<1>13. \A d \in Clients : clients[d].serial # sent + 1
  BY <1>3
<1> QED BY <1>1, <1>4, <1>5, <1>11, <1>12, <1>13

(* What is awaited by the others is not touched by a request sent. *)
LEMMA OthersAwait ==
    ASSUME Parts, Rest, NEW c \in Clients, NEW e, e.serial = sent + 1,
           \A d \in Clients : clients[d].serial # sent + 1,
           On(backlog') = On(backlog) \cup {e}, UNCHANGED <<port, agent, conn, poweroff>>,
           Others(c), clients'[c].inbox = clients[c].inbox
    PROVE  \A d \in Clients \ {c} : ShutdownAwaited(d) => ShutdownAwaited(d)'
BY DEF ShutdownAwaited, Others

LEMMA SendKeepsRest ==
    ASSUME Parts, Rest, NEW c \in Clients, Send(c) PROVE Rest'
<1>1. /\ clients \in [Clients -> Client] /\ clients[c] \in Client
  BY DEF Parts, ClientsOK
<1>2. PICK s \in BOOLEAN :
        /\ In(c, {"shutdown"}) => s
        /\ backlog' = Append(backlog, NewRequest(c, s, FALSE))
  BY DEF Send, NewRequest
<1>3. /\ UNCHANGED <<conn, port, agent, poweroff>>
      /\ sent' = sent + 1 /\ sent < MaxRequests
      /\ clients' = [clients EXCEPT ![c] =
                      [@ EXCEPT !.waiting = TRUE,
                                !.id = clients[c].id + 1, !.serial = sent + 1]]
  BY DEF Send
<1>4. /\ clients'[c].phase = clients[c].phase /\ clients'[c].waiting
      /\ clients'[c].id = clients[c].id + 1 /\ clients'[c].serial = sent + 1
      /\ clients'[c].inbox = clients[c].inbox /\ clients'[c].own = clients[c].own
      /\ clients'[c].since = clients[c].since
      /\ clients'[c].result = clients[c].result /\ Others(c)
  BY <1>1, <1>3 DEF Client, Others
<1> PICK e : e = NewRequest(c, s, FALSE)
  OBVIOUS
<1>5. /\ Numbered' /\ AtAgent' = AtAgent
      /\ On(backlog') = On(backlog) \cup {e}
      /\ \A m \in Messages : m.serial # sent + 1
      /\ e.serial = sent + 1 /\ e.shutdown = s
      /\ \A d \in Clients : clients[d].serial # sent + 1
  BY <1>2, <1>3, <1>4, SentKeepsNumbered
<1>6. Connected'
  BY <1>3, <1>4, <1>5 DEF Rest, Connected, Others, Messages
<1>7. In(c, {"shutdown"})' => ShutdownAwaited(c)'
  <2> SUFFICES ASSUME In(c, {"shutdown"})' PROVE ShutdownAwaited(c)'
    OBVIOUS
  <2>1. e.shutdown
    BY <1>2, <1>4, <1>5 DEF In
  <2>2. /\ On(backlog) \cup On(port) \subseteq Messages /\ {agent} \ {NoRequest} \subseteq Messages
        /\ On(clients[c].inbox) \subseteq Messages
    BY DEF Messages, AtAgent
  <2> QED BY <1>3, <1>4, <1>5, <2>1, <2>2 DEF ShutdownAwaited
<1>8. \A d \in Clients \ {c} : ShutdownAwaited(d) => ShutdownAwaited(d)'
  BY <1>3, <1>4, <1>5, OthersAwait
<1>9. Asked'
  BY <1>3, <1>4, <1>7, <1>8 DEF Rest, Asked, In, Others
<1>10. GracefulMeansAsked'
  BY <1>3, <1>4 DEF Rest, GracefulMeansAsked, Others
<1> QED BY <1>5, <1>6, <1>9, <1>10 DEF Rest

LEMMA SendCutKeepsRest ==
    ASSUME Parts, Rest, NEW c \in Clients, SendCut(c) PROVE Rest'
<1>1. /\ clients \in [Clients -> Client] /\ clients[c] \in Client
  BY DEF Parts, ClientsOK
<1>2. /\ UNCHANGED <<conn, port, agent, poweroff>> /\ ~clients[c].waiting
      /\ sent' = sent + 1 /\ sent < MaxRequests
      /\ backlog' = Append(backlog, NewRequest(c, FALSE, TRUE))
      /\ clients' = [clients EXCEPT ![c] =
                      [@ EXCEPT !.phase = "off", !.id = clients[c].id + 1,
                                !.serial = sent + 1, !.result = "failed"]]
  BY DEF SendCut, NewRequest
<1>3. /\ clients'[c].phase = "off" /\ ~clients'[c].waiting
      /\ clients'[c].id = clients[c].id + 1 /\ clients'[c].serial = sent + 1
      /\ clients'[c].since = clients[c].since
      /\ clients'[c].inbox = clients[c].inbox /\ clients'[c].result = "failed" /\ Others(c)
  <2> DEFINE r == [clients[c] EXCEPT !.phase = "off", !.id = clients[c].id + 1,
                          !.serial = sent + 1, !.result = "failed"]
  <2>1. /\ r.phase = "off" /\ r.waiting = clients[c].waiting
        /\ r.id = clients[c].id + 1 /\ r.serial = sent + 1 /\ r.inbox = clients[c].inbox
        /\ r.since = clients[c].since /\ r.result = "failed"
    BY <1>1 DEF Client
  <2>2. clients' = [clients EXCEPT ![c] = r]
    BY <1>2
  <2> HIDE DEF r
  <2> QED BY <1>1, <1>2, <2>1, <2>2 DEF Others
<1> PICK e : e = NewRequest(c, FALSE, TRUE)
  OBVIOUS
<1>4. /\ Numbered' /\ AtAgent' = AtAgent
      /\ On(backlog') = On(backlog) \cup {e} /\ e.serial = sent + 1
      /\ \A d \in Clients : clients[d].serial # sent + 1
  BY <1>2, <1>3, SentKeepsNumbered
<1>5. Connected'
  BY <1>2, <1>3, <1>4 DEF Rest, Connected, Others
<1>6. \A d \in Clients \ {c} : ShutdownAwaited(d) => ShutdownAwaited(d)'
  BY <1>2, <1>3, <1>4, OthersAwait
<1>7. Asked'
  BY <1>2, <1>3, <1>6 DEF Rest, Asked, In, Others
<1>8. GracefulMeansAsked'
  BY <1>2, <1>3 DEF Rest, GracefulMeansAsked, Others
<1> QED BY <1>4, <1>5, <1>7, <1>8 DEF Rest

LEMMA HardStopKeepsRest ==
    ASSUME Parts, Rest, NEW c \in Clients, HardStop(c) PROVE Rest'
<1>1. TypeOK
  BY CInvParts DEF Parts, CInv
<1>2. /\ sent' = sent /\ poweroff' = poweroff
      /\ "off" \in Phases /\ "failed" \in Results /\ "hard_stopped" \in Results
      /\ clients[c].own \in BOOLEAN
  BY MessageTypes DEF HardStop, Phases, Results
<1>3. PICK res \in {"hard_stopped", "failed"} : Closed(c, clients[c].own, "off", res)
  BY DEF HardStop
<1>4. \/ backlog' = <<>> /\ port' = <<>> /\ agent' = NoRequest /\ conn' = NoClient
      \/ UNCHANGED <<backlog, port, agent, conn>>
  BY DEF HardStop, QemuExits
<1>5. CASE UNCHANGED <<backlog, port, agent, conn>>
  BY <1>2, <1>3, <1>5, CallEnds
<1>6. CASE backlog' = <<>> /\ port' = <<>> /\ agent' = NoRequest /\ conn' = NoClient
  <2>1. /\ Others(c) /\ clients'[c].phase = "off" /\ ~clients'[c].waiting
        /\ clients'[c].inbox = <<>> /\ clients'[c].result = res
        /\ clients'[c].id = clients[c].id /\ clients'[c].serial = clients[c].serial
        /\ clients'[c].since = clients[c].since
    BY <1>1, <1>2, <1>3, ClosedFacts, ZenonT(60)
  <2>2. AtAgent' = {} /\ On(backlog') = {} /\ On(port') = {}
        /\ \A d \in Clients : On(clients'[d].inbox) \subseteq On(clients[d].inbox)
    BY <1>6, <2>1, EmptyOn DEF AtAgent, Others
  <2>3. Messages' \subseteq Messages
    BY <2>2 DEF Messages
  <2>4. Numbered'
    BY <1>2, <2>1, <2>3 DEF Rest, Numbered, NumberedFor, Others
  <2>5. Connected'
    BY <2>1, <2>2 DEF Rest, Connected, Others
  <2>6. ASSUME NEW d \in Clients, d # c, ShutdownAwaited(d) PROVE ShutdownAwaited(d)'
    BY <1>2, <1>6, <2>1, <2>2, <2>6 DEF ShutdownAwaited, Others
  <2>7. Asked' /\ GracefulMeansAsked'
    BY <1>2, <2>1, <2>6 DEF Rest, Asked, GracefulMeansAsked, In, Others
  <2> QED BY <2>4, <2>5, <2>7 DEF Rest
<1> QED BY <1>4, <1>5, <1>6

(* QEMU connects the client whose request it hands to the guest. *)
LEMMA AcceptKeepsRest == ASSUME Parts, Rest, Accept PROVE Rest'
<1> DEFINE e == Head(backlog)
<1>1. /\ UNCHANGED <<clients, sent, agent, poweroff>>
      /\ backlog # <<>> /\ backlog' = Tail(backlog) /\ conn = NoClient
      /\ port' = Append(port, e) \/ port' = port
      /\ clients[e.from].waiting /\ clients[e.from].serial = e.serial => conn' = e.from
  BY Zenon DEF Accept
<1>2. /\ backlog \in Seq(Request) /\ port \in Seq(Request) /\ NoClient \notin Clients
  BY GuestAgentAssumption DEF Parts, WireOK
<1>3. On(backlog') \subseteq On(backlog) /\ e \in On(backlog) /\ e \in Request
  BY <1>1, <1>2, TailOn
<1> HIDE DEF e
<1>4. On(port') \subseteq On(port) \cup {e}
  <2>1. On(Append(port, e)) = On(port) \cup {e}
    BY <1>2, <1>3, AppendOn
  <2> QED BY <1>1, <2>1
<1>5. AtAgent' \subseteq AtAgent \cup {e} /\ Messages' \subseteq Messages
  BY <1>1, <1>3, <1>4 DEF AtAgent, Messages
<1>6. Numbered'
  BY <1>1, <1>5 DEF Rest, Numbered, NumberedFor
<1>7. ASSUME NEW c \in Clients, clients[c].waiting
      PROVE  \A m \in AtAgent' : m.serial = clients[c].serial => conn' = c
  <2> SUFFICES ASSUME NEW m \in AtAgent', m.serial = clients[c].serial PROVE conn' = c
    OBVIOUS
  <2>1. m \notin AtAgent
    BY <1>1, <1>2, <1>7 DEF Rest, Connected
  <2>2. m = e
    BY <1>5, <2>1
  <2>3. NumberedFor(c, e)
    BY <1>3 DEF Rest, Numbered, Messages
  <2>4. e.from = c
    BY <2>2, <2>3 DEF NumberedFor
  <2> QED BY <1>1, <1>7, <2>2, <2>4
<1>8. Connected'
  BY <1>1, <1>7 DEF Rest, Connected
<1>9. \A c \in Clients : ShutdownAwaited(c) => ShutdownAwaited(c)'
  BY <1>1, <1>3, <1>4 DEF ShutdownAwaited
<1>10. Asked' /\ GracefulMeansAsked'
  BY <1>1, <1>9 DEF Rest, Asked, GracefulMeansAsked, In
<1> QED BY <1>6, <1>8, <1>10 DEF Rest

(* The agent has read request h and made of it the reply agent', if any. *)
LEMMA ReadKeepsRest ==
    ASSUME Parts, Rest, NEW cut \in BOOLEAN, Reads(cut),
           \/ agent' = NoRequest
           \/ /\ agent'.serial = Head(port).serial /\ agent'.from = Head(port).from
              /\ agent'.id \in {NoId, Head(port).id}
              /\ agent'.ok /\ Head(port).shutdown => poweroff',
           poweroff => poweroff'
    PROVE  Rest'
<1> DEFINE h == Head(port)
<1>1. /\ UNCHANGED <<clients, sent, backlog, conn>> /\ port # <<>> /\ port' = Tail(port)
  BY DEF Reads
<1>2. port \in Seq(Request)
  BY DEF Parts, WireOK
<1>3. On(port') \subseteq On(port) /\ h \in On(port)
  BY <1>1, <1>2, TailOn
<1>4. \/ agent' = NoRequest
      \/ /\ agent'.serial = h.serial /\ agent'.from = h.from
         /\ agent'.id \in {NoId, h.id}
         /\ agent'.ok /\ h.shutdown => poweroff'
  OBVIOUS
<1> HIDE DEF h
<1> PICK a : a = agent'
  OBVIOUS
<1>5. AtAgent' \subseteq AtAgent \cup ({a} \ {NoRequest}) /\ h \in AtAgent
  BY <1>3 DEF AtAgent
<1>6. Messages' \subseteq Messages \cup ({a} \ {NoRequest}) /\ h \in Messages
  BY <1>1, <1>3, <1>5 DEF Messages
<1>7. ASSUME a # NoRequest, NEW c \in Clients PROVE NumberedFor(c, a)'
  <2>1. NumberedFor(c, h) /\ clients[c].id \in Nat
    BY <1>6, MessageTypes DEF Rest, Numbered
  <2>2. NoId = 0 /\ 0 <= clients[c].id
    BY <2>1 DEF NoId
  <2> QED BY <1>1, <1>4, <1>7, <2>1, <2>2 DEF NumberedFor
<1>8. \A m \in Messages, c \in Clients : NumberedFor(c, m)'
  BY <1>1 DEF Rest, Numbered, NumberedFor
<1>9. a # NoRequest => a.serial <= sent
  BY <1>4, <1>6 DEF Rest, Numbered
<1>10. Numbered'
  <2>1. \A m \in Messages' : m.serial <= sent' /\ \A c \in Clients : NumberedFor(c, m)'
    BY <1>1, <1>6, <1>7, <1>8, <1>9 DEF Rest, Numbered
  <2> QED BY <1>1, <2>1 DEF Rest, Numbered
<1>11. Connected'
  BY <1>1, <1>4, <1>5 DEF Rest, Connected
<1>12. ASSUME NEW c \in Clients, ShutdownAwaited(c) PROVE ShutdownAwaited(c)'
  <2>1. a # NoRequest /\ a.serial = clients[c].serial /\ a.ok => poweroff'
    BY <1>3, <1>4, <1>12 DEF ShutdownAwaited
  <2> QED BY <1>1, <1>3, <1>12, <2>1 DEF ShutdownAwaited
<1>13. Asked' /\ GracefulMeansAsked'
  BY <1>1, <1>12 DEF Rest, Asked, GracefulMeansAsked, In
<1> QED BY <1>10, <1>11, <1>13 DEF Rest

LEMMA BeginLineKeepsRest == ASSUME Parts, Rest, BeginLine PROVE Rest'
<1>1. Reads(TRUE) /\ agent' = NoRequest /\ poweroff' = poweroff
  BY DEF BeginLine, Reads
<1> QED BY <1>1, ReadKeepsRest

LEMMA SpoiledLineKeepsRest == ASSUME Parts, Rest, SpoiledLine PROVE Rest'
<1>1. Reads(FALSE) /\ agent' = Answer(NoId, FALSE) /\ poweroff' = poweroff
  BY DEF SpoiledLine
<1>2. /\ agent'.serial = Head(port).serial /\ agent'.from = Head(port).from
      /\ agent'.id = NoId /\ ~agent'.ok
  BY <1>1 DEF Answer
<1> QED BY <1>1, <1>2, ReadKeepsRest

LEMMA ProcessLineKeepsRest == ASSUME Parts, Rest, ProcessLine PROVE Rest'
<1>1. PICK ok \in BOOLEAN :
        /\ agent' = Answer(Head(port).id, ok)
        /\ poweroff' = (poweroff \/ (ok /\ Head(port).shutdown))
  BY DEF ProcessLine
<1>2. Reads(FALSE)
  BY DEF ProcessLine
<1>3. /\ agent'.serial = Head(port).serial /\ agent'.from = Head(port).from
      /\ agent'.id = Head(port).id /\ agent'.ok = ok
  BY <1>1 DEF Answer
<1>4. (poweroff => poweroff') /\ (agent'.ok /\ Head(port).shutdown => poweroff')
  BY <1>1, <1>3
<1> QED BY <1>2, <1>3, <1>4, ReadKeepsRest

LEMMA WriteReplyKeepsRest == ASSUME Parts, Rest, WriteReply PROVE Rest'
<1>1. /\ UNCHANGED <<sent, backlog, conn, port, poweroff>>
      /\ agent # NoRequest /\ conn # NoClient /\ agent' = NoRequest
      /\ clients' = [clients EXCEPT ![conn].inbox = Append(clients[conn].inbox, agent)]
  BY DEF WriteReply
<1>2. /\ conn \in Clients /\ clients \in [Clients -> Client] /\ clients[conn] \in Client
      /\ clients[conn].inbox \in Seq(Reply) /\ agent \in Reply
  BY <1>1 DEF Parts, ClientsOK, WireOK, Client
<1>3. /\ clients'[conn].phase = clients[conn].phase
      /\ clients'[conn].waiting = clients[conn].waiting
      /\ clients'[conn].id = clients[conn].id /\ clients'[conn].serial = clients[conn].serial
      /\ clients'[conn].own = clients[conn].own /\ clients'[conn].result = clients[conn].result
      /\ clients'[conn].since = clients[conn].since
      /\ clients'[conn].inbox = Append(clients[conn].inbox, agent) /\ Others(conn)
  BY <1>1, <1>2 DEF Client, Others
<1>4. On(clients'[conn].inbox) = On(clients[conn].inbox) \cup {agent}
  BY <1>2, <1>3, AppendOn
<1>5. \A d \in Clients :
        /\ clients'[d].phase = clients[d].phase /\ clients'[d].waiting = clients[d].waiting
        /\ clients'[d].id = clients[d].id /\ clients'[d].serial = clients[d].serial
        /\ clients'[d].own = clients[d].own /\ clients'[d].result = clients[d].result
        /\ clients'[d].since = clients[d].since
        /\ d # conn => clients'[d].inbox = clients[d].inbox
  BY <1>3 DEF Others
<1>6. \A d \in Clients : \A m \in On(clients'[d].inbox) :
        m \in On(clients[d].inbox) \/ (d = conn /\ m = agent)
  BY <1>4, <1>5
<1>7. agent \in AtAgent /\ AtAgent' \subseteq AtAgent
  BY <1>1 DEF AtAgent
<1>8. Messages' \subseteq Messages
  BY <1>1, <1>6, <1>7 DEF Messages
<1>9. Numbered'
  BY <1>1, <1>5, <1>8 DEF Rest, Numbered, NumberedFor
<1>10. Connected'
  BY <1>1, <1>5, <1>6, <1>7 DEF Rest, Connected
<1>11. ASSUME NEW d \in Clients, ShutdownAwaited(d) PROVE ShutdownAwaited(d)'
  BY <1>1, <1>5, <1>6, <1>11 DEF ShutdownAwaited
<1>12. Asked' /\ GracefulMeansAsked'
  BY <1>1, <1>5, <1>11 DEF Rest, Asked, GracefulMeansAsked, In
<1> QED BY <1>9, <1>10, <1>12 DEF Rest

(* Steps in which messages are at most lost. *)
LEMMA LossKeepsRest ==
    ASSUME Parts, Rest, clients' = clients, sent' = sent, poweroff' = poweroff,
           On(backlog') \subseteq On(backlog), On(port') \subseteq On(port),
           \/ agent' = agent /\ conn' = conn
           \/ agent' = NoRequest /\ conn' = conn
           \/ agent' = NoRequest /\ port' = <<>>
    PROVE  Rest'
<1>1. AtAgent' \subseteq AtAgent /\ (conn' = conn \/ AtAgent' = {})
  BY EmptyOn DEF AtAgent
<1>2. Messages' \subseteq Messages
  BY <1>1 DEF Messages
<1>3. Numbered'
  BY <1>2 DEF Rest, Numbered, NumberedFor
<1>4. Connected'
  BY <1>1 DEF Rest, Connected
<1>5. ASSUME NEW d \in Clients, ShutdownAwaited(d) PROVE ShutdownAwaited(d)'
  BY <1>5 DEF ShutdownAwaited
<1>6. Asked' /\ GracefulMeansAsked'
  BY <1>5 DEF Rest, Asked, GracefulMeansAsked, In
<1> QED BY <1>3, <1>4, <1>6 DEF Rest

LEMMA AgentStartKeepsRest == ASSUME Parts, Rest, AgentStart PROVE Rest'
BY LossKeepsRest DEF AgentStart

LEMMA WriteFailsKeepsRest == ASSUME Parts, Rest, WriteFails PROVE Rest'
BY LossKeepsRest DEF WriteFails

LEMMA GuestDownKeepsRest == ASSUME Parts, Rest, GuestDown PROVE Rest'
<1>1. /\ UNCHANGED <<clients, sent, poweroff>>
      /\ agent' = NoRequest /\ backlog' = <<>> /\ port' = <<>>
  BY DEF GuestDown, QemuExits
<1> QED BY <1>1, LossKeepsRest, EmptyOn

LEMMA InitRest == Init => Rest
<1> SUFFICES ASSUME Init PROVE Rest
  OBVIOUS
<1>1. /\ \A c \in Clients : /\ clients[c].phase = "off" /\ ~clients[c].waiting
                            /\ clients[c].inbox = <<>> /\ clients[c].result = "none"
      /\ backlog = <<>> /\ port = <<>> /\ agent = NoRequest
  BY DEF Init, NewClient
<1>2. Messages = {}
  BY <1>1, EmptyOn DEF Messages, AtAgent
<1> QED BY <1>1, <1>2 DEF Rest, Numbered, Connected, Asked, GracefulMeansAsked, In

LEMMA NextKeepsRest == Parts /\ Rest /\ [Next]_vars => Rest'
<1> SUFFICES ASSUME Parts, Rest, [Next]_vars PROVE Rest'
  OBVIOUS
<1>1. ASSUME NEW c \in Clients,
             \/ Start(c) \/ Execute(c) \/ SendCut(c) \/ Receive(c) \/ Deadline(c) \/ HardStop(c)
      PROVE  Rest'
  BY <1>1, StartKeepsRest, SendKeepsRest, ConnectFailsKeepsRest, SendCutKeepsRest,
     SkipKeepsRest, TakeKeepsRest, RecvFailsKeepsRest, DeadlineKeepsRest, HardStopKeepsRest
     DEF Execute, Receive
<1>2. CASE UNCHANGED vars
  BY <1>2, LossKeepsRest DEF vars
<1> QED BY <1>1, <1>2, AcceptKeepsRest, AgentStartKeepsRest, BeginLineKeepsRest,
           SpoiledLineKeepsRest, ProcessLineKeepsRest, WriteReplyKeepsRest,
           WriteFailsKeepsRest, GuestDownKeepsRest DEF Next

(***************************************************************************)
(* While a client waits, its request and the reply to it are its own, and  *)
(* a shutdown it can report accepted has started the power-off.            *)
(***************************************************************************)
THEOREM GInvariance == Spec => []GInv
<1>1. Spec => []Parts
  BY InitParts, NextKeepsParts, PTL DEF Spec
<1>2. Spec => []Rest
  BY <1>1, InitRest, NextKeepsRest, PTL DEF Spec
<1>3. Parts /\ Rest => GInv
  BY CInvParts DEF Parts, Rest, GInv
<1> QED BY <1>1, <1>2, <1>3, PTL

(***************************************************************************)
(* GuestAgentClient.execute returns the reply to the request it sent, or   *)
(* to one of another process that has given up on it, however many clients *)
(* there are and however late the replies come.                            *)
(***************************************************************************)
THEOREM RepliesFit == Spec => RepliesMatch
<1>1. ASSUME Parts, Rest, NEW c \in Clients, Take(c)
      PROVE  Fits(c, Head(clients[c].inbox))
  <2> DEFINE r == Head(clients[c].inbox)
  <2>1. clients[c].inbox # <<>> /\ r.id = clients[c].id
    BY <1>1 DEF Take
  <2>2. clients[c].inbox \in Seq(Reply) /\ clients[c].waiting
    BY <1>1, <2>1, MessageTypes DEF Parts, ClientsOK
  <2>3. r \in On(clients[c].inbox) /\ r \in Messages
    BY <2>1, <2>2, TailOn DEF Messages
  <2>4. NumberedFor(c, r) /\ r.serial \in Nat /\ clients[c].since \in Nat /\ clients[c].id > 0
    BY <1>1, <2>2, <2>3, MessageTypes DEF Rest, Numbered
  <2> HIDE DEF r
  <2>5. ASSUME r.serial # clients[c].serial PROVE (r.from # c \/ r.serial <= clients[c].since) /\ ~Awaited(r)
    <3>1. r.from # c \/ r.serial <= clients[c].since
      BY <2>1, <2>4, <2>5 DEF NumberedFor, NoId
    <3>2. ~Awaited(r)
      BY <1>1, <2>3, <2>5 DEF Awaited, Rest, Connected
    <3> QED BY <3>1, <3>2
  <2> QED BY <2>5 DEF Fits, r
<1>2. ASSUME Parts, Rest
      PROVE  [\A c \in Clients : Take(c) => Fits(c, Head(clients[c].inbox))]_vars
  BY <1>1, <1>2
<1>3. Spec => []Parts
  BY InitParts, NextKeepsParts, PTL DEF Spec
<1>4. Spec => []Rest
  BY <1>3, InitRest, NextKeepsRest, PTL DEF Spec
<1> QED BY <1>2, <1>3, <1>4, PTL DEF RepliesMatch

(***************************************************************************)
(* shutdown_graceful reports a graceful end only if the agent has started  *)
(* the power-off, in a process that took no reply but its own.             *)
(***************************************************************************)
THEOREM GracefulWasAsked == Spec => []GracefulMeansAsked
<1>1. GInv => GracefulMeansAsked
  BY DEF GInv
<1> QED BY <1>1, GInvariance, PTL
=============================================================================
