-------------------------- MODULE QmpClient_proofs --------------------------
(***************************************************************************)
(* Proofs about QmpClient: types, AnswersLag and ReturnsLaggingPayload,    *)
(* for any number of commands and events.                                  *)
(*                                                                         *)
(* The argument.  The answers in toClient are in order, so the first one   *)
(* read is that to the oldest command of which none has been read.  Every  *)
(* command adds one at the end, through QEMU's queue; every execute() that *)
(* returns without having read an answer leaves one more behind.           *)
(***************************************************************************)
EXTENDS QmpClient, SequenceTheorems, TLAPS

-----------------------------------------------------------------------------
(* Taking the first element of a queue. *)
LEMMA HeadAndTail ==
    ASSUME NEW S, NEW q \in Seq(S), q # <<>>
    PROVE  /\ Tail(q) \in Seq(S) /\ Head(q) \in S /\ Head(q) = q[1]
           /\ Len(q) \in Nat /\ Len(q) > 0 /\ Len(Tail(q)) = Len(q) - 1
           /\ DOMAIN q = 1 .. Len(q) /\ DOMAIN Tail(q) = 1 .. Len(q) - 1
           /\ \A i \in 1 .. Len(q) - 1 : Tail(q)[i] = q[i + 1]
BY HeadTailProperties, LenProperties, EmptySeq

(***************************************************************************)
(* AnswersTo and the operations on the socket.                             *)
(***************************************************************************)

(* A message that is no answer may be appended. *)
LEMMA AppendOther ==
    ASSUME NEW s \in Seq(Message), NEW m \in Message, m.of = None,
           NEW first \in Nat, first > 0, NEW last \in Nat, AnswersTo(s, first, last)
    PROVE  AnswersTo(Append(s, m), first, last)
<1> DEFINE t == Append(s, m)
<1>1. /\ t \in Seq(Message) /\ DOMAIN t = 1 .. Len(s) + 1
      /\ \A i \in 1 .. Len(s) : t[i] = s[i]
      /\ t[Len(s) + 1] = m /\ Len(s) \in Nat /\ DOMAIN s = 1 .. Len(s)
  BY AppendProperties, LenProperties
<1> HIDE DEF t
<1>2. \A c \in first .. last : \E i \in DOMAIN t : t[i].of = c
  BY <1>1 DEF AnswersTo
<1>3. \A i \in DOMAIN t : t[i].of # None => t[i].of \in first .. last
  BY <1>1 DEF AnswersTo
<1>4. \A i, j \in DOMAIN t : i < j /\ t[i].of # None /\ t[j].of # None
                                => t[i].of < t[j].of
  BY <1>1 DEF AnswersTo
<1> QED BY <1>2, <1>3, <1>4 DEF AnswersTo, t

(* The answer to the next command extends the run of answers. *)
LEMMA AppendAnswer ==
    ASSUME NEW s \in Seq(Message), NEW m \in Message,
           NEW first \in Nat, first > 0, NEW last \in Nat, m.of = last + 1,
           first <= last + 1,
           AnswersTo(s, first, last)
    PROVE  AnswersTo(Append(s, m), first, last + 1)
<1> DEFINE t == Append(s, m)
<1>1. /\ t \in Seq(Message) /\ DOMAIN t = 1 .. Len(s) + 1
      /\ \A i \in 1 .. Len(s) : t[i] = s[i]
      /\ t[Len(s) + 1] = m /\ Len(s) \in Nat /\ DOMAIN s = 1 .. Len(s)
  BY AppendProperties, LenProperties
<1> HIDE DEF t
<1>2. \A c \in first .. last + 1 : \E i \in DOMAIN t : t[i].of = c
  BY <1>1 DEF AnswersTo
<1>3. \A i \in DOMAIN t : t[i].of # None => t[i].of \in first .. last + 1
  BY <1>1 DEF AnswersTo, None
<1>4. \A i, j \in DOMAIN t : i < j /\ t[i].of # None /\ t[j].of # None
                                => t[i].of < t[j].of
  <2>1. ASSUME NEW i \in DOMAIN t, NEW j \in DOMAIN t, i < j,
               t[i].of # None, t[j].of # None
        PROVE  t[i].of < t[j].of
    <3>1. i \in DOMAIN s /\ t[i].of = s[i].of /\ s[i].of \in first .. last
      BY <1>1, <2>1 DEF AnswersTo, None
    <3>2. CASE j \in DOMAIN s
      BY <1>1, <2>1, <3>1, <3>2 DEF AnswersTo, None
    <3>3. CASE j \notin DOMAIN s
      <4>1. t[j] = m
        BY <1>1, <3>3
      <4> QED BY <3>1, <4>1
    <3> QED BY <3>2, <3>3
  <2> QED BY <2>1
<1> QED BY <1>2, <1>3, <1>4 DEF AnswersTo, t

(* Reading a message that is no answer leaves the answers. *)
LEMMA ReadOther ==
    ASSUME NEW s \in Seq(Message), s # <<>>, Head(s).of = None,
           NEW first \in Nat, first > 0, NEW last \in Nat, AnswersTo(s, first, last)
    PROVE  AnswersTo(Tail(s), first, last)
<1> DEFINE t == Tail(s)
<1>1. /\ t \in Seq(Message) /\ DOMAIN t = 1 .. Len(s) - 1 /\ Len(s) \in Nat
      /\ \A i \in 1 .. Len(s) - 1 : t[i] = s[i + 1]
      /\ DOMAIN s = 1 .. Len(s) /\ s[1] = Head(s)
  BY HeadTailProperties, LenProperties
<1> HIDE DEF t
<1>2. ASSUME NEW c \in first .. last PROVE \E i \in DOMAIN t : t[i].of = c
  <2>1. PICK i \in DOMAIN s : s[i].of = c
    BY DEF AnswersTo
  <2>2. i # 1
    BY <2>1, <1>1 DEF None
  <2>3. i - 1 \in DOMAIN t /\ t[i - 1] = s[i]
    BY <2>1, <2>2, <1>1
  <2> QED BY <2>1, <2>3
<1>3. \A i \in DOMAIN t : t[i].of # None => t[i].of \in first .. last
  BY <1>1 DEF AnswersTo
<1>4. ASSUME NEW i \in DOMAIN t, NEW j \in DOMAIN t, i < j, t[i].of # None, t[j].of # None
      PROVE  t[i].of < t[j].of
  <2>1. /\ i + 1 \in DOMAIN s /\ j + 1 \in DOMAIN s /\ i + 1 < j + 1
        /\ s[i + 1] = t[i] /\ s[j + 1] = t[j]
    BY <1>1, <1>4
  <2> QED BY <2>1, <1>4 DEF AnswersTo
<1> QED BY <1>2, <1>3, <1>4 DEF AnswersTo, t

(* The first answer that is read is that to the first command. *)
LEMMA ReadAnswer ==
    ASSUME NEW s \in Seq(Message), s # <<>>, Head(s).of # None,
           NEW first \in Nat, first > 0, NEW last \in Nat, AnswersTo(s, first, last)
    PROVE  Head(s).of = first /\ first <= last /\ AnswersTo(Tail(s), first + 1, last)
<1> DEFINE t == Tail(s)
<1>1. /\ t \in Seq(Message) /\ DOMAIN t = 1 .. Len(s) - 1 /\ Len(s) \in Nat
      /\ \A i \in 1 .. Len(s) - 1 : t[i] = s[i + 1]
      /\ DOMAIN s = 1 .. Len(s) /\ s[1] = Head(s) /\ 1 \in DOMAIN s
  BY HeadTailProperties, LenProperties
<1> HIDE DEF t
<1>2. s[1].of \in first .. last
  BY <1>1 DEF AnswersTo
<1>3. PICK k \in DOMAIN s : s[k].of = first
  BY <1>2 DEF AnswersTo
<1>4. s[1].of = first
  <2>1. k \in Nat /\ s[k].of # None
    BY <1>1, <1>3 DEF None
  <2>2. CASE k = 1
    BY <1>3, <2>2
  <2>3. CASE 1 < k
    <3>1. s[1].of < s[k].of
      BY <1>1, <2>1, <2>3 DEF AnswersTo
    <3> QED BY <3>1, <1>2, <1>3
  <2> QED BY <2>1, <2>2, <2>3, <1>1
<1>5. ASSUME NEW c \in first + 1 .. last PROVE \E i \in DOMAIN t : t[i].of = c
  <2>1. PICK i \in DOMAIN s : s[i].of = c
    BY DEF AnswersTo
  <2>2. i # 1
    BY <2>1, <1>4
  <2>3. i - 1 \in DOMAIN t /\ t[i - 1] = s[i]
    BY <2>1, <2>2, <1>1
  <2> QED BY <2>1, <2>3
<1>6. ASSUME NEW i \in DOMAIN t, t[i].of # None PROVE t[i].of \in first + 1 .. last
  <2>1. i + 1 \in DOMAIN s /\ 1 < i + 1 /\ s[i + 1] = t[i]
    BY <1>1
  <2>2. s[i + 1].of \in first .. last /\ s[1].of < s[i + 1].of
    BY <2>1, <1>1, <1>6, <1>4 DEF AnswersTo, None
  <2> QED BY <2>1, <2>2, <1>4
<1>7. ASSUME NEW i \in DOMAIN t, NEW j \in DOMAIN t, i < j, t[i].of # None, t[j].of # None
      PROVE  t[i].of < t[j].of
  <2>1. /\ i + 1 \in DOMAIN s /\ j + 1 \in DOMAIN s /\ i + 1 < j + 1
        /\ s[i + 1] = t[i] /\ s[j + 1] = t[j]
    BY <1>1, <1>7
  <2> QED BY <2>1, <1>7 DEF AnswersTo
<1> QED BY <1>1, <1>2, <1>4, <1>5, <1>6, <1>7 DEF AnswersTo, t
(* Nothing is an answer in a socket with nothing to read, up to no command. *)
LEMMA NothingLeft ==
    ASSUME NEW first \in Nat, NEW last \in Int, last < first
    PROVE  AnswersTo(<<>>, first, last)
BY DEF AnswersTo

-----------------------------------------------------------------------------
(***************************************************************************)
(* Every action preserves the invariant.                                   *)
(***************************************************************************)
LEMMA QInit == Init => QInv
BY BoundsAssumption
   DEF Init, QInv, TypeOK, Handshake, MessagesOK, LeftInOrder, AnswersLag,
       ReturnsLaggingPayload, PCs, None, Err, Result

LEMMA ListenStep == QInv /\ Listen => QInv'
BY DEF QInv, Listen, TypeOK, Handshake, MessagesOK, LeftInOrder, AnswersLag,
       ReturnsLaggingPayload, Lag

LEMMA CloseStep == QInv /\ Close => QInv'
<1> SUFFICES ASSUME QInv, Close PROVE QInv'
  OBVIOUS
<1> USE DEF QInv, Close
<1>1. TypeOK'
  BY EmptySeq DEF TypeOK
<1>2. Handshake' /\ MessagesOK'
  BY DEF Handshake, MessagesOK
<1>3. LeftInOrder' /\ AnswersLag' /\ ReturnsLaggingPayload'
  BY DEF LeftInOrder, AnswersLag, ReturnsLaggingPayload, Lag
<1> QED BY <1>1, <1>2, <1>3

(* A message that is no answer arrives. *)
LEMMA SendEventStep == QInv /\ SendEvent => QInv'
<1> SUFFICES ASSUME QInv, SendEvent PROVE QInv'
  OBVIOUS
<1> USE DEF QInv, SendEvent
<1>0. /\ Event \in Message /\ Event.of = None /\ Event.kind = "event"
      /\ toClient \in Seq(Message) /\ sent \in Nat /\ late \in Nat /\ Len(toQemu) \in Nat
  BY BoundsAssumption, LenProperties DEF Event, Message, Kinds, TypeOK, Commands, None
<1>1. TypeOK'
  BY <1>0, AppendProperties, BoundsAssumption DEF TypeOK
<1>2. /\ Len(toClient) \in Nat /\ DOMAIN toClient' = 1 .. Len(toClient) + 1
      /\ DOMAIN toClient = 1 .. Len(toClient)
      /\ \A i \in 1 .. Len(toClient) : toClient'[i] = toClient[i]
      /\ toClient'[Len(toClient) + 1] = Event
  BY <1>0, <1>1, AppendProperties, LenProperties DEF TypeOK
<1>3. Handshake' /\ MessagesOK'
  BY <1>0, <1>2 DEF Handshake, MessagesOK
<1>4. LeftInOrder'
  <2> SUFFICES ASSUME pc \in {"idle", "reading"} PROVE LeftInOrder'
    BY DEF LeftInOrder
  <2>1. PICK last \in 0 .. sent : Lag <= sent /\ AnswersTo(toClient, sent - Lag + 1, last)
    BY DEF LeftInOrder
  <2>2. Lag \in Nat /\ sent - Lag + 1 \in Nat /\ sent - Lag + 1 > 0 /\ last \in Nat
    BY <1>0, <2>1 DEF Lag
  <2>3. AnswersTo(toClient', sent - Lag + 1, last)
    BY <1>0, <2>1, <2>2, AppendOther
  <2> QED BY <2>1, <2>3 DEF LeftInOrder, Lag
<1>5. AnswersLag'
  <2> SUFFICES ASSUME pc \in {"idle", "reading"}, qemu = "open" PROVE AnswersLag'
    BY DEF AnswersLag
  <2>2. /\ Lag \in Nat /\ sent - Lag + 1 \in Nat /\ sent - Lag + 1 > 0
        /\ sent - Len(toQemu) \in Nat
    BY <1>0 DEF Lag, AnswersLag
  <2>3. AnswersTo(toClient', sent - Lag + 1, sent - Len(toQemu))
    BY <1>0, <2>2, AppendOther DEF AnswersLag
  <2> QED BY <2>3 DEF AnswersLag, Lag
<1>6. ReturnsLaggingPayload'
  BY DEF ReturnsLaggingPayload
<1> QED BY <1>1, <1>3, <1>4, <1>5, <1>6

(* QEMU answers: the oldest command it has not answered is the next. *)
LEMMA AnswerStep ==
    ASSUME NEW kind \in {"return", "error"}, QInv, Answer(kind)
    PROVE  QInv'
<1> USE DEF QInv, Answer
<1> DEFINE m == [kind |-> kind, of |-> Head(toQemu)]
<1>0. /\ m \in Message /\ m.of = Head(toQemu) /\ m.of # None /\ m.of = toQemu[1]
      /\ toClient \in Seq(Message) /\ sent \in Nat /\ late \in Nat
      /\ Len(toQemu) \in Nat /\ Len(toQemu) > 0
      /\ DOMAIN toQemu = 1 .. Len(toQemu) /\ toQemu \in Seq(Commands)
      /\ Len(toQemu') = Len(toQemu) - 1 /\ DOMAIN toQemu' = 1 .. Len(toQemu) - 1
      /\ toQemu' \in Seq(Commands)
      /\ \A i \in 1 .. Len(toQemu) - 1 : toQemu'[i] = toQemu[i + 1]
  BY BoundsAssumption, LenProperties, HeadTailProperties, EmptySeq
     DEF Message, Kinds, TypeOK, Commands, None
<1>a. m.kind = kind
  OBVIOUS
<1>b. toClient' = Append(toClient, m)
  OBVIOUS
<1> HIDE DEF m
<1>1. TypeOK'
  BY <1>0, <1>b, AppendProperties DEF TypeOK
<1>2. /\ Len(toClient) \in Nat /\ DOMAIN toClient' = 1 .. Len(toClient) + 1
      /\ DOMAIN toClient = 1 .. Len(toClient)
      /\ \A i \in 1 .. Len(toClient) : toClient'[i] = toClient[i]
      /\ toClient'[Len(toClient) + 1] = m
  BY <1>0, <1>b, <1>1, AppendProperties, LenProperties DEF TypeOK
<1>3. Handshake' /\ MessagesOK'
  <2>1. pc \notin {"connect", "greeting"}
    BY <1>0 DEF Handshake
  <2> QED BY <1>0, <1>2, <2>1 DEF Handshake, MessagesOK
<1>5. CASE pc \in {"idle", "reading"}
  <2>1. /\ Lag \in Nat /\ Lag' = Lag /\ sent - Lag + 1 \in Nat /\ sent - Lag + 1 > 0
        /\ sent - Len(toQemu) \in Nat /\ m.of = (sent - Len(toQemu)) + 1
        /\ sent - Lag + 1 <= (sent - Len(toQemu)) + 1
        /\ AnswersTo(toClient, sent - Lag + 1, sent - Len(toQemu))
    <3>1. Lag \in Nat /\ Lag' = Lag
      BY <1>0 DEF Lag
    <3>2. /\ Lag <= sent /\ Len(toQemu) <= Lag
          /\ AnswersTo(toClient, sent - Lag + 1, sent - Len(toQemu))
          /\ 1 \in DOMAIN toQemu /\ toQemu[1] = (sent - Len(toQemu)) + 1
      BY <1>0, <1>5 DEF AnswersLag
    <3> QED BY <1>0, <3>1, <3>2
  <2>2. AnswersTo(toClient', sent - Lag + 1, (sent - Len(toQemu)) + 1)
    BY <1>0, <1>b, <2>1, AppendAnswer
  <2>3. sent' - Len(toQemu') = (sent - Len(toQemu)) + 1 /\ sent' = sent /\ Lag' = Lag
    BY <1>0, <2>1
  <2>4. AnswersTo(toClient', sent' - Lag' + 1, sent' - Len(toQemu'))
    BY <2>2, <2>3
  <2>5. LeftInOrder'
    <3>1. sent' - Len(toQemu') \in 0 .. sent'
      BY <1>0, <2>1, <2>3
    <3>2. Lag' <= sent'
      BY <1>5 DEF AnswersLag, Lag
    <3> QED BY <2>4, <3>1, <3>2 DEF LeftInOrder
  <2>6. Lag' <= sent' /\ Len(toQemu') <= Lag'
    BY <1>0, <1>5, <2>1 DEF AnswersLag
  <2>7. \A i \in DOMAIN toQemu' : toQemu'[i] = (sent' - Len(toQemu')) + i
    <3> SUFFICES ASSUME NEW i \in DOMAIN toQemu'
                 PROVE  toQemu'[i] = (sent' - Len(toQemu')) + i
      OBVIOUS
    <3>1. i \in Nat /\ i + 1 \in DOMAIN toQemu /\ toQemu'[i] = toQemu[i + 1]
      BY <1>0
    <3>2. toQemu[i + 1] = (sent - Len(toQemu)) + (i + 1)
      BY <3>1, <1>5 DEF AnswersLag
    <3> QED BY <1>0, <2>3, <3>1, <3>2
  <2>8. AnswersLag'
    BY <2>4, <2>6, <2>7 DEF AnswersLag
  <2> QED BY <1>1, <1>3, <2>5, <2>8 DEF ReturnsLaggingPayload
<1>6. CASE pc \notin {"idle", "reading"}
  BY <1>1, <1>3, <1>6 DEF LeftInOrder, AnswersLag, ReturnsLaggingPayload
<1> QED BY <1>5, <1>6

LEMMA ConnectStep == QInv /\ Connect => QInv'
<1> SUFFICES ASSUME QInv, Connect PROVE QInv'
  OBVIOUS
<1> USE DEF QInv, Connect
<1>1. Greeting \in Message /\ Greeting.of = None /\ Greeting.kind = "greeting"
  BY DEF Greeting, Message, Kinds, None
<1>2. toClient' \in Seq(Message) /\ DOMAIN toClient' = 1 .. 1 /\ toClient'[1] = Greeting
  BY <1>1
<1>3. TypeOK'
  BY <1>2 DEF TypeOK, PCs
<1>4. Handshake' /\ MessagesOK'
  BY <1>1, <1>2 DEF Handshake, MessagesOK
<1> QED BY <1>3, <1>4 DEF LeftInOrder, AnswersLag, ReturnsLaggingPayload

LEMMA ConnectTimeoutStep == QInv /\ ConnectTimeout => QInv'
BY DEF QInv, ConnectTimeout, TypeOK, PCs, Handshake, MessagesOK, LeftInOrder, AnswersLag,
       ReturnsLaggingPayload
(***************************************************************************)
(* Sending a command puts it at the end of QEMU's queue: the client is one *)
(* answer further behind.                                                  *)
(***************************************************************************)
LEMMA SendKeeps ==
    ASSUME QInv, Send, pc # "reading", sent < MaxCommands, qemu' = qemu, late' = late,
           toClient' \in Seq(Message), events' = events,
           MessagesOK',
           Lag <= sent, Len(toQemu) <= Lag,
           AnswersTo(toClient', sent - Lag + 1, sent - Len(toQemu)),
           \A i \in DOMAIN toQemu : toQemu[i] = (sent - Len(toQemu)) + i
    PROVE  QInv'
<1> USE DEF QInv, Send
<1>0. /\ sent \in Nat /\ late \in Nat /\ Len(toQemu) \in Nat /\ toQemu \in Seq(Commands)
      /\ DOMAIN toQemu = 1 .. Len(toQemu) /\ sent + 1 \in Commands /\ sent' = sent + 1
      /\ MaxCommands \in Nat
  BY BoundsAssumption, LenProperties DEF TypeOK, Commands, None
<1>1. /\ toQemu' \in Seq(Commands) /\ Len(toQemu') = Len(toQemu) + 1
      /\ DOMAIN toQemu' = 1 .. Len(toQemu) + 1
      /\ \A i \in 1 .. Len(toQemu) : toQemu'[i] = toQemu[i]
      /\ toQemu'[Len(toQemu) + 1] = sent + 1
  BY <1>0, AppendProperties, LenProperties
<1>2. TypeOK'
  BY <1>0, <1>1 DEF TypeOK, PCs
<1>3. Handshake' /\ MessagesOK'
  BY <1>0 DEF Handshake, MessagesOK, None
<1>4. Lag \in Nat /\ Lag' = Lag + 1
  BY <1>0 DEF Lag
<1>5. /\ sent' - Lag' + 1 = sent - Lag + 1
      /\ sent' - Len(toQemu') = sent - Len(toQemu)
  BY <1>0, <1>1, <1>4
<1>6. AnswersTo(toClient', sent' - Lag' + 1, sent' - Len(toQemu'))
  BY <1>5
<1>7. LeftInOrder'
  <2>1. sent' - Len(toQemu') \in 0 .. sent' /\ Lag' <= sent'
    BY <1>0, <1>1, <1>4
  <2> QED BY <1>6, <2>1 DEF LeftInOrder
<1>8. \A i \in DOMAIN toQemu' : toQemu'[i] = (sent' - Len(toQemu')) + i
  BY <1>0, <1>1, <1>5
<1>9. AnswersLag'
  <2>1. Lag' <= sent' /\ Len(toQemu') <= Lag'
    BY <1>0, <1>1, <1>4
  <2> QED BY <1>6, <1>8, <2>1 DEF AnswersLag
<1> QED BY <1>2, <1>3, <1>7, <1>9 DEF ReturnsLaggingPayload

(* The greeting and the events before it are no answers. *)
LEMMA ReadGreetingStep == QInv /\ ReadGreeting => QInv'
<1> SUFFICES ASSUME QInv, ReadGreeting PROVE QInv'
  OBVIOUS
<1> USE DEF QInv, ReadGreeting
<1>0. /\ toClient \in Seq(Message) /\ toClient' \in Seq(Message)
      /\ sent = 0 /\ late = 0 /\ toQemu = <<>> /\ Len(toQemu) = 0 /\ Lag = 0
      /\ Len(toClient) \in Nat /\ DOMAIN toClient = 1 .. Len(toClient)
      /\ DOMAIN toClient' = 1 .. Len(toClient) - 1
      /\ \A i \in 1 .. Len(toClient) - 1 : toClient'[i] = toClient[i + 1]
  BY LenProperties, HeadTailProperties DEF TypeOK, Handshake, None, Lag
<1>1. MessagesOK' /\ \A i \in DOMAIN toClient' : toClient'[i].of = None
  BY <1>0 DEF Handshake, MessagesOK
<1>2. CASE Send
  <2>1. AnswersTo(toClient', sent - Lag + 1, sent - Len(toQemu))
    BY <1>0, <1>1 DEF AnswersTo
  <2>2. sent < MaxCommands
    BY <1>0, BoundsAssumption
  <2> QED BY <1>0, <1>1, <1>2, <2>1, <2>2, SendKeeps
<1>3. CASE SendFails("failed")
  BY <1>0, <1>1, <1>3 DEF SendFails, TypeOK, PCs, Result, Err, Handshake, MessagesOK,
     LeftInOrder, AnswersLag, ReturnsLaggingPayload
<1> QED BY <1>2, <1>3

LEMMA ExecuteStep == QInv /\ Execute => QInv'
<1> SUFFICES ASSUME QInv, Execute PROVE QInv'
  OBVIOUS
<1> USE DEF QInv, Execute
<1>1. CASE Send
  BY <1>1, SendKeeps DEF Send, AnswersLag, TypeOK, MessagesOK
<1>2. CASE SendFails("idle")
  BY <1>2 DEF SendFails, TypeOK, PCs, Result, Err, Handshake, MessagesOK,
     LeftInOrder, AnswersLag, ReturnsLaggingPayload, Lag
<1> QED BY <1>1, <1>2
(***************************************************************************)
(* What is left after a message has been taken.                            *)
(***************************************************************************)
LEMMA TailMessages ==
    ASSUME TypeOK, MessagesOK, toClient # <<>>, toClient' = Tail(toClient)
    PROVE  /\ toClient' \in Seq(Message) /\ MessagesOK' /\ Head(toClient) \in Message
           /\ Head(toClient).kind \in {"return", "error"} => Head(toClient).of # None
           /\ Head(toClient).kind = "event" => Head(toClient).of = None
<1>1. /\ toClient \in Seq(Message) /\ toClient' \in Seq(Message)
      /\ Head(toClient) \in Message
      /\ Len(toClient) \in Nat /\ DOMAIN toClient = 1 .. Len(toClient)
      /\ DOMAIN toClient' = 1 .. Len(toClient) - 1
      /\ \A i \in 1 .. Len(toClient) - 1 : toClient'[i] = toClient[i + 1]
      /\ 1 \in DOMAIN toClient /\ Head(toClient) = toClient[1]
  BY LenProperties, HeadTailProperties, EmptySeq DEF TypeOK
<1> QED BY <1>1 DEF MessagesOK

(* An answer is read: execute() returns and the client is as far behind as
   it was before it sent the command. *)
LEMMA TakeAnswer ==
    ASSUME QInv, pc = "reading", toClient # <<>>, Head(toClient).of # None,
           toClient' = Tail(toClient), NEW r \in Result, Return(r),
           r.ok => r.of = Head(toClient).of,
           UNCHANGED <<sent, toQemu, qemu, events, late>>
    PROVE  QInv'
<1> USE DEF QInv, Return
<1>0. /\ toClient \in Seq(Message) /\ toClient' \in Seq(Message) /\ MessagesOK'
      /\ sent \in Nat /\ late \in Nat /\ sent > 0 /\ Len(toQemu) \in Nat
      /\ pc' \in {"idle", "failed"} /\ (pc' = "failed" => ~r.ok)
  BY TailMessages, BoundsAssumption, LenProperties DEF TypeOK, Commands, None, Handshake
<1>1. TypeOK'
  BY <1>0 DEF TypeOK, PCs
<1>2. Handshake'
  BY <1>0 DEF Handshake
<1>3. Lag = late + 1 /\ Lag' = late
  BY <1>0 DEF Lag
<1>4. /\ sent - Lag + 1 \in Nat /\ sent - Lag + 1 > 0
      /\ sent' - Lag' + 1 = (sent - Lag + 1) + 1
      /\ sent' - Lag' = sent - Lag + 1
  BY <1>0, <1>3 DEF LeftInOrder
<1>5. PICK last \in 0 .. sent : Lag <= sent /\ AnswersTo(toClient, sent - Lag + 1, last)
  BY DEF LeftInOrder
<1>6. /\ Head(toClient).of = sent - Lag + 1
      /\ AnswersTo(toClient', (sent - Lag + 1) + 1, last)
  BY <1>0, <1>4, <1>5, ReadAnswer
<1>7. LeftInOrder'
  <2>1. Lag' <= sent' /\ last \in 0 .. sent'
    BY <1>0, <1>3, <1>5
  <2>2. AnswersTo(toClient', sent' - Lag' + 1, last)
    BY <1>4, <1>6
  <2> QED BY <2>1, <2>2 DEF LeftInOrder
<1>8. AnswersLag'
  <2> SUFFICES ASSUME qemu = "open" PROVE AnswersLag'
    BY DEF AnswersLag
  <2>1. /\ sent - Len(toQemu) \in Nat /\ Len(toQemu) <= Lag
        /\ AnswersTo(toClient, sent - Lag + 1, sent - Len(toQemu))
        /\ \A i \in DOMAIN toQemu : toQemu[i] = (sent - Len(toQemu)) + i
    BY <1>0, <1>3 DEF AnswersLag
  <2>2. /\ sent - Lag + 1 <= sent - Len(toQemu)
        /\ AnswersTo(toClient', (sent - Lag + 1) + 1, sent - Len(toQemu))
    BY <1>0, <1>4, <2>1, ReadAnswer
  <2>3. AnswersTo(toClient', sent' - Lag' + 1, sent' - Len(toQemu'))
    BY <1>4, <2>2
  <2>4. Lag' <= sent' /\ Len(toQemu') <= Lag'
    BY <1>0, <1>3, <1>5, <2>2
  <2> QED BY <2>1, <2>3, <2>4 DEF AnswersLag
<1>9. ReturnsLaggingPayload'
  <2>1. r.ok => r.of = sent' - late'
    BY <1>0, <1>3, <1>4, <1>6
  <2> QED BY <2>1 DEF ReturnsLaggingPayload
<1> QED BY <1>0, <1>1, <1>2, <1>7, <1>8, <1>9

(* execute() gives up although no answer was read, on the rest of an event:
   the client is one more behind for good. *)
LEMMA TakeTornEvent ==
    ASSUME QInv, pc = "reading", toClient # <<>>, Head(toClient).of = None,
           toClient' = Tail(toClient), Return(Err), late' = late + 1,
           UNCHANGED <<sent, toQemu, qemu, events>>
    PROVE  QInv'
<1> USE DEF QInv, Return
<1>0. /\ toClient \in Seq(Message) /\ toClient' \in Seq(Message) /\ MessagesOK'
      /\ sent \in Nat /\ late \in Nat /\ sent > 0 /\ Len(toQemu) \in Nat
      /\ pc' \in {"idle", "failed"}
  BY TailMessages, BoundsAssumption, LenProperties DEF TypeOK, Commands, None, Handshake
<1>1. TypeOK' /\ Handshake' /\ ReturnsLaggingPayload'
  BY <1>0 DEF TypeOK, PCs, Result, Err, None, Handshake, ReturnsLaggingPayload
<1>2. Lag \in Nat /\ Lag' = Lag
  BY <1>0 DEF Lag
<1>3. PICK last \in 0 .. sent : Lag <= sent /\ AnswersTo(toClient, sent - Lag + 1, last)
  BY DEF LeftInOrder
<1>4. sent - Lag + 1 \in Nat /\ sent - Lag + 1 > 0
  BY <1>0, <1>2, <1>3
<1>5. LeftInOrder'
  BY <1>0, <1>2, <1>3, <1>4, ReadOther DEF LeftInOrder
<1>6. AnswersLag'
  <2> SUFFICES ASSUME qemu = "open" PROVE AnswersLag'
    BY DEF AnswersLag
  <2>1. /\ sent - Len(toQemu) \in Nat /\ Len(toQemu) <= Lag
        /\ AnswersTo(toClient, sent - Lag + 1, sent - Len(toQemu))
    BY <1>0, <1>2, <1>3 DEF AnswersLag
  <2>2. AnswersTo(toClient', sent - Lag + 1, sent - Len(toQemu))
    BY <1>0, <1>4, <2>1, ReadOther
  <2> QED BY <1>2, <2>1, <2>2 DEF AnswersLag
<1> QED BY <1>0, <1>1, <1>5, <1>6

(* An event is passed over. *)
LEMMA TakeEvent ==
    ASSUME QInv, pc = "reading", toClient # <<>>, Head(toClient).of = None,
           toClient' = Tail(toClient),
           UNCHANGED <<pc, sent, toQemu, qemu, events, late, result>>
    PROVE  QInv'
<1> USE DEF QInv
<1>0. /\ toClient \in Seq(Message) /\ toClient' \in Seq(Message) /\ MessagesOK'
      /\ sent \in Nat /\ late \in Nat /\ sent > 0 /\ Len(toQemu) \in Nat
  BY TailMessages, BoundsAssumption, LenProperties DEF TypeOK, Commands, None, Handshake
<1>1. TypeOK' /\ Handshake' /\ ReturnsLaggingPayload'
  BY <1>0 DEF TypeOK, Handshake, ReturnsLaggingPayload
<1>2. Lag \in Nat /\ Lag' = Lag
  BY <1>0 DEF Lag
<1>3. PICK last \in 0 .. sent : Lag <= sent /\ AnswersTo(toClient, sent - Lag + 1, last)
  BY DEF LeftInOrder
<1>4. sent - Lag + 1 \in Nat /\ sent - Lag + 1 > 0
  BY <1>0, <1>2, <1>3
<1>5. LeftInOrder'
  BY <1>0, <1>2, <1>3, <1>4, ReadOther DEF LeftInOrder
<1>6. AnswersLag'
  <2> SUFFICES ASSUME qemu = "open" PROVE AnswersLag'
    BY DEF AnswersLag
  <2>1. /\ sent - Len(toQemu) \in Nat /\ Len(toQemu) <= Lag
        /\ AnswersTo(toClient, sent - Lag + 1, sent - Len(toQemu))
    BY <1>0, <1>2, <1>3 DEF AnswersLag
  <2>2. AnswersTo(toClient', sent - Lag + 1, sent - Len(toQemu))
    BY <1>0, <1>4, <2>1, ReadOther
  <2> QED BY <1>2, <2>1, <2>2 DEF AnswersLag
<1> QED BY <1>0, <1>1, <1>5, <1>6

LEMMA ReadMessageStep == QInv /\ ReadMessage => QInv'
<1> SUFFICES ASSUME QInv, ReadMessage PROVE QInv'
  OBVIOUS
<1> USE DEF ReadMessage
<1> DEFINE m == Head(toClient)
<1>0. /\ m \in Message /\ (m.kind \in {"return", "error"} => m.of # None)
      /\ (m.kind = "event" => m.of = None)
  BY TailMessages DEF QInv
<1>1. CASE m.kind = "return" /\ Return([ok |-> TRUE, of |-> m.of]) /\ UNCHANGED late
  <2>1. [ok |-> TRUE, of |-> m.of] \in Result
    BY <1>0 DEF Message, Result
  <2> QED BY <1>0, <1>1, <2>1, TakeAnswer
<1>2. CASE m.kind \in {"error", "torn"} /\ Return(Err)
           /\ late' = IF m.of = None THEN late + 1 ELSE late
  <2>1. Err \in Result /\ ~Err.ok
    BY DEF Err, Result
  <2>2. CASE m.of = None
    BY <1>2, <2>2, TakeTornEvent
  <2>3. CASE m.of # None
    BY <1>2, <2>1, <2>3, TakeAnswer
  <2> QED BY <2>2, <2>3
<1>3. CASE m.kind = "event" /\ UNCHANGED <<pc, result, late>>
  BY <1>0, <1>3, TakeEvent
<1> QED BY <1>1, <1>2, <1>3
(***************************************************************************)
(* A timeout: the answer is still to come, so one more is left behind.  A  *)
(* torn answer is the next one of QEMU's queue, a torn event is none.      *)
(***************************************************************************)
LEMMA ReadTimeoutStep == QInv /\ ReadTimeout => QInv'
<1> SUFFICES ASSUME QInv, ReadTimeout PROVE QInv'
  OBVIOUS
<1> USE DEF QInv, ReadTimeout
<1>0. /\ sent \in Nat /\ late \in Nat /\ Len(toQemu) \in Nat /\ toQemu \in Seq(Commands)
      /\ DOMAIN toQemu = 1 .. Len(toQemu) /\ Err \in Result /\ ~Err.ok
  BY BoundsAssumption, LenProperties DEF TypeOK, Commands, None, Err, Result
<1>a. /\ toClient' \in Seq(Message) /\ MessagesOK'
      /\ toQemu' \in Seq(Commands) /\ events' \in 0 .. MaxEvents
  <2>1. CASE UNCHANGED <<toClient, toQemu, events>>
    BY <2>1 DEF TypeOK, MessagesOK
  <2>2. CASE /\ toQemu # <<>>
             /\ toClient' = <<[kind |-> "torn", of |-> Head(toQemu)]>>
             /\ toQemu' = Tail(toQemu) /\ UNCHANGED events
    <3>1. [kind |-> "torn", of |-> Head(toQemu)] \in Message /\ toQemu' \in Seq(Commands)
      BY <1>0, <2>2, HeadTailProperties DEF Message, Kinds
    <3> QED BY <2>2, <3>1 DEF TypeOK, MessagesOK
  <2>3. CASE /\ events < MaxEvents
             /\ toClient' = <<[kind |-> "torn", of |-> None]>>
             /\ events' = events + 1 /\ UNCHANGED toQemu
    <3>1. [kind |-> "torn", of |-> None] \in Message
      BY DEF Message, Kinds
    <3> QED BY <2>3, <3>1, BoundsAssumption DEF TypeOK, MessagesOK
  <2> QED BY <2>1, <2>2, <2>3
<1>1. CASE pc = "greeting"
  BY <1>0, <1>a, <1>1 DEF TypeOK, PCs, Handshake, LeftInOrder, AnswersLag,
     ReturnsLaggingPayload
<1>2. CASE pc = "reading"
  <2>1. /\ pc' \in {"idle", "failed"} /\ ~result'.ok /\ result' \in Result
        /\ qemu = "open" /\ sent # None /\ late' = late + 1
    BY <1>0, <1>2 DEF Return, Handshake
  <2>2. TypeOK' /\ Handshake' /\ ReturnsLaggingPayload'
    BY <1>0, <1>a, <2>1 DEF TypeOK, PCs, Handshake, ReturnsLaggingPayload
  <2>3. Lag = late + 1 /\ Lag' = Lag
    BY <1>0, <1>2, <2>1 DEF Lag
  <2>4. /\ Lag <= sent /\ Len(toQemu) <= Lag
        /\ AnswersTo(<<>>, sent - Lag + 1, sent - Len(toQemu))
        /\ \A i \in DOMAIN toQemu : toQemu[i] = (sent - Len(toQemu)) + i
    BY <1>2, <2>1 DEF AnswersLag
  <2>5. /\ AnswersTo(toClient', sent - Lag + 1, sent - Len(toQemu'))
        /\ Len(toQemu') <= Lag /\ Len(toQemu') \in Nat
        /\ \A i \in DOMAIN toQemu' : toQemu'[i] = (sent - Len(toQemu')) + i
    <3>1. CASE UNCHANGED <<toClient, toQemu, events>>
      BY <2>4, <3>1, <1>0
    <3>2. CASE /\ toQemu # <<>>
               /\ toClient' = <<[kind |-> "torn", of |-> Head(toQemu)]>>
               /\ toQemu' = Tail(toQemu) /\ UNCHANGED events
      <4> DEFINE m == [kind |-> "torn", of |-> Head(toQemu)]
      <4>1. /\ Len(toQemu) > 0 /\ Len(toQemu') = Len(toQemu) - 1
            /\ DOMAIN toQemu' = 1 .. Len(toQemu) - 1
            /\ \A i \in 1 .. Len(toQemu) - 1 : toQemu'[i] = toQemu[i + 1]
            /\ Head(toQemu) = toQemu[1] /\ Head(toQemu) \in Commands
        <5>1. toQemu' = Tail(toQemu) /\ toQemu # <<>> /\ toQemu \in Seq(Commands)
          BY <1>0, <3>2
        <5> HIDE DEF QInv, ReadTimeout
        <5> QED BY <5>1, HeadAndTail
      <4>2. m \in Message /\ m.of = (sent - Len(toQemu)) + 1
        <5>1. 1 \in DOMAIN toQemu
          BY <1>0, <4>1
        <5>2. Head(toQemu) = (sent - Len(toQemu)) + 1
          BY <2>4, <4>1, <5>1
        <5>3. m \in Message
          BY <4>1 DEF Message, Kinds
        <5> QED BY <5>2, <5>3
      <4>3. toClient' = Append(<<>>, m) /\ <<>> \in Seq(Message)
        BY <3>2
      <4> HIDE DEF m
      <4>4. AnswersTo(toClient', sent - Lag + 1, (sent - Len(toQemu)) + 1)
        <5>1. /\ sent - Lag + 1 \in Nat /\ sent - Lag + 1 > 0 /\ sent - Len(toQemu) \in Nat
              /\ sent - Lag + 1 <= (sent - Len(toQemu)) + 1
          BY <1>0, <2>3, <2>4
        <5> QED BY <2>4, <4>1, <4>2, <4>3, <5>1, AppendAnswer
      <4>5. sent - Len(toQemu') = (sent - Len(toQemu)) + 1
        BY <1>0, <4>1
      <4>6. ASSUME NEW i \in DOMAIN toQemu' PROVE toQemu'[i] = (sent - Len(toQemu')) + i
        <5>1. i \in Nat /\ i + 1 \in DOMAIN toQemu /\ toQemu'[i] = toQemu[i + 1]
          BY <1>0, <4>1
        <5>2. toQemu[i + 1] = (sent - Len(toQemu)) + (i + 1)
          BY <5>1, <2>4
        <5>3. sent - Len(toQemu) \in Int
          BY <1>0, <4>1
        <5>4. \A n \in Int : n + (i + 1) = (n + 1) + i
          BY <5>1
        <5>5. (sent - Len(toQemu)) + (i + 1) = ((sent - Len(toQemu)) + 1) + i
          BY <5>3, <5>4, Zenon
        <5> QED BY <4>5, <5>1, <5>2, <5>5, Zenon
      <4> QED BY <1>0, <2>3, <2>4, <4>1, <4>4, <4>5, <4>6
    <3>3. CASE /\ events < MaxEvents
               /\ toClient' = <<[kind |-> "torn", of |-> None]>>
               /\ events' = events + 1 /\ UNCHANGED toQemu
      <4> DEFINE m == [kind |-> "torn", of |-> None]
      <4>1. m \in Message /\ m.of = None /\ toClient' = Append(<<>>, m) /\ <<>> \in Seq(Message)
        BY <3>3 DEF Message, Kinds
      <4> HIDE DEF m
      <4>2. sent - Lag + 1 \in Nat /\ sent - Lag + 1 > 0 /\ sent - Len(toQemu) \in Nat
        BY <1>0, <2>3, <2>4
      <4>3. AnswersTo(toClient', sent - Lag + 1, sent - Len(toQemu))
        BY <2>4, <4>1, <4>2, AppendOther
      <4> QED BY <1>0, <2>4, <3>3, <4>3
    <3> QED BY <3>1, <3>2, <3>3
  <2>6. AnswersLag'
    BY <2>3, <2>4, <2>5 DEF AnswersLag
  <2>7. LeftInOrder'
    <3>1. sent - Len(toQemu') \in 0 .. sent
      BY <1>0, <2>3, <2>4, <2>5
    <3> QED BY <2>3, <2>4, <2>5, <3>1 DEF LeftInOrder
  <2> QED BY <1>a, <2>2, <2>6, <2>7
<1> QED BY <1>1, <1>2

LEMMA ReadClosedStep == QInv /\ ReadClosed => QInv'
<1> SUFFICES ASSUME QInv, ReadClosed PROVE QInv'
  OBVIOUS
<1> USE DEF QInv, ReadClosed
<1>0. /\ sent \in Nat /\ late \in Nat /\ Err \in Result /\ ~Err.ok
      /\ pc' \in {"idle", "failed"} /\ (pc' = "idle" => pc = "reading")
  BY BoundsAssumption DEF TypeOK, Commands, None, Err, Result, Return
<1>1. TypeOK'
  BY <1>0 DEF TypeOK, PCs, Return
<1>2. Handshake' /\ MessagesOK'
  BY <1>0 DEF Handshake, MessagesOK
<1>3. LeftInOrder'
  <2> SUFFICES ASSUME pc' = "idle" PROVE LeftInOrder'
    BY <1>0 DEF LeftInOrder
  <2>1. Lag' = late /\ Lag = late + 1 /\ Lag <= sent
    BY <1>0 DEF Lag, LeftInOrder
  <2>2. sent' - Lag' + 1 \in Nat /\ 0 < sent' - Lag' + 1
    BY <1>0, <2>1
  <2>3. AnswersTo(toClient', sent' - Lag' + 1, 0)
    BY <2>2, NothingLeft
  <2> QED BY <1>0, <2>1, <2>3 DEF LeftInOrder
<1>4. AnswersLag' /\ ReturnsLaggingPayload'
  <2>1. pc' = "idle" => ~result'.ok
    BY <1>0 DEF Return
  <2> QED BY <2>1 DEF AnswersLag, ReturnsLaggingPayload
<1> QED BY <1>1, <1>2, <1>3, <1>4

-----------------------------------------------------------------------------
(***************************************************************************)
(* The invariant holds in every reachable state, however many commands     *)
(* and events there are.                                                   *)
(***************************************************************************)
LEMMA QStep == QInv /\ [Next]_vars => QInv'
<1> SUFFICES ASSUME QInv, [Next]_vars PROVE QInv'
  OBVIOUS
<1>1. CASE Qemu
  BY <1>1, ListenStep, AnswerStep, SendEventStep, CloseStep DEF Qemu
<1>2. CASE Client
  BY <1>2, ConnectStep, ConnectTimeoutStep, ReadGreetingStep, ReadMessageStep,
     ReadTimeoutStep, ReadClosedStep DEF Client
<1>3. CASE Execute
  BY <1>3, ExecuteStep
<1>4. CASE UNCHANGED vars
  BY <1>4 DEF vars, QInv, TypeOK, Handshake, MessagesOK, LeftInOrder, AnswersLag,
     ReturnsLaggingPayload, Lag
<1> QED BY <1>1, <1>2, <1>3, <1>4 DEF Next, Finished

(***************************************************************************)
(* The inductive invariant of the client and its connection (qmp.rs), the  *)
(* types of all variables among it.                                        *)
(***************************************************************************)
THEOREM ConnectionInvariance == Spec => []QInv
<1>1. Init => QInv
  BY QInit
<1>2. QInv /\ [Next]_vars => QInv'
  BY QStep
<1> QED BY <1>1, <1>2, PTL DEF Spec

(***************************************************************************)
(* The answers that are still to be read are those to the last commands,   *)
(* one for every execute() that gave up and one for that in progress: the  *)
(* client never catches up, and never falls behind further than that.      *)
(***************************************************************************)
THEOREM NeverCatchesUp == Spec => []AnswersLag
<1>1. QInv => AnswersLag
  BY DEF QInv
<1> QED BY <1>1, ConnectionInvariance, PTL

(***************************************************************************)
(* Ok of execute() is the payload of the command sent as many commands     *)
(* earlier as execute() has given up; a client that never timed out gets   *)
(* the payload of its own command.                                         *)
(***************************************************************************)
THEOREM PayloadLags == Spec => []ReturnsLaggingPayload
<1>1. QInv => ReturnsLaggingPayload
  BY DEF QInv
<1> QED BY <1>1, ConnectionInvariance, PTL
=============================================================================
