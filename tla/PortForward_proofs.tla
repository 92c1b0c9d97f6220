------------------------- MODULE PortForward_proofs -------------------------
(***************************************************************************)
(* Proofs about PortForward, for any VMs, command lines and rules: what    *)
(* the caller of hostfwd_add and hostfwd_remove concludes from the answers *)
(* is so, and a rule can be removed with the arguments it was added with.  *)
(***************************************************************************)
EXTENDS PortForward, TLAPS, FiniteSetTheorems, WellFoundedInduction

-----------------------------------------------------------------------------
(* What QEMU is given is a set of rules of Given. *)
LEMMA StartGiven ==
    ASSUME NEW a \in Args
    PROVE  NetArgs(a).id \in Ids /\ ToSet(NetArgs(a).rules) \in SUBSET Given
BY DEF Ids, Given

(* A rule is known by the address that a call about it names. *)
LEMMA ForwardFacts ==
    ASSUME NEW f \in Forwards
    PROVE  /\ AddressOf(f) \in Address /\ ToHostfwd(f) \in Given
           /\ ToHostfwd(f) = [at |-> AddressOf(f), guest |-> f.guest]
           /\ ToHostfwd(f).at = AddressOf(f)
<1>1. f \in Forward
  BY ForwardsAssumption
<1>2. HostIp(f) \in HostIps
  BY <1>1 DEF Forward, HostIp, HostIps
<1>3. AddressOf(f) \in Address
  BY <1>1, <1>2 DEF Forward, AddressOf, Address
<1>4. ToHostfwd(f) \in Given
  BY DEF Given
<1> QED BY <1>3, <1>4 DEF ToHostfwd

(***************************************************************************)
(* The types, in a form that names the sets once.                          *)
(***************************************************************************)
Qemus == [up : BOOLEAN, id : Ids, rules : SUBSET Given]
Calls == [pc : {"idle", "sent", "replied"}, op : {"none", "add", "remove"},
          id : {"net0", "net1"}, fwd : Forwards \cup {Invalid},
          at : Address \cup {NoAddress}, text : BOOLEAN]

LEMMA TypeFacts ==
    ASSUME TypeOK
    PROVE  /\ qemu \in [Vms -> Qemus] /\ call \in [Vms -> Calls]
           /\ known \in [Vms -> SUBSET Given] /\ doubt \in [Vms -> SUBSET Address]
           /\ options \in [Vms -> Args]
           /\ \A v \in Vms : qemu[v] \in Qemus /\ call[v] \in Calls
BY DEF TypeOK, Qemus, Calls

LEMMA RestingTyped == Down \in Qemus /\ Idle \in Calls /\ Idle.pc = "idle" /\ ~Down.up
BY DEF Down, Idle, Qemus, Calls, Ids

(* The condition of PInv on one VM. *)
Right(v) ==
    qemu[v].up =>
        /\ call[v].pc \in {"idle", "sent"} => RightOff(v, doubt[v])
        /\ call[v].pc = "replied" => RightOff(v, doubt[v] \cup {call[v].at}) /\ Told(v)

(* Nothing of a VM has changed. *)
Same(v) == UNCHANGED <<qemu[v], call[v], known[v], doubt[v]>>

LEMMA StillRight == ASSUME NEW v \in Vms, Right(v), Same(v) PROVE Right(v)'
BY DEF Right, Same, RightOff, Told, Rules

-----------------------------------------------------------------------------
(***************************************************************************)
(* The actions of one VM: they keep the types and what is Right of it, and *)
(* leave the other VMs alone.                                              *)
(***************************************************************************)
LEMMA StartRight ==
    ASSUME TypeOK, NEW v \in Vms, Start(v)
    PROVE  TypeOK' /\ Right(v)' /\ \A w \in Vms : w # v => Same(w)
<1> DEFINE cmd == NetArgs(options[v])
<1>1. /\ qemu' = [qemu EXCEPT ![v] = [up |-> TRUE, id |-> cmd.id, rules |-> ToSet(cmd.rules)]]
      /\ known' = [known EXCEPT ![v] = ToSet(cmd.rules)]
      /\ doubt' = [doubt EXCEPT ![v] = {}]
      /\ UNCHANGED <<options, taken, call, lost>> /\ call[v] = Idle
  BY DEF Start
<1>2. cmd.id \in Ids /\ ToSet(cmd.rules) \in SUBSET Given
  BY TypeFacts, StartGiven
<1> HIDE DEF cmd
<1>3. qemu' \in [Vms -> Qemus] /\ known' \in [Vms -> SUBSET Given] /\ doubt' \in [Vms -> SUBSET Address]
  BY <1>1, <1>2, TypeFacts DEF Qemus
<1>4. TypeOK'
  BY <1>1, <1>3 DEF TypeOK, Qemus
<1>5. /\ qemu'[v].rules = ToSet(cmd.rules) /\ known'[v] = ToSet(cmd.rules)
      /\ call'[v].pc = "idle"
  BY <1>1, TypeFacts, RestingTyped
<1>6. Right(v)'
  BY <1>5 DEF Right, RightOff, Rules
<1>7. \A w \in Vms : w # v => Same(w)
  BY <1>1, TypeFacts DEF Same
<1> QED BY <1>4, <1>6, <1>7

LEMMA ExitRight ==
    ASSUME TypeOK, NEW v \in Vms, Exit(v)
    PROVE  TypeOK' /\ Right(v)' /\ \A w \in Vms : w # v => Same(w)
<1>1. /\ qemu' = [qemu EXCEPT ![v] = Down]
      /\ UNCHANGED <<options, taken, call, known, doubt, lost>>
  BY DEF Exit
<1>2. qemu' \in [Vms -> Qemus]
  BY <1>1, TypeFacts, RestingTyped
<1>3. TypeOK'
  BY <1>1, <1>2 DEF TypeOK, Qemus
<1>4. ~qemu'[v].up
  BY <1>1, TypeFacts, RestingTyped
<1>5. \A w \in Vms : w # v => Same(w)
  BY <1>1, TypeFacts DEF Same
<1> QED BY <1>3, <1>4, <1>5 DEF Right

LEMMA SendsRight ==
    ASSUME TypeOK, NEW v \in Vms, Right(v), NEW op \in {"add", "remove"},
           NEW id \in {"net0", "net1"}, NEW f \in Forwards, Sends(v, op, id, f, AddressOf(f))
    PROVE  TypeOK' /\ Right(v)' /\ \A w \in Vms : w # v => Same(w)
<1> DEFINE c == [pc |-> "sent", op |-> op, id |-> id, fwd |-> f,
                 at |-> AddressOf(f), text |-> FALSE]
<1>1. /\ call' = [call EXCEPT ![v] = c] /\ call[v].pc = "idle"
      /\ UNCHANGED <<options, qemu, taken, known, doubt, lost>>
  BY RestingTyped DEF Sends
<1>2. /\ c \in Calls /\ c.pc = "sent" /\ c.fwd = f /\ c.at = AddressOf(f)
  BY ForwardFacts DEF Calls
<1> HIDE DEF c
<1>3. call' \in [Vms -> Calls] /\ call'[v] = c /\ \A w \in Vms : w # v => call'[w] = call[w]
  BY <1>1, <1>2, TypeFacts
<1>4. \A w \in Vms : call'[w].pc # "idle" => /\ call'[w].fwd \in Forwards
                                            /\ call'[w].at = AddressOf(call'[w].fwd)
  BY <1>2, <1>3 DEF TypeOK
<1>5. TypeOK'
  BY <1>1, <1>3, <1>4 DEF TypeOK, Calls
<1>6. Right(v)'
  BY <1>1, <1>2, <1>3 DEF Right, RightOff, Rules
<1>7. \A w \in Vms : w # v => Same(w)
  BY <1>1, <1>3 DEF Same
<1> QED BY <1>5, <1>6, <1>7

(* The monitor's reply leaves the rest of the call as it was. *)
LEMMA RepliesFacts ==
    ASSUME TypeOK, NEW v \in Vms, NEW text \in BOOLEAN, Replies(v, text), call[v].pc = "sent"
    PROVE  /\ call' \in [Vms -> Calls] /\ \A w \in Vms : w # v => call'[w] = call[w]
           /\ call'[v].pc = "replied" /\ call'[v].op = call[v].op /\ call'[v].id = call[v].id
           /\ call'[v].fwd = call[v].fwd /\ call'[v].at = call[v].at /\ call'[v].text = text
           /\ \A w \in Vms : call'[w].pc # "idle" => /\ call'[w].fwd \in Forwards
                                                    /\ call'[w].at = AddressOf(call'[w].fwd)
<1> DEFINE c == [call[v] EXCEPT !.pc = "replied", !.text = text]
<1>1. call' = [call EXCEPT ![v] = c]
  BY DEF Replies
<1>2. /\ c \in Calls /\ c.pc = "replied" /\ c.op = call[v].op /\ c.id = call[v].id
      /\ c.fwd = call[v].fwd /\ c.at = call[v].at /\ c.text = text
  BY TypeFacts DEF Calls
<1> HIDE DEF c
<1>3. call' \in [Vms -> Calls] /\ call'[v] = c /\ \A w \in Vms : w # v => call'[w] = call[w]
  BY <1>1, <1>2, TypeFacts
<1>4. \A w \in Vms : call'[w].pc # "idle" => /\ call'[w].fwd \in Forwards
                                            /\ call'[w].at = AddressOf(call'[w].fwd)
  BY <1>2, <1>3 DEF TypeOK
<1> QED BY <1>2, <1>3, <1>4

(* Rules are added and removed at the address of the call only. *)
LEMMA RulesFacts ==
    ASSUME TypeOK, NEW v \in Vms, NEW rules \in SUBSET Given,
           qemu' = [qemu EXCEPT ![v].rules = rules]
    PROVE  /\ qemu' \in [Vms -> Qemus] /\ \A w \in Vms : w # v => qemu'[w] = qemu[w]
           /\ qemu'[v].rules = rules /\ qemu'[v].id = qemu[v].id /\ qemu'[v].up = qemu[v].up
BY TypeFacts DEF Qemus

LEMMA ExecuteRight ==
    ASSUME TypeOK, NEW v \in Vms, Right(v), Execute(v)
    PROVE  TypeOK' /\ Right(v)' /\ \A w \in Vms : w # v => Same(w)
<1> DEFINE c == call[v]
           same == {r \in Rules(v) : r.at = c.at}
<1>1. /\ c.pc = "sent" /\ qemu[v].up /\ UNCHANGED <<options, taken, known, doubt, lost>>
  BY DEF Execute
<1>2. c.fwd \in Forwards /\ c.at = AddressOf(c.fwd) /\ Rules(v) \in SUBSET Given
  BY <1>1, TypeFacts DEF TypeOK, Rules, Qemus
<1>3. RightOff(v, doubt[v])
  BY <1>1 DEF Right
<1>4. ASSUME qemu' \in [Vms -> Qemus], \A w \in Vms : w # v => qemu'[w] = qemu[w],
             NEW text \in BOOLEAN, Replies(v, text)
      PROVE  TypeOK' /\ \A w \in Vms : w # v => Same(w)
  <2>1. /\ call' \in [Vms -> Calls] /\ \A w \in Vms : w # v => call'[w] = call[w]
        /\ \A w \in Vms : call'[w].pc # "idle" => /\ call'[w].fwd \in Forwards
                                                 /\ call'[w].at = AddressOf(call'[w].fwd)
    BY <1>1, <1>4, RepliesFacts
  <2>2. TypeOK'
    BY <1>1, <1>4, <2>1 DEF TypeOK, Calls, Qemus
  <2> QED BY <1>1, <1>4, <2>1, <2>2 DEF Same
<1>5. CASE /\ c.op = "add" /\ c.id = qemu[v].id /\ CanBind(c.at, Bound)
           /\ qemu' = [qemu EXCEPT ![v].rules = @ \cup {[at |-> c.at, guest |-> c.fwd.guest]}]
           /\ Replies(v, FALSE)
  <2>1. /\ ToHostfwd(c.fwd) = [at |-> c.at, guest |-> c.fwd.guest]
        /\ ToHostfwd(c.fwd).at = c.at /\ ToHostfwd(c.fwd) \in Given
    BY <1>2, ForwardFacts
  <2>2. /\ qemu' = [qemu EXCEPT ![v].rules = Rules(v) \cup {ToHostfwd(c.fwd)}]
        /\ Rules(v) \cup {ToHostfwd(c.fwd)} \in SUBSET Given
    BY <1>2, <1>5, <2>1 DEF Rules
  <2>3. /\ qemu' \in [Vms -> Qemus] /\ \A w \in Vms : w # v => qemu'[w] = qemu[w]
        /\ qemu'[v].rules = Rules(v) \cup {ToHostfwd(c.fwd)}
        /\ qemu'[v].id = qemu[v].id /\ qemu'[v].up = qemu[v].up
    BY <2>2, RulesFacts
  <2>4. \A r \in Rules(v) : r.at # c.at
    BY <1>5 DEF CanBind, Bound, Excludes
  <2>5. /\ call'[v].pc = "replied" /\ call'[v].op = "add" /\ call'[v].fwd = c.fwd
        /\ call'[v].at = c.at /\ call'[v].text = FALSE
    BY <1>1, <1>5, RepliesFacts
  <2>6. Rules(v)' = Rules(v) \cup {ToHostfwd(c.fwd)}
    BY <2>3 DEF Rules
  <2>7. RightOff(v, doubt[v] \cup {c.at})'
    BY <1>1, <1>3, <2>1, <2>5, <2>6 DEF RightOff
  <2>8. {r \in Rules(v)' : r.at = c.at} = {ToHostfwd(c.fwd)}
    BY <2>1, <2>4, <2>6
  <2>9. Told(v)'
    BY <2>5, <2>8 DEF Told
  <2>10. Right(v)'
    BY <1>1, <2>5, <2>7, <2>9 DEF Right
  <2> QED BY <1>4, <1>5, <2>3, <2>10
<1>6. CASE c.op = "add" /\ Replies(v, TRUE) /\ qemu' = qemu
  <2>1. /\ call'[v].pc = "replied" /\ call'[v].op = "add" /\ call'[v].fwd = c.fwd
        /\ call'[v].at = c.at /\ call'[v].text = TRUE
    BY <1>1, <1>6, RepliesFacts
  <2>2. RightOff(v, doubt[v])' /\ RightOff(v, doubt[v] \cup {c.at})'
    BY <1>1, <1>3, <1>6, <2>1 DEF RightOff, Rules
  <2>3. Told(v)'
    BY <2>1, <2>2 DEF Told
  <2>4. Right(v)'
    BY <1>1, <2>1, <2>2, <2>3 DEF Right
  <2> QED BY <1>4, <1>6, <2>4, TypeFacts
<1>7. CASE /\ c.op = "remove" /\ c.id = qemu[v].id /\ same # {}
           /\ qemu' = [qemu EXCEPT ![v].rules = @ \ same]
           /\ Replies(v, TRUE)
  <2>1. /\ qemu' = [qemu EXCEPT ![v].rules = Rules(v) \ same]
        /\ Rules(v) \ same \in SUBSET Given
    BY <1>2, <1>7 DEF Rules
  <2>2. /\ qemu' \in [Vms -> Qemus] /\ \A w \in Vms : w # v => qemu'[w] = qemu[w]
        /\ qemu'[v].rules = Rules(v) \ same
        /\ qemu'[v].id = qemu[v].id /\ qemu'[v].up = qemu[v].up
    BY <2>1, RulesFacts
  <2>4. /\ call'[v].pc = "replied" /\ call'[v].op = "remove" /\ call'[v].id = c.id
        /\ call'[v].at = c.at /\ call'[v].text = TRUE
    BY <1>1, <1>7, RepliesFacts
  <2>5. Rules(v)' = Rules(v) \ same
    BY <2>2 DEF Rules
  <2>6. RightOff(v, doubt[v] \cup {c.at})'
    BY <1>1, <1>3, <2>4, <2>5 DEF RightOff
  <2>7. \A r \in Rules(v)' : r.at # c.at
    BY <2>5
  <2>8. Told(v)'
    BY <1>7, <2>2, <2>4, <2>7 DEF Told
  <2>9. Right(v)'
    BY <1>1, <2>4, <2>6, <2>8 DEF Right
  <2> QED BY <1>4, <1>7, <2>2, <2>9
<1>8. CASE /\ c.op = "remove" /\ (c.id # qemu[v].id \/ same = {})
           /\ Replies(v, TRUE) /\ qemu' = qemu
  <2>1. /\ call'[v].pc = "replied" /\ call'[v].op = "remove" /\ call'[v].id = c.id
        /\ call'[v].at = c.at /\ call'[v].text = TRUE
    BY <1>1, <1>8, RepliesFacts
  <2>2. RightOff(v, doubt[v])' /\ RightOff(v, doubt[v] \cup {c.at})'
    BY <1>1, <1>3, <1>8, <2>1 DEF RightOff, Rules
  <2>3. call'[v].id = qemu'[v].id => \A r \in Rules(v)' : r.at # c.at
    BY <1>8, <2>1 DEF Rules
  <2>4. Told(v)'
    BY <2>1, <2>2, <2>3 DEF Told
  <2>5. Right(v)'
    BY <1>1, <2>1, <2>2, <2>4 DEF Right
  <2> QED BY <1>4, <1>8, <2>5, TypeFacts
<1> QED BY <1>5, <1>6, <1>7, <1>8 DEF Execute

(* A call has ended: the caller's next call is its own. *)
LEMMA EndFacts ==
    ASSUME TypeOK, NEW v \in Vms, call' = [call EXCEPT ![v] = Idle]
    PROVE  /\ call' \in [Vms -> Calls] /\ call'[v].pc = "idle"
           /\ \A w \in Vms : w # v => call'[w] = call[w]
           /\ \A w \in Vms : call'[w].pc # "idle" => /\ call'[w].fwd \in Forwards
                                                    /\ call'[w].at = AddressOf(call'[w].fwd)
<1>1. /\ call' \in [Vms -> Calls] /\ call'[v].pc = "idle"
      /\ \A w \in Vms : w # v => call'[w] = call[w]
  BY TypeFacts, RestingTyped
<1>2. \A w \in Vms : call'[w].pc # "idle" => /\ call'[w].fwd \in Forwards
                                            /\ call'[w].at = AddressOf(call'[w].fwd)
  BY <1>1 DEF TypeOK
<1> QED BY <1>1, <1>2

LEMMA AnsweredRight ==
    ASSUME TypeOK, NEW v \in Vms, Right(v), Answered(v)
    PROVE  TypeOK' /\ Right(v)' /\ \A w \in Vms : w # v => Same(w)
<1> DEFINE c == call[v]
           ok == IsOk(c)
           there == IF c.op = "add" /\ ok THEN {ToHostfwd(c.fwd)} ELSE {}
           settled == (c.op = "add" /\ ok) \/ (c.op = "remove" /\ (ok \/ c.id = qemu[v].id))
<1>1. /\ c.pc = "replied" /\ call' = [call EXCEPT ![v] = Idle]
      /\ known' = [known EXCEPT ![v] =
                     IF settled THEN {r \in known[v] : r.at # c.at} \cup there ELSE known[v]]
      /\ doubt' = [doubt EXCEPT ![v] = IF settled THEN doubt[v] \ {c.at} ELSE doubt[v]]
      /\ UNCHANGED <<options, qemu, taken, lost>>
  BY DEF Answered
<1>2. /\ call' \in [Vms -> Calls] /\ call'[v].pc = "idle"
      /\ \A w \in Vms : w # v => call'[w] = call[w]
      /\ \A w \in Vms : call'[w].pc # "idle" => /\ call'[w].fwd \in Forwards
                                               /\ call'[w].at = AddressOf(call'[w].fwd)
  BY <1>1, EndFacts
<1>3. c.fwd \in Forwards /\ c.at = AddressOf(c.fwd) /\ c \in Calls
  BY <1>1, TypeFacts DEF TypeOK
<1>4. ToHostfwd(c.fwd) \in Given /\ ToHostfwd(c.fwd).at = c.at
  BY <1>3, ForwardFacts
<1>5. there \in SUBSET Given /\ \A r \in there : r.at = c.at
  BY <1>4
<1>6. /\ known'[v] = IF settled THEN {r \in known[v] : r.at # c.at} \cup there ELSE known[v]
      /\ doubt'[v] = IF settled THEN doubt[v] \ {c.at} ELSE doubt[v]
      /\ known[v] \in SUBSET Given /\ doubt[v] \in SUBSET Address
  BY <1>1, TypeFacts
<1>7. known' \in [Vms -> SUBSET Given] /\ doubt' \in [Vms -> SUBSET Address]
  <2>1. /\ (IF settled THEN {r \in known[v] : r.at # c.at} \cup there ELSE known[v]) \in SUBSET Given
        /\ (IF settled THEN doubt[v] \ {c.at} ELSE doubt[v]) \in SUBSET Address
    BY <1>5, <1>6
  <2> HIDE DEF settled, there
  <2> QED BY <1>1, <2>1, TypeFacts
<1>8. TypeOK'
  BY <1>1, <1>2, <1>7 DEF TypeOK, Calls
<1>9. Right(v)'
  <2> SUFFICES ASSUME qemu[v].up PROVE RightOff(v, doubt[v])'
    BY <1>1, <1>2 DEF Right
  <2>1. RightOff(v, doubt[v] \cup {c.at}) /\ Told(v)
    BY <1>1 DEF Right
  <2>2. Rules(v)' = Rules(v)
    BY <1>1 DEF Rules
  <2>3. CASE settled
    <3>1. {r \in Rules(v) : r.at = c.at} = there
      <4>1. CASE c.op = "add" /\ ok
        BY <2>1, <4>1 DEF Told, IsOk
      <4>2. CASE c.op = "remove" /\ c.id = qemu[v].id
        BY <2>1, <4>2 DEF Told
      <4>3. CASE c.op = "remove" /\ c.id # qemu[v].id /\ ok
        BY <2>1, <4>3 DEF Told, IsOk
      <4> QED BY <2>3, <4>1, <4>2, <4>3
    <3>2. known'[v] = {r \in known[v] : r.at # c.at} \cup there /\ doubt'[v] = doubt[v] \ {c.at}
      BY <1>6, <2>3
    <3> HIDE DEF there, settled
    <3>3. \A r : r \in known'[v] /\ r.at \notin doubt'[v] <=> r \in Rules(v) /\ r.at \notin doubt'[v]
      <4> TAKE r
      <4>1. CASE r.at = c.at
        BY <3>1, <3>2, <4>1
      <4>2. CASE r.at # c.at
        BY <1>5, <2>1, <3>2, <4>2 DEF RightOff
      <4> QED BY <4>1, <4>2
    <3> QED BY <2>2, <3>3 DEF RightOff
  <2>4. CASE ~settled
    <3>1. RightOff(v, doubt[v])
      <4>1. c.op = "add" => c.text
        BY <2>4 DEF IsOk
      <4>2. c.op = "remove" => c.id # qemu[v].id /\ c.text
        BY <2>4 DEF IsOk
      <4> QED BY <2>1, <4>1, <4>2 DEF Told
    <3> QED BY <1>6, <2>2, <2>4, <3>1 DEF RightOff
  <2> QED BY <2>3, <2>4
<1>10. \A w \in Vms : w # v => Same(w)
  <2> HIDE DEF settled, there
  <2> QED BY <1>1, <1>2, TypeFacts DEF Same
<1> QED BY <1>8, <1>9, <1>10

LEMMA LostRight ==
    ASSUME TypeOK, NEW v \in Vms, Right(v), Lost(v)
    PROVE  TypeOK' /\ Right(v)' /\ \A w \in Vms : w # v => Same(w)
<1>1. /\ call[v].pc # "idle" /\ call' = [call EXCEPT ![v] = Idle]
      /\ doubt' = [doubt EXCEPT ![v] = doubt[v] \cup {call[v].at}]
      /\ UNCHANGED <<options, qemu, taken, known>>
  BY DEF Lost
<1>2. /\ call' \in [Vms -> Calls] /\ call'[v].pc = "idle"
      /\ \A w \in Vms : w # v => call'[w] = call[w]
      /\ \A w \in Vms : call'[w].pc # "idle" => /\ call'[w].fwd \in Forwards
                                               /\ call'[w].at = AddressOf(call'[w].fwd)
  BY <1>1, EndFacts
<1>3. lost' \in 0 .. MaxLost
  <2>1. lost \in Nat /\ lost <= MaxLost /\ MaxLost \in Nat
    BY ForwardsAssumption DEF TypeOK
  <2>2. lost' = lost \/ (lost' = lost + 1 /\ lost < MaxLost)
    BY DEF Lost
  <2> QED BY <2>1, <2>2
<1>4. call[v].at \in Address
  BY <1>1, ForwardFacts DEF TypeOK
<1>5. doubt' \in [Vms -> SUBSET Address] /\ doubt'[v] = doubt[v] \cup {call[v].at}
  BY <1>1, <1>4, TypeFacts
<1>6. TypeOK'
  BY <1>1, <1>2, <1>3, <1>5 DEF TypeOK, Calls
<1>7. Right(v)'
  <2> SUFFICES ASSUME qemu[v].up PROVE RightOff(v, doubt[v])'
    BY <1>1, <1>2 DEF Right
  <2>1. call[v].pc \in {"sent", "replied"}
    BY <1>1, TypeFacts DEF Calls
  <2>2. RightOff(v, doubt[v] \cup {call[v].at}) \/ RightOff(v, doubt[v])
    BY <2>1 DEF Right
  <2> QED BY <1>1, <1>5, <2>2 DEF RightOff, Rules
<1>8. \A w \in Vms : w # v => Same(w)
  BY <1>1, <1>2, TypeFacts DEF Same
<1> QED BY <1>6, <1>7, <1>8

-----------------------------------------------------------------------------
LEMMA InitPInv == Init => PInv
<1> SUFFICES ASSUME Init PROVE PInv
  OBVIOUS
<1>1. TypeOK
  <2>1. lost \in 0 .. MaxLost
    BY ForwardsAssumption DEF Init
  <2>2. qemu \in [Vms -> Qemus] /\ call \in [Vms -> Calls] /\ \A v \in Vms : call[v].pc = "idle"
    BY RestingTyped DEF Init
  <2> QED BY <2>1, <2>2 DEF Init, TypeOK, Qemus, Calls
<1>2. \A v \in Vms : ~qemu[v].up
  BY RestingTyped DEF Init
<1> QED BY <1>1, <1>2 DEF PInv

LEMMA NextPInv == PInv /\ [Next]_vars => PInv'
<1> SUFFICES ASSUME PInv, [Next]_vars PROVE PInv'
  OBVIOUS
<1>1. TypeOK /\ \A w \in Vms : Right(w)
  BY DEF PInv, Right
<1>2. SUFFICES TypeOK' /\ \A w \in Vms : Right(w)'
  BY DEF PInv, Right
<1>3. ASSUME NEW a \in {AddressOf(f) : f \in Forwards}, OtherBinds(a) \/ OtherFrees(a)
      PROVE  TypeOK' /\ \A w \in Vms : Right(w)'
  <2>1. /\ UNCHANGED <<options, qemu, call, known, doubt, lost>>
        /\ taken' = taken \cup {a} \/ taken' = taken \ {a}
    BY <1>3 DEF OtherBinds, OtherFrees
  <2>2. a \in Address
    BY ForwardFacts
  <2>3. TypeOK'
    BY <1>1, <2>1, <2>2 DEF TypeOK
  <2> QED BY <1>1, <2>1, <2>3, StillRight DEF Same
<1>4. ASSUME NEW v \in Vms,
             \/ Start(v) \/ Exit(v)
             \/ \E f \in Forwards, id \in {"net0", "net1"} :
                  HostfwdAdd(v, id, f) \/ HostfwdRemove(v, id, f)
             \/ Execute(v) \/ Answered(v) \/ Lost(v)
      PROVE  TypeOK' /\ \A w \in Vms : Right(w)'
  <2>1. TypeOK' /\ Right(v)' /\ \A w \in Vms : w # v => Same(w)
    <3>1. ASSUME NEW f \in Forwards, NEW id \in {"net0", "net1"},
                 HostfwdAdd(v, id, f) \/ HostfwdRemove(v, id, f)
          PROVE  TypeOK' /\ Right(v)' /\ \A w \in Vms : w # v => Same(w)
      BY <1>1, <3>1, SendsRight DEF HostfwdAdd, HostfwdRemove
    <3> QED BY <1>1, <1>4, <3>1, StartRight, ExitRight, ExecuteRight, AnsweredRight, LostRight
  <2> QED BY <1>1, <2>1, StillRight
<1>5. CASE UNCHANGED vars
  <2>1. UNCHANGED <<options, qemu, taken, call, known, doubt, lost>>
    BY <1>5 DEF vars
  <2>2. TypeOK'
    BY <1>1, <2>1 DEF TypeOK
  <2> QED BY <1>1, <2>1, <2>2, StillRight DEF Same
<1> QED BY <1>3, <1>4, <1>5 DEF Next

(***************************************************************************)
(* What an answer of the monitor says of the call's address is so until    *)
(* the answer is taken, and of the other addresses the caller is right.    *)
(***************************************************************************)
THEOREM ForwardInvariance == Spec => []PInv
BY InitPInv, NextPInv, PTL DEF Spec

(***************************************************************************)
(* Where no answer was lost, QEMU forwards exactly the rules its caller    *)
(* has added and not removed, and those it was started with (hostfwd_add,  *)
(* hostfwd_remove and their Ok).                                           *)
(***************************************************************************)
THEOREM CallersKnow == Spec => []KnownIsTrue
<1>1. PInv => KnownIsTrue
  <2> SUFFICES ASSUME PInv, NEW v \in Vms, qemu[v].up
               PROVE  Settled(v, known[v]) = Settled(v, Rules(v))
    BY DEF KnownIsTrue
  <2>1. call[v].pc \in {"idle", "sent", "replied"}
    BY TypeFacts DEF PInv, Calls
  <2>2. RightOff(v, doubt[v]) \/ (call[v].pc = "replied" /\ RightOff(v, doubt[v] \cup {call[v].at}))
    BY <2>1 DEF PInv
  <2> QED BY <2>2 DEF Settled, RightOff
<1> QED BY <1>1, ForwardInvariance, PTL

-----------------------------------------------------------------------------
(***************************************************************************)
(* The command line of `vmforge net args`, for any range of ports and any  *)
(* number of flags.  First one flag.                                       *)
(***************************************************************************)
LEMMA FieldFacts ==
    ASSUME NEW f \in Fields
    PROVE  /\ ParsePort(f) \in Ports => f = Numeral(ParsePort(f))
           /\ ParsePort(f) \notin Ports => ParsePort(f) = 0 /\ \A p \in Ports : f # Numeral(p)
           /\ ParseProto(f) \in {"tcp", "udp"} => f = Word(ParseProto(f))
           /\ ParseProto(f) \notin {"tcp", "udp"} => f # Word("tcp") /\ f # Word("udp")
           /\ ParseIp(f) \in HostIps => f = Word(ParseIp(f))
           /\ ParseIp(f) \notin HostIps => ParseIp(f) = "none" /\ \A i \in HostIps : f # Word(i)
<1>0. 0 \notin Ports /\ "none" \notin HostIps BY PortsAssumption DEF Ports, HostIps, Loopback
<1>1. CASE \E w : f = Word(w)
  BY <1>0, <1>1 DEF Word, Numeral, ParsePort, ParseProto, ParseIp, HostIps, Loopback
<1>2. CASE \E n : f = Numeral(n)
  BY <1>0, <1>2 DEF Word, Numeral, ParsePort, ParseProto, ParseIp, HostIps, Loopback
<1>3. (\E w : f = Word(w)) \/ (\E n : f = Numeral(n)) BY DEF Fields
<1> QED BY <1>1, <1>2, <1>3

LEMMA NumeralParses ==
    ASSUME NEW p \in Ports
    PROVE  ParsePort(Numeral(p)) = p
  BY DEF ParsePort, Numeral

LEMMA WordParses ==
    /\ \A w \in {"tcp", "udp"} : ParseProto(Word(w)) = w
    /\ \A i \in HostIps : ParseIp(Word(i)) = i
  BY DEF ParseProto, ParseIp, Word

(* The rule that the fields of a spec make, before it is asked whether it is one. *)
Read(spec) ==
    [proto |-> IF Len(spec) = 2 THEN "tcp" ELSE ParseProto(spec[1]),
     ip    |-> IF Len(spec) = 4 THEN ParseIp(spec[2]) ELSE Unset,
     host  |-> ParsePort(spec[Len(spec) - 1]),
     guest |-> ParsePort(spec[Len(spec)])]

LEMMA ParseIs ==
    ASSUME NEW spec
    PROVE  Parse(spec) = IF Len(spec) \in 2 .. 4 /\ Read(spec) \in Forward
                         THEN Read(spec) ELSE Invalid
  BY DEF Parse, Read

LEMMA ValidOrInvalid == Invalid \notin Forward
  BY DEF Invalid, Forward

LEMMA RuleOf ==
    ASSUME NEW f \in Forward
    PROVE  /\ ToHostfwd(f) \in Rule
           /\ ToHostfwd(f).at.proto = f.proto /\ ToHostfwd(f).at.port = f.host
           /\ ToHostfwd(f).at.ip = IF f.ip = Unset THEN Loopback ELSE f.ip
           /\ ToHostfwd(f).guest = f.guest
<1>1. HostIp(f) \in HostIps BY DEF HostIp, Forward, HostIps
<1>2. AddressOf(f) \in Address BY <1>1 DEF AddressOf, Address, Forward
<1>3. AddressOf(f).proto = f.proto /\ AddressOf(f).port = f.host /\ AddressOf(f).ip = HostIp(f)
  BY DEF AddressOf
<1> QED BY <1>2, <1>3 DEF ToHostfwd, Rule, Forward, HostIp

LEMMA SpecFields ==
    ASSUME NEW S, NEW spec \in Seq(S)
    PROVE  /\ Len(spec) = 2 => spec = <<spec[1], spec[2]>>
           /\ Len(spec) = 3 => spec = <<spec[1], spec[2], spec[3]>>
           /\ Len(spec) = 4 => spec = <<spec[1], spec[2], spec[3], spec[4]>>
<1>1. Len(spec) = 2 => spec = <<spec[1], spec[2]>> OBVIOUS
<1>2. Len(spec) = 3 => spec = <<spec[1], spec[2], spec[3]>> OBVIOUS
<1>3. Len(spec) = 4 => spec = <<spec[1], spec[2], spec[3], spec[4]>> OBVIOUS
<1> QED BY <1>1, <1>2, <1>3

(* A spec that is read has a documented form of the rule that is read from it. *)
LEMMA ParsedHasForm ==
    ASSUME NEW spec \in Seq(Fields), Parse(spec) # Invalid
    PROVE  Parse(spec) \in Forward /\ spec \in Forms(ToHostfwd(Parse(spec)))
<1>1. PICK n : n = Len(spec) OBVIOUS
<1>2. PICK f : f = Read(spec) OBVIOUS
<1>3. n \in 2 .. 4 /\ f \in Forward /\ Parse(spec) = f
  BY <1>1, <1>2, ParseIs
<1>4. PICK r : r = ToHostfwd(f) OBVIOUS
<1>5. /\ r.at.proto = f.proto /\ r.at.port = f.host /\ r.guest = f.guest
      /\ r.at.ip = IF f.ip = Unset THEN Loopback ELSE f.ip
  BY <1>3, <1>4, RuleOf
<1>6. \A i \in 1 .. n : spec[i] \in Fields BY <1>1
<1>7. /\ f.host = ParsePort(spec[n - 1]) /\ f.guest = ParsePort(spec[n])
      /\ n = 2 => f.proto = "tcp"
      /\ n # 2 => f.proto = ParseProto(spec[1])
      /\ n = 4 => f.ip = ParseIp(spec[2])
      /\ n # 4 => f.ip = Unset
  BY <1>1, <1>2 DEF Read
<1>8. f.host \in Ports /\ f.guest \in Ports /\ f.proto \in {"tcp", "udp"}
      /\ f.ip \in HostIps \cup {Unset}
  BY <1>3 DEF Forward
<1>9. spec[n - 1] = Numeral(r.at.port) /\ spec[n] = Numeral(r.guest)
  <2>1. n - 1 \in 1 .. n /\ n \in 1 .. n BY <1>3
  <2> QED BY <1>5, <1>6, <1>7, <1>8, <2>1, FieldFacts
<1>10. n # 2 => spec[1] = Word(r.at.proto)
  <2>1. 1 \in 1 .. n BY <1>3
  <2> QED BY <1>5, <1>6, <1>7, <1>8, <2>1, FieldFacts
<1>11. CASE n = 2
  <2>1. spec = <<Numeral(r.at.port), Numeral(r.guest)>>
    <3>1. spec = <<spec[1], spec[2]>> BY <1>1, <1>11, SpecFields
    <3>2. spec[1] = Numeral(r.at.port) /\ spec[2] = Numeral(r.guest) BY <1>9, <1>11
    <3> QED BY <3>1, <3>2
  <2>2. r.at.ip = Loopback /\ r.at.proto = "tcp" BY <1>5, <1>7, <1>11
  <2> QED BY <1>3, <1>4, <2>1, <2>2 DEF Forms
<1>12. CASE n = 3
  <2>1. spec = <<Word(r.at.proto), Numeral(r.at.port), Numeral(r.guest)>>
    <3>1. spec = <<spec[1], spec[2], spec[3]>> BY <1>1, <1>12, SpecFields
    <3>2. spec[2] = Numeral(r.at.port) /\ spec[3] = Numeral(r.guest) BY <1>9, <1>12
    <3>3. spec[1] = Word(r.at.proto) BY <1>10, <1>12
    <3> QED BY <3>1, <3>2, <3>3
  <2>2. r.at.ip = Loopback BY <1>5, <1>7, <1>12
  <2> QED BY <1>3, <1>4, <2>1, <2>2 DEF Forms
<1>13. CASE n = 4
  <2>1. f.ip = ParseIp(spec[2]) /\ spec[2] \in Fields BY <1>6, <1>7, <1>13
  <2>2. f.ip \in HostIps /\ f.ip # Unset
    BY <1>8, <2>1, FieldFacts DEF HostIps, Unset, Loopback
  <2>3. spec[2] = Word(r.at.ip) BY <1>5, <2>1, <2>2, FieldFacts
  <2>4. spec = <<Word(r.at.proto), Word(r.at.ip), Numeral(r.at.port), Numeral(r.guest)>>
    <3>1. spec = <<spec[1], spec[2], spec[3], spec[4]>> BY <1>1, <1>13, SpecFields
    <3>2. spec[3] = Numeral(r.at.port) /\ spec[4] = Numeral(r.guest) BY <1>9, <1>13
    <3>3. spec[1] = Word(r.at.proto) BY <1>10, <1>13
    <3> QED BY <2>3, <3>1, <3>2, <3>3
  <2> QED BY <1>3, <1>4, <2>4 DEF Forms
<1> QED BY <1>3, <1>11, <1>12, <1>13

(* A spec with an address for a protocol is not. *)
LEMMA AddressFirstRefused ==
    ASSUME NEW spec, AddressFirst(spec)
    PROVE  Parse(spec) = Invalid
<1>1. PICK ip \in HostIps : spec[1] = Word(ip) BY DEF AddressFirst
<1>2. ip \notin {"tcp", "udp"} BY DEF HostIps, Loopback
<1>3. ParseProto(spec[1]) = "none" BY <1>1, <1>2 DEF ParseProto, Word
<1>4. Len(spec) = 3 BY DEF AddressFirst
<1>5. Read(spec).proto = "none" BY <1>3, <1>4 DEF Read
<1>6. Read(spec) \notin Forward BY <1>5 DEF Forward
<1> QED BY <1>6, ParseIs

(* A spec of one of the other documented forms is read. *)
LEMMA FormIsParsed ==
    ASSUME NEW r \in Rule, NEW spec \in Forms(r), ~AddressFirst(spec)
    PROVE  Parse(spec) # Invalid
<1>1. /\ r.at.proto \in {"tcp", "udp"} /\ r.at.ip \in HostIps
      /\ r.at.port \in Ports /\ r.guest \in Ports
  BY DEF Rule, Address
<1>2. PICK p, i, h, g : /\ p = Word(r.at.proto) /\ i = Word(r.at.ip)
                        /\ h = Numeral(r.at.port) /\ g = Numeral(r.guest)
  OBVIOUS
<1>3. \/ spec = <<p, i, h, g>>
      \/ spec = <<p, h, g>>
      \/ spec = <<h, g>>
  <2>1. spec # <<i, h, g>>
    <3> SUFFICES ASSUME spec = <<i, h, g>> PROVE FALSE OBVIOUS
    <3>1. Len(spec) = 3 /\ spec[1] = i OBVIOUS
    <3> QED BY <1>1, <1>2, <3>1 DEF AddressFirst
  <2> QED BY <1>2, <2>1 DEF Forms
<1>4. ParseProto(p) \in {"tcp", "udp"} /\ ParseIp(i) \in HostIps
      /\ ParsePort(h) \in Ports /\ ParsePort(g) \in Ports
  BY <1>1, <1>2, NumeralParses, WordParses
<1>5. /\ Len(spec) \in 2 .. 4
      /\ spec[Len(spec) - 1] = h /\ spec[Len(spec)] = g
      /\ Len(spec) # 2 => spec[1] = p
      /\ Len(spec) = 4 => spec[2] = i
  <2>1. CASE spec = <<p, i, h, g>>
    <3>1. Len(spec) = 4 /\ spec[1] = p /\ spec[2] = i /\ spec[3] = h /\ spec[4] = g BY <2>1
    <3> QED BY <3>1
  <2>2. CASE spec = <<p, h, g>>
    <3>1. Len(spec) = 3 /\ spec[1] = p /\ spec[2] = h /\ spec[3] = g BY <2>2
    <3> QED BY <3>1
  <2>3. CASE spec = <<h, g>>
    <3>1. Len(spec) = 2 /\ spec[1] = h /\ spec[2] = g BY <2>3
    <3> QED BY <3>1
  <2> QED BY <1>3, <2>1, <2>2, <2>3
<1>6. Read(spec) \in Forward
  <2>1. PICK n : n = Len(spec) OBVIOUS
  <2>2. (IF n = 2 THEN "tcp" ELSE ParseProto(spec[1])) \in {"tcp", "udp"}
    BY <1>4, <1>5, <2>1
  <2>3. (IF n = 4 THEN ParseIp(spec[2]) ELSE Unset) \in HostIps \cup {Unset}
    BY <1>4, <1>5, <2>1
  <2>4. ParsePort(spec[n - 1]) \in Ports /\ ParsePort(spec[n]) \in Ports
    BY <1>4, <1>5, <2>1
  <2> QED BY <2>1, <2>2, <2>3, <2>4 DEF Read, Forward
<1> QED BY <1>5, <1>6, ParseIs, ValidOrInvalid

(***************************************************************************)
(* Then the flags one after the other.                                     *)
(***************************************************************************)
LEMMA Smallest ==
    ASSUME NEW T, T \subseteq Nat, T # {}
    PROVE  \E n \in T : \A m \in T : ~(m < n)
<1>1. \E n \in T : \A m \in T : ~(<<m, n>> \in OpToRel(<, Nat))
  BY NatLessThanWellFounded, WFMin
<1> QED
  BY <1>1 DEF OpToRel

LEMMA OptsEquation ==
    ASSUME NEW args, Len(args) \in Nat
    PROVE  OptsAfter(args) = [n \in 0 .. Len(args) |->
               IF n = 0 THEN NoOpts ELSE TakeOption(OptsAfter(args)[n - 1], args[n])]
<1> DEFINE Upto(K, f) == f = [n \in 0 .. K |->
                                IF n = 0 THEN NoOpts ELSE TakeOption(f[n - 1], args[n])]
           T == {K \in Nat : ~ \E f : Upto(K, f)}
<1>1. T = {}
  <2> SUFFICES ASSUME T # {} PROVE FALSE OBVIOUS
  <2>1. PICK K \in T : \A m \in T : ~(m < K) BY Smallest
  <2>2. K \in Nat OBVIOUS
  <2>3. K # 0
    <3> SUFFICES \E f : Upto(0, f) OBVIOUS
    <3>1. Upto(0, [n \in 0 .. 0 |-> NoOpts]) OBVIOUS
    <3> QED BY <3>1
  <2>4. PICK f : Upto(K - 1, f)
    <3>1. K - 1 \in Nat /\ K - 1 < K BY <2>2, <2>3
    <3>2. K - 1 \notin T BY <2>1, <3>1
    <3> QED BY <3>1, <3>2
  <2> DEFINE g == [n \in 0 .. K |-> IF n = 0 THEN NoOpts ELSE TakeOption(f[n - 1], args[n])]
  <2>5. ASSUME NEW n \in 0 .. K - 1 PROVE g[n] = f[n]
    <3>1. n \in 0 .. K BY <2>2, <2>3
    <3>2. g[n] = IF n = 0 THEN NoOpts ELSE TakeOption(f[n - 1], args[n]) BY <3>1
    <3>3. f[n] = IF n = 0 THEN NoOpts ELSE TakeOption(f[n - 1], args[n]) BY <2>4
    <3> QED BY <3>2, <3>3
  <2>6. \A n \in 0 .. K : n # 0 => n - 1 \in 0 .. K - 1
    BY <2>2, <2>3
  <2>7. Upto(K, g)
    <3> HIDE DEF g
    <3>1. \A n \in 0 .. K : n # 0 =>
            TakeOption(f[n - 1], args[n]) = TakeOption(g[n - 1], args[n])
      BY <2>5, <2>6
    <3>2. g = [n \in 0 .. K |-> IF n = 0 THEN NoOpts ELSE TakeOption(f[n - 1], args[n])]
      BY DEF g
    <3> QED BY <3>1, <3>2
  <2> QED BY <2>1, <2>7
<1>2. \E f : Upto(Len(args), f)
  BY <1>1
<1> QED
  BY <1>2 DEF OptsAfter

LEMMA OptsSteps ==
    ASSUME NEW args, NEW K \in Nat, K = Len(args)
    PROVE  /\ OptsAfter(args)[0] = NoOpts
           /\ \A n \in 0 .. K : n # 0 =>
                OptsAfter(args)[n] = TakeOption(OptsAfter(args)[n - 1], args[n])
<1>1. PICK o : o = OptsAfter(args) OBVIOUS
<1>2. o = [n \in 0 .. K |-> IF n = 0 THEN NoOpts ELSE TakeOption(o[n - 1], args[n])]
  BY <1>1, OptsEquation
<1>3. o[0] = NoOpts BY <1>2
<1>4. ASSUME NEW n \in 0 .. K, n # 0 PROVE o[n] = TakeOption(o[n - 1], args[n])
  BY <1>2, <1>4
<1> QED BY <1>1, <1>3, <1>4

(* A flag that ends the command: as the documentation has it, or without a
   protocol. *)
Wrong(a) ==
    \/ a[1] = "--forward" /\ (AddressFirst(a[2]) \/ \A r \in Rule : a[2] \notin Forms(r))
    \/ a[1] = "--host-port" /\ a[2] \notin {Numeral(p) : p \in Ports}
    \/ a[1] \notin {"--forward", "--host-port", "--id", "--mac", "--json", "--user", "--model"}

LEMMA OptionFacts ==
    ASSUME NEW a \in Option
    PROVE  /\ a[1] = "--forward" => a[2] \in Seq(Fields)
           /\ a[1] = "--host-port" => a[2] \in Fields
           /\ a[1] = "--id" => a[2] \in {"net0", "net1", "0bad"}
           /\ a[1] = "--mac" => a[2] \in {"good", "bad"}
  BY DEF Option

(***************************************************************************)
(* What one flag does: it ends the command if it is wrong, adds a rule if  *)
(* it is a --forward, and otherwise leaves the rules alone.                *)
(***************************************************************************)
LEMMA TakeFacts ==
    ASSUME NEW o \in NetOpts, NEW a \in Option
    PROVE  /\ TakeOption(o, a) \in NetOpts
           /\ TakeOption(o, a).exit = 2 <=> o.exit = 2 \/ Wrong(a)
           /\ TakeOption(o, a).exit = 0 =>
                IF a[1] = "--forward"
                THEN \E f \in Forward :
                       /\ TakeOption(o, a).forwards = Append(o.forwards, f)
                       /\ a[2] \in Forms(ToHostfwd(f))
                ELSE TakeOption(o, a).forwards = o.forwards
<1> DEFINE t == TakeOption(o, a)
           Goal == /\ t \in NetOpts
                   /\ t.exit = 2 <=> o.exit = 2 \/ Wrong(a)
                   /\ t.exit = 0 =>
                        IF a[1] = "--forward"
                        THEN \E f \in Forward : /\ t.forwards = Append(o.forwards, f)
                                                /\ a[2] \in Forms(ToHostfwd(f))
                        ELSE t.forwards = o.forwards
<1> SUFFICES Goal OBVIOUS
<1>0. /\ o.exit \in {0, 2} /\ o.forwards \in Seq(Forward) /\ o.id \in {"net0", "net1", "0bad"}
      /\ o.mac \in {Unset, "good", "bad"} /\ o.hostPort \in 0 .. MaxPort
  BY DEF NetOpts
<1>1. [o EXCEPT !.exit = 2] \in NetOpts /\ [o EXCEPT !.exit = 2].exit = 2
  BY DEF NetOpts
<1>2. CASE o.exit = 2
  <2>1. t = o BY <1>2 DEF TakeOption
  <2> QED BY <1>2, <2>1
<1>3. CASE o.exit = 0 /\ a[1] = "--forward"
  <2>1. a[2] \in Seq(Fields) BY <1>3, OptionFacts
  <2>2. t = IF Parse(a[2]) = Invalid THEN [o EXCEPT !.exit = 2]
            ELSE [o EXCEPT !.forwards = Append(o.forwards, Parse(a[2]))]
    BY <1>3 DEF TakeOption
  <2>3. CASE Parse(a[2]) = Invalid
    <3>1. Wrong(a) BY <1>3, <2>3, FormIsParsed DEF Wrong
    <3> QED BY <1>1, <2>2, <2>3, <3>1
  <2>4. CASE Parse(a[2]) # Invalid
    <3>1. PICK f : f = Parse(a[2]) OBVIOUS
    <3>2. f \in Forward /\ a[2] \in Forms(ToHostfwd(f)) BY <2>1, <2>4, <3>1, ParsedHasForm
    <3>3. Append(o.forwards, f) \in Seq(Forward) BY <1>0, <3>2
    <3>4. t \in NetOpts /\ t.exit = 0 /\ t.forwards = Append(o.forwards, f)
      BY <1>0, <1>3, <2>2, <2>4, <3>1, <3>3 DEF NetOpts
    <3>5. ToHostfwd(f) \in Rule BY <3>2, RuleOf
    <3>6. ~Wrong(a) BY <1>3, <2>4, <3>2, <3>5, AddressFirstRefused DEF Wrong
    <3> QED BY <1>3, <3>2, <3>4, <3>6
  <2> QED BY <2>3, <2>4
<1>4. CASE o.exit = 0 /\ a[1] = "--host-port"
  <2>1. a[2] \in Fields BY <1>4, OptionFacts
  <2>2. PICK p : p = ParsePort(a[2]) OBVIOUS
  <2>3. t = IF p = 0 THEN [o EXCEPT !.exit = 2] ELSE [o EXCEPT !.hostPort = p]
    BY <1>4, <2>2 DEF TakeOption
  <2>4. 0 \notin Ports /\ Ports \subseteq 0 .. MaxPort BY PortsAssumption DEF Ports
  <2>5. CASE p \in Ports
    <3>1. t \in NetOpts /\ t.exit = 0 /\ t.forwards = o.forwards
      BY <1>0, <1>4, <2>3, <2>4, <2>5 DEF NetOpts
    <3>2. ~Wrong(a) BY <1>4, <2>1, <2>2, <2>5, FieldFacts DEF Wrong
    <3> QED BY <1>4, <3>1, <3>2
  <2>6. CASE p \notin Ports
    <3>1. p = 0 /\ Wrong(a) BY <1>4, <2>1, <2>2, <2>6, FieldFacts DEF Wrong
    <3> QED BY <1>1, <2>3, <3>1
  <2> QED BY <2>5, <2>6
<1>5. CASE o.exit = 0 /\ a[1] = "--id"
  <2>1. t = [o EXCEPT !.id = a[2]] BY <1>5 DEF TakeOption
  <2>2. t \in NetOpts /\ t.exit = 0 /\ t.forwards = o.forwards
    BY <1>0, <1>5, <2>1, OptionFacts DEF NetOpts
  <2>3. ~Wrong(a) BY <1>5 DEF Wrong
  <2> QED BY <1>5, <2>2, <2>3
<1>6. CASE o.exit = 0 /\ a[1] = "--mac"
  <2>1. t = [o EXCEPT !.mac = a[2]] BY <1>6 DEF TakeOption
  <2>2. t \in NetOpts /\ t.exit = 0 /\ t.forwards = o.forwards
    BY <1>0, <1>6, <2>1, OptionFacts DEF NetOpts
  <2>3. ~Wrong(a) BY <1>6 DEF Wrong
  <2> QED BY <1>6, <2>2, <2>3
<1>7. CASE o.exit = 0 /\ a[1] \in {"--json", "--user", "--model"}
  <2>1. t = o BY <1>7 DEF TakeOption
  <2>2. ~Wrong(a) BY <1>7 DEF Wrong
  <2> QED BY <1>7, <2>1, <2>2
<1>8. CASE /\ o.exit = 0
           /\ a[1] \notin {"--forward", "--host-port", "--id", "--mac", "--json", "--user",
                           "--model"}
  <2>1. t = [o EXCEPT !.exit = 2] BY <1>8 DEF TakeOption
  <2>2. Wrong(a) BY <1>8 DEF Wrong
  <2> QED BY <1>1, <2>1, <2>2
<1> HIDE DEF t
<1> QED BY <1>0, <1>2, <1>3, <1>4, <1>5, <1>6, <1>7, <1>8

LEMMA NoOptsType == NoOpts \in NetOpts /\ NoOpts.exit = 0 /\ NoOpts.forwards = <<>>
<1>1. <<>> \in Seq(Forward) /\ 0 \in 0 .. MaxPort BY PortsAssumption
<1> QED BY <1>1 DEF NoOpts, NetOpts

(* The flags that ask for a rule are counted. *)
LEMMA FlagsCount ==
    ASSUME NEW args, NEW n \in Nat
    PROVE  /\ ForwardFlags(args, 0) = {} /\ Cardinality(ForwardFlags(args, 0)) = 0
           /\ IsFiniteSet(ForwardFlags(args, n)) /\ Cardinality(ForwardFlags(args, n)) \in Nat
           /\ args[n + 1][1] = "--forward" =>
                /\ ForwardFlags(args, n + 1) = ForwardFlags(args, n) \cup {n + 1}
                /\ Cardinality(ForwardFlags(args, n + 1)) = Cardinality(ForwardFlags(args, n)) + 1
           /\ args[n + 1][1] # "--forward" => ForwardFlags(args, n + 1) = ForwardFlags(args, n)
<1>1. ForwardFlags(args, 0) = {} BY DEF ForwardFlags
<1>2. IsFiniteSet(ForwardFlags(args, n)) /\ Cardinality(ForwardFlags(args, n)) \in Nat
  <2>1. IsFiniteSet(1 .. n) BY FS_Interval
  <2>2. ForwardFlags(args, n) \subseteq 1 .. n BY DEF ForwardFlags
  <2> QED BY <2>1, <2>2, FS_Subset, FS_CardinalityType
<1>3. ASSUME args[n + 1][1] = "--forward"
      PROVE  /\ ForwardFlags(args, n + 1) = ForwardFlags(args, n) \cup {n + 1}
             /\ Cardinality(ForwardFlags(args, n + 1)) = Cardinality(ForwardFlags(args, n)) + 1
  <2>1. ForwardFlags(args, n + 1) = ForwardFlags(args, n) \cup {n + 1}
    BY <1>3 DEF ForwardFlags
  <2>2. n + 1 \notin ForwardFlags(args, n) BY DEF ForwardFlags
  <2> QED BY <1>2, <2>1, <2>2, FS_AddElement
<1>4. args[n + 1][1] # "--forward" => ForwardFlags(args, n + 1) = ForwardFlags(args, n)
  BY DEF ForwardFlags
<1> QED BY <1>1, <1>2, <1>3, <1>4, FS_EmptySet

LEMMA FlagsGrow ==
    ASSUME NEW args, NEW n \in Nat, NEW i \in ForwardFlags(args, n)
    PROVE  /\ i \in Nat /\ i >= 1 /\ i <= n
           /\ Cardinality(ForwardFlags(args, i)) \in 1 .. Cardinality(ForwardFlags(args, n))
<1>1. i \in Nat /\ i >= 1 /\ i <= n /\ i \in ForwardFlags(args, i) BY DEF ForwardFlags
<1>2. ForwardFlags(args, i) \subseteq ForwardFlags(args, n) BY <1>1 DEF ForwardFlags
<1>3. IsFiniteSet(ForwardFlags(args, n)) /\ Cardinality(ForwardFlags(args, n)) \in Nat
  BY FlagsCount
<1>4. IsFiniteSet(ForwardFlags(args, i)) /\ Cardinality(ForwardFlags(args, i)) \in Nat
  BY <1>1, FlagsCount
<1>5. Cardinality(ForwardFlags(args, i)) <= Cardinality(ForwardFlags(args, n))
  BY <1>2, <1>3, FS_Subset
<1>6. Cardinality(ForwardFlags(args, i)) # 0 BY <1>1, <1>4, FS_EmptySet
<1> QED BY <1>1, <1>3, <1>4, <1>5, <1>6

(***************************************************************************)
(* After n flags: the command has ended if one of them was wrong, and      *)
(* otherwise it has a rule for every --forward among them, in their order. *)
(***************************************************************************)
Taken(args, o, n) ==
    /\ o \in NetOpts
    /\ o.exit = 2 <=> \E i \in 1 .. n : Wrong(args[i])
    /\ o.exit = 0 =>
         /\ Len(o.forwards) = Cardinality(ForwardFlags(args, n))
         /\ \A i \in ForwardFlags(args, n) :
              args[i][2] \in Forms(ToHostfwd(o.forwards[Cardinality(ForwardFlags(args, i))]))

LEMMA TakenNone ==
    ASSUME NEW args
    PROVE  Taken(args, NoOpts, 0)
  BY NoOptsType, FlagsCount DEF Taken

LEMMA TakenOne ==
    ASSUME NEW args, NEW n \in Nat, NEW o, Taken(args, o, n), args[n + 1] \in Option
    PROVE  Taken(args, TakeOption(o, args[n + 1]), n + 1)
<1>1. PICK a, t : a = args[n + 1] /\ t = TakeOption(o, args[n + 1]) OBVIOUS
<1>2. o \in NetOpts /\ o.exit \in {0, 2} /\ o.forwards \in Seq(Forward)
  BY DEF Taken, NetOpts
<1>3. /\ t \in NetOpts
      /\ t.exit = 2 <=> o.exit = 2 \/ Wrong(a)
      /\ t.exit = 0 =>
           IF a[1] = "--forward"
           THEN \E f \in Forward : /\ t.forwards = Append(o.forwards, f)
                                   /\ a[2] \in Forms(ToHostfwd(f))
           ELSE t.forwards = o.forwards
  BY <1>1, <1>2, TakeFacts
<1>4. t.exit = 2 <=> \E i \in 1 .. n + 1 : Wrong(args[i])
  <2>1. o.exit = 2 <=> \E i \in 1 .. n : Wrong(args[i]) BY DEF Taken
  <2>2. (\E i \in 1 .. n + 1 : Wrong(args[i])) <=>
          (\E i \in 1 .. n : Wrong(args[i])) \/ Wrong(args[n + 1])
    <3>1. \A i \in 1 .. n + 1 : i \in 1 .. n \/ i = n + 1 OBVIOUS
    <3>2. n + 1 \in 1 .. n + 1 /\ \A i \in 1 .. n : i \in 1 .. n + 1 OBVIOUS
    <3> QED BY <3>1, <3>2, Zenon
  <2> QED BY <1>1, <1>3, <2>1, <2>2
<1>5. ASSUME t.exit = 0
      PROVE  /\ Len(t.forwards) = Cardinality(ForwardFlags(args, n + 1))
             /\ \A i \in ForwardFlags(args, n + 1) :
                  args[i][2] \in Forms(ToHostfwd(t.forwards[Cardinality(ForwardFlags(args, i))]))
  <2>1. o.exit = 0 BY <1>2, <1>3, <1>5
  <2>2. PICK k \in Nat : k = Cardinality(ForwardFlags(args, n)) BY FlagsCount
  <2>3. /\ Len(o.forwards) = k
        /\ \A i \in ForwardFlags(args, n) :
             args[i][2] \in Forms(ToHostfwd(o.forwards[Cardinality(ForwardFlags(args, i))]))
    BY <2>1, <2>2 DEF Taken
  <2>4. CASE a[1] # "--forward"
    <3>1. t.forwards = o.forwards BY <1>3, <1>5, <2>4
    <3>2. ForwardFlags(args, n + 1) = ForwardFlags(args, n) BY <1>1, <2>4, FlagsCount
    <3> QED BY <2>2, <2>3, <3>1, <3>2
  <2>5. CASE a[1] = "--forward"
    <3>1. PICK f \in Forward : t.forwards = Append(o.forwards, f) /\ a[2] \in Forms(ToHostfwd(f))
      BY <1>3, <1>5, <2>5
    <3>2. /\ ForwardFlags(args, n + 1) = ForwardFlags(args, n) \cup {n + 1}
          /\ Cardinality(ForwardFlags(args, n + 1)) = k + 1
      BY <1>1, <2>2, <2>5, FlagsCount
    <3>3. /\ Len(t.forwards) = k + 1 /\ t.forwards[k + 1] = f
          /\ \A j \in 1 .. k : t.forwards[j] = o.forwards[j]
      BY <1>2, <2>3, <3>1
    <3>4. ASSUME NEW i \in ForwardFlags(args, n)
          PROVE  args[i][2] \in Forms(ToHostfwd(t.forwards[Cardinality(ForwardFlags(args, i))]))
      <4>1. Cardinality(ForwardFlags(args, i)) \in 1 .. k BY <2>2, FlagsGrow
      <4> QED BY <2>3, <3>3, <4>1
    <3>5. args[n + 1][2] \in
            Forms(ToHostfwd(t.forwards[Cardinality(ForwardFlags(args, n + 1))]))
      BY <1>1, <3>1, <3>2, <3>3
    <3> QED BY <3>2, <3>3, <3>4, <3>5
  <2> QED BY <2>4, <2>5
<1> QED BY <1>1, <1>3, <1>4, <1>5 DEF Taken

LEMMA AllTaken ==
    ASSUME NEW args \in Seq(Option)
    PROVE  Taken(args, ParseNetOpts(args), Len(args))
<1>0. PICK K \in Nat : K = Len(args) OBVIOUS
<1> DEFINE T == {n \in 0 .. K : ~Taken(args, OptsAfter(args)[n], n)}
<1>1. T = {}
  <2> SUFFICES ASSUME T # {} PROVE FALSE OBVIOUS
  <2>1. PICK n \in T : \A m \in T : ~(m < n)
    <3>1. T \subseteq Nat OBVIOUS
    <3> QED BY <3>1, Smallest
  <2>2. n \in 0 .. K /\ ~Taken(args, OptsAfter(args)[n], n) OBVIOUS
  <2>3. CASE n = 0 BY <1>0, <2>2, <2>3, OptsSteps, TakenNone
  <2>4. CASE n # 0
    <3>1. PICK m \in Nat : n = m + 1 /\ m = n - 1 /\ m \in 0 .. K BY <2>2, <2>4
    <3>2. m \notin T BY <2>1, <3>1
    <3>3. Taken(args, OptsAfter(args)[m], m) BY <3>1, <3>2
    <3>4. OptsAfter(args)[n] = TakeOption(OptsAfter(args)[m], args[m + 1])
      BY <1>0, <2>2, <2>4, <3>1, OptsSteps
    <3>5. args[m + 1] \in Option
      <4>1. m + 1 \in 1 .. Len(args) BY <1>0, <2>2, <3>1
      <4> QED BY <4>1
    <3> QED BY <2>2, <3>1, <3>3, <3>4, <3>5, TakenOne
  <2> QED BY <2>3, <2>4
<1>2. K \in 0 .. K OBVIOUS
<1> QED BY <1>0, <1>1, <1>2 DEF ParseNetOpts

LEMMA ArgsPrint ==
    ASSUME NEW args \in Seq(Option)
    PROVE  /\ NetArgs(args).exit = 2 <=> Malformed(args) \/ NamesNoProtocol(args)
           /\ NetArgs(args).exit = 0 => AsksFor(args, NetArgs(args).rules)
<1>1. PICK o, rules : /\ o = ParseNetOpts(args)
                      /\ rules = [i \in DOMAIN o.forwards |-> ToHostfwd(o.forwards[i])]
  OBVIOUS
<1>2. Taken(args, o, Len(args)) BY <1>1, AllTaken
<1>3. /\ NetArgs(args).exit = IF o.exit = 2 THEN 2 ELSE IF Validate(o) THEN 0 ELSE 1
      /\ NetArgs(args).rules = rules
  BY <1>1 DEF NetArgs
<1>4. o.exit \in {0, 2} /\ o.forwards \in Seq(Forward) BY <1>2 DEF Taken, NetOpts
<1>5. Malformed(args) \/ NamesNoProtocol(args) <=> \E i \in 1 .. Len(args) : Wrong(args[i])
  BY DEF Malformed, NamesNoProtocol, Wrong
<1>6. NetArgs(args).exit = 2 <=> Malformed(args) \/ NamesNoProtocol(args)
  BY <1>2, <1>3, <1>5 DEF Taken
<1>7. ASSUME NetArgs(args).exit = 0 PROVE AsksFor(args, rules)
  <2>1. o.exit = 0 BY <1>3, <1>4, <1>7
  <2>2. PICK k \in Nat : k = Cardinality(ForwardFlags(args, Len(args))) /\ k = Len(o.forwards)
    BY <1>2, <1>4, <2>1 DEF Taken
  <2>3. DOMAIN o.forwards = 1 .. k BY <1>4, <2>2
  <2>4. rules = [i \in 1 .. k |-> ToHostfwd(o.forwards[i])] BY <1>1, <2>3
  <2>5. Len(rules) = k BY <2>4
  <2>6. ASSUME NEW i \in ForwardFlags(args, Len(args))
        PROVE  args[i][2] \in Forms(rules[Cardinality(ForwardFlags(args, i))])
    <3>0. Len(args) \in Nat OBVIOUS
    <3>1. Cardinality(ForwardFlags(args, i)) \in 1 .. k BY <2>2, <3>0, FlagsGrow
    <3>2. args[i][2] \in Forms(ToHostfwd(o.forwards[Cardinality(ForwardFlags(args, i))]))
      BY <1>2, <2>1 DEF Taken
    <3> QED BY <2>4, <3>1, <3>2
  <2> QED BY <2>2, <2>5, <2>6 DEF AsksFor
<1> QED BY <1>3, <1>6, <1>7

(***************************************************************************)
(* For any range of ports and any command lines: net args prints the rules *)
(* that its flags ask for in a documented form, all of them and in their   *)
(* order, and ends with status 2 exactly if a flag has no such form, or    *)
(* has the one with an address and without a protocol.                     *)
(***************************************************************************)
THEOREM PrintsTheRules == Spec => []PrintsWhatIsAsked
<1>1. PInv => PrintsWhatIsAsked
  <2> SUFFICES ASSUME PInv, NEW v \in Vms
               PROVE  LET cmd == NetArgs(options[v]) IN
                      /\ cmd.exit = 2 <=> Malformed(options[v]) \/ NamesNoProtocol(options[v])
                      /\ cmd.exit = 0 => AsksFor(options[v], cmd.rules)
    BY DEF PrintsWhatIsAsked
  <2>1. options[v] \in Seq(Option)
    <3>1. options[v] \in Args BY DEF PInv, TypeOK
    <3> QED BY <3>1, ForwardsAssumption
  <2> QED BY <2>1, ArgsPrint
<1> QED BY <1>1, ForwardInvariance, PTL
=============================================================================
