-------------------------- MODULE HvfBackend_proofs --------------------------
(***************************************************************************)
(* Proofs about HvfBackend for every set of VMs and processes, every       *)
(* number of disks and every bound.                                        *)
(***************************************************************************)
EXTENDS HvfBackend, SequenceTheorems, TLAPS

USE ConstantsAssumption

(***************************************************************************)
(* Constant records are of their types.                                    *)
(***************************************************************************)
LEMMA NullTypes ==
    /\ NoEntry \in VmEntry
    /\ NoProc \in QemuProc
    /\ NoOp \in Operation
  BY DEF NoEntry, VmEntry, NoProc, QemuProc, NoOp, Operation, Stack, View,
         Disks, Layers, Tags, Value, Absent, RunState, MigState, NoPrior

(***************************************************************************)
(* An exchange returns a reply and leaves QEMU as it was or as the command *)
(* made it, up to the replies left unread.                                 *)
(***************************************************************************)
LEMMA RepliesType ==
    ASSUME NEW q \in QemuProc, NEW r \in Reply, NEW x \in Replies(q, r)
    PROVE  /\ x.got \in Reply
           /\ \E u \in Seq(Reply) : x.q = [q EXCEPT !.unread = u]
  <1> DEFINE queue == Append(q.unread, r)
  <1>1. q.unread \in Seq(Reply)
    BY DEF QemuProc
  <1>2. queue \in Seq(Reply) /\ queue # << >>
    BY <1>1, AppendProperties
  <1>3. Head(queue) \in Reply /\ Tail(queue) \in Seq(Reply)
    BY <1>2, HeadTailProperties
  <1>4. "err" \in Reply
    BY DEF Reply
  <1>5. \/ \E g \in {Head(queue), "err"} :
             x = [got |-> g, q |-> [q EXCEPT !.unread = Tail(queue)]]
        \/ x = [got |-> "err", q |-> [q EXCEPT !.unread = queue]]
    BY DEF Replies
  <1>6. \E g \in Reply, u \in Seq(Reply) : x = [got |-> g, q |-> [q EXCEPT !.unread = u]]
    BY <1>2, <1>3, <1>4, <1>5, Zenon
  <1> QED
    BY <1>6

LEMMA ExecuteType ==
    ASSUME NEW q \in QemuProc, NEW q2 \in QemuProc, NEW r \in Reply,
           NEW x \in Execute(q, q2, r)
    PROVE  /\ x.got \in Reply
           /\ x.q \in QemuProc
           /\ x.q.vm \in {q.vm, q2.vm}
           /\ q.run = "exited" => x.q.run = "exited"
  <1>1. "err" \in Reply
    BY DEF Reply
  <1>2. CASE q.run = "exited"
    <2>1. x.got = "err" /\ x.q = q
      BY <1>2 DEF Execute
    <2> QED
      BY <1>1, <1>2, <2>1
  <1>3. CASE q.run # "exited"
    <2>1. x \in Replies(q2, r) \/ x \in Replies(q, "err")
      BY <1>3 DEF Execute
    <2>2. /\ x.got \in Reply
          /\ \E b \in {q, q2} : \E u \in Seq(Reply) : x.q = [b EXCEPT !.unread = u]
      BY <2>1, <1>1, RepliesType
    <2>3. x.q \in QemuProc
      BY <2>2 DEF QemuProc
    <2>4. x.q.vm \in {q.vm, q2.vm}
      BY <2>2 DEF QemuProc
    <2> QED
      BY <1>3, <2>2, <2>3, <2>4
  <1> QED
    BY <1>2, <1>3

(***************************************************************************)
(* What the commands make of a QEMU is a QEMU of the same VM that lives as *)
(* long.                                                                   *)
(***************************************************************************)
LEMMA ContType ==
    ASSUME NEW q \in QemuProc
    PROVE  Cont(q) \in QemuProc /\ Cont(q).vm = q.vm
  BY DEF QemuProc, Cont, RunState

LEMMA HaltType ==
    ASSUME NEW q \in QemuProc
    PROVE  Halt(q) \in QemuProc /\ Halt(q).vm = q.vm
  BY DEF QemuProc, Halt, RunState

LEMMA AddOverlayType ==
    ASSUME NEW q \in QemuProc, NEW d \in Disks, NEW n \in Layers
    PROVE  AddOverlay(q, d, n) \in QemuProc /\ AddOverlay(q, d, n).vm = q.vm
  BY DEF QemuProc, AddOverlay, Stack

LEMMA MigrateType ==
    ASSUME NEW q \in QemuProc, NEW n \in Layers
    PROVE  /\ Migrate(q, n) \in QemuProc /\ Migrate(q, n).vm = q.vm
           /\ MigrateIncoming(q, n) \in QemuProc /\ MigrateIncoming(q, n).vm = q.vm
  BY DEF QemuProc, Migrate, MigrateIncoming, MigState

LEMMA WriteType ==
    ASSUME NEW q \in QemuProc, NEW d \in Disks, NEW n \in Value
    PROVE  LET q2 == [q EXCEPT !.view[d] = n] IN
           q2 \in QemuProc /\ q2.vm = q.vm /\ q2.run = q.run
  BY DEF QemuProc, View

LEMMA IoErrorType ==
    ASSUME NEW q \in QemuProc
    PROVE  LET q2 == [q EXCEPT !.run = "io-error"] IN q2 \in QemuProc /\ q2.vm = q.vm
  BY DEF QemuProc, RunState

LEMMA CompletesType ==
    ASSUME NEW q \in QemuProc
    PROVE  LET q2 == [q EXCEPT !.mig = "completed", !.run = "postmigrate"] IN
           q2 \in QemuProc /\ q2.vm = q.vm
  BY DEF QemuProc, RunState, MigState

LEMMA FailsType ==
    ASSUME NEW q \in QemuProc
    PROVE  LET q2 == [q EXCEPT !.mig = "failed"] IN
           q2 \in QemuProc /\ q2.vm = q.vm /\ q2.run = q.run
  BY DEF QemuProc, MigState

LEMMA LoadType ==
    ASSUME NEW q \in QemuProc, NEW w \in View
    PROVE  LET q2 == [q EXCEPT !.mig = "none", !.run = "paused", !.view = w] IN
           q2 \in QemuProc /\ q2.vm = q.vm
  BY DEF QemuProc, RunState, MigState

LEMMA ReplyType ==
    /\ "ok" \in Reply /\ "err" \in Reply
    /\ \A q \in QemuProc : q.run \in Reply /\ q.mig \in Reply
  BY DEF Reply, QemuProc

-----------------------------------------------------------------------------
(***************************************************************************)
(* The steps that start no process: whatever lives afterwards lived before *)
(* and belongs to the same VM.                                             *)
(***************************************************************************)
ProcsKept ==
    \A r \in Pids : procs'[r].run # "exited" =>
        procs[r].run # "exited" /\ procs'[r].vm = procs[r].vm

LEMMA UpdateKeeps ==
    ASSUME procs \in [Pids -> QemuProc], NEW p \in Pids, NEW q \in QemuProc,
           q.vm = procs[p].vm, procs[p].run = "exited" => q.run = "exited",
           procs' = [procs EXCEPT ![p] = q]
    PROVE  procs' \in [Pids -> QemuProc] /\ ProcsKept
  BY DEF ProcsKept

(***************************************************************************)
(* A QMP command starts no process.                                        *)
(***************************************************************************)
LEMMA CommandKeeps ==
    ASSUME procs \in [Pids -> QemuProc], NEW p \in Pids,
           NEW q2 \in QemuProc, q2.vm = procs[p].vm,
           NEW r \in Reply, NEW x \in Execute(procs[p], q2, r),
           procs' = [procs EXCEPT ![p] = x.q]
    PROVE  procs' \in [Pids -> QemuProc] /\ ProcsKept
  <1>1. procs[p] \in QemuProc
    OBVIOUS
  <1>2. /\ x.q \in QemuProc
        /\ procs[p].run = "exited" => x.q.run = "exited"
        /\ x.q.vm \in {procs[p].vm, q2.vm}
    BY <1>1, ExecuteType
  <1>3. x.q.vm = procs[p].vm
    BY <1>2
  <1> QED
    BY <1>2, <1>3, UpdateKeeps

(***************************************************************************)
(* Such a step that changes no handle keeps Ownership, as long as a VM     *)
(* comes to rest only without a runtime.                                   *)
(***************************************************************************)
LEMMA KeptOwnership ==
    ASSUME Ownership, ProcsKept, op'.qemu = op.qemu,
           op.qemu # NoPid => op'.vm = op.vm,
           \A v \in VMs : vms'[v].runtime = vms[v].runtime,
           \A v \in VMs : vms'[v].state \in AtRest => vms[v].runtime = NoPid
    PROVE  Ownership'
  BY DEF Ownership, QemuOwned, Live, ProcsKept

(***************************************************************************)
(* The guest and QEMU by themselves.                                       *)
(***************************************************************************)
LEMMA IInvEnvironment ==
    ASSUME IInv, Environment
    PROVE  IInv'
  <1> USE DEF IInv, TypeOK
  <1>1. \A p \in Pids : Live(p) => procs[p].vm \in VMs
    BY DEF Ownership, QemuOwned, OpShape, NoOp
  <1>2. ASSUME procs' \in [Pids -> QemuProc], ProcsKept, UNCHANGED <<vms, op>>,
               data' \in [VMs -> [Disks -> [Layers -> Value]]],
               saved' \in [VMs -> [Layers -> View]], writes' \in Value
        PROVE  IInv'
    <2>1. Ownership'
      BY <1>2, KeptOwnership DEF Ownership
    <2>2. OpShape'
      BY <1>2 DEF OpShape
    <2> QED
      BY <1>2, <2>1, <2>2
  <1>3. ASSUME NEW p \in Pids, NEW d \in Disks, GuestWrite(p, d)
        PROVE  IInv'
    <2> DEFINE q == [procs[p] EXCEPT !.view[d] = writes + 1]
    <2>1. writes + 1 \in Value
      BY <1>3 DEF GuestWrite, Value
    <2>2. q \in QemuProc /\ q.vm = procs[p].vm /\ q.run = procs[p].run
      BY <2>1, WriteType
    <2>3. procs' \in [Pids -> QemuProc] /\ ProcsKept
      BY <1>3, <2>2, UpdateKeeps DEF GuestWrite
    <2>4. data' \in [VMs -> [Disks -> [Layers -> Value]]]
      BY <1>3, <2>1 DEF GuestWrite
    <2> QED
      BY <1>2, <1>3, <2>1, <2>3, <2>4 DEF GuestWrite
  <1>4. ASSUME NEW p \in Pids, IoError(p)
        PROVE  IInv'
    <2> DEFINE q == [procs[p] EXCEPT !.run = "io-error"]
    <2>1. q \in QemuProc /\ q.vm = procs[p].vm
      BY IoErrorType
    <2>2. procs' \in [Pids -> QemuProc] /\ ProcsKept
      BY <1>4, <2>1, UpdateKeeps DEF IoError
    <2> QED
      BY <1>2, <1>4, <2>2 DEF IoError
  <1>5. ASSUME NEW p \in Pids, QemuExit(p)
        PROVE  IInv'
    <2>1. procs' \in [Pids -> QemuProc] /\ ProcsKept
      BY <1>5, NullTypes DEF QemuExit, ProcsKept, NoProc
    <2> QED
      BY <1>2, <1>5, <2>1 DEF QemuExit
  <1>6. ASSUME NEW p \in Pids, MigrationCompletes(p)
        PROVE  IInv'
    <2> DEFINE q == [procs[p] EXCEPT !.mig = "completed", !.run = "postmigrate"]
    <2>0. Live(p)
      BY <1>6 DEF MigrationCompletes, Live
    <2>1. q \in QemuProc /\ q.vm = procs[p].vm
      BY CompletesType
    <2>2. procs' \in [Pids -> QemuProc] /\ ProcsKept
      BY <1>6, <2>1, <2>0, UpdateKeeps DEF MigrationCompletes, Live
    <2>3. procs[p].vm \in VMs /\ procs[p].view \in View /\ procs[p].migTag \in Layers
      BY <1>1, <2>0 DEF QemuProc
    <2>4. saved' \in [VMs -> [Layers -> View]]
      BY <1>6, <2>3 DEF MigrationCompletes
    <2> QED
      BY <1>2, <1>6, <2>2, <2>4 DEF MigrationCompletes
  <1>7. ASSUME NEW p \in Pids, MigrationFails(p)
        PROVE  IInv'
    <2> DEFINE q == [procs[p] EXCEPT !.mig = "failed"]
    <2>1. q \in QemuProc /\ q.vm = procs[p].vm /\ q.run = procs[p].run
      BY FailsType
    <2>2. procs' \in [Pids -> QemuProc] /\ ProcsKept
      BY <1>7, <2>1, UpdateKeeps DEF MigrationFails
    <2> QED
      BY <1>2, <1>7, <2>2 DEF MigrationFails
  <1>8. ASSUME NEW p \in Pids, LoadCompletes(p)
        PROVE  IInv'
    <2> DEFINE w == saved[procs[p].vm][procs[p].migTag]
               q == [procs[p] EXCEPT !.mig = "none", !.run = "paused", !.view = w]
    <2>1. procs[p].vm \in VMs /\ procs[p].migTag \in Layers
      BY <1>1, <1>8 DEF LoadCompletes, Live, QemuProc
    <2>2. w \in View
      BY <2>1
    <2>3. q \in QemuProc /\ q.vm = procs[p].vm
      BY <2>2, LoadType
    <2>4. procs' \in [Pids -> QemuProc] /\ ProcsKept
      BY <1>8, <2>3, UpdateKeeps DEF LoadCompletes
    <2> QED
      BY <1>2, <1>8, <2>4 DEF LoadCompletes
  <1> QED
    BY <1>3, <1>4, <1>5, <1>6, <1>7, <1>8 DEF Environment

-----------------------------------------------------------------------------
(***************************************************************************)
(* Updates of an entry stay in its type.                                   *)
(***************************************************************************)
LEMMA EntryType ==
    ASSUME NEW e \in VmEntry, NEW s \in VmStates \cup {Absent},
           NEW p \in Pids \cup {NoPid}
    PROVE  /\ [e EXCEPT !.state = s] \in VmEntry
           /\ [e EXCEPT !.runtime = p, !.state = s] \in VmEntry
           /\ [e EXCEPT !.runtime = p] \in VmEntry
  BY DEF VmEntry

LEMMA SeqType ==
    ASSUME NEW e \in VmEntry, e.seq < MaxSeq, NEW s, s = "Snapshotting"
    PROVE  LET e1 == [e EXCEPT !.seq = e.seq + 1]
               e2 == [e EXCEPT !.seq = e.seq + 1, !.state = s]
               e3 == [e EXCEPT !.runtime = NoPid, !.seq = e.seq + 1]
           IN /\ e1 \in VmEntry /\ e1.state = e.state /\ e1.runtime = e.runtime
              /\ e2 \in VmEntry /\ e2.state = "Snapshotting" /\ e2.runtime = e.runtime
              /\ e2.seq \in Tags
              /\ e3 \in VmEntry /\ e3.state = e.state /\ e3.runtime = NoPid
              /\ e3.seq \in Tags
  <1>1. e.seq + 1 \in Tags /\ e.seq + 1 \in Layers
    <2>1. e.seq \in Layers
      BY DEF VmEntry
    <2> QED
      BY <2>1 DEF Layers, Tags
  <1>2. ASSUME NEW n \in Layers
        PROVE  LET e1 == [e EXCEPT !.seq = n]
                   e2 == [e EXCEPT !.seq = n, !.state = s]
                   e3 == [e EXCEPT !.runtime = NoPid, !.seq = n]
               IN /\ e1 \in VmEntry /\ e1.state = e.state /\ e1.runtime = e.runtime
                  /\ e2 \in VmEntry /\ e2.state = "Snapshotting" /\ e2.runtime = e.runtime
                  /\ e2.seq = n
                  /\ e3 \in VmEntry /\ e3.state = e.state /\ e3.runtime = NoPid
                  /\ e3.seq = n
    BY DEF VmEntry, VmStates
  <1> QED
    BY <1>1, <1>2

(***************************************************************************)
(* create, delete, pause, resume and stop.                                 *)
(***************************************************************************)
LEMMA IInvCreate ==
    ASSUME IInv, NEW v \in VMs, Create(v)
    PROVE  IInv'
  <1> USE DEF IInv
  <1>1. [NoEntry EXCEPT !.state = "Defined"] \in VmEntry
    BY NullTypes DEF VmEntry, VmStates
  <1>2. TypeOK'
    BY <1>1 DEF Create, TypeOK
  <1>3. OpShape'
    BY DEF Create, OpShape, Idle, NoOp, TypeOK, VmEntry, SnapshotPCs, BootPCs,
           RestorePCs, NoEntry
  <1>4. Ownership'
    <2>1. vms[v].runtime = NoPid
      BY DEF Create, Ownership, AtRest
    <2>2. vms' = [vms EXCEPT ![v] = [NoEntry EXCEPT !.state = "Defined"]]
          /\ op' = op /\ procs' = procs
      BY DEF Create
    <2>3. \A w \in VMs : vms'[w].runtime = vms[w].runtime
      BY <2>1, <2>2 DEF NoEntry, TypeOK
    <2>4. \A w \in VMs : vms'[w].state \in AtRest => vms[w].runtime = NoPid
      BY <2>1, <2>2 DEF Ownership, TypeOK
    <2> QED
      BY <2>2, <2>3, <2>4, KeptOwnership DEF ProcsKept
  <1> QED
    BY <1>2, <1>3, <1>4

(* Dropping the process of a handle that is given up. *)
LEMMA QuitKeeps ==
    ASSUME procs \in [Pids -> QemuProc], NEW p, Quit(p)
    PROVE  /\ procs' \in [Pids -> QemuProc] /\ ProcsKept
           /\ p \in Pids => procs'[p].run = "exited"
  BY NullTypes DEF Quit, ProcsKept, NoProc

(***************************************************************************)
(* A step that gives up one VM's runtime and kills its process keeps       *)
(* Ownership.                                                              *)
(***************************************************************************)
LEMMA QuitOwnership ==
    ASSUME TypeOK, Ownership, NEW v \in VMs, Quit(vms[v].runtime),
           op.qemu = NoPid, op'.qemu = NoPid, vms' \in [VMs -> VmEntry],
           vms'[v].runtime = NoPid,
           \A w \in VMs \ {v} : vms'[w] = vms[w]
    PROVE  Ownership'
  <1>1. ProcsKept /\ (vms[v].runtime \in Pids => procs'[vms[v].runtime].run = "exited")
    BY QuitKeeps DEF TypeOK
  <1>2. QemuOwned'
    <2> SUFFICES ASSUME NEW p \in Pids, procs'[p].run # "exited"
                 PROVE  procs'[p].vm \in VMs /\ vms'[procs'[p].vm].runtime = p
      BY DEF QemuOwned, Live
    <2>1. procs[p].run # "exited" /\ procs'[p].vm = procs[p].vm /\ p # vms[v].runtime
      BY <1>1 DEF ProcsKept
    <2>2. procs[p].vm \in VMs /\ vms[procs[p].vm].runtime = p
      BY <2>1 DEF Ownership, QemuOwned, Live
    <2> QED
      BY <2>1, <2>2
  <1> QED
    BY <1>2 DEF Ownership

LEMMA IInvDelete ==
    ASSUME IInv, NEW v \in VMs, Delete(v)
    PROVE  IInv'
  <1> USE DEF IInv
  <1>1. Quit(vms[v].runtime)
    BY DEF Delete, Quit
  <1>2. TypeOK'
    BY <1>1, QuitKeeps, NullTypes DEF Delete, TypeOK
  <1>3. op = NoOp /\ op' = op
    BY DEF Delete, OpShape, Idle
  <1>4. OpShape'
    BY <1>3 DEF Delete, OpShape, NoOp, TypeOK, SnapshotPCs, BootPCs, RestorePCs,
                NoEntry, Absent
  <1>5. Ownership'
    <2>1. /\ vms' \in [VMs -> VmEntry]
          /\ vms'[v].runtime = NoPid
          /\ \A w \in VMs \ {v} : vms'[w] = vms[w]
      BY <1>2 DEF Delete, TypeOK, NoEntry
    <2> QED
      BY <1>1, <1>3, <2>1, QuitOwnership DEF NoOp
  <1> QED
    BY <1>2, <1>4, <1>5

LEMMA IInvStop ==
    ASSUME IInv, NEW v \in VMs, Stop(v)
    PROVE  IInv'
  <1> USE DEF IInv
  <1>1. PICK s \in {"Stopped", vms[v].state} :
              vms' = [vms EXCEPT ![v] = [@ EXCEPT !.runtime = NoPid, !.state = s]]
    BY DEF Stop, To
  <1>2. vms[v] \in VmEntry /\ s \in VmStates \cup {Absent} /\ s # "Snapshotting"
    <2>1. vms[v] \in VmEntry
      BY DEF TypeOK
    <2>2. vms[v].state \in {"Running", "Paused"}
      BY DEF Stop, From
    <2> QED
      BY <2>1, <2>2 DEF VmStates
  <1>3. /\ vms' \in [VMs -> VmEntry]
        /\ vms'[v].runtime = NoPid /\ vms'[v].state = s
        /\ \A w \in VMs \ {v} : vms'[w] = vms[w]
    <2>1. [vms[v] EXCEPT !.runtime = NoPid, !.state = s] \in VmEntry
      BY <1>2, EntryType
    <2> QED
      BY <1>1, <1>2, <2>1 DEF TypeOK, VmEntry
  <1>4. TypeOK'
    BY <1>3, QuitKeeps DEF Stop, TypeOK
  <1>5. op = NoOp /\ op' = op
    BY DEF Stop, OpShape, Idle
  <1>6. OpShape'
    BY <1>2, <1>3, <1>5 DEF OpShape, NoOp, SnapshotPCs, BootPCs, RestorePCs
  <1>7. Ownership'
    BY <1>3, <1>5, QuitOwnership DEF Stop, NoOp
  <1> QED
    BY <1>4, <1>6, <1>7

(* One QMP command to the runtime of v, and the new state s of v. *)
LEMMA IInvCommand ==
    ASSUME IInv, Idle, NEW v \in VMs, vms[v].runtime # NoPid,
           NEW q2 \in QemuProc, q2.vm = procs[vms[v].runtime].vm,
           NEW x \in Execute(procs[vms[v].runtime], q2, "ok"),
           procs' = [procs EXCEPT ![vms[v].runtime] = x.q],
           NEW s \in {"Running", "Paused"}, vms' = [vms EXCEPT ![v].state = s],
           UNCHANGED <<op, data, saved, writes>>
    PROVE  IInv'
  <1> USE DEF IInv
  <1>1. vms[v].runtime \in Pids /\ vms[v] \in VmEntry
    BY DEF TypeOK, VmEntry
  <1>2. procs' \in [Pids -> QemuProc] /\ ProcsKept
    BY <1>1, CommandKeeps, ReplyType DEF TypeOK
  <1>3. /\ vms' \in [VMs -> VmEntry]
        /\ vms'[v].runtime = vms[v].runtime /\ vms'[v].state = s
        /\ \A w \in VMs \ {v} : vms'[w] = vms[w]
    <2>1. [vms[v] EXCEPT !.state = s] \in VmEntry
      BY <1>1, EntryType DEF VmStates
    <2> QED
      BY <1>1, <2>1 DEF TypeOK, VmEntry
  <1>4. TypeOK'
    BY <1>2, <1>3 DEF TypeOK
  <1>5. op = NoOp
    BY DEF OpShape, Idle
  <1>6. OpShape'
    BY <1>3, <1>5 DEF OpShape, NoOp, SnapshotPCs, BootPCs, RestorePCs
  <1>7. Ownership'
    <2>1. \A w \in VMs : vms'[w].runtime = vms[w].runtime
      BY <1>3
    <2>2. \A w \in VMs : vms'[w].state \in AtRest => vms[w].runtime = NoPid
      BY <1>3 DEF AtRest, Absent, Ownership
    <2> QED
      BY <1>2, <2>1, <2>2, KeptOwnership
  <1> QED
    BY <1>4, <1>6, <1>7

LEMMA IInvPause ==
    ASSUME IInv, NEW v \in VMs, Pause(v)
    PROVE  IInv'
  <1> DEFINE q == procs[vms[v].runtime]
  <1>1. q \in QemuProc
    BY DEF IInv, TypeOK, VmEntry, Pause
  <1>2. PICK x \in Execute(q, Halt(q), "ok") :
          /\ procs' = [procs EXCEPT ![vms[v].runtime] = x.q]
          /\ vms' = [vms EXCEPT ![v].state = IF x.got = "err" THEN @ ELSE "Paused"]
    BY DEF Pause, To
  <1>3. Halt(q) \in QemuProc /\ Halt(q).vm = q.vm
    BY <1>1, HaltType
  <1>4. PICK s \in {"Running", "Paused"} : vms' = [vms EXCEPT ![v].state = s]
    BY <1>2 DEF Pause, From
  <1> HIDE DEF q
  <1> QED
    BY <1>2, <1>3, <1>4, IInvCommand DEF Pause, q

LEMMA IInvResume ==
    ASSUME IInv, NEW v \in VMs, Resume(v)
    PROVE  IInv'
  <1> DEFINE q == procs[vms[v].runtime]
  <1>1. q \in QemuProc
    BY DEF IInv, TypeOK, VmEntry, Resume
  <1>2. PICK x \in Execute(q, Cont(q), "ok") :
          /\ procs' = [procs EXCEPT ![vms[v].runtime] = x.q]
          /\ vms' = [vms EXCEPT ![v].state = IF x.got = "err" THEN @ ELSE "Running"]
    BY DEF Resume, To
  <1>3. Cont(q) \in QemuProc /\ Cont(q).vm = q.vm
    BY <1>1, ContType
  <1>4. PICK s \in {"Running", "Paused"} : vms' = [vms EXCEPT ![v].state = s]
    BY <1>2 DEF Resume, From
  <1> HIDE DEF q
  <1> QED
    BY <1>2, <1>3, <1>4, IInvCommand DEF Resume, q

-----------------------------------------------------------------------------
(***************************************************************************)
(* boot, and the steps restore shares with it.                             *)
(***************************************************************************)
LEMMA IInvBootBegin ==
    ASSUME IInv, NEW v \in VMs, BootBegin(v)
    PROVE  IInv'
  <1> USE DEF IInv
  <1>1. op = NoOp /\ op' = [NoOp EXCEPT !.pc = "boot_spawn", !.vm = v]
        /\ UNCHANGED <<vms, procs, data, saved, writes>>
    BY DEF BootBegin, OpShape, Idle
  <1>2. /\ op'.pc = "boot_spawn" /\ op'.vm = v /\ op'.qemu = NoPid
        /\ op'.prior = NoPrior
    BY <1>1 DEF NoOp
  <1>3. op' \in Operation
    <2>1. \A o \in Operation : [o EXCEPT !.pc = "boot_spawn", !.vm = v] \in Operation
      BY DEF Operation, BootPCs
    <2> QED
      BY <1>1, <2>1, NullTypes
  <1>4. vms[v].state \in From.Boot /\ vms[v].runtime = NoPid
    BY DEF BootBegin, Ownership, AtRest, From
  <1>5. OpShape'
    BY <1>1, <1>2, <1>4 DEF OpShape, NoOp, SnapshotPCs, BootPCs, RestorePCs
  <1>6. Ownership'
    BY <1>1, <1>2, KeptOwnership DEF ProcsKept, NoOp, Ownership
  <1> QED
    BY <1>1, <1>3, <1>5, <1>6 DEF TypeOK

(* Returning from boot or restore with an error, without a process. *)
LEMMA IInvReturn ==
    ASSUME IInv, op.pc \in {"boot_spawn", "rest_overlay", "rest_spawn"},
           op' = NoOp, UNCHANGED <<vms, procs, data, saved, writes>>
    PROVE  IInv'
  <1> USE DEF IInv
  <1>1. op.qemu = NoPid
    BY DEF OpShape
  <1>2. TypeOK'
    BY NullTypes DEF TypeOK
  <1>3. OpShape'
    BY DEF OpShape, NoOp, SnapshotPCs, BootPCs, RestorePCs
  <1>4. Ownership'
    BY <1>1, KeptOwnership DEF ProcsKept, NoOp, Ownership
  <1> QED
    BY <1>2, <1>3, <1>4

(* Returning with an error, the local QemuVm dropped. *)
LEMMA IInvDropLocal ==
    ASSUME IInv, op.qemu # NoPid, DropLocal, UNCHANGED <<data, saved, writes>>
    PROVE  IInv'
  <1> USE DEF IInv
  <1>1. Quit(op.qemu) /\ op' = NoOp /\ UNCHANGED vms
    BY DEF DropLocal, Quit
  <1>2. op.qemu \in Pids
    BY DEF TypeOK, Operation
  <1>3. procs' \in [Pids -> QemuProc] /\ ProcsKept /\ procs'[op.qemu].run = "exited"
    BY <1>1, <1>2, QuitKeeps DEF TypeOK
  <1>4. TypeOK'
    BY <1>1, <1>3, NullTypes DEF TypeOK
  <1>5. OpShape'
    BY <1>1 DEF OpShape, NoOp, SnapshotPCs, BootPCs, RestorePCs
  <1>6. QemuOwned'
    <2> SUFFICES ASSUME NEW p \in Pids, procs'[p].run # "exited"
                 PROVE  procs'[p].vm \in VMs /\ vms'[procs'[p].vm].runtime = p
      BY DEF QemuOwned, Live
    <2>1. procs[p].run # "exited" /\ procs'[p].vm = procs[p].vm /\ p # op.qemu
      BY <1>3 DEF ProcsKept
    <2>2. procs[p].vm \in VMs /\ vms[procs[p].vm].runtime = p
      BY <2>1 DEF Ownership, QemuOwned, Live
    <2> QED
      BY <1>1, <2>1, <2>2
  <1>7. Ownership'
    <2>1. op'.qemu = NoPid
      BY <1>1 DEF NoOp
    <2> QED
      BY <1>1, <1>6, <2>1 DEF Ownership
  <1> QED
    BY <1>4, <1>5, <1>7

(* The local QemuVm becomes the runtime. *)
LEMMA IInvInstall ==
    ASSUME IInv, op.qemu # NoPid, NEW o \in {"Boot", "Restore"}, Install(o),
           procs' \in [Pids -> QemuProc], ProcsKept, UNCHANGED <<data, saved, writes>>
    PROVE  IInv'
  <1> USE DEF IInv
  <1> DEFINE v == op.vm
  <1>1. /\ op.qemu \in Pids /\ v \in VMs /\ vms[v] \in VmEntry
        /\ vms[v].runtime = NoPid /\ To[o] = "Running"
    BY DEF TypeOK, Operation, OpShape, BootPCs, RestorePCs, To
  <1>2. /\ vms' = [vms EXCEPT ![v] = [vms[v] EXCEPT !.runtime = op.qemu,
                                                  !.state = "Running"]]
        /\ op' = NoOp
    BY <1>1 DEF Install
  <1>3. /\ vms' \in [VMs -> VmEntry]
        /\ vms'[v].runtime = op.qemu /\ vms'[v].state = "Running"
        /\ \A w \in VMs \ {v} : vms'[w] = vms[w]
    <2>1. [vms[v] EXCEPT !.runtime = op.qemu, !.state = "Running"] \in VmEntry
      BY <1>1, EntryType DEF VmStates
    <2> QED
      BY <1>1, <1>2, <2>1 DEF TypeOK, VmEntry
  <1>4. TypeOK'
    BY <1>2, <1>3, NullTypes DEF TypeOK
  <1>5. OpShape'
    BY <1>2, <1>3 DEF OpShape, NoOp, SnapshotPCs, BootPCs, RestorePCs
  <1>6. QemuOwned'
    <2> SUFFICES ASSUME NEW p \in Pids, procs'[p].run # "exited"
                 PROVE  procs'[p].vm \in VMs /\ vms'[procs'[p].vm].runtime = p
      BY DEF QemuOwned, Live
    <2>1. procs[p].run # "exited" /\ procs'[p].vm = procs[p].vm
      BY DEF ProcsKept
    <2>2. \/ procs[p].vm \in VMs /\ vms[procs[p].vm].runtime = p
          \/ op.qemu = p /\ procs[p].vm = v
      BY <2>1 DEF Ownership, QemuOwned, Live
    <2> QED
      BY <1>1, <1>3, <2>1, <2>2
  <1>7. Ownership'
    <2>1. \A w \in VMs : vms'[w].state \in AtRest => vms'[w].runtime = NoPid
      BY <1>3 DEF Ownership, AtRest, Absent
    <2>2. \A w \in VMs \ {v} : vms[w].runtime # op.qemu
      BY DEF Ownership
    <2>3. \A w, u \in VMs : vms'[w].runtime = vms'[u].runtime /\ w # u
                             => vms'[w].runtime = NoPid
      BY <1>3, <2>2 DEF Ownership
    <2>4. op'.qemu = NoPid
      BY <1>2 DEF NoOp
    <2> QED
      BY <1>6, <2>1, <2>3, <2>4 DEF Ownership
  <1> QED
    BY <1>4, <1>5, <1>7

(* spawn: the one step that makes a process live. *)
LEMMA IInvSpawn ==
    ASSUME IInv, UNCHANGED <<vms, data, saved, writes>>,
           \/ op.pc = "boot_spawn" /\ Spawn("prelaunch", "boot_cont")
           \/ op.pc = "rest_spawn" /\ Spawn("inmigrate", "rest_incoming")
    PROVE  IInv'
  <1> USE DEF IInv
  <1> DEFINE v == op.vm
             a == vms[v].active
             w == [d \in Disks |-> data[v][d][a[d]]]
  <1>1. PICK run \in {"prelaunch", "inmigrate"}, next \in {"boot_cont", "rest_incoming"} :
             /\ op.pc = "boot_spawn" => next = "boot_cont"
             /\ op.pc = "rest_spawn" => next = "rest_incoming"
             /\ op.pc \in {"boot_spawn", "rest_spawn"}
             /\ Spawn(run, next)
    OBVIOUS
  <1>2. PICK p \in Pids \ Handles :
          /\ procs' = [procs EXCEPT ![p] =
                [NoProc EXCEPT !.vm = v, !.run = run, !.node = a, !.top = a, !.view = w]]
          /\ op' = [op EXCEPT !.pc = next, !.qemu = p]
    BY <1>1 DEF Spawn, Launched
  <1>3. /\ v \in VMs /\ a \in Stack /\ op.qemu = NoPid /\ vms[v].runtime = NoPid
        /\ op.prior = NoPrior
    BY <1>1 DEF OpShape, TypeOK, VmEntry, BootPCs, RestorePCs, SnapshotPCs
  <1>4. w \in View
    BY <1>3 DEF TypeOK, Stack, View
  <1>5. [NoProc EXCEPT !.vm = v, !.run = run, !.node = a, !.top = a, !.view = w]
          \in QemuProc
    <2>1. run \in RunState
      BY DEF RunState
    <2>2. \A z \in QemuProc :
            [z EXCEPT !.vm = v, !.run = run, !.node = a, !.top = a, !.view = w] \in QemuProc
      BY <1>3, <1>4, <2>1 DEF QemuProc
    <2> QED
      BY <2>2, NullTypes
  <1>6. procs' \in [Pids -> QemuProc]
        /\ procs'[p].vm = v
        /\ \A r \in Pids \ {p} : procs'[r] = procs[r]
    BY <1>2, <1>5 DEF TypeOK, NoProc
  <1>7. op' \in Operation /\ op'.pc = next /\ op'.qemu = p /\ op'.vm = v
        /\ op'.prior = op.prior /\ op'.snap = op.snap
    <2>1. op \in Operation
      BY DEF TypeOK
    <2>2. next \in BootPCs \cup RestorePCs
      BY DEF BootPCs, RestorePCs
    <2> QED
      BY <1>2, <2>1, <2>2 DEF Operation
  <1>8. TypeOK'
    BY <1>6, <1>7 DEF TypeOK
  <1>9. OpShape'
    BY <1>1, <1>3, <1>7 DEF OpShape, NoOp, SnapshotPCs, BootPCs, RestorePCs
  <1>10. \A u \in VMs : vms[u].runtime # p
    BY <1>2 DEF Handles
  <1>11. QemuOwned'
    BY <1>3, <1>6, <1>7 DEF Ownership, QemuOwned, Live
  <1>12. Ownership'
    BY <1>7, <1>10, <1>11 DEF Ownership
  <1> QED
    BY <1>8, <1>9, <1>12

LEMMA IInvBoot ==
    ASSUME IInv, BootSpawn \/ BootCont
    PROVE  IInv'
  <1>1. CASE BootSpawn
    <2>1. CASE SpawnFails
      BY <1>1, <2>1, IInvReturn DEF BootSpawn, SpawnFails
    <2>2. CASE Spawn("prelaunch", "boot_cont")
      BY <1>1, <2>2, IInvSpawn DEF BootSpawn
    <2> QED
      BY <1>1, <2>1, <2>2 DEF BootSpawn
  <1>2. CASE BootCont
    <2> DEFINE q == procs[op.qemu]
    <2>1. op.qemu # NoPid /\ op.qemu \in Pids
      BY <1>2 DEF BootCont, IInv, OpShape, TypeOK, Operation
    <2>2. q \in QemuProc
      BY <2>1 DEF IInv, TypeOK
    <2>3. CASE DropLocal
      BY <1>2, <2>1, <2>3, IInvDropLocal DEF BootCont
    <2>4. ASSUME NEW x \in Execute(q, Cont(q), "ok"),
                 procs' = [procs EXCEPT ![op.qemu] = x.q], Install("Boot")
          PROVE  IInv'
      <3>1. procs' \in [Pids -> QemuProc] /\ ProcsKept
        BY <2>1, <2>2, <2>4, ContType, ReplyType, CommandKeeps DEF IInv, TypeOK
      <3> QED
        BY <1>2, <2>1, <2>4, <3>1, IInvInstall DEF BootCont
    <2> QED
      BY <1>2, <2>3, <2>4 DEF BootCont
  <1> QED
    BY <1>1, <1>2

-----------------------------------------------------------------------------
(***************************************************************************)
(* snapshot.                                                               *)
(***************************************************************************)
LEMMA IInvSnapshotBegin ==
    ASSUME IInv, NEW v \in VMs, SnapshotBegin(v)
    PROVE  IInv'
  <1> USE DEF IInv
  <1>1. op = NoOp /\ UNCHANGED <<procs, data, saved, writes>>
    BY DEF SnapshotBegin, OpShape, Idle
  <1>2. vms[v] \in VmEntry /\ vms[v].seq < MaxSeq /\ vms[v].state \in Priors
    BY DEF TypeOK, SnapshotBegin, From, Priors
  <1> DEFINE e1 == [vms[v] EXCEPT !.seq = vms[v].seq + 1]
             e2 == [vms[v] EXCEPT !.seq = vms[v].seq + 1, !.state = To.SnapshotBegin]
  <1>e. /\ e1 \in VmEntry /\ e1.state = vms[v].state /\ e1.runtime = vms[v].runtime
        /\ e2 \in VmEntry /\ e2.state = "Snapshotting" /\ e2.runtime = vms[v].runtime
        /\ e2.seq \in Tags
    <2>1. To.SnapshotBegin = "Snapshotting"
      BY DEF To
    <2> QED
      BY <1>2, <2>1, SeqType
  <1>3. CASE vms[v].runtime = NoPid
    <2>1. vms' = [vms EXCEPT ![v] = e1] /\ op' = op
      BY <1>3 DEF SnapshotBegin
    <2>2. /\ vms' \in [VMs -> VmEntry]
          /\ \A w \in VMs : vms'[w].state = vms[w].state /\ vms'[w].runtime = vms[w].runtime
      <3> HIDE DEF e1
      <3> QED
        BY <1>e, <2>1 DEF TypeOK
    <2>3. TypeOK'
      BY <1>1, <2>1, <2>2 DEF TypeOK
    <2>4. OpShape'
      BY <1>1, <2>1, <2>2 DEF OpShape, NoOp, SnapshotPCs, BootPCs, RestorePCs
    <2>5. Ownership'
      BY <1>1, <2>1, <2>2, KeptOwnership DEF ProcsKept, Ownership
    <2> QED
      BY <2>3, <2>4, <2>5
  <1>4. CASE vms[v].runtime # NoPid
    <2>1. /\ vms' = [vms EXCEPT ![v] = e2]
          /\ op' = [NoOp EXCEPT !.pc = "snap_status", !.vm = v, !.prior = vms[v].state]
      BY <1>4, Zenon DEF SnapshotBegin
    <2>2. /\ vms' \in [VMs -> VmEntry]
          /\ \A w \in VMs : vms'[w].runtime = vms[w].runtime
          /\ vms'[v].state = "Snapshotting" /\ vms'[v].seq \in Tags
          /\ \A w \in VMs \ {v} : vms'[w] = vms[w]
      <3> HIDE DEF e2
      <3> QED
        BY <1>e, <2>1 DEF TypeOK
    <2>3. /\ op'.pc = "snap_status" /\ op'.vm = v /\ op'.prior = vms[v].state
          /\ op'.qemu = NoPid /\ op'.i = 0
      BY <2>1 DEF NoOp
    <2>4. op' \in Operation
      <3>1. \A o \in Operation, s \in Priors :
               [o EXCEPT !.pc = "snap_status", !.vm = v, !.prior = s] \in Operation
        BY DEF Operation, SnapshotPCs
      <3> QED
        BY <1>2, <2>1, <3>1, NullTypes
    <2>5. TypeOK'
      BY <1>1, <2>2, <2>4 DEF TypeOK
    <2>6. OpShape'
      BY <1>1, <1>2, <1>4, <2>2, <2>3
      DEF OpShape, NoOp, SnapshotPCs, BootPCs, RestorePCs
    <2>7. Ownership'
      <3>1. \A w \in VMs : vms'[w].state \in AtRest => vms[w].runtime = NoPid
        BY <2>2 DEF Ownership, AtRest, Absent
      <3> QED
        BY <1>1, <2>2, <2>3, <3>1, KeptOwnership DEF ProcsKept, NoOp
    <2> QED
      BY <2>5, <2>6, <2>7
  <1> QED
    BY <1>3, <1>4

(* A failed snapshot: back to the prior state, whatever was done to QEMU. *)
LEMMA IInvSnapshotFails ==
    ASSUME IInv, op.pc \in SnapshotPCs, SnapshotFails,
           procs' \in [Pids -> QemuProc], ProcsKept,
           data' \in [VMs -> [Disks -> [Layers -> Value]]], UNCHANGED <<saved, writes>>
    PROVE  IInv'
  <1> USE DEF IInv
  <1> DEFINE v == op.vm
  <1>1. /\ v \in VMs /\ vms[v] \in VmEntry /\ op.prior \in Priors
        /\ op.qemu = NoPid
    BY DEF OpShape, TypeOK, SnapshotPCs
  <1>2. vms' = [vms EXCEPT ![v] = [vms[v] EXCEPT !.state = op.prior]] /\ op' = NoOp
    BY DEF SnapshotFails
  <1>3. /\ vms' \in [VMs -> VmEntry]
        /\ vms'[v].runtime = vms[v].runtime /\ vms'[v].state = op.prior
        /\ \A w \in VMs \ {v} : vms'[w] = vms[w]
    <2>1. [vms[v] EXCEPT !.state = op.prior] \in VmEntry
      BY <1>1, EntryType DEF VmStates, Priors
    <2> QED
      BY <1>1, <1>2, <2>1 DEF TypeOK, VmEntry
  <1>4. TypeOK'
    BY <1>2, <1>3, NullTypes DEF TypeOK
  <1>5. OpShape'
    BY <1>1, <1>2, <1>3 DEF OpShape, NoOp, SnapshotPCs, BootPCs, RestorePCs, Priors
  <1>6. Ownership'
    <2>1. \A w \in VMs : vms'[w].state \in AtRest => vms[w].runtime = NoPid
      BY <1>1, <1>3 DEF Ownership, AtRest, Absent, Priors
    <2>2. op'.qemu = NoPid
      BY <1>2 DEF NoOp
    <2> QED
      BY <1>1, <1>3, <2>1, <2>2, KeptOwnership
  <1> QED
    BY <1>4, <1>5, <1>6

(* A snapshot that goes on with a later step. *)
LEMMA IInvSnapshotGoesOn ==
    ASSUME IInv, op.pc \in SnapshotPCs, UNCHANGED vms, op' \in Operation,
           op'.pc \in SnapshotPCs, op'.vm = op.vm, op'.qemu = op.qemu,
           op'.prior = op.prior,
           op'.pc \in {"snap_status", "snap_pause"} => op'.i = 0,
           op'.pc = "snap_overlay" => op'.i \in Disks,
           procs' \in [Pids -> QemuProc], ProcsKept,
           data' \in [VMs -> [Disks -> [Layers -> Value]]], UNCHANGED <<saved, writes>>
    PROVE  IInv'
  <1> USE DEF IInv
  <1>1. TypeOK'
    BY DEF TypeOK
  <1>2. OpShape'
    BY DEF OpShape, NoOp, SnapshotPCs, BootPCs, RestorePCs
  <1>3. Ownership'
    BY KeptOwnership DEF Ownership
  <1> QED
    BY <1>1, <1>2, <1>3

(* The process being snapshotted. *)
LEMMA SnapshotRuntime ==
    ASSUME IInv, op.pc \in SnapshotPCs
    PROVE  Runtime \in Pids /\ procs[Runtime] \in QemuProc
  <1>1. op.vm \in VMs /\ vms[op.vm] \in VmEntry /\ vms[op.vm].runtime # NoPid
    BY DEF IInv, OpShape, TypeOK, SnapshotPCs
  <1>2. Runtime \in Pids
    BY <1>1 DEF Runtime, VmEntry
  <1> QED
    BY <1>2 DEF IInv, TypeOK

LEMMA SnapshotCommand ==
    ASSUME IInv, op.pc \in SnapshotPCs,
           NEW q2 \in QemuProc, q2.vm = procs[Runtime].vm,
           NEW r \in Reply, NEW x \in Execute(procs[Runtime], q2, r),
           procs' = [procs EXCEPT ![Runtime] = x.q]
    PROVE  procs' \in [Pids -> QemuProc] /\ ProcsKept
  BY SnapshotRuntime, CommandKeeps DEF IInv, TypeOK

(* SnapshotGoesOn to a step after the pause. *)
LEMMA IInvNextStep ==
    ASSUME IInv, op.pc \in SnapshotPCs,
           NEW next \in SnapshotPCs \ {"snap_status", "snap_pause"},
           SnapshotGoesOn(next), next = "snap_overlay" => op.i \in Disks,
           procs' \in [Pids -> QemuProc], ProcsKept, UNCHANGED <<data, saved, writes>>
    PROVE  IInv'
  <1>1. op \in Operation
    BY DEF IInv, TypeOK
  <1>2. op' = [op EXCEPT !.pc = next] /\ UNCHANGED vms
    BY DEF SnapshotGoesOn
  <1>3. /\ op' \in Operation /\ op'.pc = next /\ op'.vm = op.vm
        /\ op'.qemu = op.qemu /\ op'.prior = op.prior /\ op'.i = op.i
    BY <1>1, <1>2 DEF Operation
  <1>4. data' \in [VMs -> [Disks -> [Layers -> Value]]]
    BY DEF IInv, TypeOK
  <1> QED
    BY <1>2, <1>3, <1>4, IInvSnapshotGoesOn

LEMMA IInvSnapshotStatus ==
    ASSUME IInv, SnapshotStatus
    PROVE  IInv'
  <1> DEFINE q == procs[Runtime]
  <1>1. op.pc = "snap_status" /\ op.pc \in SnapshotPCs /\ op.i = 0 /\ 0 \in Disks
    BY DEF SnapshotStatus, SnapshotPCs, IInv, OpShape, Disks
  <1>2. PICK x \in Execute(q, q, q.run) :
          /\ procs' = [procs EXCEPT ![Runtime] = x.q]
          /\ \/ SnapshotFails
             \/ /\ op' = [op EXCEPT !.pc = "snap_pause", !.wasRunning = TRUE]
                /\ UNCHANGED vms
             \/ SnapshotGoesOn("snap_overlay")
    BY DEF SnapshotStatus
  <1>3. q \in QemuProc /\ q.run \in Reply
    BY <1>1, SnapshotRuntime, ReplyType
  <1>4. procs' \in [Pids -> QemuProc] /\ ProcsKept
    BY <1>1, <1>2, <1>3, SnapshotCommand
  <1>5. data' \in [VMs -> [Disks -> [Layers -> Value]]] /\ UNCHANGED <<data, saved, writes>>
    BY DEF SnapshotStatus, IInv, TypeOK
  <1>6. CASE SnapshotFails
    BY <1>1, <1>4, <1>5, <1>6, IInvSnapshotFails
  <1>7. CASE SnapshotGoesOn("snap_overlay")
    <2>1. "snap_overlay" \in SnapshotPCs \ {"snap_status", "snap_pause"}
      BY DEF SnapshotPCs
    <2> QED
      BY <1>1, <1>4, <1>5, <1>7, <2>1, IInvNextStep
  <1>8. CASE op' = [op EXCEPT !.pc = "snap_pause", !.wasRunning = TRUE] /\ UNCHANGED vms
    <2>1. op \in Operation
      BY DEF IInv, TypeOK
    <2>2. /\ op' \in Operation /\ op'.pc = "snap_pause" /\ op'.vm = op.vm
          /\ op'.qemu = op.qemu /\ op'.prior = op.prior /\ op'.i = op.i
          /\ "snap_pause" \in SnapshotPCs
      BY <1>8, <2>1 DEF Operation, SnapshotPCs
    <2> QED
      BY <1>1, <1>4, <1>5, <1>8, <2>2, IInvSnapshotGoesOn
  <1> QED
    BY <1>2, <1>6, <1>7, <1>8

(* Pause, migrate, wait, cont: one command, then on or back. *)
LEMMA IInvSnapshotStep ==
    ASSUME IInv, op.pc \in SnapshotPCs,
           NEW q2 \in QemuProc, q2.vm = procs[Runtime].vm, NEW r \in Reply,
           NEW x \in Execute(procs[Runtime], q2, r),
           procs' = [procs EXCEPT ![Runtime] = x.q],
           NEW next \in SnapshotPCs \ {"snap_status", "snap_pause"},
           next = "snap_overlay" => op.i \in Disks,
           SnapshotFails \/ SnapshotGoesOn(next),
           UNCHANGED <<data, saved, writes>>
    PROVE  IInv'
  <1>1. procs' \in [Pids -> QemuProc] /\ ProcsKept
    BY SnapshotCommand
  <1>2. data' \in [VMs -> [Disks -> [Layers -> Value]]]
    BY DEF IInv, TypeOK
  <1>3. CASE SnapshotFails
    BY <1>1, <1>2, <1>3, IInvSnapshotFails
  <1>4. CASE SnapshotGoesOn(next)
    BY <1>1, <1>4, IInvNextStep
  <1> QED
    BY <1>3, <1>4

LEMMA IInvSnapshotPause ==
    ASSUME IInv, SnapshotPause
    PROVE  IInv'
  <1> DEFINE q == procs[Runtime]
  <1>1. op.pc \in SnapshotPCs /\ op.i \in Disks
    BY DEF SnapshotPause, SnapshotPCs, IInv, OpShape, Disks
  <1>2. PICK x \in Execute(q, Halt(q), "ok") :
          /\ procs' = [procs EXCEPT ![Runtime] = x.q]
          /\ SnapshotFails \/ SnapshotGoesOn("snap_overlay")
    BY DEF SnapshotPause
  <1>3. Halt(q) \in QemuProc /\ Halt(q).vm = q.vm /\ "ok" \in Reply
    BY <1>1, SnapshotRuntime, HaltType, ReplyType
  <1>4. "snap_overlay" \in SnapshotPCs \ {"snap_status", "snap_pause"}
    BY DEF SnapshotPCs
  <1>5. UNCHANGED <<data, saved, writes>>
    BY DEF SnapshotPause
  <1> HIDE DEF q
  <1> QED
    BY <1>1, <1>2, <1>3, <1>4, <1>5, IInvSnapshotStep DEF q

LEMMA IInvSnapshotOverlay ==
    ASSUME IInv, SnapshotOverlay
    PROVE  IInv'
  <1> DEFINE q   == procs[Runtime]
             d   == op.i
             tag == vms[op.vm].seq
             q2  == IF CanOverlay(q, d) THEN AddOverlay(q, d, tag) ELSE q
             r   == IF CanOverlay(q, d) THEN "ok" ELSE "err"
             d2  == [data EXCEPT ![op.vm][d][tag] = data[op.vm][d][q.top[d]]]
  <1>1. /\ op.pc = "snap_overlay" /\ op.pc \in SnapshotPCs /\ d \in Disks
        /\ op.vm \in VMs /\ tag \in Tags /\ tag \in Layers
    BY DEF SnapshotOverlay, SnapshotPCs, IInv, OpShape, Tags, Layers
  <1>2. PICK x \in Execute(q, q2, r) :
          /\ procs' = [procs EXCEPT ![Runtime] = x.q]
          /\ data' \in {data, d2}
          /\ \/ SnapshotFails
             \/ /\ op' = [op EXCEPT !.i = d + 1,
                              !.pc = IF d + 1 = NDisks THEN "snap_migrate" ELSE @]
                /\ UNCHANGED vms
    BY DEF SnapshotOverlay
  <1>3. q \in QemuProc /\ r \in Reply
    BY <1>1, SnapshotRuntime, ReplyType
  <1>4. q2 \in QemuProc /\ q2.vm = q.vm
    BY <1>1, <1>3, AddOverlayType
  <1>5. procs' \in [Pids -> QemuProc] /\ ProcsKept
    <2> HIDE DEF q2, r
    <2> QED
      BY <1>1, <1>2, <1>3, <1>4, SnapshotCommand
  <1>6. data' \in [VMs -> [Disks -> [Layers -> Value]]]
    <2>1. q.top[d] \in Layers
      BY <1>1, <1>3 DEF QemuProc, Stack
    <2>2. data \in [VMs -> [Disks -> [Layers -> Value]]]
      BY DEF IInv, TypeOK
    <2>3. data[op.vm][d][q.top[d]] \in Value
      BY <1>1, <2>1, <2>2
    <2>4. d2 \in [VMs -> [Disks -> [Layers -> Value]]]
      BY <1>1, <2>2, <2>3
    <2> QED
      BY <1>2, <2>2, <2>4
  <1>7. UNCHANGED <<saved, writes>>
    BY DEF SnapshotOverlay
  <1>8. CASE SnapshotFails
    BY <1>1, <1>5, <1>6, <1>7, <1>8, IInvSnapshotFails
  <1>9. CASE /\ op' = [op EXCEPT !.i = d + 1,
                           !.pc = IF d + 1 = NDisks THEN "snap_migrate" ELSE @]
             /\ UNCHANGED vms
    <2>1. op \in Operation
      BY DEF IInv, TypeOK
    <2>2. d + 1 \in 0 .. NDisks /\ (d + 1 # NDisks => d + 1 \in Disks)
      BY <1>1 DEF Disks
    <2>3. PICK pc \in {"snap_migrate", "snap_overlay"} :
             /\ op' = [op EXCEPT !.i = d + 1, !.pc = pc]
             /\ d + 1 = NDisks <=> pc = "snap_migrate"
      BY <1>1, <1>9
    <2>4. /\ op' \in Operation /\ op'.pc = pc /\ op'.vm = op.vm
          /\ op'.qemu = op.qemu /\ op'.prior = op.prior /\ op'.i = d + 1
          /\ pc \in SnapshotPCs
      <3> HIDE DEF d
      <3> QED
        BY <2>1, <2>2, <2>3 DEF Operation, SnapshotPCs
    <2> QED
      BY <1>1, <1>5, <1>6, <1>7, <1>9, <2>2, <2>3, <2>4, IInvSnapshotGoesOn
  <1> QED
    BY <1>2, <1>8, <1>9

LEMMA IInvSnapshotMigrate ==
    ASSUME IInv, SnapshotMigrate
    PROVE  IInv'
  <1> DEFINE q  == procs[Runtime]
             q2 == IF CanMigrate(q) THEN Migrate(q, vms[op.vm].seq) ELSE q
             r  == IF CanMigrate(q) THEN "ok" ELSE "err"
  <1>1. op.pc \in SnapshotPCs /\ vms[op.vm].seq \in Layers
    BY DEF SnapshotMigrate, SnapshotPCs, IInv, OpShape, Tags, Layers
  <1>2. PICK x \in Execute(q, q2, r) :
          /\ procs' = [procs EXCEPT ![Runtime] = x.q]
          /\ SnapshotFails \/ SnapshotGoesOn("snap_wait")
    BY DEF SnapshotMigrate
  <1>3. q2 \in QemuProc /\ q2.vm = q.vm /\ r \in Reply
    BY <1>1, SnapshotRuntime, MigrateType, ReplyType
  <1>4. "snap_wait" \in SnapshotPCs \ {"snap_status", "snap_pause"}
    BY DEF SnapshotPCs
  <1>5. UNCHANGED <<data, saved, writes>>
    BY DEF SnapshotMigrate
  <1> HIDE DEF q2, r
  <1> QED
    BY <1>1, <1>2, <1>3, <1>4, <1>5, IInvSnapshotStep

LEMMA IInvSnapshotWait ==
    ASSUME IInv, SnapshotWait
    PROVE  IInv'
  <1> DEFINE q == procs[Runtime]
  <1>1. op.pc \in SnapshotPCs
    BY DEF SnapshotWait, SnapshotPCs
  <1>2. PICK x \in Execute(q, q, q.mig), next \in {"snap_cont", "snap_hash"} :
          /\ procs' = [procs EXCEPT ![Runtime] = x.q]
          /\ SnapshotFails \/ SnapshotGoesOn(next)
    BY DEF SnapshotWait
  <1>3. q \in QemuProc /\ q.mig \in Reply
    BY <1>1, SnapshotRuntime, ReplyType
  <1>4. next \in SnapshotPCs \ {"snap_status", "snap_pause"} /\ next # "snap_overlay"
    BY DEF SnapshotPCs
  <1>5. UNCHANGED <<data, saved, writes>>
    BY DEF SnapshotWait
  <1> QED
    BY <1>1, <1>2, <1>3, <1>4, <1>5, IInvSnapshotStep

LEMMA IInvSnapshotPoll ==
    ASSUME IInv, SnapshotPoll
    PROVE  IInv'
  <1> DEFINE q == procs[Runtime]
  <1>1. op.pc = "snap_wait" /\ op.pc \in SnapshotPCs
    BY DEF SnapshotPoll, SnapshotPCs
  <1>2. PICK x \in Execute(q, q, q.mig) : procs' = [procs EXCEPT ![Runtime] = x.q]
    BY DEF SnapshotPoll
  <1>3. q \in QemuProc /\ q.mig \in Reply
    BY <1>1, SnapshotRuntime, ReplyType
  <1>4. procs' \in [Pids -> QemuProc] /\ ProcsKept
    BY <1>1, <1>2, <1>3, SnapshotCommand
  <1>5. /\ UNCHANGED <<vms, op, saved, writes>> /\ op \in Operation
        /\ data' \in [VMs -> [Disks -> [Layers -> Value]]]
    BY DEF SnapshotPoll, IInv, TypeOK
  <1> QED
    BY <1>1, <1>4, <1>5, IInvSnapshotGoesOn

LEMMA IInvSnapshotCont ==
    ASSUME IInv, SnapshotCont
    PROVE  IInv'
  <1> DEFINE q == procs[Runtime]
  <1>1. op.pc \in SnapshotPCs
    BY DEF SnapshotCont, SnapshotPCs
  <1>2. PICK x \in Execute(q, Cont(q), "ok") :
          /\ procs' = [procs EXCEPT ![Runtime] = x.q]
          /\ SnapshotFails \/ SnapshotGoesOn("snap_hash")
    BY DEF SnapshotCont
  <1>3. Cont(q) \in QemuProc /\ Cont(q).vm = q.vm /\ "ok" \in Reply
    BY <1>1, SnapshotRuntime, ContType, ReplyType
  <1>4. "snap_hash" \in SnapshotPCs \ {"snap_status", "snap_pause"}
    BY DEF SnapshotPCs
  <1>5. UNCHANGED <<data, saved, writes>>
    BY DEF SnapshotCont
  <1> QED
    BY <1>1, <1>2, <1>3, <1>4, <1>5, IInvSnapshotStep

(* Recording a snapshot keeps the entry in its type. *)
LEMMA RecordType ==
    ASSUME NEW e \in VmEntry, NEW s \in Priors, e.seq \in Tags
    PROVE  LET e2 == [e EXCEPT !.state = s,
                               !.snapshots = e.snapshots \cup {e.seq},
                               !.bases = [e.bases EXCEPT ![e.seq] = e.active],
                               !.active = [d \in Disks |-> e.seq]]
           IN e2 \in VmEntry /\ e2.state = s /\ e2.runtime = e.runtime
  <1>1. e.snapshots \cup {e.seq} \in SUBSET Tags
    BY DEF VmEntry
  <1>2. [e.bases EXCEPT ![e.seq] = e.active] \in [Tags -> Stack]
    BY DEF VmEntry
  <1>3. [d \in Disks |-> e.seq] \in Stack
    BY DEF VmEntry, Stack
  <1>4. s \in VmStates
    BY DEF VmStates, Priors
  <1>5. ASSUME NEW S \in SUBSET Tags, NEW B \in [Tags -> Stack], NEW A \in Stack
        PROVE  LET e2 == [e EXCEPT !.state = s, !.snapshots = S, !.bases = B, !.active = A]
               IN e2 \in VmEntry /\ e2.state = s /\ e2.runtime = e.runtime
    BY <1>4 DEF VmEntry
  <1> QED
    BY <1>1, <1>2, <1>3, <1>5

LEMMA IInvSnapshotHash ==
    ASSUME IInv, SnapshotHash
    PROVE  IInv'
  <1> USE DEF IInv
  <1> DEFINE v == op.vm
             e == vms[v]
             e2 == [e EXCEPT !.state = op.prior,
                             !.snapshots = e.snapshots \cup {e.seq},
                             !.bases = [e.bases EXCEPT ![e.seq] = e.active],
                             !.active = [d \in Disks |-> e.seq]]
  <1>1. /\ op.pc \in SnapshotPCs /\ v \in VMs /\ e \in VmEntry /\ op.prior \in Priors
        /\ op.qemu = NoPid /\ e.seq \in Tags
    BY DEF SnapshotHash, OpShape, TypeOK, SnapshotPCs
  <1>2. procs' \in [Pids -> QemuProc] /\ ProcsKept /\ UNCHANGED <<procs, data, saved, writes>>
    BY DEF SnapshotHash, TypeOK, ProcsKept
  <1>3. CASE SnapshotFails
    <2>1. data' \in [VMs -> [Disks -> [Layers -> Value]]]
      BY <1>2 DEF TypeOK
    <2> QED
      BY <1>1, <1>2, <1>3, <2>1, IInvSnapshotFails
  <1>4. CASE vms' = [vms EXCEPT ![v] = e2] /\ op' = NoOp
    <2>1. e2 \in VmEntry /\ e2.state = op.prior /\ e2.runtime = e.runtime
      BY <1>1, RecordType
    <2>2. /\ vms' \in [VMs -> VmEntry]
          /\ vms'[v].runtime = vms[v].runtime /\ vms'[v].state = op.prior
          /\ \A w \in VMs \ {v} : vms'[w] = vms[w]
      <3> HIDE DEF e2
      <3> QED
        BY <1>1, <1>4, <2>1 DEF TypeOK
    <2>3. TypeOK'
      BY <1>2, <1>4, <2>2, NullTypes DEF TypeOK
    <2>4. OpShape'
      BY <1>1, <1>4, <2>2 DEF OpShape, NoOp, SnapshotPCs, BootPCs, RestorePCs, Priors
    <2>5. Ownership'
      <3>1. \A w \in VMs : vms'[w].state \in AtRest => vms[w].runtime = NoPid
        BY <1>1, <2>2 DEF Ownership, AtRest, Absent, Priors
      <3>2. op'.qemu = NoPid
        BY <1>4 DEF NoOp
      <3> QED
        BY <1>1, <1>2, <2>2, <3>1, <3>2, KeptOwnership
    <2> QED
      BY <2>3, <2>4, <2>5
  <1> QED
    BY <1>3, <1>4, Zenon DEF SnapshotHash

-----------------------------------------------------------------------------
(***************************************************************************)
(* restore.                                                                *)
(***************************************************************************)
LEMMA IInvRestoreBegin ==
    ASSUME IInv, NEW v \in VMs, NEW n \in Tags, RestoreBegin(v, n)
    PROVE  IInv'
  <1> USE DEF IInv
  <1> DEFINE e1 == [vms[v] EXCEPT !.runtime = NoPid]
             e3 == [vms[v] EXCEPT !.runtime = NoPid, !.seq = vms[v].seq + 1]
  <1>1. op = NoOp /\ Quit(vms[v].runtime) /\ UNCHANGED <<data, saved, writes>>
    BY DEF RestoreBegin, OpShape, Idle
  <1>2. /\ vms[v] \in VmEntry /\ vms[v].seq < MaxSeq
        /\ vms[v].state \in From.Restore /\ vms[v].state # "Snapshotting"
    BY DEF TypeOK, RestoreBegin, From
  <1>3. /\ e1 \in VmEntry /\ e1.state = vms[v].state /\ e1.runtime = NoPid
        /\ e3 \in VmEntry /\ e3.state = vms[v].state /\ e3.runtime = NoPid
        /\ e3.seq \in Tags
    <2>1. e1 \in VmEntry /\ e1.state = vms[v].state /\ e1.runtime = NoPid
      BY <1>2 DEF VmEntry
    <2> QED
      BY <1>2, <2>1, SeqType
  <1>4. procs' \in [Pids -> QemuProc]
    BY <1>1, QuitKeeps DEF TypeOK
  <1>5. ASSUME NEW e \in VmEntry, e.state = vms[v].state, e.runtime = NoPid,
               vms' = [vms EXCEPT ![v] = e], op'.qemu = NoPid
        PROVE  /\ vms' \in [VMs -> VmEntry] /\ vms'[v] = e
               /\ \A w \in VMs \ {v} : vms'[w] = vms[w]
               /\ Ownership'
    <2>1. /\ vms' \in [VMs -> VmEntry] /\ vms'[v] = e
          /\ \A w \in VMs \ {v} : vms'[w] = vms[w]
      BY <1>5 DEF TypeOK
    <2> QED
      BY <1>1, <1>5, <2>1, QuitOwnership DEF NoOp
  <1>6. CASE /\ vms' = [vms EXCEPT ![v] = e3]
             /\ op' = [NoOp EXCEPT !.pc = "rest_overlay", !.vm = v, !.snap = n]
    <2>1. /\ op'.pc = "rest_overlay" /\ op'.vm = v /\ op'.qemu = NoPid
          /\ op'.prior = NoPrior /\ op'.i = 0 /\ op'.snap = n
      BY <1>6 DEF NoOp
    <2>2. op' \in Operation
      <3>1. n \in Layers
        BY DEF Tags, Layers
      <3>2. \A o \in Operation :
              [o EXCEPT !.pc = "rest_overlay", !.vm = v, !.snap = n] \in Operation
        BY <3>1 DEF Operation, RestorePCs
      <3> QED
        BY <1>6, <3>2, NullTypes
    <2>3. /\ vms' \in [VMs -> VmEntry] /\ vms'[v] = e3
          /\ \A w \in VMs \ {v} : vms'[w] = vms[w]
          /\ Ownership'
      <3> HIDE DEF e3
      <3> QED
        BY <1>3, <1>5, <1>6, <2>1
    <2>4. TypeOK'
      BY <1>1, <1>4, <2>2, <2>3 DEF TypeOK
    <2>5. OpShape'
      <3>1. 0 \in Disks
        BY DEF Disks
      <3> HIDE DEF e3
      <3> QED
        BY <1>1, <1>2, <1>3, <2>1, <2>3, <3>1
        DEF OpShape, NoOp, SnapshotPCs, BootPCs, RestorePCs
    <2> QED
      BY <2>3, <2>4, <2>5
  <1>7. CASE vms' = [vms EXCEPT ![v] = e1] /\ op' = op
    <2>1. /\ vms' \in [VMs -> VmEntry] /\ vms'[v] = e1
          /\ \A w \in VMs \ {v} : vms'[w] = vms[w]
          /\ Ownership'
      <3>1. op'.qemu = NoPid
        BY <1>1, <1>7 DEF NoOp
      <3> HIDE DEF e1
      <3> QED
        BY <1>3, <1>5, <1>7, <3>1
    <2>2. TypeOK'
      BY <1>1, <1>4, <1>7, <2>1 DEF TypeOK
    <2>3. OpShape'
      <3> HIDE DEF e1
      <3> QED
        BY <1>1, <1>2, <1>3, <1>7, <2>1 DEF OpShape, NoOp, SnapshotPCs, BootPCs, RestorePCs
    <2> QED
      BY <2>1, <2>2, <2>3
  <1> QED
    BY <1>6, <1>7, Zenon DEF RestoreBegin

(* restore goes on with a later step; it may have changed active_disks. *)
LEMMA IInvRestoreGoesOn ==
    ASSUME IInv, op.pc \in RestorePCs, op' \in Operation,
           op'.pc \in RestorePCs, op'.vm = op.vm, op'.qemu = op.qemu,
           op'.prior = op.prior, op'.snap = op.snap,
           op.pc \in {"rest_overlay", "rest_spawn"}
             <=> op'.pc \in {"rest_overlay", "rest_spawn"},
           op'.pc = "rest_overlay" => op'.i \in Disks,
           vms' \in [VMs -> VmEntry],
           \A v \in VMs : /\ vms'[v].state = vms[v].state
                          /\ vms'[v].runtime = vms[v].runtime
                          /\ vms'[v].seq = vms[v].seq,
           procs' \in [Pids -> QemuProc], ProcsKept,
           data' \in [VMs -> [Disks -> [Layers -> Value]]], UNCHANGED <<saved, writes>>
    PROVE  IInv'
  <1> USE DEF IInv
  <1>1. TypeOK'
    BY DEF TypeOK
  <1>2. OpShape'
    BY DEF OpShape, NoOp, SnapshotPCs, BootPCs, RestorePCs
  <1>3. Ownership'
    BY KeptOwnership DEF Ownership
  <1> QED
    BY <1>1, <1>2, <1>3

LEMMA IInvRestoreOverlay ==
    ASSUME IInv, RestoreOverlay
    PROVE  IInv'
  <1> USE DEF IInv
  <1> DEFINE v == op.vm
             d == op.i
             n == vms[v].seq
             b == vms[v].bases[op.snap][d]
             A == [e \in Disks |-> n]
  <1>1. /\ op.pc = "rest_overlay" /\ op.pc \in RestorePCs /\ v \in VMs
        /\ d \in Disks /\ vms[v] \in VmEntry /\ n \in Layers /\ op.snap \in Tags
        /\ op \in Operation
    <2>1. /\ op.pc = "rest_overlay" /\ op.pc \in RestorePCs /\ op \in Operation
          /\ vms \in [VMs -> VmEntry]
      BY DEF RestoreOverlay, TypeOK, RestorePCs
    <2>2. v \in VMs /\ d \in Disks /\ n \in Tags /\ op.snap \in Tags
      BY <2>1 DEF OpShape
    <2>3. \A k \in Tags : k \in Layers
      BY DEF Tags, Layers
    <2> QED
      BY <2>1, <2>2, <2>3
  <1>2. CASE op' = NoOp /\ UNCHANGED <<vms, data>>
    BY <1>1, <1>2, IInvReturn DEF RestoreOverlay
  <1>3. ASSUME data' = [data EXCEPT ![v][d][n] = data[v][d][b]],
               \/ vms' = [vms EXCEPT ![v].active = A]
                  /\ op' = [op EXCEPT !.i = d + 1, !.pc = "rest_spawn"]
               \/ d + 1 # NDisks
                  /\ op' = [op EXCEPT !.i = d + 1] /\ UNCHANGED vms
        PROVE  IInv'
    <2>1. data' \in [VMs -> [Disks -> [Layers -> Value]]]
      <3>1. b \in Layers
        BY <1>1 DEF VmEntry, Stack
      <3>2. data \in [VMs -> [Disks -> [Layers -> Value]]]
        BY DEF TypeOK
      <3> HIDE DEF b
      <3>3. data[v][d][b] \in Value
        BY <1>1, <3>1, <3>2
      <3> QED
        BY <1>1, <1>3, <3>2, <3>3
    <2>2. d + 1 \in 0 .. NDisks /\ (d + 1 # NDisks => d + 1 \in Disks)
      BY <1>1 DEF Disks
    <2>3. PICK pc \in {"rest_spawn", "rest_overlay"} :
              /\ op' = [op EXCEPT !.i = d + 1, !.pc = pc]
              /\ pc = "rest_overlay" => d + 1 # NDisks
      <3>1. CASE op' = [op EXCEPT !.i = d + 1, !.pc = "rest_spawn"]
        BY <3>1
      <3>2. CASE d + 1 # NDisks /\ op' = [op EXCEPT !.i = d + 1]
        <4>1. \A k \in 0 .. NDisks :
                [op EXCEPT !.i = k] = [op EXCEPT !.i = k, !.pc = "rest_overlay"]
          BY <1>1 DEF Operation
        <4> QED
          BY <2>2, <3>2, <4>1
      <3> QED
        BY <1>3, <3>1, <3>2
    <2>4. /\ op' \in Operation /\ op'.pc = pc /\ op'.vm = op.vm /\ op'.qemu = op.qemu
          /\ op'.prior = op.prior /\ op'.snap = op.snap /\ op'.i = d + 1
          /\ pc \in RestorePCs
      <3> HIDE DEF d
      <3> QED
        BY <1>1, <2>2, <2>3 DEF Operation, RestorePCs
    <2>5. /\ vms' \in [VMs -> VmEntry]
          /\ \A w \in VMs : /\ vms'[w].state = vms[w].state
                             /\ vms'[w].runtime = vms[w].runtime
                             /\ vms'[w].seq = vms[w].seq
      <3>1. CASE UNCHANGED vms
        BY <3>1 DEF TypeOK
      <3>2. CASE vms' = [vms EXCEPT ![v].active = A]
        <4>1. A \in Stack
          BY <1>1 DEF Stack
        <4> HIDE DEF A
        <4>2. LET e2 == [vms[v] EXCEPT !.active = A] IN
              /\ e2 \in VmEntry /\ e2.state = vms[v].state
              /\ e2.runtime = vms[v].runtime /\ e2.seq = vms[v].seq
          BY <1>1, <4>1 DEF VmEntry
        <4> QED
          BY <1>1, <3>2, <4>2 DEF TypeOK
      <3> QED
        BY <1>3, <3>1, <3>2
    <2>6. procs' \in [Pids -> QemuProc] /\ ProcsKept /\ UNCHANGED <<saved, writes>>
      BY DEF RestoreOverlay, TypeOK, ProcsKept
    <2> QED
      BY <1>1, <2>1, <2>2, <2>3, <2>4, <2>5, <2>6, IInvRestoreGoesOn
  <1> QED
    BY <1>2, <1>3, Zenon DEF RestoreOverlay, CreateOverlay

LEMMA IInvRestoreSpawn ==
    ASSUME IInv, RestoreSpawn
    PROVE  IInv'
  <1>1. CASE SpawnFails
    BY <1>1, IInvReturn DEF RestoreSpawn, SpawnFails
  <1>2. CASE Spawn("inmigrate", "rest_incoming")
    BY <1>2, IInvSpawn DEF RestoreSpawn
  <1> QED
    BY <1>1, <1>2 DEF RestoreSpawn

(* A command to the QEMU being restored: an error drops it, an answer goes *)
(* on to the step next.                                                    *)
LEMMA IInvRestoreStep ==
    ASSUME IInv, op.pc \in {"rest_incoming", "rest_wait", "rest_cont"},
           NEW q2 \in QemuProc, q2.vm = procs[op.qemu].vm, NEW r \in Reply,
           NEW x \in Execute(procs[op.qemu], q2, r),
           NEW next \in {"rest_wait", "rest_cont"},
           \/ DropLocal
           \/ /\ procs' = [procs EXCEPT ![op.qemu] = x.q]
              /\ \/ op' = [op EXCEPT !.pc = next] /\ UNCHANGED vms
                 \/ Install("Restore"),
           UNCHANGED <<data, saved, writes>>
    PROVE  IInv'
  <1>1. op.qemu # NoPid /\ op.qemu \in Pids /\ op \in Operation /\ op.pc \in RestorePCs
    BY DEF IInv, OpShape, TypeOK, Operation, RestorePCs
  <1>2. CASE DropLocal
    BY <1>1, <1>2, IInvDropLocal
  <1>3. CASE procs' = [procs EXCEPT ![op.qemu] = x.q]
    <2>1. procs' \in [Pids -> QemuProc] /\ ProcsKept
      BY <1>1, <1>3, CommandKeeps DEF IInv, TypeOK
    <2>2. CASE Install("Restore")
      BY <1>1, <2>1, <2>2, IInvInstall
    <2>3. CASE op' = [op EXCEPT !.pc = next] /\ UNCHANGED vms
      <3>1. /\ op' \in Operation /\ op'.pc = next /\ op'.vm = op.vm /\ op'.qemu = op.qemu
            /\ op'.prior = op.prior /\ op'.snap = op.snap /\ next \in RestorePCs
        BY <1>1, <2>3 DEF Operation, RestorePCs
      <3>2. vms' \in [VMs -> VmEntry] /\ data' \in [VMs -> [Disks -> [Layers -> Value]]]
        BY <2>3 DEF IInv, TypeOK
      <3> QED
        BY <1>1, <2>1, <2>3, <3>1, <3>2, IInvRestoreGoesOn
    <2> QED
      BY <1>2, <1>3, <2>2, <2>3
  <1> QED
    BY <1>2, <1>3

LEMMA IInvRestoreCommands ==
    ASSUME IInv, RestoreIncoming \/ RestoreWait \/ RestoreCont
    PROVE  IInv'
  <1> DEFINE q == procs[op.qemu]
  <1>1. op.pc \in {"rest_incoming", "rest_wait", "rest_cont"}
        /\ UNCHANGED <<data, saved, writes>>
    BY DEF RestoreIncoming, RestoreWait, RestoreCont
  <1>2. q \in QemuProc /\ op.snap \in Layers
    <2>1. op.qemu # NoPid /\ op \in Operation /\ procs \in [Pids -> QemuProc]
      BY <1>1 DEF IInv, OpShape, TypeOK
    <2> QED
      BY <2>1 DEF Operation
  <1>3. CASE RestoreIncoming
    <2> DEFINE q2 == MigrateIncoming(q, op.snap)
    <2>1. PICK x \in Execute(q, q2, "ok") :
             \/ DropLocal
             \/ /\ procs' = [procs EXCEPT ![op.qemu] = x.q]
                /\ op' = [op EXCEPT !.pc = "rest_wait"] /\ UNCHANGED vms
      BY <1>3 DEF RestoreIncoming
    <2>2. q2 \in QemuProc /\ q2.vm = q.vm /\ "ok" \in Reply
      BY <1>2, MigrateType, ReplyType
    <2> HIDE DEF q2
    <2> QED
      BY <1>1, <2>1, <2>2, IInvRestoreStep
  <1>4. CASE RestoreWait
    <2>1. PICK x \in Execute(q, q, q.run) :
             \/ DropLocal
             \/ /\ procs' = [procs EXCEPT ![op.qemu] = x.q]
                /\ op' = [op EXCEPT !.pc = "rest_cont"] /\ UNCHANGED vms
      BY <1>4 DEF RestoreWait
    <2>2. q.run \in Reply
      BY <1>2, ReplyType
    <2> QED
      BY <1>1, <1>2, <2>1, <2>2, IInvRestoreStep
  <1>5. CASE RestoreCont
    <2> DEFINE q2 == Cont(q)
    <2>1. PICK x \in Execute(q, q2, "ok") :
             \/ DropLocal
             \/ /\ procs' = [procs EXCEPT ![op.qemu] = x.q]
                /\ Install("Restore")
      BY <1>5 DEF RestoreCont
    <2>2. q2 \in QemuProc /\ q2.vm = q.vm /\ "ok" \in Reply
      BY <1>2, ContType, ReplyType
    <2> HIDE DEF q2
    <2> QED
      BY <1>1, <2>1, <2>2, IInvRestoreStep
  <1> QED
    BY <1>3, <1>4, <1>5

-----------------------------------------------------------------------------
(***************************************************************************)
(* The inductive invariant.                                                *)
(***************************************************************************)
LEMMA IInvInit ==
    ASSUME Init
    PROVE  IInv
  <1>1. TypeOK
    BY NullTypes DEF Init, TypeOK, Value, View
  <1>2. OpShape
    <2>1. \A v \in VMs : vms[v].state = Absent
      BY DEF Init, NoEntry
    <2> QED
      BY <2>1 DEF Init, OpShape, NoOp, SnapshotPCs, BootPCs, RestorePCs, Absent
  <1>3. Ownership
    <2>1. \A v \in VMs : vms[v].runtime = NoPid
      BY DEF Init, NoEntry
    <2>2. op.qemu = NoPid /\ \A p \in Pids : procs[p].run = "exited"
      BY DEF Init, NoOp, NoProc
    <2> QED
      BY <2>1, <2>2 DEF Ownership, QemuOwned, Live
  <1> QED
    BY <1>1, <1>2, <1>3 DEF IInv

LEMMA IInvStep ==
    ASSUME IInv, [Next]_vars
    PROVE  IInv'
  <1>1. CASE Call
    BY <1>1, IInvCreate, IInvDelete, IInvPause, IInvResume, IInvStop, IInvBootBegin,
       IInvSnapshotBegin, IInvRestoreBegin DEF Call
  <1>2. CASE Proceed
    BY <1>2, IInvBoot, IInvSnapshotStatus, IInvSnapshotPause, IInvSnapshotOverlay,
       IInvSnapshotMigrate, IInvSnapshotWait, IInvSnapshotCont, IInvSnapshotHash,
       IInvRestoreOverlay, IInvRestoreSpawn, IInvRestoreCommands DEF Proceed
  <1>3. CASE SnapshotPoll
    BY <1>3, IInvSnapshotPoll
  <1>4. CASE Environment
    BY <1>4, IInvEnvironment
  <1>5. CASE UNCHANGED vars
    BY <1>5 DEF vars, IInv, TypeOK, OpShape, Ownership, QemuOwned, Live
  <1> QED
    BY <1>1, <1>2, <1>3, <1>4, <1>5 DEF Next

(***************************************************************************)
(* In every reachable state the operation in progress, the entries and the *)
(* QEMU processes fit together as IInv says, whatever commands fail and    *)
(* whatever QEMU and the guest do in between.                              *)
(***************************************************************************)
THEOREM Invariance == Spec => []IInv
  BY IInvInit, IInvStep, PTL DEF Spec

(***************************************************************************)
(* Every variable keeps its type: entries, the operation's locals, QEMU    *)
(* processes, layers and saved states.                                     *)
(***************************************************************************)
THEOREM TypeCorrect == Spec => []TypeOK
  <1>1. IInv => TypeOK
    BY DEF IInv
  <1> QED
    BY <1>1, Invariance, PTL

(***************************************************************************)
(* No error path of any operation leaves a QEMU process behind that no     *)
(* handle refers to.                                                       *)
(***************************************************************************)
THEOREM NoOrphan == Spec => []QemuOwned
  <1>1. IInv => QemuOwned
    BY DEF IInv, Ownership
  <1> QED
    BY <1>1, Invariance, PTL

(***************************************************************************)
(* Two QEMU processes never have the disks of one VM open.                 *)
(***************************************************************************)
THEOREM SingleWriter == Spec => []OneQemuPerVm
  <1>1. ASSUME IInv
        PROVE  OneQemuPerVm
    <2> SUFFICES ASSUME NEW p \in Pids, NEW r \in Pids, Live(p), Live(r),
                        procs[p].vm = procs[r].vm
                 PROVE  p = r
      BY DEF OneQemuPerVm
    <2>1. op.qemu # NoPid => vms[op.vm].runtime = NoPid /\ op.vm \in VMs
      BY <1>1 DEF IInv, OpShape, BootPCs, RestorePCs
    <2>2. /\ \/ procs[p].vm \in VMs /\ vms[procs[p].vm].runtime = p
             \/ op.qemu = p /\ op.vm = procs[p].vm
          /\ \/ procs[r].vm \in VMs /\ vms[procs[r].vm].runtime = r
             \/ op.qemu = r /\ op.vm = procs[r].vm
      BY <1>1 DEF IInv, Ownership, QemuOwned
    <2> QED
      BY <2>1, <2>2
  <1> QED
    BY <1>1, Invariance, PTL

(***************************************************************************)
(* When no operation is in progress, a QEMU process lives only for a VM    *)
(* that is Running or Paused.                                              *)
(***************************************************************************)
THEOREM RestIsQuiet == Spec => []NoQemuAtRest
  <1>1. ASSUME IInv
        PROVE  NoQemuAtRest
    <2> SUFFICES ASSUME Idle, NEW p \in Pids, Live(p)
                 PROVE  vms[procs[p].vm].state \in {"Running", "Paused"}
      BY DEF NoQemuAtRest
    <2>1. op = NoOp /\ op.qemu = NoPid
      BY <1>1 DEF IInv, OpShape, Idle, NoOp
    <2>2. procs[p].vm \in VMs /\ vms[procs[p].vm].runtime = p
      BY <1>1, <2>1 DEF IInv, Ownership, QemuOwned
    <2>3. vms[procs[p].vm].state \notin AtRest /\ vms[procs[p].vm] \in VmEntry
      BY <1>1, <2>2 DEF IInv, Ownership, TypeOK
    <2>4. vms[procs[p].vm].state # "Snapshotting"
      BY <1>1, <2>1, <2>2 DEF IInv, OpShape, Idle, NoOp, SnapshotPCs
    <2> QED
      BY <2>3, <2>4 DEF AtRest, VmEntry, VmStates
  <1> QED
    BY <1>1, Invariance, PTL

-----------------------------------------------------------------------------
(***************************************************************************)
(* Refinement of Lifecycle.  The steps of the backend are told apart by    *)
(* what they do to the states of the entries and to the prior of the       *)
(* operation in progress.                                                  *)
(***************************************************************************)
PriorKept ==
    \A w \in VMs : (IF op'.vm = w THEN op'.prior ELSE NoPrior)
                     = (IF op.vm = w THEN op.prior ELSE NoPrior)

StateBecomes(v, s) ==
    \A w \in VMs : vms'[w].state = IF w = v THEN s ELSE vms[w].state

LEMMA RefStutter ==
    ASSUME \A w \in VMs : vms'[w].state = vms[w].state, PriorKept
    PROVE  UNCHANGED L!vars
  BY DEF L!vars, PriorKept

LEMMA RefCreate ==
    ASSUME NEW v \in VMs, vms[v].state = Absent, StateBecomes(v, "Defined"), PriorKept
    PROVE  L!Next
  <1>1. L!Create(v)
    BY DEF L!Create, L!Absent, Absent, StateBecomes, PriorKept
  <1> QED
    BY <1>1 DEF L!Next

LEMMA RefApply ==
    ASSUME NEW v \in VMs, NEW o \in DOMAIN From \ {"SnapshotBegin"},
           vms[v].state \in From[o], StateBecomes(v, To[o]), PriorKept
    PROVE  L!Next
  <1>1. L!From = From /\ L!To = To
    BY DEF L!From, From, L!To, To, L!Absent, Absent
  <1>2. L!Apply(v, o)
    BY <1>1 DEF L!Apply, StateBecomes, PriorKept
  <1> QED
    BY <1>1, <1>2 DEF L!Next

LEMMA RefSnapshotBegin ==
    ASSUME NEW v \in VMs, vms[v].state \in From.SnapshotBegin, op.prior = NoPrior,
           StateBecomes(v, "Snapshotting"), op'.vm = v, op'.prior = vms[v].state
    PROVE  L!Next
  <1>1. L!From = From
    BY DEF L!From, From
  <1>2. L!SnapshotBegin(v)
    BY <1>1 DEF L!SnapshotBegin, StateBecomes
  <1> QED
    BY <1>2 DEF L!Next

LEMMA RefSnapshotEnd ==
    ASSUME NEW v \in VMs, v = op.vm, vms[v].state = "Snapshotting",
           StateBecomes(v, op.prior), op'.prior = NoPrior
    PROVE  L!Next
  <1>1. L!SnapshotEnd(v)
    BY DEF L!SnapshotEnd, StateBecomes, L!NoPrior, NoPrior
  <1> QED
    BY <1>1 DEF L!Next

(* What an update of one entry does to the states. *)
LEMMA EntryBecomes ==
    ASSUME vms \in [VMs -> VmEntry], NEW v \in VMs, NEW e, vms' = [vms EXCEPT ![v] = e]
    PROVE  StateBecomes(v, e.state)
  BY DEF StateBecomes

LEMMA StateUpdate ==
    ASSUME vms \in [VMs -> VmEntry], NEW v \in VMs, NEW s,
           vms' = [vms EXCEPT ![v].state = s]
    PROVE  StateBecomes(v, s)
  BY DEF StateBecomes, VmEntry

LEMMA SameState ==
    ASSUME NEW v \in VMs, StateBecomes(v, vms[v].state), PriorKept
    PROVE  UNCHANGED L!vars
  BY RefStutter DEF StateBecomes

(* The prior of an operation that is not a snapshot. *)
LEMMA NoPriorKept ==
    ASSUME op.prior = NoPrior, op'.prior = NoPrior
    PROVE  PriorKept
  BY DEF PriorKept

LEMMA SamePrior ==
    ASSUME op'.prior = op.prior, op'.vm = op.vm
    PROVE  PriorKept
  BY DEF PriorKept

LEMMA RefCalls ==
    ASSUME IInv, Call
    PROVE  L!Next \/ UNCHANGED L!vars
  <1>1. op = NoOp /\ op.prior = NoPrior /\ vms \in [VMs -> VmEntry]
    <2>1. op.pc = "idle"
      <3>1. Idle
        BY Zenon DEF Call, Create, Delete, Pause, Resume, Stop, BootBegin, SnapshotBegin,
                     RestoreBegin
      <3> QED
        BY <3>1 DEF Idle
    <2> QED
      BY <2>1 DEF IInv, OpShape, NoOp, TypeOK
  <1>2. UNCHANGED op => PriorKept
    BY DEF PriorKept
  <1>3. ASSUME NEW v \in VMs, Create(v)
        PROVE  L!Next
    <2>1. vms' = [vms EXCEPT ![v] = [NoEntry EXCEPT !.state = "Defined"]] /\ UNCHANGED op
          /\ vms[v].state = Absent
      BY <1>3 DEF Create
    <2>2. [NoEntry EXCEPT !.state = "Defined"].state = "Defined"
      BY DEF NoEntry
    <2>3. StateBecomes(v, "Defined")
      BY <1>1, <2>1, <2>2, EntryBecomes
    <2> QED
      BY <1>2, <2>1, <2>3, RefCreate
  <1>4. ASSUME NEW v \in VMs, Delete(v)
        PROVE  L!Next
    <2>1. vms' = [vms EXCEPT ![v] = NoEntry] /\ UNCHANGED op /\ vms[v].state \in From["Delete"]
      BY <1>4 DEF Delete
    <2>2. NoEntry.state = To["Delete"] /\ "Delete" \in DOMAIN From \ {"SnapshotBegin"}
      BY DEF NoEntry, To, From
    <2>3. StateBecomes(v, To["Delete"])
      BY <1>1, <2>1, <2>2, EntryBecomes
    <2> QED
      BY <1>2, <2>1, <2>2, <2>3, RefApply
  <1>5. ASSUME NEW v \in VMs, Pause(v)
        PROVE  L!Next \/ UNCHANGED L!vars
    <2>1. PICK s \in {vms[v].state, To["Pause"]} : vms' = [vms EXCEPT ![v].state = s]
      BY <1>5 DEF Pause
    <2>2. StateBecomes(v, s) /\ PriorKept
      BY <1>1, <1>2, <1>5, <2>1, StateUpdate DEF Pause
    <2>3. vms[v].state \in From["Pause"] /\ "Pause" \in DOMAIN From \ {"SnapshotBegin"}
      BY <1>5 DEF Pause, From
    <2> QED
      BY <2>1, <2>2, <2>3, RefApply, SameState
  <1>6. ASSUME NEW v \in VMs, Resume(v)
        PROVE  L!Next \/ UNCHANGED L!vars
    <2>1. PICK s \in {vms[v].state, To["Resume"]} : vms' = [vms EXCEPT ![v].state = s]
      BY <1>6 DEF Resume
    <2>2. StateBecomes(v, s) /\ PriorKept
      BY <1>1, <1>2, <1>6, <2>1, StateUpdate DEF Resume
    <2>3. vms[v].state \in From["Resume"] /\ "Resume" \in DOMAIN From \ {"SnapshotBegin"}
      BY <1>6 DEF Resume, From
    <2> QED
      BY <2>1, <2>2, <2>3, RefApply, SameState
  <1>7. ASSUME NEW v \in VMs, Stop(v)
        PROVE  L!Next \/ UNCHANGED L!vars
    <2>1. PICK s \in {vms[v].state, To["Stop"]} :
              vms' = [vms EXCEPT ![v] = [@ EXCEPT !.runtime = NoPid, !.state = s]]
      BY <1>7 DEF Stop
    <2>2. [vms[v] EXCEPT !.runtime = NoPid, !.state = s].state = s
      BY <1>1 DEF VmEntry
    <2>3. StateBecomes(v, s) /\ PriorKept
      <3> DEFINE e == [vms[v] EXCEPT !.runtime = NoPid, !.state = s]
      <3>1. vms' = [vms EXCEPT ![v] = e] /\ e.state = s
        BY <2>1, <2>2
      <3>2. PriorKept
        BY <1>2, <1>7 DEF Stop
      <3> HIDE DEF e
      <3> QED
        BY <1>1, <3>1, <3>2, EntryBecomes
    <2>4. vms[v].state \in From["Stop"] /\ "Stop" \in DOMAIN From \ {"SnapshotBegin"}
      BY <1>7 DEF Stop, From
    <2> QED
      BY <2>1, <2>3, <2>4, RefApply, SameState
  <1>8. ASSUME NEW v \in VMs, BootBegin(v)
        PROVE  UNCHANGED L!vars
    <2>1. UNCHANGED vms /\ op'.prior = NoPrior
      BY <1>8 DEF BootBegin, NoOp
    <2> QED
      BY <1>1, <2>1, NoPriorKept, RefStutter
  <1>9. ASSUME NEW v \in VMs, SnapshotBegin(v)
        PROVE  L!Next \/ UNCHANGED L!vars
    <2> DEFINE e1 == [vms[v] EXCEPT !.seq = vms[v].seq + 1]
               e2 == [vms[v] EXCEPT !.seq = vms[v].seq + 1, !.state = To.SnapshotBegin]
    <2>1. vms[v] \in VmEntry /\ vms[v].seq < MaxSeq /\ vms[v].state \in From.SnapshotBegin
      BY <1>1, <1>9 DEF SnapshotBegin
    <2>2. e1.state = vms[v].state /\ e2.state = "Snapshotting"
      <3>1. To.SnapshotBegin = "Snapshotting"
        BY DEF To
      <3> QED
        BY <2>1, <3>1, SeqType
    <2>3. CASE vms' = [vms EXCEPT ![v] = e1] /\ UNCHANGED op
      <3> HIDE DEF e1
      <3>1. StateBecomes(v, vms[v].state)
        BY <1>1, <2>2, <2>3, EntryBecomes
      <3> QED
        BY <1>2, <2>3, <3>1, SameState
    <2>4. CASE /\ vms' = [vms EXCEPT ![v] = e2]
               /\ op' = [NoOp EXCEPT !.pc = "snap_status", !.vm = v, !.prior = vms[v].state]
      <3>1. StateBecomes(v, "Snapshotting")
        <4> HIDE DEF e2
        <4> QED
          BY <1>1, <2>2, <2>4, EntryBecomes
      <3>2. op'.vm = v /\ op'.prior = vms[v].state
        BY <2>4 DEF NoOp
      <3> QED
        BY <1>1, <2>1, <3>1, <3>2, RefSnapshotBegin
    <2> QED
      BY <1>9, <2>3, <2>4, Zenon DEF SnapshotBegin
  <1>10. ASSUME NEW v \in VMs, NEW n \in Tags, RestoreBegin(v, n)
         PROVE  UNCHANGED L!vars
    <2> DEFINE e1 == [vms[v] EXCEPT !.runtime = NoPid]
               e3 == [vms[v] EXCEPT !.runtime = NoPid, !.seq = vms[v].seq + 1]
    <2>1. vms[v] \in VmEntry /\ vms[v].seq < MaxSeq
      BY <1>1, <1>10 DEF RestoreBegin
    <2>2. e1.state = vms[v].state /\ e3.state = vms[v].state
      <3>1. e1.state = vms[v].state
        BY <2>1 DEF VmEntry
      <3> QED
        BY <2>1, <3>1, SeqType
    <2>3. op'.prior = NoPrior
      BY <1>1, <1>10 DEF RestoreBegin, NoOp
    <2>4. vms' = [vms EXCEPT ![v] = e1] \/ vms' = [vms EXCEPT ![v] = e3]
      BY <1>10, Zenon DEF RestoreBegin
    <2> HIDE DEF e1, e3
    <2>5. StateBecomes(v, vms[v].state)
      BY <1>1, <2>2, <2>4, EntryBecomes
    <2> QED
      BY <1>1, <2>3, <2>5, NoPriorKept, SameState
  <1> QED
    BY <1>3, <1>4, <1>5, <1>6, <1>7, <1>8, <1>9, <1>10 DEF Call

(* boot and restore in progress. *)
LEMMA RefBootRestore ==
    ASSUME IInv, op.pc \in BootPCs \cup RestorePCs, Proceed
    PROVE  L!Next \/ UNCHANGED L!vars
  <1>1. /\ op.prior = NoPrior /\ op.vm \in VMs /\ vms \in [VMs -> VmEntry] /\ op \in Operation
        /\ vms[op.vm] \in VmEntry
    BY DEF IInv, OpShape, TypeOK, SnapshotPCs, BootPCs, RestorePCs
  <1>2. CASE op'.prior = NoPrior /\ UNCHANGED vms
    BY <1>1, <1>2, NoPriorKept, RefStutter
  <1>3. ASSUME NEW o \in {"Boot", "Restore"}, vms[op.vm].state \in From[o], Install(o)
        PROVE  L!Next
    <2> DEFINE e == [vms[op.vm] EXCEPT !.runtime = op.qemu, !.state = To[o]]
    <2>1. vms' = [vms EXCEPT ![op.vm] = e] /\ op'.prior = NoPrior
      BY <1>3 DEF Install, NoOp
    <2>2. e.state = To[o]
      BY <1>1 DEF VmEntry
    <2>3. StateBecomes(op.vm, To[o])
      BY <1>1, <2>1, <2>2, EntryBecomes
    <2>4. o \in DOMAIN From \ {"SnapshotBegin"}
      BY DEF From
    <2> QED
      BY <1>1, <1>3, <2>1, <2>3, <2>4, NoPriorKept, RefApply
  <1>4. CASE BootSpawn \/ RestoreSpawn
    <2>1. UNCHANGED vms
      BY <1>4 DEF BootSpawn, RestoreSpawn
    <2>2. CASE op' = NoOp
      BY <1>2, <2>1, <2>2 DEF NoOp
    <2>3. ASSUME NEW next, NEW p, op' = [op EXCEPT !.pc = next, !.qemu = p]
          PROVE  op'.prior = NoPrior
      BY <1>1, <2>3 DEF Operation
    <2> QED
      BY <1>2, <1>4, <2>1, <2>2, <2>3 DEF BootSpawn, RestoreSpawn, Spawn, SpawnFails
  <1>5. DropLocal => op'.prior = NoPrior /\ UNCHANGED vms
    BY DEF DropLocal, NoOp
  <1>6. CASE BootCont
    <2>1. vms[op.vm].state \in From["Boot"]
      BY <1>6 DEF BootCont, IInv, OpShape, BootPCs
    <2> QED
      BY <1>2, <1>3, <1>5, <1>6, <2>1 DEF BootCont
  <1>7. CASE RestoreOverlay
    <2> DEFINE A == [e \in Disks |-> vms[op.vm].seq]
    <2>0. /\ \/ op' = NoOp
             \/ op' = [op EXCEPT !.i = op.i + 1, !.pc = "rest_spawn"]
             \/ op' = [op EXCEPT !.i = op.i + 1]
          /\ UNCHANGED vms \/ vms' = [vms EXCEPT ![op.vm].active = A]
      BY <1>7, Zenon DEF RestoreOverlay
    <2>1. op'.prior = NoPrior
      <3> DEFINE k == op.i + 1
      <3>1. CASE op' = NoOp
        BY <3>1 DEF NoOp
      <3> HIDE DEF k
      <3>2. CASE op' = [op EXCEPT !.i = k, !.pc = "rest_spawn"]
        BY <1>1, <3>2 DEF Operation
      <3>3. CASE op' = [op EXCEPT !.i = k]
        BY <1>1, <3>3 DEF Operation
      <3> QED
        BY <2>0, <3>1, <3>2, <3>3 DEF k
    <2>2. UNCHANGED vms \/ vms' = [vms EXCEPT ![op.vm].active = A]
      BY <2>0
    <2> HIDE DEF A
    <2>3. \A w \in VMs : vms'[w].state = vms[w].state
      <3>1. CASE vms' = [vms EXCEPT ![op.vm].active = A]
        <4>1. [vms[op.vm] EXCEPT !.active = A].state = vms[op.vm].state
          BY <1>1 DEF VmEntry
        <4> QED
          BY <1>1, <3>1, <4>1
      <3> QED
        BY <2>2, <3>1
    <2> QED
      BY <1>1, <2>1, <2>3, NoPriorKept, RefStutter
  <1>8. CASE RestoreIncoming \/ RestoreWait
    BY <1>1, <1>2, <1>5, <1>8 DEF RestoreIncoming, RestoreWait, Operation
  <1>9. CASE RestoreCont
    <2>1. vms[op.vm].state \in From["Restore"]
      BY <1>9 DEF RestoreCont, IInv, OpShape, RestorePCs
    <2> QED
      BY <1>2, <1>3, <1>5, <1>9, <2>1 DEF RestoreCont
  <1> QED
    BY <1>4, <1>6, <1>7, <1>8, <1>9
    DEF Proceed, BootPCs, RestorePCs, SnapshotStatus, SnapshotPause, SnapshotOverlay,
        SnapshotMigrate, SnapshotWait, SnapshotCont, SnapshotHash

(* a snapshot in progress. *)
LEMMA RefSnapshot ==
    ASSUME IInv, op.pc \in SnapshotPCs, Proceed
    PROVE  L!Next \/ UNCHANGED L!vars
  <1>1. /\ op.vm \in VMs /\ vms \in [VMs -> VmEntry] /\ op \in Operation
        /\ vms[op.vm].state = "Snapshotting" /\ op.prior \in Priors
        /\ vms[op.vm] \in VmEntry /\ vms[op.vm].seq \in Tags
    BY DEF IInv, OpShape, TypeOK, SnapshotPCs
  <1>2. CASE SnapshotFails
    <2>1. vms' = [vms EXCEPT ![op.vm].state = op.prior] /\ op'.prior = NoPrior
      BY <1>2 DEF SnapshotFails, NoOp
    <2>2. StateBecomes(op.vm, op.prior)
      BY <1>1, <2>1, StateUpdate
    <2> QED
      BY <1>1, <2>1, <2>2, RefSnapshotEnd
  <1>3. CASE op'.prior = op.prior /\ op'.vm = op.vm /\ UNCHANGED vms
    BY <1>3, SamePrior, RefStutter
  <1>4. ASSUME NEW next, SnapshotGoesOn(next)
        PROVE  op'.prior = op.prior /\ op'.vm = op.vm /\ UNCHANGED vms
    BY <1>1, <1>4 DEF SnapshotGoesOn, Operation
  <1>5. CASE SnapshotStatus
    BY <1>1, <1>2, <1>3, <1>4, <1>5 DEF SnapshotStatus, Operation
  <1>6. CASE SnapshotPause
    BY <1>2, <1>3, <1>4, <1>6 DEF SnapshotPause
  <1>7. CASE SnapshotOverlay
    BY <1>1, <1>2, <1>3, <1>7 DEF SnapshotOverlay, Operation
  <1>8. CASE SnapshotMigrate
    BY <1>2, <1>3, <1>4, <1>8 DEF SnapshotMigrate
  <1>9. CASE SnapshotWait
    BY <1>2, <1>3, <1>4, <1>9 DEF SnapshotWait
  <1>10. CASE SnapshotCont
    BY <1>2, <1>3, <1>4, <1>10 DEF SnapshotCont
  <1>11. CASE SnapshotHash
    <2> DEFINE e  == vms[op.vm]
               e2 == [e EXCEPT !.state = op.prior,
                               !.snapshots = e.snapshots \cup {e.seq},
                               !.bases = [e.bases EXCEPT ![e.seq] = e.active],
                               !.active = [d \in Disks |-> e.seq]]
    <2>1. e2.state = op.prior
      BY <1>1, RecordType
    <2>2. CASE vms' = [vms EXCEPT ![op.vm] = e2] /\ op' = NoOp
      <3>1. StateBecomes(op.vm, op.prior)
        <4> HIDE DEF e2
        <4> QED
          BY <1>1, <2>1, <2>2, EntryBecomes
      <3>2. op'.prior = NoPrior
        BY <2>2 DEF NoOp
      <3> QED
        BY <1>1, <3>1, <3>2, RefSnapshotEnd
    <2> QED
      BY <1>2, <1>11, <2>2, Zenon DEF SnapshotHash
  <1> QED
    BY <1>5, <1>6, <1>7, <1>8, <1>9, <1>10, <1>11
    DEF Proceed, SnapshotPCs, BootSpawn, BootCont, RestoreOverlay, RestoreSpawn,
        RestoreIncoming, RestoreWait, RestoreCont

LEMMA RefInit ==
    ASSUME Init
    PROVE  L!Init
  BY DEF Init, L!Init, NoEntry, NoOp, L!Absent, Absent, L!NoPrior, NoPrior

LEMMA RefStep ==
    ASSUME IInv, [Next]_vars
    PROVE  [L!Next]_(L!vars)
  <1>1. CASE Call
    BY <1>1, RefCalls
  <1>2. CASE Proceed
    <2>1. op.pc \in SnapshotPCs \/ op.pc \in BootPCs \cup RestorePCs
      BY <1>2 DEF Proceed, SnapshotPCs, BootPCs, RestorePCs, SnapshotStatus, SnapshotPause,
         SnapshotOverlay, SnapshotMigrate, SnapshotWait, SnapshotCont, SnapshotHash,
         BootSpawn, BootCont, RestoreOverlay, RestoreSpawn, RestoreIncoming, RestoreWait,
         RestoreCont
    <2> QED
      BY <1>2, <2>1, RefBootRestore, RefSnapshot
  <1>3. CASE UNCHANGED <<vms, op>>
    BY <1>3, SamePrior, RefStutter
  <1>4. SnapshotPoll \/ Environment \/ UNCHANGED vars => UNCHANGED <<vms, op>>
    BY DEF SnapshotPoll, Environment, GuestWrite, IoError, QemuExit, MigrationCompletes,
           MigrationFails, LoadCompletes, vars
  <1> QED
    BY <1>1, <1>2, <1>3, <1>4 DEF Next

(***************************************************************************)
(* The backend moves every VM along the lifecycle table of the trait only, *)
(* and every snapshot, failed or not, ends in the state it began in.       *)
(***************************************************************************)
THEOREM RefinesLifecycle == Spec => LifecycleSteps
  BY RefInit, RefStep, Invariance, PTL DEF Spec, LifecycleSteps
-----------------------------------------------------------------------------
(***************************************************************************)
(* The disks and the RAM states, on top of the ownership of processes: if  *)
(* no reply of QEMU comes after the read timeout, a snapshot is of one     *)
(* instant, a guest finds what it wrote, and frozen layers are not         *)
(* written.                                                                *)
(***************************************************************************)
(***************************************************************************)
(* No reply is late (the 30 s read timeout of QmpClient never strikes).    *)
(***************************************************************************)
Prompt == MaxUnread = 0

-----------------------------------------------------------------------------
(***************************************************************************)
(* Numbers.                                                                *)
(***************************************************************************)
LEMMA EntryNumbers ==
    ASSUME TypeOK, NEW v \in VMs
    PROVE  /\ vms[v] \in VmEntry /\ vms[v].seq \in Nat /\ vms[v].seq \in Layers
           /\ \A d \in Disks : vms[v].active[d] \in Nat /\ vms[v].active[d] \in Layers
           /\ \A n \in vms[v].snapshots : n \in Nat /\ n \in Tags /\ n \in Layers
           /\ \A n \in Tags : \A d \in Disks :
                vms[v].bases[n][d] \in Nat /\ vms[v].bases[n][d] \in Layers
  <1>1. vms[v] \in VmEntry
    BY DEF TypeOK
  <1>2. \A n \in Layers : n \in Nat
    BY ConstantsAssumption DEF Layers
  <1>3. \A n \in Tags : n \in Layers
    BY ConstantsAssumption DEF Layers, Tags
  <1>4. vms[v].seq \in Layers /\ vms[v].snapshots \subseteq Tags
    BY <1>1 DEF VmEntry
  <1>5. \A d \in Disks : vms[v].active[d] \in Layers
    BY <1>1 DEF VmEntry, Stack
  <1>6. \A n \in Tags : \A d \in Disks : vms[v].bases[n][d] \in Layers
    <2>1. vms[v].bases \in [Tags -> Stack]
      BY <1>1 DEF VmEntry
    <2> QED
      BY <2>1 DEF Stack
  <1> QED
    BY <1>1, <1>2, <1>3, <1>4, <1>5, <1>6

LEMMA ProcNumbers ==
    ASSUME TypeOK, NEW p \in Pids
    PROVE  /\ procs[p] \in QemuProc /\ procs[p].migTag \in Layers
           /\ \A d \in Disks : /\ procs[p].node[d] \in Nat /\ procs[p].top[d] \in Nat
                               /\ procs[p].top[d] \in Layers
  BY DEF TypeOK, QemuProc, Stack, Layers

(***************************************************************************)
(* Who a live process is of.                                               *)
(***************************************************************************)
LEMMA LiveOf ==
    ASSUME IInv
    PROVE  /\ \A p \in Pids : Live(p) => procs[p].vm \in VMs
           /\ \A p, r \in Pids : Live(p) /\ Live(r) /\ procs[p].vm = procs[r].vm => p = r
           /\ \A v \in VMs, p \in Pids : Live(p) /\ vms[v].runtime = p => procs[p].vm = v
           /\ \A p \in Pids : Live(p) /\ op.qemu = p => procs[p].vm = op.vm
           /\ \A v \in VMs : vms[v].runtime = NoPid /\ (op.qemu = NoPid \/ op.vm # v)
                              => \A p \in Pids : Live(p) => procs[p].vm # v
  <1>1. /\ TypeOK /\ OpShape /\ Ownership
    BY DEF IInv
  <1>2. op.qemu # NoPid => op.vm \in VMs /\ vms[op.vm].runtime = NoPid
    BY <1>1 DEF OpShape, BootPCs, RestorePCs
  <1>3. NoPid \notin Pids
    BY ConstantsAssumption
  <1>4. \A p \in Pids : Live(p) => \/ procs[p].vm \in VMs /\ vms[procs[p].vm].runtime = p
                                   \/ op.qemu = p /\ op.vm = procs[p].vm
    BY <1>1 DEF Ownership, QemuOwned
  <1>5. \A v, w \in VMs : vms[v].runtime = vms[w].runtime /\ v # w => vms[v].runtime = NoPid
    BY <1>1 DEF Ownership
  <1>6. \A v \in VMs : op.qemu # NoPid => vms[v].runtime # op.qemu
    BY <1>1 DEF Ownership
  <1> HIDE DEF Live
  <1>7. \A p \in Pids : Live(p) => procs[p].vm \in VMs
    BY <1>2, <1>3, <1>4
  <1>8. \A p, r \in Pids : Live(p) /\ Live(r) /\ procs[p].vm = procs[r].vm => p = r
    BY <1>2, <1>3, <1>4
  <1>9. \A v \in VMs, p \in Pids : Live(p) /\ vms[v].runtime = p => procs[p].vm = v
    BY <1>3, <1>4, <1>5, <1>6
  <1>10. \A p \in Pids : Live(p) /\ op.qemu = p => procs[p].vm = op.vm
    BY <1>3, <1>4, <1>6
  <1>11. \A v \in VMs : vms[v].runtime = NoPid /\ (op.qemu = NoPid \/ op.vm # v)
                              => \A p \in Pids : Live(p) => procs[p].vm # v
    BY <1>3, <1>4
  <1> QED
    BY <1>7, <1>8, <1>9, <1>10, <1>11

(***************************************************************************)
(* Without late replies a command answers itself: execute() returns its    *)
(* answer, or an error.                                                    *)
(***************************************************************************)
LEMMA RepliesNow ==
    ASSUME Prompt, NEW q \in QemuProc, q.unread = << >>, NEW r, NEW x \in Replies(q, r)
    PROVE  x.q = q /\ x.got \in {r, "err"}
  <1> DEFINE queue == Append(q.unread, r)
  <1>1. queue = <<r>> /\ Tail(queue) = << >> /\ Head(queue) = r /\ Len(queue) = 1
    OBVIOUS
  <1> HIDE DEF queue
  <1>2. ~ (Len(queue) <= MaxUnread)
    BY <1>1 DEF Prompt
  <1>3. \E g \in {Head(queue), "err"} :
             x = [got |-> g, q |-> [q EXCEPT !.unread = Tail(queue)]]
    BY <1>2 DEF Replies, queue
  <1>4. [q EXCEPT !.unread = Tail(queue)] = q
    BY <1>1 DEF QemuProc
  <1> QED
    BY <1>1, <1>3, <1>4

LEMMA ExecuteNow ==
    ASSUME Prompt, NEW q \in QemuProc, NEW q2 \in QemuProc,
           q.unread = << >>, q2.unread = << >>, NEW r, NEW x \in Execute(q, q2, r)
    PROVE  /\ x.q = q \/ (x.q = q2 /\ q.run # "exited")
           /\ x.got # "err" => x.got = r /\ x.q = q2 /\ q.run # "exited"
  <1>1. CASE q.run = "exited"
    BY <1>1 DEF Execute
  <1>2. CASE q.run # "exited"
    <2>1. x \in Replies(q2, r) \/ x \in Replies(q, "err")
      BY <1>2 DEF Execute
    <2>2. CASE x \in Replies(q2, r)
      BY <1>2, <2>2, RepliesNow
    <2>3. CASE x \in Replies(q, "err")
      BY <1>2, <2>3, RepliesNow
    <2> QED
      BY <2>1, <2>2, <2>3
  <1> QED
    BY <1>1, <1>2

-----------------------------------------------------------------------------
(***************************************************************************)
(* A step that leaves the disks of VM v alone, and one that changes of a   *)
(* QEMU no more than whether its guest runs, or that its migration ended.  *)
(***************************************************************************)
SameEntry(v) ==
    /\ vms'[v].seq = vms[v].seq
    /\ vms'[v].active = vms[v].active
    /\ vms'[v].snapshots = vms[v].snapshots
    /\ vms'[v].bases = vms[v].bases

SameFiles(v) == data'[v] = data[v] /\ saved'[v] = saved[v]

SameQemu(p) ==
    /\ procs'[p].vm = procs[p].vm
    /\ procs'[p].node = procs[p].node
    /\ procs'[p].top = procs[p].top
    /\ procs'[p].view = procs[p].view
    /\ procs'[p].migTag = procs[p].migTag
    /\ procs'[p].mig = "active" => procs[p].mig = "active"
    /\ procs'[p].run = "inmigrate" <=> procs[p].run = "inmigrate"

(* A QEMU still waits for its RAM state only in the same restore. *)
SameRestore(p) ==
    procs'[p].run = "inmigrate" =>
        op'.qemu = p /\ op'.pc \in {"rest_incoming", "rest_wait"} /\ op'.snap = op.snap

LEMMA EntryStill ==
    ASSUME NEW v \in VMs, EntryOK(v), SameEntry(v), SameFiles(v)
    PROVE  EntryOK(v)'
  BY DEF EntryOK, SameEntry, SameFiles

LEMMA EntryKept ==
    ASSUME NEW v \in VMs, EntryOK(v), SameEntry(v),
           \A n \in vms[v].snapshots : \A d \in Disks :
             /\ saved'[v][n][d] = saved[v][n][d]
             /\ data'[v][d][vms[v].bases[n][d]] = data[v][d][vms[v].bases[n][d]]
    PROVE  EntryOK(v)'
  <1>1. \A n \in vms'[v].snapshots : \A d \in Disks :
          saved'[v][n][d] = data'[v][d][vms'[v].bases[n][d]]
    BY DEF EntryOK, SameEntry
  <1> QED
    BY <1>1 DEF EntryOK, SameEntry

(* Where a QEMU has its layers: of ProcOK, what depends on no content. *)
Placed(q, e) ==
    \A d \in Disks : /\ q.node[d] <= e.seq /\ q.top[d] <= e.seq
                     /\ q.top[d] = q.node[d] => q.node[d] = e.active[d]
                     /\ \A n \in e.snapshots : q.top[d] # e.bases[n][d]

LEMMA PlacedOf ==
    ASSUME NEW p \in Pids, ProcOK(p), NEW v, v = procs[p].vm
    PROVE  Placed(procs[p], vms[v])
  BY DEF ProcOK, Placed

LEMMA PlacedSame ==
    ASSUME NEW q, NEW e, Placed(q, e), NEW q2, q2.node = q.node, q2.top = q.top,
           NEW e2, e2.seq = e.seq, e2.active = e.active, e2.snapshots = e.snapshots,
           e2.bases = e.bases
    PROVE  Placed(q2, e2)
  BY DEF Placed

LEMMA ProcStill ==
    ASSUME NEW p \in Pids, ProcOK(p), SameEntry(procs[p].vm), SameFiles(procs[p].vm),
           SameQemu(p), SameRestore(p)
    PROVE  ProcOK(p)'
  <1> DEFINE v == procs[p].vm
  <1>1. /\ procs'[p].vm = v /\ procs'[p].node = procs[p].node
        /\ procs'[p].top = procs[p].top /\ procs'[p].view = procs[p].view
        /\ procs'[p].migTag = procs[p].migTag
        /\ procs'[p].mig = "active" => procs[p].mig = "active"
        /\ procs'[p].run = "inmigrate" <=> procs[p].run = "inmigrate"
    BY DEF SameQemu
  <1>2. /\ vms'[v].seq = vms[v].seq /\ vms'[v].active = vms[v].active
        /\ vms'[v].snapshots = vms[v].snapshots /\ vms'[v].bases = vms[v].bases
        /\ data'[v] = data[v] /\ saved'[v] = saved[v]
    BY DEF SameEntry, SameFiles
  <1>3. procs'[p].run = "inmigrate" =>
          op'.qemu = p /\ op'.pc \in {"rest_incoming", "rest_wait"} /\ op'.snap = op.snap
    BY DEF SameRestore
  <1> HIDE DEF v
  <1>4. \A d \in Disks : /\ procs'[p].node[d] <= vms'[v].seq /\ procs'[p].top[d] <= vms'[v].seq
                         /\ procs'[p].top[d] = procs'[p].node[d] =>
                              procs'[p].node[d] = vms'[v].active[d]
                         /\ \A n \in vms'[v].snapshots : procs'[p].top[d] # vms'[v].bases[n][d]
    <2>1. Placed(procs[p], vms[v])
      BY PlacedOf DEF v
    <2>2. Placed(procs'[p], vms'[v])
      BY <1>1, <1>2, <2>1, PlacedSame
    <2> QED
      BY <2>2 DEF Placed
  <1>5. procs'[p].run # "inmigrate" =>
         /\ procs'[p].mig = "active" => procs'[p].migTag \notin vms'[v].snapshots
         /\ \A d \in Disks : procs'[p].view[d] = data'[v][d][procs'[p].top[d]]
    BY <1>1, <1>2 DEF ProcOK, v
  <1>6. procs'[p].run = "inmigrate" =>
         /\ op'.qemu = p /\ op'.pc \in {"rest_incoming", "rest_wait"}
         /\ procs'[p].mig = "active" => procs'[p].migTag = op'.snap
         /\ \A d \in Disks : data'[v][d][procs'[p].top[d]] = saved'[v][op'.snap][d]
    BY <1>1, <1>2, <1>3 DEF ProcOK, v
  <1> QED
    BY <1>1, <1>4, <1>5, <1>6 DEF ProcOK

(***************************************************************************)
(* The parts of DInv about entries and processes.                          *)
(***************************************************************************)
Entries == \A v \in VMs : EntryOK(v)
Qemus == \A p \in Pids : Live(p) => ProcOK(p)
Unread == \A p \in Pids : procs[p].unread = << >>
Operating ==
    /\ op.pc \in SnapshotPCs => SnapshotOK /\ (Live(Runtime) => HaltedOK)
    /\ op.pc \in RestorePCs => RestoreOK
    /\ op.pc = "rest_incoming" => IncomingOK

LEMMA DInvParts == DInv <=> IInv /\ Unread /\ Entries /\ Qemus /\ Operating
  BY DEF DInv, Unread, Entries, Qemus, Operating

LEMMA QuietStep ==
    ASSUME DInv, UNCHANGED <<data, saved>>, \A v \in VMs : SameEntry(v),
           \A p \in Pids : /\ procs'[p].unread = << >>
                           /\ Live(p)' => Live(p) /\ SameQemu(p) /\ SameRestore(p)
    PROVE  Unread' /\ Entries' /\ Qemus'
  <1>1. \A v \in VMs : SameFiles(v)
    BY DEF SameFiles
  <1>2. Unread'
    BY DEF Unread
  <1>3. Entries'
    BY <1>1, EntryStill DEF Entries, DInv
  <1>4. \A p \in Pids : Live(p) => procs[p].vm \in VMs
    BY LiveOf DEF DInv
  <1>5. ASSUME NEW p \in Pids, Live(p)'
        PROVE  ProcOK(p)'
    <2>1. Live(p) /\ SameQemu(p) /\ SameRestore(p)
      BY <1>5
    <2>2. ProcOK(p) /\ procs[p].vm \in VMs
      BY <1>4, <2>1 DEF DInv
    <2> QED
      BY <1>1, <2>1, <2>2, ProcStill
  <1> QED
    BY <1>2, <1>3, <1>5 DEF Qemus

(***************************************************************************)
(* A step after which no snapshot and no restore is in progress.           *)
(***************************************************************************)
LEMMA NotOperating ==
    ASSUME op'.pc \notin SnapshotPCs \cup RestorePCs
    PROVE  Operating'
  BY DEF Operating, RestorePCs

LEMMA IdleNotOperating == "idle" \notin SnapshotPCs \cup RestorePCs /\ NoOp.pc = "idle"
  BY DEF SnapshotPCs, RestorePCs, NoOp

(***************************************************************************)
(* Only the QEMU of the restore in progress waits for its RAM state.       *)
(***************************************************************************)
LEMMA Waiting ==
    ASSUME DInv, NEW p \in Pids, procs[p].run = "inmigrate"
    PROVE  op.qemu = p /\ op.pc \in {"rest_incoming", "rest_wait"}
  <1>1. Live(p)
    BY DEF Live
  <1> QED
    BY <1>1 DEF DInv, ProcOK

LEMMA NoneWaiting ==
    ASSUME DInv, op.pc \notin {"rest_incoming", "rest_wait"}
    PROVE  \A p \in Pids : procs[p].run # "inmigrate"
  BY Waiting

LEMMA IncomingStill ==
    ASSUME DInv, op.pc = "rest_incoming", UNCHANGED op,
           NEW p \in Pids, Live(p), procs[p].run # "inmigrate" \/ procs[p].vm # op.vm,
           \A r \in Pids : r # p => procs'[r] = procs[r]
    PROVE  IncomingOK'
  <1>1. IncomingOK /\ op.qemu \in Pids
    <2>1. op.qemu # NoPid /\ op \in Operation
      BY DEF DInv, IInv, TypeOK, OpShape
    <2> QED
      BY <2>1 DEF Operation, DInv
  <1>2. p # op.qemu
    BY <1>1, LiveOf DEF IncomingOK, DInv
  <1> QED
    BY <1>1, <1>2 DEF IncomingOK, Live

LEMMA QuietNoneWaiting ==
    ASSUME DInv, op.pc \notin {"rest_incoming", "rest_wait"},
           UNCHANGED <<data, saved>>, \A v \in VMs : SameEntry(v),
           \A p \in Pids : /\ procs'[p].unread = << >>
                           /\ Live(p)' => Live(p) /\ SameQemu(p)
    PROVE  Unread' /\ Entries' /\ Qemus'
  <1>1. \A p \in Pids : Live(p)' => SameRestore(p)
    BY NoneWaiting DEF SameQemu, SameRestore
  <1> QED
    BY <1>1, QuietStep

(***************************************************************************)
(* What a command that halts or continues the guest, or asks for a state,  *)
(* does to the QEMUs; what the end of one does; and what a change of state *)
(* or runtime does to the entries.                                         *)
(***************************************************************************)
Alike(q, q2) ==
    /\ q2 \in QemuProc /\ q2.unread = << >>
    /\ q2.vm = q.vm /\ q2.node = q.node /\ q2.top = q.top /\ q2.view = q.view
    /\ q2.migTag = q.migTag /\ q2.mig = q.mig
    /\ q2.run = "inmigrate" <=> q.run = "inmigrate"

LEMMA CommandsAlike ==
    ASSUME NEW q \in QemuProc, q.unread = << >>
    PROVE  Alike(q, q) /\ Alike(q, Halt(q)) /\ Alike(q, Cont(q))
  <1>1. Alike(q, q)
    BY DEF Alike
  <1>2. Alike(q, Halt(q))
    BY HaltType DEF Alike, Halt, QemuProc
  <1>3. Alike(q, Cont(q))
    BY ContType DEF Alike, Cont, QemuProc
  <1> QED
    BY <1>1, <1>2, <1>3

LEMMA QuietCommand ==
    ASSUME Prompt, DInv, NEW P \in Pids, NEW q2, Alike(procs[P], q2), NEW r,
           NEW x \in Execute(procs[P], q2, r), procs' = [procs EXCEPT ![P] = x.q]
    PROVE  \A p \in Pids : /\ procs'[p].unread = << >>
                           /\ Live(p)' => Live(p) /\ SameQemu(p)
  <1>1. procs \in [Pids -> QemuProc] /\ \A p \in Pids : procs[p].unread = << >>
    BY DEF DInv, IInv, TypeOK
  <1>2. q2 \in QemuProc /\ q2.unread = << >>
    BY DEF Alike
  <1>3. x.q = procs[P] \/ (x.q = q2 /\ procs[P].run # "exited")
    BY <1>1, <1>2, ExecuteNow
  <1>4. /\ procs'[P] = x.q
        /\ \A p \in Pids : p # P => procs'[p] = procs[p]
    BY <1>1
  <1> QED
    BY <1>1, <1>2, <1>3, <1>4 DEF SameQemu, Live, Alike

LEMMA QuietQuit ==
    ASSUME DInv, NEW P,
           procs' = [p \in Pids |-> IF p = P THEN NoProc ELSE procs[p]]
    PROVE  \A p \in Pids : /\ procs'[p].unread = << >>
                           /\ Live(p)' => p # P /\ procs'[p] = procs[p] /\ Live(p) /\ SameQemu(p)
  <1>1. \A p \in Pids : procs[p].unread = << >>
    BY DEF DInv
  <1>2. NoProc.unread = << >> /\ NoProc.run = "exited"
    BY DEF NoProc
  <1> QED
    BY <1>1, <1>2 DEF SameQemu, Live

LEMMA QuietEntry ==
    ASSUME IInv, NEW v \in VMs, NEW s, NEW p,
           \/ UNCHANGED vms
           \/ vms' = [vms EXCEPT ![v].state = s]
           \/ vms' = [vms EXCEPT ![v].runtime = p]
           \/ vms' = [vms EXCEPT ![v] = [@ EXCEPT !.runtime = p, !.state = s]]
    PROVE  \A w \in VMs : SameEntry(w)
  <1>1. vms \in [VMs -> VmEntry] /\ vms[v] \in VmEntry
    BY DEF IInv, TypeOK
  <1>2. PICK e : /\ \/ UNCHANGED vms
                    \/ vms' = [vms EXCEPT ![v] = e]
                 /\ e.seq = vms[v].seq /\ e.active = vms[v].active
                 /\ e.snapshots = vms[v].snapshots /\ e.bases = vms[v].bases
    <2>1. CASE UNCHANGED vms
      BY <2>1
    <2>2. CASE vms' = [vms EXCEPT ![v].state = s]
      <3> WITNESS [vms[v] EXCEPT !.state = s]
      <3> QED
        BY <1>1, <2>2 DEF VmEntry
    <2>3. CASE vms' = [vms EXCEPT ![v].runtime = p]
      <3> WITNESS [vms[v] EXCEPT !.runtime = p]
      <3> QED
        BY <1>1, <2>3 DEF VmEntry
    <2>4. CASE vms' = [vms EXCEPT ![v] = [@ EXCEPT !.runtime = p, !.state = s]]
      <3> WITNESS [vms[v] EXCEPT !.runtime = p, !.state = s]
      <3> QED
        BY <1>1, <2>4 DEF VmEntry
    <2> QED
      BY <2>1, <2>2, <2>3, <2>4
  <1> QED
    BY <1>1, <1>2 DEF SameEntry

LEMMA QuietUnchanged ==
    ASSUME DInv, UNCHANGED procs
    PROVE  \A p \in Pids : /\ procs'[p].unread = << >>
                           /\ Live(p)' => Live(p) /\ SameQemu(p)
  BY DEF DInv, SameQemu, Live

-----------------------------------------------------------------------------
(***************************************************************************)
(* The operations that touch no disk.                                      *)
(***************************************************************************)
LEMMA DPauseResume ==
    ASSUME Prompt, DInv, IInv', NEW v \in VMs, Pause(v) \/ Resume(v)
    PROVE  DInv'
  <1> DEFINE P == vms[v].runtime
             q == procs[P]
  <1>1. P \in Pids /\ q \in QemuProc /\ q.unread = << >>
    <2>1. vms[v] \in VmEntry
      BY DEF DInv, IInv, TypeOK
    <2>2. P \in Pids
      BY <2>1 DEF Pause, Resume, VmEntry
    <2> QED
      BY <2>2 DEF DInv, IInv, TypeOK
  <1>2. PICK q2, s :
          /\ q2 \in {Halt(q), Cont(q)}
          /\ \E x \in Execute(q, q2, "ok") :
               /\ procs' = [procs EXCEPT ![P] = x.q]
               /\ vms' = [vms EXCEPT ![v].state = s]
    BY DEF Pause, Resume
  <1>3. Alike(q, q2)
    BY <1>1, <1>2, CommandsAlike
  <1>4. \A p \in Pids : /\ procs'[p].unread = << >>
                        /\ Live(p)' => Live(p) /\ SameQemu(p)
    BY <1>1, <1>2, <1>3, QuietCommand
  <1>5. \A w \in VMs : SameEntry(w)
    BY <1>2, QuietEntry DEF DInv
  <1>6. op.pc = "idle" /\ UNCHANGED <<op, data, saved>>
    BY DEF Pause, Resume, Idle
  <1>7. Unread' /\ Entries' /\ Qemus'
    BY <1>4, <1>5, <1>6, QuietNoneWaiting
  <1>8. Operating'
    BY <1>6, NotOperating, IdleNotOperating
  <1> QED
    BY <1>7, <1>8 DEF DInv, Unread, Entries, Qemus, Operating

LEMMA DStop ==
    ASSUME DInv, IInv', NEW v \in VMs, Stop(v)
    PROVE  DInv'
  <1>1. \A p \in Pids : /\ procs'[p].unread = << >>
                        /\ Live(p)' => Live(p) /\ SameQemu(p)
    BY QuietQuit DEF Stop, Quit
  <1>2. PICK s : vms' = [vms EXCEPT ![v] = [@ EXCEPT !.runtime = NoPid, !.state = s]]
    BY DEF Stop
  <1>3. \A w \in VMs : SameEntry(w)
    BY <1>2, QuietEntry DEF DInv
  <1>4. op.pc = "idle" /\ UNCHANGED <<op, data, saved>>
    BY DEF Stop, Idle
  <1>5. Unread' /\ Entries' /\ Qemus'
    BY <1>1, <1>3, <1>4, QuietNoneWaiting
  <1>6. Operating'
    BY <1>4, NotOperating, IdleNotOperating
  <1> QED
    BY <1>5, <1>6 DEF DInv, Unread, Entries, Qemus, Operating

LEMMA DBootBegin ==
    ASSUME DInv, IInv', NEW v \in VMs, BootBegin(v)
    PROVE  DInv'
  <1>1. op.pc = "idle" /\ UNCHANGED <<vms, procs, data, saved>> /\ op'.pc = "boot_spawn"
    BY DEF BootBegin, Idle, NoOp
  <1>2. \A w \in VMs : SameEntry(w)
    BY <1>1 DEF SameEntry
  <1>3. Unread' /\ Entries' /\ Qemus'
    BY <1>1, <1>2, QuietUnchanged, QuietNoneWaiting
  <1>4. Operating'
    BY <1>1, NotOperating DEF SnapshotPCs, RestorePCs
  <1> QED
    BY <1>3, <1>4 DEF DInv, Unread, Entries, Qemus, Operating

(***************************************************************************)
(* boot or restore returns with an error.                                  *)
(***************************************************************************)
LEMMA DDropLocal ==
    ASSUME DInv, IInv', DropLocal, UNCHANGED <<data, saved>>
    PROVE  DInv'
  <1>1. \A p \in Pids : /\ procs'[p].unread = << >>
                        /\ Live(p)' => p # op.qemu /\ procs'[p] = procs[p] /\ Live(p) /\ SameQemu(p)
    BY QuietQuit DEF DropLocal
  <1>2. \A p \in Pids : Live(p)' => SameRestore(p)
    BY <1>1, Waiting DEF SameRestore
  <1>3. \A w \in VMs : SameEntry(w)
    BY DEF SameEntry, DropLocal
  <1>4. Unread' /\ Entries' /\ Qemus'
    BY <1>1, <1>2, <1>3, QuietStep
  <1>5. Operating'
    BY NotOperating, IdleNotOperating DEF DropLocal
  <1> QED
    BY <1>4, <1>5 DEF DInv, Unread, Entries, Qemus, Operating

(***************************************************************************)
(* boot or restore succeeds: cont, and the local becomes the runtime.      *)
(***************************************************************************)
LEMMA DInstall ==
    ASSUME Prompt, DInv, IInv', op.pc \in {"boot_cont", "rest_cont"},
           NEW x \in Execute(procs[op.qemu], Cont(procs[op.qemu]), "ok"),
           procs' = [procs EXCEPT ![op.qemu] = x.q],
           NEW o, Install(o), UNCHANGED <<data, saved>>
    PROVE  DInv'
  <1> DEFINE P == op.qemu
             q == procs[P]
  <1>1. P \in Pids /\ q \in QemuProc /\ q.unread = << >> /\ op.vm \in VMs
    <2>1. op \in Operation /\ op.qemu # NoPid /\ op.vm \in VMs
      BY DEF DInv, IInv, TypeOK, OpShape
    <2>2. P \in Pids
      BY <2>1 DEF Operation
    <2> QED
      BY <2>1, <2>2 DEF DInv, IInv, TypeOK
  <1>2. \A p \in Pids : /\ procs'[p].unread = << >>
                        /\ Live(p)' => Live(p) /\ SameQemu(p)
    BY <1>1, CommandsAlike, QuietCommand
  <1>3. \A w \in VMs : SameEntry(w)
    BY <1>1, QuietEntry DEF DInv, Install
  <1>4. Unread' /\ Entries' /\ Qemus'
    BY <1>2, <1>3, QuietNoneWaiting
  <1>5. Operating'
    BY NotOperating, IdleNotOperating DEF Install
  <1> QED
    BY <1>4, <1>5 DEF DInv, Unread, Entries, Qemus, Operating

LEMMA DBootCont ==
    ASSUME Prompt, DInv, IInv', BootCont
    PROVE  DInv'
  BY DDropLocal, DInstall DEF BootCont

LEMMA DRestoreCont ==
    ASSUME Prompt, DInv, IInv', RestoreCont
    PROVE  DInv'
  BY DDropLocal, DInstall DEF RestoreCont

(***************************************************************************)
(* create and delete: an entry without a QEMU starts afresh.               *)
(***************************************************************************)
LEMMA ResetEntry ==
    ASSUME DInv, IInv', Idle, UNCHANGED <<op, data, saved>>, NEW v \in VMs,
           vms'[v].seq = 0, vms'[v].snapshots = {}, \A d \in Disks : vms'[v].active[d] = 0,
           \A w \in VMs : w # v => vms'[w] = vms[w],
           \A p \in Pids : /\ procs'[p].unread = << >>
                           /\ Live(p)' => Live(p) /\ SameQemu(p) /\ procs[p].vm # v
    PROVE  DInv'
  <1>1. \A w \in VMs : w # v => SameEntry(w) /\ SameFiles(w)
    BY DEF SameEntry, SameFiles
  <1>2. EntryOK(v)'
    BY DEF EntryOK
  <1>3. Entries'
    BY <1>1, <1>2, EntryStill DEF Entries, DInv
  <1>4. \A p \in Pids : Live(p) => procs[p].vm \in VMs
    BY LiveOf DEF DInv
  <1>5. \A p \in Pids : Live(p)' => SameRestore(p)
    BY NoneWaiting DEF Idle, SameQemu, SameRestore
  <1>6. ASSUME NEW p \in Pids, Live(p)'
        PROVE  ProcOK(p)'
    <2>1. /\ Live(p) /\ SameQemu(p) /\ SameRestore(p)
          /\ procs[p].vm \in VMs /\ procs[p].vm # v
      BY <1>4, <1>5, <1>6
    <2>2. ProcOK(p)
      BY <2>1 DEF DInv
    <2> QED
      BY <1>1, <2>1, <2>2, ProcStill
  <1>7. Operating'
    BY NotOperating, IdleNotOperating DEF Idle
  <1> QED
    BY <1>3, <1>6, <1>7 DEF DInv, Entries, Qemus, Operating

LEMMA DCreate ==
    ASSUME DInv, IInv', NEW v \in VMs, Create(v)
    PROVE  DInv'
  <1> DEFINE e == [NoEntry EXCEPT !.state = "Defined"]
  <1>1. e.seq = 0 /\ e.snapshots = {} /\ \A d \in Disks : e.active[d] = 0
    BY DEF NoEntry
  <1> HIDE DEF e
  <1>2. vms'[v] = e /\ \A w \in VMs : w # v => vms'[w] = vms[w]
    BY DEF e, Create, DInv, IInv, TypeOK
  <1>3. vms[v].runtime = NoPid /\ op.qemu = NoPid
    <2>1. op = NoOp
      BY DEF Create, Idle, DInv, IInv, OpShape
    <2> QED
      BY <2>1 DEF Create, DInv, IInv, Ownership, AtRest, NoOp
  <1>4. \A p \in Pids : Live(p) => procs[p].vm # v
    BY <1>3, LiveOf DEF DInv
  <1>5. Idle /\ UNCHANGED <<op, procs, data, saved>>
    BY DEF Create
  <1>6. \A p \in Pids : /\ procs'[p].unread = << >>
                        /\ Live(p)' => Live(p) /\ SameQemu(p) /\ procs[p].vm # v
    BY <1>4, <1>5, QuietUnchanged
  <1> QED
    BY <1>1, <1>2, <1>5, <1>6, ResetEntry

LEMMA DDelete ==
    ASSUME DInv, IInv', NEW v \in VMs, Delete(v)
    PROVE  DInv'
  <1>1. NoEntry.seq = 0 /\ NoEntry.snapshots = {} /\ \A d \in Disks : NoEntry.active[d] = 0
    BY DEF NoEntry
  <1>2. vms'[v] = NoEntry /\ \A w \in VMs : w # v => vms'[w] = vms[w]
    BY DEF Delete, DInv, IInv, TypeOK
  <1>3. op.qemu = NoPid
    BY DEF Delete, Idle, DInv, IInv, OpShape, NoOp
  <1>4. \A p \in Pids : Live(p) /\ procs[p].vm = v => vms[v].runtime = p
    BY <1>3, ConstantsAssumption DEF DInv, IInv, Ownership, QemuOwned
  <1>5. Idle /\ UNCHANGED <<op, data, saved>>
    BY DEF Delete
  <1>6. \A p \in Pids : /\ procs'[p].unread = << >>
                        /\ Live(p)' => Live(p) /\ SameQemu(p) /\ procs[p].vm # v
    <2>1. procs' = [p \in Pids |-> IF p = vms[v].runtime THEN NoProc ELSE procs[p]]
      BY DEF Delete
    <2>2. \A p \in Pids : /\ procs'[p].unread = << >>
                          /\ Live(p)' => p # vms[v].runtime /\ Live(p) /\ SameQemu(p)
      BY <2>1, QuietQuit
    <2> HIDE DEF Live
    <2> QED
      BY <1>4, <2>2
  <1> QED
    BY <1>1, <1>2, <1>5, <1>6, ResetEntry

(***************************************************************************)
(* ProcOK, spelled out.                                                    *)
(***************************************************************************)
LEMMA ProcNow ==
    ASSUME NEW p \in Pids, NEW v, procs'[p].vm = v,
           \A d \in Disks :
             /\ procs'[p].node[d] <= vms'[v].seq /\ procs'[p].top[d] <= vms'[v].seq
             /\ procs'[p].top[d] = procs'[p].node[d] =>
                  procs'[p].node[d] = vms'[v].active[d]
             /\ \A n \in vms'[v].snapshots : procs'[p].top[d] # vms'[v].bases[n][d],
           procs'[p].run # "inmigrate" =>
             /\ procs'[p].mig = "active" => procs'[p].migTag \notin vms'[v].snapshots
             /\ \A d \in Disks : procs'[p].view[d] = data'[v][d][procs'[p].top[d]],
           procs'[p].run = "inmigrate" =>
             /\ op'.qemu = p /\ op'.pc \in {"rest_incoming", "rest_wait"}
             /\ procs'[p].mig = "active" => procs'[p].migTag = op'.snap
             /\ \A d \in Disks : data'[v][d][procs'[p].top[d]] = saved'[v][op'.snap][d]
    PROVE  ProcOK(p)'
  BY DEF ProcOK

(***************************************************************************)
(* A QEMU spawned on the active layers, in boot or in restore.             *)
(***************************************************************************)
LEMMA DSpawn ==
    ASSUME DInv, IInv', NEW run, NEW next, Spawn(run, next),
           UNCHANGED <<vms, data, saved>>,
           \/ op.pc = "boot_spawn" /\ run = "prelaunch" /\ next = "boot_cont"
           \/ op.pc = "rest_spawn" /\ run = "inmigrate" /\ next = "rest_incoming"
    PROVE  DInv'
  <1> DEFINE v == op.vm
             a == vms[v].active
             w == [d \in Disks |-> data[v][d][a[d]]]
  <1>1. PICK P \in Pids \ Handles :
          /\ procs' = [procs EXCEPT ![P] = Launched(v, run)]
          /\ op' = [op EXCEPT !.pc = next, !.qemu = P]
    BY DEF Spawn
  <1>2. v \in VMs
    BY DEF DInv, IInv, OpShape
  <1>3. /\ procs'[P].vm = v /\ procs'[P].run = run /\ procs'[P].node = a
        /\ procs'[P].top = a /\ procs'[P].view = w /\ procs'[P].mig = "none"
        /\ procs'[P].unread = << >>
        /\ \A p \in Pids : p # P => procs'[p] = procs[p]
    <2>1. procs'[P] = Launched(v, run) /\ \A p \in Pids : p # P => procs'[p] = procs[p]
      BY <1>1 DEF DInv, IInv, TypeOK
    <2> QED
      BY <2>1 DEF Launched, NoProc
  <1>4. /\ op'.pc = next /\ op'.qemu = P /\ op'.vm = v /\ op'.snap = op.snap /\ op'.i = op.i
    BY <1>1 DEF DInv, IInv, TypeOK, Operation
  <1> HIDE DEF v, a, w
  <1>5. Unread'
    BY <1>3 DEF Unread, DInv
  <1>6. Entries'
    <2>1. \A u \in VMs : SameEntry(u) /\ SameFiles(u)
      BY DEF SameEntry, SameFiles
    <2> QED
      BY <2>1, EntryStill DEF Entries, DInv
  <1>7. ProcOK(P)'
    <2>1. EntryOK(v)
      BY <1>2 DEF DInv
    <2>2. \A d \in Disks : /\ a[d] <= vms[v].seq
                           /\ \A n \in vms[v].snapshots : a[d] # vms[v].bases[n][d]
      BY <2>1 DEF EntryOK, a
    <2>3. \A d \in Disks : w[d] = data[v][d][a[d]]
      BY DEF w
    <2>4. run = "inmigrate" =>
             /\ op'.qemu = P /\ op'.pc \in {"rest_incoming", "rest_wait"}
             /\ \A d \in Disks : data[v][d][a[d]] = saved[v][op.snap][d]
      <3>1. op.pc = "rest_spawn" => RestoreOK
        BY DEF DInv, RestorePCs
      <3> QED
        BY <1>4, <3>1 DEF RestoreOK, v, a
    <2>5. a = vms[v].active /\ (run # "inmigrate" <=> run = "prelaunch")
      BY DEF a
    <2>6. \A d \in Disks :
             /\ procs'[P].node[d] <= vms'[v].seq /\ procs'[P].top[d] <= vms'[v].seq
             /\ procs'[P].top[d] = procs'[P].node[d] => procs'[P].node[d] = vms'[v].active[d]
             /\ \A n \in vms'[v].snapshots : procs'[P].top[d] # vms'[v].bases[n][d]
      BY <1>3, <2>2, <2>5
    <2>7. /\ procs'[P].mig # "active"
          /\ \A d \in Disks : procs'[P].view[d] = data'[v][d][procs'[P].top[d]]
      BY <1>3, <2>3
    <2>8. procs'[P].run = "inmigrate" =>
             /\ op'.qemu = P /\ op'.pc \in {"rest_incoming", "rest_wait"}
             /\ \A d \in Disks : data'[v][d][procs'[P].top[d]] = saved'[v][op'.snap][d]
      BY <1>3, <1>4, <2>4
    <2>9. procs'[P].vm = v
      BY <1>3
    <2> QED
      BY <2>6, <2>7, <2>8, <2>9, ProcNow
  <1>8. Qemus'
    <2>1. ASSUME NEW p \in Pids, p # P, Live(p)'
          PROVE  ProcOK(p)'
      <3>1. Live(p) /\ procs'[p] = procs[p]
        BY <1>3, <2>1 DEF Live
      <3>2. SameQemu(p) /\ procs[p].run # "inmigrate" /\ ProcOK(p)
        BY <3>1, NoneWaiting DEF SameQemu, DInv
      <3>3. SameRestore(p) /\ SameEntry(procs[p].vm) /\ SameFiles(procs[p].vm)
        BY <3>1, <3>2 DEF SameRestore, SameEntry, SameFiles
      <3> QED
        BY <3>2, <3>3, ProcStill
    <2> QED
      BY <1>7, <2>1 DEF Qemus
  <1>9. Operating'
    <2>1. CASE next = "boot_cont"
      BY <1>4, <2>1, NotOperating DEF SnapshotPCs, RestorePCs
    <2>2. CASE next = "rest_incoming"
      <3>1. RestoreOK
        BY <2>2 DEF DInv, RestorePCs
      <3>2. RestoreOK'
        BY <1>4, <2>2, <3>1 DEF RestoreOK, NewTag, v
      <3>3. IncomingOK'
        BY <1>3, <1>4, <2>2 DEF IncomingOK
      <3> QED
        BY <1>4, <2>2, <3>2, <3>3 DEF Operating, SnapshotPCs, RestorePCs
    <2> QED
      BY <2>1, <2>2
  <1> QED
    BY <1>5, <1>6, <1>8, <1>9 DEF DInv, Unread, Entries, Qemus, Operating

LEMMA DReturn ==
    ASSUME DInv, IInv', op' = NoOp, UNCHANGED <<vms, procs, data, saved>>,
           op.pc \notin {"rest_incoming", "rest_wait"}
    PROVE  DInv'
  <1>1. \A w \in VMs : SameEntry(w)
    BY DEF SameEntry
  <1>2. Unread' /\ Entries' /\ Qemus'
    BY <1>1, QuietUnchanged, QuietNoneWaiting
  <1>3. Operating'
    BY NotOperating, IdleNotOperating
  <1> QED
    BY <1>2, <1>3 DEF DInv, Unread, Entries, Qemus, Operating

LEMMA DBootSpawn ==
    ASSUME DInv, IInv', BootSpawn
    PROVE  DInv'
  BY DSpawn, DReturn DEF BootSpawn, SpawnFails

LEMMA DRestoreSpawn ==
    ASSUME DInv, IInv', RestoreSpawn
    PROVE  DInv'
  BY DSpawn, DReturn DEF RestoreSpawn, SpawnFails

-----------------------------------------------------------------------------
(***************************************************************************)
(* A new tag: snapshot_seq goes up before the overlays are made, and is    *)
(* then above every number recorded or in use.                             *)
(***************************************************************************)
LEMMA NewTagStep ==
    ASSUME DInv, Idle, NEW v \in VMs,
           /\ vms'[v].seq = vms[v].seq + 1
           /\ vms'[v].active = vms[v].active
           /\ vms'[v].snapshots = vms[v].snapshots
           /\ vms'[v].bases = vms[v].bases,
           \A w \in VMs : w # v => SameEntry(w),
           UNCHANGED <<data, saved>>,
           \A p \in Pids : /\ procs'[p].unread = << >>
                           /\ Live(p)' => Live(p) /\ SameQemu(p)
    PROVE  /\ Unread' /\ Entries' /\ Qemus'
           /\ NewTag(vms[v])'
           /\ \A d \in Disks : vms'[v].active[d] < vms'[v].seq
           /\ \A p \in Pids : Live(p)' /\ procs[p].vm = v =>
                \A d \in Disks : procs'[p].node[d] < vms'[v].seq
  <1> DEFINE e == vms[v]
             s == e.seq
  <1>1. /\ s \in Nat
        /\ \A d \in Disks : e.active[d] \in Nat
        /\ \A n \in e.snapshots : n \in Nat /\ \A d \in Disks : e.bases[n][d] \in Nat
    BY EntryNumbers DEF DInv, IInv
  <1>2. /\ \A d \in Disks : e.active[d] <= s
        /\ \A n \in e.snapshots : n <= s
        /\ \A n \in e.snapshots : \A d \in Disks :
             /\ e.bases[n][d] <= s
             /\ e.active[d] # e.bases[n][d]
             /\ saved[v][n][d] = data[v][d][e.bases[n][d]]
    BY DEF DInv, EntryOK
  <1>3. EntryOK(v)'
    <2>1. /\ \A d \in Disks : e.active[d] <= s + 1
          /\ \A n \in e.snapshots : n <= s + 1
          /\ \A n \in e.snapshots : \A d \in Disks : e.bases[n][d] <= s + 1
      BY <1>1, <1>2
    <2> HIDE DEF s
    <2> QED
      BY <1>2, <2>1 DEF EntryOK, s
  <1>4. \A w \in VMs : SameFiles(w)
    BY DEF SameFiles
  <1>5. Entries'
    BY <1>3, <1>4, EntryStill DEF Entries, DInv
  <1>6. NewTag(vms[v])'
    BY <1>1, <1>2 DEF NewTag
  <1>7. \A d \in Disks : vms'[v].active[d] < vms'[v].seq
    BY <1>1, <1>2
  <1>8. \A p \in Pids : Live(p) => procs[p].vm \in VMs
    BY LiveOf DEF DInv
  <1>9. \A p \in Pids : Live(p)' => SameRestore(p) /\ procs[p].run # "inmigrate"
    BY NoneWaiting DEF Idle, SameQemu, SameRestore
  <1>10. ASSUME NEW p \in Pids, Live(p)', procs[p].vm = v
         PROVE  ProcOK(p)' /\ \A d \in Disks : procs'[p].node[d] < vms'[v].seq
    <2>1. /\ Live(p) /\ ProcOK(p) /\ procs[p].run # "inmigrate"
          /\ procs'[p].vm = v /\ procs'[p].node = procs[p].node
          /\ procs'[p].top = procs[p].top /\ procs'[p].view = procs[p].view
          /\ procs'[p].migTag = procs[p].migTag
          /\ procs'[p].mig = "active" => procs[p].mig = "active"
          /\ procs'[p].run # "inmigrate"
      BY <1>9, <1>10 DEF SameQemu, DInv
    <2>2. \A d \in Disks : procs[p].node[d] \in Nat /\ procs[p].top[d] \in Nat
      BY ProcNumbers DEF DInv, IInv
    <2>3. \A d \in Disks : /\ procs[p].node[d] <= s /\ procs[p].top[d] <= s
                           /\ procs[p].top[d] = procs[p].node[d] =>
                                procs[p].node[d] = e.active[d]
                           /\ \A n \in e.snapshots : procs[p].top[d] # e.bases[n][d]
      BY <1>10, <2>1 DEF ProcOK
    <2>4. \A d \in Disks : procs'[p].node[d] < s + 1 /\ procs'[p].top[d] < s + 1
      BY <1>1, <2>1, <2>2, <2>3
    <2>5. \A d \in Disks : procs'[p].node[d] <= s + 1 /\ procs'[p].top[d] <= s + 1
      BY <1>1, <2>1, <2>2, <2>4
    <2> HIDE DEF s
    <2>6. \A d \in Disks :
             /\ procs'[p].node[d] <= vms'[v].seq /\ procs'[p].top[d] <= vms'[v].seq
             /\ procs'[p].top[d] = procs'[p].node[d] => procs'[p].node[d] = vms'[v].active[d]
             /\ \A n \in vms'[v].snapshots : procs'[p].top[d] # vms'[v].bases[n][d]
      BY <2>1, <2>3, <2>5 DEF s
    <2>7. /\ procs'[p].mig = "active" => procs'[p].migTag \notin vms'[v].snapshots
          /\ \A d \in Disks : procs'[p].view[d] = data'[v][d][procs'[p].top[d]]
      BY <1>10, <2>1 DEF ProcOK
    <2>8. ProcOK(p)'
      BY <2>1, <2>6, <2>7, ProcNow
    <2> QED
      BY <2>4, <2>8 DEF s
  <1>11. ASSUME NEW p \in Pids, Live(p)', procs[p].vm # v
         PROVE  ProcOK(p)'
    <2>1. /\ Live(p) /\ ProcOK(p) /\ SameQemu(p) /\ SameRestore(p)
          /\ SameEntry(procs[p].vm) /\ SameFiles(procs[p].vm)
      BY <1>4, <1>8, <1>9, <1>11 DEF DInv
    <2> QED
      BY <2>1, ProcStill
  <1> QED
    BY <1>5, <1>6, <1>7, <1>10, <1>11 DEF Unread, Qemus

LEMMA DSnapshotBegin ==
    ASSUME DInv, IInv', NEW v \in VMs, SnapshotBegin(v)
    PROVE  DInv'
  <1> DEFINE e1 == [vms[v] EXCEPT !.seq = vms[v].seq + 1]
             e2 == [vms[v] EXCEPT !.seq = vms[v].seq + 1, !.state = To.SnapshotBegin]
  <1>1. PICK e \in {e1, e2} : vms' = [vms EXCEPT ![v] = e]
    BY DEF SnapshotBegin
  <1>2. vms \in [VMs -> VmEntry] /\ vms[v] \in VmEntry
    BY DEF DInv, IInv, TypeOK
  <1>3. /\ e.seq = vms[v].seq + 1 /\ e.active = vms[v].active
        /\ e.snapshots = vms[v].snapshots /\ e.bases = vms[v].bases
        /\ e.runtime = vms[v].runtime
    BY <1>1, <1>2 DEF VmEntry
  <1> HIDE DEF e1, e2
  <1>4. vms'[v] = e /\ \A w \in VMs : w # v => SameEntry(w)
    BY <1>1, <1>2 DEF SameEntry
  <1>5. Idle /\ UNCHANGED <<procs, data, saved>>
    BY DEF SnapshotBegin
  <1>6. /\ Unread' /\ Entries' /\ Qemus'
        /\ NewTag(vms[v])'
        /\ \A d \in Disks : vms'[v].active[d] < vms'[v].seq
        /\ \A p \in Pids : Live(p)' /\ procs[p].vm = v =>
                \A d \in Disks : procs'[p].node[d] < vms'[v].seq
    BY <1>3, <1>4, <1>5, QuietUnchanged, NewTagStep
  <1>7. CASE UNCHANGED op
    BY <1>5, <1>6, <1>7, NotOperating, IdleNotOperating
       DEF Idle, DInv, Unread, Entries, Qemus, Operating
  <1>8. CASE /\ vms[v].runtime # NoPid
             /\ op' = [NoOp EXCEPT !.pc = "snap_status", !.vm = v, !.prior = vms[v].state]
    <2>1. op'.pc = "snap_status" /\ op'.vm = v /\ op'.i = 0
      BY <1>8 DEF NoOp
    <2>2. SnapshotOK'
      BY <1>6, <2>1 DEF SnapshotOK
    <2>3. PICK P \in Pids : P = vms[v].runtime /\ vms'[v].runtime = P
      BY <1>2, <1>3, <1>4, <1>8 DEF VmEntry
    <2>4. ASSUME Live(Runtime)'
          PROVE  HaltedOK'
      <3>1. Live(P)' /\ Live(P)
        BY <1>5, <2>1, <2>3, <2>4 DEF Live, Runtime
      <3>2. procs[P].vm = v
        BY <2>3, <3>1, LiveOf DEF DInv
      <3>3. \A d \in Disks : procs'[P].node[d] < vms'[v].seq
        BY <1>6, <3>1, <3>2
      <3>4. \A d \in Disks : ~ (d < 0)
        BY ConstantsAssumption DEF Disks
      <3>5. vms'[op'.vm].runtime = P
        BY <2>1, <2>3
      <3> QED
        BY <2>1, <3>3, <3>4, <3>5 DEF HaltedOK
    <2>5. Operating'
      BY <2>1, <2>2, <2>4 DEF Operating, SnapshotPCs, RestorePCs
    <2> QED
      BY <1>6, <2>5 DEF DInv, Unread, Entries, Qemus, Operating
  <1> QED
    BY <1>7, <1>8 DEF SnapshotBegin

LEMMA DRestoreBegin ==
    ASSUME DInv, IInv', NEW v \in VMs, NEW n \in Tags, RestoreBegin(v, n)
    PROVE  DInv'
  <1>1. \A p \in Pids : /\ procs'[p].unread = << >>
                        /\ Live(p)' => Live(p) /\ SameQemu(p)
    BY QuietQuit, ZenonT(60) DEF RestoreBegin, Quit
  <1>2. vms \in [VMs -> VmEntry] /\ vms[v] \in VmEntry
    BY DEF DInv, IInv, TypeOK
  <1>3. Idle /\ UNCHANGED <<data, saved>> /\ n \in vms[v].snapshots
    BY DEF RestoreBegin
  <1>4. CASE vms' = [vms EXCEPT ![v].runtime = NoPid] /\ UNCHANGED op
    <2>1. \A w \in VMs : SameEntry(w)
      BY <1>4, QuietEntry DEF DInv
    <2>2. Unread' /\ Entries' /\ Qemus'
      BY <1>1, <1>3, <2>1, QuietNoneWaiting DEF Idle
    <2>3. Operating'
      BY <1>3, <1>4, NotOperating, IdleNotOperating DEF Idle
    <2> QED
      BY <2>2, <2>3 DEF DInv, Unread, Entries, Qemus, Operating
  <1>5. CASE /\ vms' = [vms EXCEPT ![v] = [@ EXCEPT !.runtime = NoPid, !.seq = vms[v].seq + 1]]
             /\ op' = [NoOp EXCEPT !.pc = "rest_overlay", !.vm = v, !.snap = n]
    <2> DEFINE e == [vms[v] EXCEPT !.runtime = NoPid, !.seq = vms[v].seq + 1]
    <2>1. /\ e.seq = vms[v].seq + 1 /\ e.active = vms[v].active
          /\ e.snapshots = vms[v].snapshots /\ e.bases = vms[v].bases
      BY <1>2 DEF VmEntry
    <2> HIDE DEF e
    <2>2. vms'[v] = e /\ \A w \in VMs : w # v => SameEntry(w)
      BY <1>2, <1>5 DEF SameEntry, e
    <2>3. Unread' /\ Entries' /\ Qemus' /\ NewTag(vms[v])'
      BY <1>1, <1>3, <2>1, <2>2, NewTagStep
    <2>4. op'.pc = "rest_overlay" /\ op'.vm = v /\ op'.i = 0 /\ op'.snap = n
      BY <1>5 DEF NoOp
    <2>5. \A d \in Disks : ~ (d < 0)
      BY ConstantsAssumption DEF Disks
    <2>6. RestoreOK'
      BY <1>3, <2>1, <2>2, <2>3, <2>4, <2>5 DEF RestoreOK
    <2>7. Operating'
      BY <2>4, <2>6 DEF Operating, SnapshotPCs, RestorePCs
    <2> QED
      BY <2>3, <2>7 DEF DInv, Unread, Entries, Qemus, Operating
  <1> QED
    BY <1>4, <1>5 DEF RestoreBegin

-----------------------------------------------------------------------------
(***************************************************************************)
(* snapshot.                                                               *)
(***************************************************************************)
LEMMA SnapshotFacts ==
    ASSUME DInv, op.pc \in SnapshotPCs
    PROVE  /\ op.vm \in VMs /\ vms[op.vm].seq \in Tags
           /\ Runtime \in Pids /\ procs[Runtime] \in QemuProc
           /\ procs[Runtime].unread = << >>
           /\ Live(Runtime) => procs[Runtime].vm = op.vm
           /\ SnapshotOK /\ (Live(Runtime) => HaltedOK)
           /\ op.pc \notin {"rest_incoming", "rest_wait"} /\ op.pc \notin RestorePCs
  <1>1. op.vm \in VMs /\ vms[op.vm].seq \in Tags /\ Runtime # NoPid
    BY DEF DInv, IInv, OpShape, SnapshotPCs, Runtime
  <1>2. Runtime \in Pids
    BY <1>1 DEF DInv, IInv, TypeOK, VmEntry, Runtime
  <1>3. procs[Runtime] \in QemuProc /\ procs[Runtime].unread = << >>
    BY <1>2 DEF DInv, IInv, TypeOK
  <1>4. Live(Runtime) => procs[Runtime].vm = op.vm
    BY <1>1, <1>2, LiveOf DEF DInv, Runtime
  <1>5. SnapshotOK /\ (Live(Runtime) => HaltedOK)
    BY DEF DInv
  <1>6. op.pc \notin {"rest_incoming", "rest_wait"} /\ op.pc \notin RestorePCs
    BY DEF SnapshotPCs, RestorePCs
  <1> QED
    BY <1>1, <1>2, <1>3, <1>4, <1>5, <1>6

(* snapshot returns an error. *)
LEMMA DSnapshotFails ==
    ASSUME DInv, IInv', op.pc \in SnapshotPCs, SnapshotFails, UNCHANGED <<data, saved>>,
           \A p \in Pids : /\ procs'[p].unread = << >>
                           /\ Live(p)' => Live(p) /\ SameQemu(p)
    PROVE  DInv'
  <1>1. \A w \in VMs : SameEntry(w)
    BY SnapshotFacts, QuietEntry DEF DInv, SnapshotFails
  <1>2. Unread' /\ Entries' /\ Qemus'
    BY <1>1, SnapshotFacts, QuietNoneWaiting
  <1>3. Operating'
    BY NotOperating, IdleNotOperating DEF SnapshotFails
  <1> QED
    BY <1>2, <1>3 DEF DInv, Unread, Entries, Qemus, Operating

(* A step that leaves the entries and the files alone. *)
LEMMA SnapshotQuiet ==
    ASSUME DInv, op.pc \in SnapshotPCs, UNCHANGED <<vms, data, saved>>,
           op'.pc \in SnapshotPCs, op'.vm = op.vm, op'.i = op.i,
           NEW P, P = Runtime, Live(P)' => Live(P) /\ SameQemu(P),
           NEW v, v = op.vm,
           op'.pc \in {"snap_migrate", "snap_wait", "snap_cont", "snap_hash"} => op.i = NDisks,
           op'.pc \in {"snap_cont", "snap_hash"} =>
             \A d \in Disks : saved[v][vms[v].seq][d] = data[v][d][vms[v].active[d]],
           Live(P)' /\ op'.pc \in {"snap_overlay", "snap_migrate", "snap_wait"} =>
             /\ procs'[P].run # "running"
             /\ \A d \in Disks : d < op.i =>
                  data[v][d][vms[v].seq] = data[v][d][vms[v].active[d]],
           Live(P)' /\ op'.pc = "snap_wait" =>
             /\ procs'[P].mig = "active" => procs'[P].migTag = vms[v].seq
             /\ procs'[P].mig = "completed" =>
                  \A d \in Disks : saved[v][vms[v].seq][d] = data[v][d][vms[v].active[d]],
           Live(P)' /\ op'.pc \in {"snap_cont", "snap_hash"} => procs'[P].mig # "active"
    PROVE  Operating'
  <1>1. SnapshotOK'
    BY SnapshotFacts DEF SnapshotOK, NewTag
  <1>2. Live(Runtime)' => Live(P)'
    BY DEF Live, Runtime
  <1>3. ASSUME Live(P)'
        PROVE  HaltedOK'
    <2>1. procs'[P].node = procs[P].node /\ procs'[P].top = procs[P].top /\ HaltedOK
      BY <1>3, SnapshotFacts DEF SameQemu
    <2>2. \A d \in Disks : /\ procs'[P].node[d] < vms[v].seq
                           /\ d < op.i => procs'[P].top[d] = vms[v].seq
      BY <2>1 DEF HaltedOK, Runtime
    <2>3. vms'[op'.vm].runtime = P
      BY DEF Runtime
    <2> QED
      BY <1>3, <2>2, <2>3 DEF HaltedOK
  <1>4. op'.pc \notin RestorePCs /\ op'.pc # "rest_incoming"
    BY DEF SnapshotPCs, RestorePCs
  <1> QED
    BY <1>1, <1>2, <1>3, <1>4 DEF Operating

LEMMA DSnapshotStatus ==
    ASSUME Prompt, DInv, IInv', SnapshotStatus
    PROVE  DInv'
  <1>1. PICK P \in Pids : P = Runtime
    BY SnapshotFacts DEF SnapshotStatus, SnapshotPCs
  <1> DEFINE q == procs[P]
  <1>2. PICK x \in Execute(q, q, q.run) :
         /\ procs' = [procs EXCEPT ![P] = x.q]
         /\ \/ x.got = "err" /\ SnapshotFails
            \/ /\ x.got = "running"
               /\ op' = [op EXCEPT !.pc = "snap_pause", !.wasRunning = TRUE]
               /\ UNCHANGED vms
            \/ x.got \notin {"err", "running"} /\ SnapshotGoesOn("snap_overlay")
    BY <1>1, Zenon DEF SnapshotStatus
  <1>3. op.pc = "snap_status" /\ op.pc \in SnapshotPCs /\ UNCHANGED <<data, saved>>
    BY DEF SnapshotStatus, SnapshotPCs
  <1>4. q \in QemuProc /\ q.unread = << >>
    BY <1>1, <1>3, SnapshotFacts
  <1>5. \A p \in Pids : /\ procs'[p].unread = << >>
                        /\ Live(p)' => Live(p) /\ SameQemu(p)
    BY <1>2, <1>4, CommandsAlike, QuietCommand
  <1>6. CASE SnapshotFails
    BY <1>3, <1>5, <1>6, DSnapshotFails
  <1>7. op \in Operation /\ op.i = 0
    BY <1>3 DEF DInv, IInv, TypeOK, OpShape
  <1>8. ASSUME x.got # "err", UNCHANGED vms, op'.vm = op.vm, op'.i = op.i,
               op'.pc \in {"snap_pause", "snap_overlay"},
               op'.pc = "snap_overlay" => x.got # "running"
        PROVE  DInv'
    <2>1. op'.pc \in SnapshotPCs
      BY <1>8 DEF SnapshotPCs
    <2>2. x.got = q.run /\ x.q = q
      BY <1>2, <1>4, <1>8, ExecuteNow
    <2>3. procs'[P] = q
      BY <1>2, <2>2 DEF DInv, IInv, TypeOK
    <2>4. \A d \in Disks : ~ (d < op.i)
      BY <1>7, <1>8, ConstantsAssumption DEF Disks
    <2>5. Operating'
      BY <1>1, <1>3, <1>5, <1>8, <2>1, <2>2, <2>3, <2>4, SnapshotQuiet
    <2>6. \A w \in VMs : SameEntry(w)
      BY <1>8 DEF SameEntry
    <2>7. Unread' /\ Entries' /\ Qemus'
      BY <1>3, <1>5, <2>6, QuietNoneWaiting
    <2> QED
      BY <2>5, <2>7 DEF DInv, Unread, Entries, Qemus, Operating
  <1>9. CASE /\ x.got = "running" /\ UNCHANGED vms
             /\ op' = [op EXCEPT !.pc = "snap_pause", !.wasRunning = TRUE]
    <2>1. x.got # "err" /\ op'.vm = op.vm /\ op'.i = op.i /\ op'.pc = "snap_pause"
      BY <1>7, <1>9 DEF Operation
    <2> QED
      BY <1>8, <1>9, <2>1
  <1>10. CASE x.got \notin {"err", "running"} /\ SnapshotGoesOn("snap_overlay")
    <2>1. op'.vm = op.vm /\ op'.i = op.i /\ op'.pc = "snap_overlay" /\ UNCHANGED vms
      BY <1>7, <1>10 DEF Operation, SnapshotGoesOn
    <2> QED
      BY <1>8, <1>10, <2>1
  <1> QED
    BY <1>2, <1>6, <1>9, <1>10, Zenon

LEMMA DSnapshotPause ==
    ASSUME Prompt, DInv, IInv', SnapshotPause
    PROVE  DInv'
  <1>1. op.pc = "snap_pause" /\ op.pc \in SnapshotPCs /\ UNCHANGED <<data, saved>>
    BY DEF SnapshotPause, SnapshotPCs
  <1>2. PICK P \in Pids : P = Runtime
    BY <1>1, SnapshotFacts
  <1> DEFINE q == procs[P]
  <1>3. PICK x \in Execute(q, Halt(q), "ok") :
         /\ procs' = [procs EXCEPT ![P] = x.q]
         /\ IF x.got = "err" THEN SnapshotFails ELSE SnapshotGoesOn("snap_overlay")
    BY <1>2, Zenon DEF SnapshotPause
  <1>4. q \in QemuProc /\ q.unread = << >> /\ Alike(q, Halt(q))
    BY <1>1, <1>2, SnapshotFacts, CommandsAlike
  <1>5. \A p \in Pids : /\ procs'[p].unread = << >>
                        /\ Live(p)' => Live(p) /\ SameQemu(p)
    BY <1>3, <1>4, QuietCommand
  <1>6. CASE x.got = "err"
    BY <1>1, <1>3, <1>5, <1>6, DSnapshotFails
  <1>7. CASE x.got # "err"
    <2>1. op \in Operation /\ op.i = 0
      BY <1>1 DEF DInv, IInv, TypeOK, OpShape
    <2>2. /\ op'.vm = op.vm /\ op'.i = op.i /\ op'.pc = "snap_overlay"
          /\ op'.pc \in SnapshotPCs /\ UNCHANGED vms
      BY <1>3, <1>7, <2>1 DEF Operation, SnapshotGoesOn, SnapshotPCs
    <2>3. x.q = Halt(q)
      BY <1>3, <1>4, <1>7, ExecuteNow DEF Alike
    <2>4. procs'[P] = Halt(q)
      BY <1>3, <2>3 DEF DInv, IInv, TypeOK
    <2>5. procs'[P].run # "running"
      BY <1>4, <2>4 DEF Halt, QemuProc
    <2>6. \A d \in Disks : ~ (d < op.i)
      BY <2>1, ConstantsAssumption DEF Disks
    <2>7. Operating'
      BY <1>1, <1>2, <1>5, <2>2, <2>5, <2>6, SnapshotQuiet
    <2>8. \A w \in VMs : SameEntry(w)
      BY <2>2 DEF SameEntry
    <2>9. Unread' /\ Entries' /\ Qemus'
      BY <1>1, <1>5, <2>8, QuietNoneWaiting
    <2> QED
      BY <2>7, <2>9 DEF DInv, Unread, Entries, Qemus, Operating
  <1> QED
    BY <1>6, <1>7

(* What a snapshot knows while it waits for the migration. *)
LEMMA WaitFacts ==
    ASSUME DInv, op.pc = "snap_wait", NEW P, P = Runtime, NEW v, v = op.vm
    PROVE  /\ op.i = NDisks
           /\ Live(P) =>
                /\ procs[P].run # "running"
                /\ \A d \in Disks : d < op.i =>
                     data[v][d][vms[v].seq] = data[v][d][vms[v].active[d]]
                /\ procs[P].mig = "active" => procs[P].migTag = vms[v].seq
                /\ procs[P].mig = "completed" =>
                     \A d \in Disks : saved[v][vms[v].seq][d] = data[v][d][vms[v].active[d]]
  <1>1. SnapshotOK /\ (Live(P) => HaltedOK)
    BY SnapshotFacts DEF SnapshotPCs
  <1>2. op.i = NDisks
    BY <1>1 DEF SnapshotOK
  <1>3. ASSUME HaltedOK
        PROVE  /\ procs[P].run # "running"
               /\ \A d \in Disks : d < op.i =>
                     data[v][d][vms[v].seq] = data[v][d][vms[v].active[d]]
               /\ procs[P].mig = "active" => procs[P].migTag = vms[v].seq
               /\ procs[P].mig = "completed" =>
                     \A d \in Disks : saved[v][vms[v].seq][d] = data[v][d][vms[v].active[d]]
    BY <1>3 DEF HaltedOK, Runtime
  <1> QED
    BY <1>1, <1>2, <1>3

LEMMA DSnapshotWait ==
    ASSUME Prompt, DInv, IInv', SnapshotWait
    PROVE  DInv'
  <1>1. op.pc = "snap_wait" /\ op.pc \in SnapshotPCs /\ UNCHANGED <<data, saved>>
    BY DEF SnapshotWait, SnapshotPCs
  <1>2. PICK P \in Pids : P = Runtime
    BY <1>1, SnapshotFacts
  <1> DEFINE q == procs[P]
  <1>3. PICK x \in Execute(q, q, q.mig), next \in {"snap_cont", "snap_hash"} :
         /\ procs' = [procs EXCEPT ![P] = x.q]
         /\ \/ x.got = "completed" /\ SnapshotGoesOn(next)
            \/ SnapshotFails
    BY <1>2 DEF SnapshotWait
  <1>4. q \in QemuProc /\ q.unread = << >> /\ Alike(q, q)
    BY <1>1, <1>2, SnapshotFacts, CommandsAlike
  <1>5. \A p \in Pids : /\ procs'[p].unread = << >>
                        /\ Live(p)' => Live(p) /\ SameQemu(p)
    BY <1>3, <1>4, QuietCommand
  <1>6. CASE SnapshotFails
    BY <1>1, <1>5, <1>6, DSnapshotFails
  <1>7. CASE x.got = "completed" /\ SnapshotGoesOn(next)
    <2>1. op \in Operation
      BY DEF DInv, IInv, TypeOK
    <2>2. /\ op'.vm = op.vm /\ op'.i = op.i /\ op'.pc = next
          /\ op'.pc \in SnapshotPCs /\ UNCHANGED vms
      BY <1>3, <1>7, <2>1 DEF Operation, SnapshotGoesOn, SnapshotPCs
    <2>3. x.q = q /\ q.mig = "completed" /\ Live(P)
      BY <1>3, <1>4, <1>7, ExecuteNow DEF Live
    <2>4. procs'[P] = q
      BY <1>3, <2>3 DEF DInv, IInv, TypeOK
    <2>5. Operating'
      <3>1. PICK v : v = op.vm
        OBVIOUS
      <3>2. /\ op.i = NDisks
            /\ \A d \in Disks : saved[v][vms[v].seq][d] = data[v][d][vms[v].active[d]]
        BY <1>1, <1>2, <2>3, <3>1, WaitFacts
      <3> QED
        BY <1>1, <1>2, <1>3, <1>5, <2>2, <2>3, <2>4, <3>1, <3>2, SnapshotQuiet
    <2>6. \A w \in VMs : SameEntry(w)
      BY <2>2 DEF SameEntry
    <2>7. Unread' /\ Entries' /\ Qemus'
      BY <1>1, <1>5, <2>6, QuietNoneWaiting
    <2> QED
      BY <2>5, <2>7 DEF DInv, Unread, Entries, Qemus, Operating
  <1> QED
    BY <1>3, <1>6, <1>7

LEMMA DSnapshotCont ==
    ASSUME Prompt, DInv, IInv', SnapshotCont
    PROVE  DInv'
  <1>1. op.pc = "snap_cont" /\ op.pc \in SnapshotPCs /\ UNCHANGED <<data, saved>>
    BY DEF SnapshotCont, SnapshotPCs
  <1>2. PICK P \in Pids : P = Runtime
    BY <1>1, SnapshotFacts
  <1> DEFINE q == procs[P]
  <1>3. PICK x \in Execute(q, Cont(q), "ok") :
         /\ procs' = [procs EXCEPT ![P] = x.q]
         /\ IF x.got = "err" THEN SnapshotFails ELSE SnapshotGoesOn("snap_hash")
    BY <1>2, Zenon DEF SnapshotCont
  <1>4. q \in QemuProc /\ q.unread = << >> /\ Alike(q, Cont(q))
    BY <1>1, <1>2, SnapshotFacts, CommandsAlike
  <1>5. \A p \in Pids : /\ procs'[p].unread = << >>
                        /\ Live(p)' => Live(p) /\ SameQemu(p)
    BY <1>3, <1>4, QuietCommand
  <1>6. CASE x.got = "err"
    BY <1>1, <1>3, <1>5, <1>6, DSnapshotFails
  <1>7. CASE x.got # "err"
    <2>1. op \in Operation
      BY DEF DInv, IInv, TypeOK
    <2>2. /\ op'.vm = op.vm /\ op'.i = op.i /\ op'.pc = "snap_hash"
          /\ op'.pc \in SnapshotPCs /\ UNCHANGED vms
      BY <1>3, <1>7, <2>1 DEF Operation, SnapshotGoesOn, SnapshotPCs
    <2>3. PICK v : v = op.vm
      OBVIOUS
    <2>4. /\ op.i = NDisks
          /\ \A d \in Disks : saved[v][vms[v].seq][d] = data[v][d][vms[v].active[d]]
      BY <1>1, <2>3, SnapshotFacts DEF SnapshotOK
    <2>5. Live(P)' => procs'[P].mig # "active"
      <3>1. ASSUME Live(P)
            PROVE  procs[P].mig # "active"
        BY <1>1, <1>2, <3>1, SnapshotFacts DEF HaltedOK, Runtime
      <3> QED
        BY <1>5, <3>1 DEF SameQemu
    <2>6. Operating'
      BY <1>1, <1>2, <1>5, <2>2, <2>3, <2>4, <2>5, SnapshotQuiet
    <2>7. \A w \in VMs : SameEntry(w)
      BY <2>2 DEF SameEntry
    <2>8. Unread' /\ Entries' /\ Qemus'
      BY <1>1, <1>5, <2>7, QuietNoneWaiting
    <2> QED
      BY <2>6, <2>8 DEF DInv, Unread, Entries, Qemus, Operating
  <1> QED
    BY <1>6, <1>7

-----------------------------------------------------------------------------
(***************************************************************************)
(* What happens to a QEMU between two steps of the backend, if it writes   *)
(* no file: the operation in progress still knows what it knew.            *)
(***************************************************************************)
LEMMA StillOperating ==
    ASSUME DInv, UNCHANGED <<vms, op, data, saved>>,
           \A p \in Pids : Live(p)' =>
                /\ Live(p) /\ SameQemu(p)
                /\ procs'[p].run = "running" => procs[p].run = "running"
                /\ procs'[p].mig = "completed" => procs[p].mig = "completed"
    PROVE  Operating'
  <1>1. CASE op.pc \in SnapshotPCs
    <2>1. PICK P \in Pids : P = Runtime
      BY <1>1, SnapshotFacts
    <2>2. PICK v : v = op.vm
      OBVIOUS
    <2>3. SnapshotOK /\ (Live(P) => HaltedOK)
      BY <1>1, <2>1, SnapshotFacts
    <2>4. /\ op.pc \in {"snap_migrate", "snap_wait", "snap_cont", "snap_hash"} => op.i = NDisks
          /\ op.pc \in {"snap_cont", "snap_hash"} =>
             \A d \in Disks : saved[v][vms[v].seq][d] = data[v][d][vms[v].active[d]]
      BY <2>2, <2>3 DEF SnapshotOK
    <2>5. ASSUME Live(P)'
          PROVE  /\ op.pc \in {"snap_overlay", "snap_migrate", "snap_wait"} =>
                      /\ procs'[P].run # "running"
                      /\ \A d \in Disks : d < op.i =>
                           data[v][d][vms[v].seq] = data[v][d][vms[v].active[d]]
                 /\ op.pc = "snap_wait" =>
                      /\ procs'[P].mig = "active" => procs'[P].migTag = vms[v].seq
                      /\ procs'[P].mig = "completed" =>
                           \A d \in Disks :
                             saved[v][vms[v].seq][d] = data[v][d][vms[v].active[d]]
                 /\ op.pc \in {"snap_cont", "snap_hash"} => procs'[P].mig # "active"
      <3>1. /\ HaltedOK
            /\ procs'[P].run = "running" => procs[P].run = "running"
            /\ procs'[P].mig = "completed" => procs[P].mig = "completed"
            /\ procs'[P].mig = "active" => procs[P].mig = "active"
            /\ procs'[P].migTag = procs[P].migTag
        BY <2>3, <2>5 DEF SameQemu
      <3>2. vms[op.vm].runtime = P
        BY <2>1 DEF Runtime
      <3> QED
        BY <2>2, <3>1, <3>2 DEF HaltedOK
    <2>6. Live(P)' => Live(P) /\ SameQemu(P)
      OBVIOUS
    <2>7. op'.pc \in SnapshotPCs /\ op'.vm = op.vm /\ op'.i = op.i /\ op'.pc = op.pc
      BY <1>1
    <2> QED
      BY <1>1, <2>1, <2>2, <2>4, <2>5, <2>6, <2>7, SnapshotQuiet
  <1>2. CASE op.pc \in RestorePCs
    <2>1. RestoreOK
      BY <1>2 DEF DInv
    <2>2. RestoreOK'
      BY <2>1 DEF RestoreOK, NewTag
    <2>3. op.pc = "rest_incoming" => IncomingOK'
      <3>1. op.pc = "rest_incoming" => IncomingOK /\ op.qemu \in Pids
        BY DEF DInv, IInv, TypeOK, OpShape, Operation
      <3> QED
        BY <3>1 DEF IncomingOK, SameQemu
    <2> QED
      BY <1>2, <2>2, <2>3 DEF Operating, SnapshotPCs, RestorePCs
  <1>3. CASE op.pc \notin SnapshotPCs \cup RestorePCs
    BY <1>3, NotOperating
  <1> QED
    BY <1>1, <1>2, <1>3

LEMMA DOutside ==
    ASSUME DInv, IInv', UNCHANGED <<vms, op, data, saved>>,
           \A p \in Pids : /\ procs'[p].unread = << >>
                           /\ Live(p)' =>
                                /\ Live(p) /\ SameQemu(p)
                                /\ procs'[p].run = "running" => procs[p].run = "running"
                                /\ procs'[p].mig = "completed" => procs[p].mig = "completed"
    PROVE  DInv'
  <1>1. \A w \in VMs : SameEntry(w)
    BY DEF SameEntry
  <1>2. \A p \in Pids : Live(p)' => SameRestore(p)
    BY Waiting DEF SameRestore, SameQemu
  <1>3. Unread' /\ Entries' /\ Qemus'
    BY <1>1, <1>2, QuietStep
  <1>4. Operating'
    BY StillOperating
  <1> QED
    BY <1>3, <1>4 DEF DInv, Unread, Entries, Qemus, Operating

LEMMA DSnapshotPoll ==
    ASSUME Prompt, DInv, IInv', SnapshotPoll
    PROVE  DInv'
  <1>1. op.pc \in SnapshotPCs /\ UNCHANGED <<vms, op, data, saved>>
    BY DEF SnapshotPoll, SnapshotPCs
  <1>2. PICK P \in Pids : P = Runtime
    BY <1>1, SnapshotFacts
  <1> DEFINE q == procs[P]
  <1>3. PICK x \in Execute(q, q, q.mig) : procs' = [procs EXCEPT ![P] = x.q]
    BY <1>2 DEF SnapshotPoll
  <1>4. q \in QemuProc /\ q.unread = << >>
    BY <1>1, <1>2, SnapshotFacts
  <1>5. x.q = q
    BY <1>3, <1>4, ExecuteNow
  <1>6. \A p \in Pids : procs'[p] = procs[p]
    BY <1>3, <1>5 DEF DInv, IInv, TypeOK
  <1>7. \A p \in Pids : /\ procs'[p].unread = << >>
                        /\ Live(p)' => Live(p) /\ SameQemu(p)
    BY <1>6 DEF DInv, SameQemu, Live
  <1> QED
    BY <1>1, <1>6, <1>7, DOutside

LEMMA DIoError ==
    ASSUME DInv, IInv', NEW p \in Pids, IoError(p)
    PROVE  DInv'
  <1> DEFINE q == [procs[p] EXCEPT !.run = "io-error"]
  <1>1. procs \in [Pids -> QemuProc] /\ \A r \in Pids : procs[r].unread = << >>
    BY DEF DInv, IInv, TypeOK
  <1>2. /\ q.run = "io-error" /\ q.vm = procs[p].vm /\ q.node = procs[p].node
        /\ q.top = procs[p].top /\ q.view = procs[p].view /\ q.mig = procs[p].mig
        /\ q.migTag = procs[p].migTag /\ q.unread = procs[p].unread
    BY <1>1 DEF QemuProc
  <1> HIDE DEF q
  <1>3. procs'[p] = q /\ \A r \in Pids : r # p => procs'[r] = procs[r]
    BY <1>1 DEF IoError, q
  <1>4. procs[p].run = "running" /\ UNCHANGED <<vms, op, data, saved>>
    BY DEF IoError
  <1>5. \A r \in Pids : /\ procs'[r].unread = << >>
                        /\ Live(r)' =>
                             /\ Live(r) /\ SameQemu(r)
                             /\ procs'[r].run = "running" => procs[r].run = "running"
                             /\ procs'[r].mig = "completed" => procs[r].mig = "completed"
    BY <1>1, <1>2, <1>3, <1>4 DEF Live, SameQemu
  <1> QED
    BY <1>4, <1>5, DOutside

LEMMA DQemuExit ==
    ASSUME DInv, IInv', NEW p \in Pids, QemuExit(p)
    PROVE  DInv'
  <1>1. procs \in [Pids -> QemuProc] /\ \A r \in Pids : procs[r].unread = << >>
    BY DEF DInv, IInv, TypeOK
  <1>2. procs'[p] = NoProc /\ \A r \in Pids : r # p => procs'[r] = procs[r]
    BY <1>1 DEF QemuExit
  <1>3. NoProc.run = "exited" /\ NoProc.unread = << >> /\ UNCHANGED <<vms, op, data, saved>>
    BY DEF QemuExit, NoProc
  <1>4. \A r \in Pids : /\ procs'[r].unread = << >>
                        /\ Live(r)' => r # p
    BY <1>1, <1>2, <1>3 DEF Live
  <1>5. \A r \in Pids : r # p /\ Live(r)' => Live(r) /\ SameQemu(r)
    BY <1>2 DEF Live, SameQemu
  <1> QED
    BY <1>2, <1>3, <1>4, <1>5, DOutside

LEMMA DMigrationFails ==
    ASSUME DInv, IInv', NEW p \in Pids, MigrationFails(p)
    PROVE  DInv'
  <1> DEFINE q == [procs[p] EXCEPT !.mig = "failed"]
  <1>1. procs \in [Pids -> QemuProc] /\ \A r \in Pids : procs[r].unread = << >>
    BY DEF DInv, IInv, TypeOK
  <1>2. /\ q.run = procs[p].run /\ q.vm = procs[p].vm /\ q.node = procs[p].node
        /\ q.top = procs[p].top /\ q.view = procs[p].view /\ q.mig = "failed"
        /\ q.migTag = procs[p].migTag /\ q.unread = procs[p].unread
    BY <1>1 DEF QemuProc
  <1> HIDE DEF q
  <1>3. procs'[p] = q /\ \A r \in Pids : r # p => procs'[r] = procs[r]
    BY <1>1 DEF MigrationFails, q
  <1>4. UNCHANGED <<vms, op, data, saved>>
    BY DEF MigrationFails
  <1>5. \A r \in Pids : /\ procs'[r].unread = << >>
                        /\ Live(r)' =>
                             /\ Live(r) /\ SameQemu(r)
                             /\ procs'[r].run = "running" => procs[r].run = "running"
                             /\ procs'[r].mig = "completed" => procs[r].mig = "completed"
    BY <1>1, <1>2, <1>3 DEF Live, SameQemu
  <1> QED
    BY <1>4, <1>5, DOutside

(***************************************************************************)
(* The RAM state of a restore is loaded.                                   *)
(***************************************************************************)
LEMMA DLoadCompletes ==
    ASSUME DInv, IInv', NEW p \in Pids, LoadCompletes(p)
    PROVE  DInv'
  <1> DEFINE v == procs[p].vm
             w == saved[v][procs[p].migTag]
             q == [procs[p] EXCEPT !.mig = "none", !.run = "paused", !.view = w]
  <1>1. procs \in [Pids -> QemuProc] /\ \A r \in Pids : procs[r].unread = << >>
    BY DEF DInv, IInv, TypeOK
  <1>2. /\ q.run = "paused" /\ q.vm = v /\ q.node = procs[p].node
        /\ q.top = procs[p].top /\ q.view = w /\ q.mig = "none"
        /\ q.unread = procs[p].unread
    BY <1>1 DEF QemuProc
  <1> HIDE DEF q
  <1>3. procs'[p] = q /\ \A r \in Pids : r # p => procs'[r] = procs[r]
    BY <1>1 DEF LoadCompletes, q
  <1>4. /\ procs[p].mig = "active" /\ procs[p].run = "inmigrate"
        /\ UNCHANGED <<vms, op, data, saved>>
    BY DEF LoadCompletes
  <1>5. Live(p) /\ ProcOK(p)
    BY <1>4 DEF DInv, Live
  <1>6. /\ op.qemu = p /\ op.pc \in {"rest_incoming", "rest_wait"}
        /\ procs[p].migTag = op.snap
        /\ \A d \in Disks : data[v][d][procs[p].top[d]] = saved[v][op.snap][d]
    BY <1>4, <1>5 DEF ProcOK
  <1>7. ProcOK(p)'
    <2>1. \A d \in Disks :
             /\ procs'[p].node[d] <= vms'[v].seq /\ procs'[p].top[d] <= vms'[v].seq
             /\ procs'[p].top[d] = procs'[p].node[d] => procs'[p].node[d] = vms'[v].active[d]
             /\ \A n \in vms'[v].snapshots : procs'[p].top[d] # vms'[v].bases[n][d]
      <3>1. Placed(procs[p], vms[v])
        BY <1>5, PlacedOf
      <3>2. Placed(procs'[p], vms'[v])
        BY <1>2, <1>3, <1>4, <3>1, PlacedSame
      <3> QED
        BY <3>2 DEF Placed
    <2>2. /\ procs'[p].mig # "active" /\ procs'[p].run # "inmigrate" /\ procs'[p].vm = v
          /\ \A d \in Disks : procs'[p].view[d] = data'[v][d][procs'[p].top[d]]
      <3>1. procs'[p].view = saved[v][op.snap] /\ procs'[p].top = procs[p].top
        BY <1>2, <1>3, <1>6
      <3> QED
        BY <1>2, <1>3, <1>4, <1>6, <3>1
    <2> QED
      BY <2>1, <2>2, ProcNow
  <1>8. ASSUME NEW r \in Pids, r # p, Live(r)'
        PROVE  ProcOK(r)'
    <2>1. Live(r) /\ SameQemu(r) /\ ProcOK(r)
      BY <1>3, <1>8 DEF Live, SameQemu, DInv
    <2>2. SameRestore(r) /\ SameEntry(procs[r].vm) /\ SameFiles(procs[r].vm)
      BY <1>3, <1>4, <1>8, Waiting DEF SameRestore, SameEntry, SameFiles
    <2> QED
      BY <2>1, <2>2, ProcStill
  <1>9. Unread' /\ Qemus'
    BY <1>1, <1>2, <1>3, <1>7, <1>8 DEF Unread, Qemus
  <1>10. Entries'
    <2>1. \A u \in VMs : SameEntry(u) /\ SameFiles(u)
      BY <1>4 DEF SameEntry, SameFiles
    <2> QED
      BY <2>1, EntryStill DEF Entries, DInv
  <1>11. Operating'
    <2>1. op.pc \in RestorePCs /\ RestoreOK
      BY <1>6 DEF DInv, RestorePCs
    <2>2. RestoreOK'
      BY <1>4, <2>1 DEF RestoreOK, NewTag
    <2>3. op.pc # "rest_incoming"
      BY <1>4, <1>5, <1>6 DEF DInv, IncomingOK
    <2> QED
      BY <1>4, <1>6, <2>2, <2>3 DEF Operating, SnapshotPCs, RestorePCs
  <1> QED
    BY <1>9, <1>10, <1>11 DEF DInv, Unread, Entries, Qemus, Operating

(***************************************************************************)
(* One layer written, and one RAM state written.                           *)
(***************************************************************************)
LEMMA LayerWritten ==
    ASSUME TypeOK, NEW v \in VMs, NEW d \in Disks, NEW n \in Layers, NEW w,
           data' = [data EXCEPT ![v][d][n] = w]
    PROVE  /\ data'[v][d][n] = w
           /\ \A k \in Layers : k # n => data'[v][d][k] = data[v][d][k]
           /\ \A c \in Disks : c # d => data'[v][c] = data[v][c]
           /\ \A u \in VMs : u # v => data'[u] = data[u]
  <1>1. data \in [VMs -> [Disks -> [Layers -> Value]]]
    BY DEF TypeOK
  <1>2. data[v] \in [Disks -> [Layers -> Value]] /\ data[v][d] \in [Layers -> Value]
    BY <1>1
  <1> QED
    BY <1>1, <1>2

LEMMA StateWritten ==
    ASSUME TypeOK, NEW v \in VMs, NEW n \in Layers, NEW w,
           saved' = [saved EXCEPT ![v][n] = w]
    PROVE  /\ saved'[v][n] = w
           /\ \A k \in Layers : k # n => saved'[v][k] = saved[v][k]
           /\ \A u \in VMs : u # v => saved'[u] = saved[u]
  <1>1. saved \in [VMs -> [Layers -> View]] /\ saved[v] \in [Layers -> View]
    BY DEF TypeOK
  <1> QED
    BY <1>1

(***************************************************************************)
(* A step of one live QEMU that writes files of its VM only.               *)
(***************************************************************************)
LEMMA OthersStill ==
    ASSUME DInv, UNCHANGED <<vms, op>>, NEW p \in Pids, Live(p), NEW v, v = procs[p].vm,
           procs'[p].unread = << >>,
           \A r \in Pids : r # p => procs'[r] = procs[r],
           \A u \in VMs : u # v => SameFiles(u),
           EntryOK(v)', ProcOK(p)'
    PROVE  Unread' /\ Entries' /\ Qemus'
  <1>1. Unread'
    BY DEF Unread, DInv
  <1>2. \A u \in VMs : SameEntry(u)
    BY DEF SameEntry
  <1>3. Entries'
    BY <1>2, EntryStill DEF Entries, DInv
  <1>4. ASSUME NEW r \in Pids, r # p, Live(r)'
        PROVE  ProcOK(r)'
    <2>1. Live(r) /\ SameQemu(r) /\ ProcOK(r)
      BY <1>4 DEF Live, SameQemu, DInv
    <2>2. procs[r].vm \in VMs /\ procs[r].vm # v
      BY <1>4, <2>1, LiveOf DEF DInv
    <2>3. SameRestore(r) /\ SameEntry(procs[r].vm) /\ SameFiles(procs[r].vm)
      BY <1>2, <1>4, <2>2, Waiting DEF SameRestore
    <2> QED
      BY <2>1, <2>3, ProcStill
  <1> QED
    BY <1>1, <1>3, <1>4 DEF Qemus

(* A snapshot in progress of the VM of a live QEMU is of that QEMU. *)
LEMMA SnapshotOfLive ==
    ASSUME DInv, op.pc \in SnapshotPCs, NEW p \in Pids, Live(p), procs[p].vm = op.vm
    PROVE  Runtime = p
  <1>1. op.qemu = NoPid
    BY DEF DInv, IInv, OpShape, SnapshotPCs
  <1> QED
    BY <1>1, ConstantsAssumption DEF DInv, IInv, Ownership, QemuOwned, Runtime

(* No QEMU runs on a VM while a restore makes its overlays. *)
LEMMA NoneWhileRestored ==
    ASSUME DInv, op.pc \in {"rest_overlay", "rest_spawn"}, NEW p \in Pids, Live(p)
    PROVE  procs[p].vm # op.vm
  <1>1. op.qemu = NoPid /\ op.vm \in VMs /\ vms[op.vm].runtime = NoPid
    BY DEF DInv, IInv, OpShape, RestorePCs
  <1> QED
    BY <1>1, LiveOf DEF DInv

(* The operation in progress is on another VM. *)
LEMMA OtherOperating ==
    ASSUME DInv, UNCHANGED <<vms, op>>, NEW p \in Pids, Live(p), procs[p].vm # op.vm,
           \A r \in Pids : r # p => procs'[r] = procs[r],
           op.vm \in VMs => SameFiles(op.vm)
    PROVE  Operating'
  <1>1. CASE op.pc \in SnapshotPCs
    <2>1. SnapshotOK /\ (Live(Runtime) => HaltedOK) /\ Runtime \in Pids /\ SameFiles(op.vm)
      BY <1>1, SnapshotFacts
    <2>2. Runtime # p
      BY <1>1, SnapshotFacts
    <2>3. PICK P \in Pids : P = Runtime /\ vms'[op'.vm].runtime = P /\ procs'[P] = procs[P]
      BY <2>1, <2>2 DEF Runtime
    <2>4. SnapshotOK'
      BY <2>1 DEF SnapshotOK, NewTag, SameFiles
    <2>5. ASSUME Live(Runtime)'
          PROVE  HaltedOK'
      <3>1. HaltedOK
        BY <2>1, <2>3, <2>5 DEF Live, Runtime
      <3>2. PICK v, e, q : v = op.vm /\ e = vms[v] /\ q = procs[e.runtime]
        OBVIOUS
      <3>3. /\ op'.vm = v /\ vms'[v] = e /\ e.runtime = P /\ procs'[P] = q
            /\ op'.pc = op.pc /\ op'.i = op.i /\ data'[v] = data[v] /\ saved'[v] = saved[v]
        BY <2>1, <2>3, <3>2 DEF Runtime, SameFiles
      <3>4. \A d \in Disks : q.node[d] < e.seq /\ (d < op.i => q.top[d] = e.seq)
        BY <3>1, <3>2 DEF HaltedOK
      <3>5. op.pc \in {"snap_overlay", "snap_migrate", "snap_wait"} =>
              /\ q.run # "running"
              /\ \A d \in Disks : d < op.i => data[v][d][e.seq] = data[v][d][e.active[d]]
        BY <3>1, <3>2 DEF HaltedOK
      <3>6. op.pc = "snap_wait" =>
              /\ q.mig = "active" => q.migTag = e.seq
              /\ q.mig = "completed" =>
                   \A d \in Disks : saved[v][e.seq][d] = data[v][d][e.active[d]]
        BY <3>1, <3>2 DEF HaltedOK
      <3>7. op.pc \in {"snap_cont", "snap_hash"} => q.mig # "active"
        BY <3>1, <3>2 DEF HaltedOK
      <3> QED
        BY <3>3, <3>4, <3>5, <3>6, <3>7 DEF HaltedOK
    <2> QED
      BY <1>1, <2>4, <2>5 DEF Operating, SnapshotPCs, RestorePCs
  <1>2. CASE op.pc \in RestorePCs
    <2>1. RestoreOK /\ op.vm \in VMs /\ op.pc # "idle"
      BY <1>2 DEF DInv, IInv, OpShape, RestorePCs
    <2>2. RestoreOK'
      BY <2>1 DEF RestoreOK, NewTag, SameFiles
    <2>3. op.pc = "rest_incoming" => IncomingOK'
      BY IncomingStill
    <2> QED
      BY <1>2, <2>2, <2>3 DEF Operating, SnapshotPCs, RestorePCs
  <1>3. CASE op.pc \notin SnapshotPCs \cup RestorePCs
    BY <1>3, NotOperating
  <1> QED
    BY <1>1, <1>2, <1>3

(***************************************************************************)
(* The guest writes: not into a frozen layer, and not while a snapshot has *)
(* it halted.                                                              *)
(***************************************************************************)
LEMMA DGuestWrite ==
    ASSUME DInv, IInv', NEW p \in Pids, NEW d \in Disks, GuestWrite(p, d)
    PROVE  DInv'
  <1>0. PICK v : v = procs[p].vm
    OBVIOUS
  <1> DEFINE t == procs[p].top[d]
             w == writes + 1
             q == [procs[p] EXCEPT !.view[d] = w]
  <1>1. procs \in [Pids -> QemuProc] /\ procs[p] \in QemuProc
        /\ \A r \in Pids : procs[r].unread = << >>
    BY DEF DInv, IInv, TypeOK
  <1>2. /\ procs[p].run = "running" /\ UNCHANGED <<vms, op, saved>>
        /\ data' = [data EXCEPT ![v][d][t] = w]
        /\ procs' = [procs EXCEPT ![p] = q]
    BY <1>0 DEF GuestWrite
  <1>3. Live(p) /\ v \in VMs /\ ProcOK(p) /\ EntryOK(v) /\ TypeOK
    BY <1>0, <1>2, LiveOf DEF DInv, Live, IInv
  <1>4. t \in Layers /\ \A c \in Disks : procs[p].top[c] \in Layers
    BY <1>3, ProcNumbers
  <1>5. /\ q.run = "running" /\ q.vm = v /\ q.node = procs[p].node
        /\ q.top = procs[p].top /\ q.mig = procs[p].mig
        /\ q.migTag = procs[p].migTag /\ q.unread = << >>
        /\ q.view[d] = w /\ \A c \in Disks : c # d => q.view[c] = procs[p].view[c]
    BY <1>0, <1>1, <1>2 DEF QemuProc, View
  <1> HIDE DEF q, w
  <1>6. procs'[p] = q /\ \A r \in Pids : r # p => procs'[r] = procs[r]
    BY <1>1, <1>2
  <1>7. /\ data'[v][d][t] = w
        /\ \A k \in Layers : k # t => data'[v][d][k] = data[v][d][k]
        /\ \A c \in Disks : c # d => data'[v][c] = data[v][c]
        /\ \A u \in VMs : u # v => data'[u] = data[u]
    BY <1>2, <1>3, <1>4, LayerWritten
  <1>8. \A n \in vms[v].snapshots : \A c \in Disks :
           /\ vms[v].bases[n][c] \in Layers
           /\ procs[p].top[c] # vms[v].bases[n][c]
           /\ data'[v][c][vms[v].bases[n][c]] = data[v][c][vms[v].bases[n][c]]
    <2>1. \A n \in vms[v].snapshots : \A c \in Disks : vms[v].bases[n][c] \in Layers
      BY <1>3, EntryNumbers
    <2>2. \A n \in vms[v].snapshots : \A c \in Disks : procs[p].top[c] # vms[v].bases[n][c]
      BY <1>0, <1>3 DEF ProcOK
    <2>3. ASSUME NEW n \in vms[v].snapshots, NEW c \in Disks
          PROVE  data'[v][c][vms[v].bases[n][c]] = data[v][c][vms[v].bases[n][c]]
      <3>1. CASE c = d
        <4>1. vms[v].bases[n][c] \in Layers /\ vms[v].bases[n][c] # t
          BY <2>1, <2>2, <3>1
        <4> QED
          BY <1>7, <3>1, <4>1
      <3>2. CASE c # d
        BY <1>7, <3>2
      <3> QED
        BY <3>1, <3>2
    <2> QED
      BY <2>1, <2>2, <2>3
  <1>9. EntryOK(v)'
    <2>1. SameEntry(v) /\ saved'[v] = saved[v]
      BY <1>2 DEF SameEntry
    <2> QED
      BY <1>3, <1>8, <2>1, EntryKept
  <1>10. ProcOK(p)'
    <2>1. \A c \in Disks :
             /\ procs'[p].node[c] <= vms'[v].seq /\ procs'[p].top[c] <= vms'[v].seq
             /\ procs'[p].top[c] = procs'[p].node[c] => procs'[p].node[c] = vms'[v].active[c]
             /\ \A n \in vms'[v].snapshots : procs'[p].top[c] # vms'[v].bases[n][c]
      <3>1. Placed(procs[p], vms[v])
        BY <1>0, <1>3, PlacedOf
      <3>2. Placed(procs'[p], vms'[v])
        BY <1>2, <1>5, <1>6, <3>1, PlacedSame
      <3> QED
        BY <3>2 DEF Placed
    <2>2. \A c \in Disks : procs'[p].view[c] = data'[v][c][procs'[p].top[c]]
      <3>1. \A c \in Disks : procs[p].view[c] = data[v][c][procs[p].top[c]]
        BY <1>0, <1>2, <1>3 DEF ProcOK
      <3> QED
        BY <1>5, <1>6, <1>7, <3>1
    <2>3. procs'[p].mig = "active" => procs'[p].migTag \notin vms'[v].snapshots
      BY <1>0, <1>2, <1>3, <1>5, <1>6 DEF ProcOK
    <2>4. procs'[p].run # "inmigrate" /\ procs'[p].vm = v
      BY <1>5, <1>6
    <2> QED
      BY <2>1, <2>2, <2>3, <2>4, ProcNow
  <1>11. \A u \in VMs : u # v => SameFiles(u)
    BY <1>2, <1>7 DEF SameFiles
  <1>12. Unread' /\ Entries' /\ Qemus'
    BY <1>0, <1>2, <1>3, <1>5, <1>6, <1>9, <1>10, <1>11, OthersStill
  <1>13. Operating'
    <2>1. CASE op.vm # v
      BY <1>0, <1>2, <1>3, <1>6, <1>11, <2>1, OtherOperating
    <2>2. CASE op.vm = v /\ op.pc \in SnapshotPCs
      <3>1. Runtime = p /\ SnapshotOK /\ HaltedOK
        BY <1>0, <1>3, <2>2, SnapshotOfLive, SnapshotFacts
      <3>2. op.pc \notin {"snap_overlay", "snap_migrate", "snap_wait"}
        BY <1>2, <3>1 DEF HaltedOK, Runtime
      <3>3. /\ \A c \in Disks : /\ procs[p].node[c] < vms[v].seq
                                /\ c < op.i => procs[p].top[c] = vms[v].seq
            /\ op.pc \in {"snap_cont", "snap_hash"} => procs[p].mig # "active"
        BY <2>2, <3>1 DEF HaltedOK, Runtime
      <3>4. HaltedOK'
        <4>1. vms'[op'.vm].runtime = p /\ op'.vm = v /\ op' = op /\ vms' = vms
          BY <1>2, <2>2, <3>1 DEF Runtime
        <4>2. /\ procs'[p].node = procs[p].node /\ procs'[p].top = procs[p].top
              /\ procs'[p].mig = procs[p].mig
          BY <1>5, <1>6
        <4> QED
          BY <3>2, <3>3, <4>1, <4>2 DEF HaltedOK
      <3>5. ASSUME op.pc \in {"snap_cont", "snap_hash"}, NEW c \in Disks
            PROVE  saved[v][vms[v].seq][c] = data'[v][c][vms[v].active[c]]
        <4>1. /\ op.i = NDisks /\ vms[v].active[c] < vms[v].seq
              /\ saved[v][vms[v].seq][c] = data[v][c][vms[v].active[c]]
          BY <2>2, <3>1, <3>5 DEF SnapshotOK
        <4>2. c < op.i
          BY <4>1, ConstantsAssumption DEF Disks
        <4>3. vms[v].seq \in Nat /\ vms[v].active[c] \in Nat /\ vms[v].active[c] \in Layers
          BY <1>3, EntryNumbers
        <4>4. procs[p].top[c] # vms[v].active[c]
          BY <3>3, <4>1, <4>2, <4>3
        <4> QED
          BY <1>7, <4>1, <4>3, <4>4
      <3>6. SnapshotOK'
        BY <1>2, <2>2, <3>1, <3>5 DEF SnapshotOK, NewTag
      <3> QED
        BY <1>2, <2>2, <3>4, <3>6 DEF Operating, SnapshotPCs, RestorePCs
    <2>3. CASE op.vm = v /\ op.pc \in RestorePCs
      <3>1. RestoreOK /\ op.pc \notin {"rest_overlay", "rest_spawn"}
        BY <1>0, <1>3, <2>3, NoneWhileRestored DEF DInv
      <3>2. RestoreOK'
        BY <1>2, <3>1 DEF RestoreOK, NewTag
      <3>3. op.pc = "rest_incoming" => IncomingOK'
        BY <1>2, <1>3, <1>6, IncomingStill
      <3> QED
        BY <1>2, <2>3, <3>2, <3>3 DEF Operating, SnapshotPCs, RestorePCs
    <2>4. CASE op.pc \notin SnapshotPCs \cup RestorePCs
      BY <1>2, <2>4, NotOperating
    <2> QED
      BY <2>1, <2>2, <2>3, <2>4
  <1> QED
    BY <1>12, <1>13 DEF DInv, Unread, Entries, Qemus, Operating

(***************************************************************************)
(* A migration ends: not into the file of a recorded snapshot; if a        *)
(* snapshot waits for it, RAM and frozen layers are of the same instant.   *)
(***************************************************************************)
LEMMA DMigrationCompletes ==
    ASSUME DInv, IInv', NEW p \in Pids, MigrationCompletes(p)
    PROVE  DInv'
  <1>0. PICK v, k : v = procs[p].vm /\ k = procs[p].migTag
    OBVIOUS
  <1> DEFINE q == [procs[p] EXCEPT !.mig = "completed", !.run = "postmigrate"]
  <1>1. procs \in [Pids -> QemuProc] /\ procs[p] \in QemuProc
        /\ \A r \in Pids : procs[r].unread = << >>
    BY DEF DInv, IInv, TypeOK
  <1>2. /\ procs[p].run \notin {"inmigrate", "exited"} /\ procs[p].mig = "active"
        /\ UNCHANGED <<vms, op, data>>
        /\ saved' = [saved EXCEPT ![v][k] = procs[p].view]
        /\ procs' = [procs EXCEPT ![p] = q]
    BY <1>0 DEF MigrationCompletes
  <1>3. Live(p) /\ v \in VMs /\ ProcOK(p) /\ EntryOK(v) /\ TypeOK /\ k \in Layers
    BY <1>0, <1>2, LiveOf, ProcNumbers DEF DInv, Live, IInv
  <1>4. /\ q.run = "postmigrate" /\ q.vm = v /\ q.node = procs[p].node
        /\ q.top = procs[p].top /\ q.mig = "completed"
        /\ q.view = procs[p].view /\ q.unread = << >>
    BY <1>0, <1>1, <1>2 DEF QemuProc
  <1> HIDE DEF q
  <1>5. procs'[p] = q /\ \A r \in Pids : r # p => procs'[r] = procs[r]
    BY <1>1, <1>2
  <1>6. /\ saved'[v][k] = procs[p].view
        /\ \A n \in Layers : n # k => saved'[v][n] = saved[v][n]
        /\ \A u \in VMs : u # v => saved'[u] = saved[u]
    BY <1>2, <1>3, StateWritten
  <1>7. \A n \in vms[v].snapshots : saved'[v][n] = saved[v][n]
    <2>1. \A n \in vms[v].snapshots : n \in Layers
      BY <1>3, EntryNumbers
    <2>2. k \notin vms[v].snapshots
      BY <1>0, <1>2, <1>3 DEF ProcOK
    <2> QED
      BY <1>6, <2>1, <2>2
  <1>8. EntryOK(v)'
    BY <1>2, <1>3, <1>7 DEF EntryOK
  <1>9. \A c \in Disks : procs[p].view[c] = data[v][c][procs[p].top[c]]
    BY <1>0, <1>2, <1>3 DEF ProcOK
  <1>10. ProcOK(p)'
    <2>1. \A c \in Disks :
             /\ procs'[p].node[c] <= vms'[v].seq /\ procs'[p].top[c] <= vms'[v].seq
             /\ procs'[p].top[c] = procs'[p].node[c] => procs'[p].node[c] = vms'[v].active[c]
             /\ \A n \in vms'[v].snapshots : procs'[p].top[c] # vms'[v].bases[n][c]
      <3>1. Placed(procs[p], vms[v])
        BY <1>0, <1>3, PlacedOf
      <3>2. Placed(procs'[p], vms'[v])
        BY <1>2, <1>4, <1>5, <3>1, PlacedSame
      <3> QED
        BY <3>2 DEF Placed
    <2>2. \A c \in Disks : procs'[p].view[c] = data'[v][c][procs'[p].top[c]]
      BY <1>2, <1>4, <1>5, <1>9
    <2>3. procs'[p].run # "inmigrate" /\ procs'[p].vm = v /\ procs'[p].mig # "active"
      BY <1>4, <1>5
    <2> QED
      BY <2>1, <2>2, <2>3, ProcNow
  <1>11. \A u \in VMs : u # v => SameFiles(u)
    BY <1>2, <1>6 DEF SameFiles
  <1>12. Unread' /\ Entries' /\ Qemus'
    BY <1>0, <1>2, <1>3, <1>4, <1>5, <1>8, <1>10, <1>11, OthersStill
  <1>13. Operating'
    <2>1. CASE op.vm # v
      BY <1>0, <1>2, <1>3, <1>5, <1>11, <2>1, OtherOperating
    <2>2. CASE op.vm = v /\ op.pc \in SnapshotPCs
      <3>1. Runtime = p /\ SnapshotOK /\ HaltedOK
        BY <1>0, <1>3, <2>2, SnapshotOfLive, SnapshotFacts
      <3>2. /\ op.pc \notin {"snap_cont", "snap_hash"}
            /\ op.pc = "snap_wait" => k = vms[v].seq
            /\ \A c \in Disks : /\ procs[p].node[c] < vms[v].seq
                                /\ c < op.i => procs[p].top[c] = vms[v].seq
            /\ op.pc \in {"snap_overlay", "snap_migrate", "snap_wait"} =>
                 \A c \in Disks : c < op.i => data[v][c][vms[v].seq] = data[v][c][vms[v].active[c]]
        BY <1>0, <1>2, <2>2, <3>1 DEF HaltedOK, Runtime
      <3>3. SnapshotOK'
        BY <1>2, <2>2, <3>1, <3>2 DEF SnapshotOK, NewTag
      <3>4. ASSUME op.pc = "snap_wait", NEW c \in Disks
            PROVE  saved'[v][vms[v].seq][c] = data[v][c][vms[v].active[c]]
        <4>1. op.i = NDisks
          BY <3>1, <3>4 DEF SnapshotOK
        <4>2. c < op.i
          BY <4>1, ConstantsAssumption DEF Disks
        <4> QED
          BY <1>6, <1>9, <3>2, <3>4, <4>2
      <3>5. HaltedOK'
        <4>1. vms'[op'.vm].runtime = p /\ op'.vm = v /\ op' = op /\ vms' = vms /\ data' = data
          BY <1>2, <2>2, <3>1 DEF Runtime
        <4>2. /\ procs'[p].node = procs[p].node /\ procs'[p].top = procs[p].top
              /\ procs'[p].mig = "completed" /\ procs'[p].run = "postmigrate"
          BY <1>4, <1>5
        <4> QED
          BY <3>2, <3>4, <4>1, <4>2 DEF HaltedOK
      <3> QED
        BY <1>2, <2>2, <3>3, <3>5 DEF Operating, SnapshotPCs, RestorePCs
    <2>3. CASE op.vm = v /\ op.pc \in RestorePCs
      <3>1. RestoreOK /\ op.pc \notin {"rest_overlay", "rest_spawn"}
        BY <1>0, <1>3, <2>3, NoneWhileRestored DEF DInv
      <3>2. RestoreOK'
        BY <1>2, <3>1 DEF RestoreOK, NewTag
      <3>3. op.pc = "rest_incoming" => IncomingOK'
        BY <1>2, <1>3, <1>5, IncomingStill
      <3> QED
        BY <1>2, <2>3, <3>2, <3>3 DEF Operating, SnapshotPCs, RestorePCs
    <2>4. CASE op.pc \notin SnapshotPCs \cup RestorePCs
      BY <1>2, <2>4, NotOperating
    <2> QED
      BY <2>1, <2>2, <2>3, <2>4
  <1> QED
    BY <1>12, <1>13 DEF DInv, Unread, Entries, Qemus, Operating

(***************************************************************************)
(* The snapshot is recorded: RAM and layers are consistent, the overlays   *)
(* the guest writes are newer than every frozen layer.                     *)
(***************************************************************************)
LEMMA RecordFields ==
    ASSUME NEW e \in VmEntry, e.seq \in Tags, NEW s
    PROVE  LET f == [e EXCEPT !.state     = s,
                              !.snapshots = e.snapshots \cup {e.seq},
                              !.bases     = [e.bases EXCEPT ![e.seq] = e.active],
                              !.active    = [d \in Disks |-> e.seq]]
           IN /\ f.seq = e.seq /\ f.snapshots = e.snapshots \cup {e.seq}
              /\ f.bases[e.seq] = e.active
              /\ \A n \in Tags : n # e.seq => f.bases[n] = e.bases[n]
              /\ \A d \in Disks : f.active[d] = e.seq
  <1>1. e.bases \in [Tags -> Stack]
    BY DEF VmEntry
  <1>2. PICK B, A, S : /\ B = [e.bases EXCEPT ![e.seq] = e.active]
                       /\ A = [d \in Disks |-> e.seq]
                       /\ S = e.snapshots \cup {e.seq}
    OBVIOUS
  <1>3. B[e.seq] = e.active /\ \A n \in Tags : n # e.seq => B[n] = e.bases[n]
    BY <1>1, <1>2
  <1>4. LET f == [e EXCEPT !.state = s, !.snapshots = S, !.bases = B, !.active = A]
        IN f.seq = e.seq /\ f.snapshots = S /\ f.bases = B /\ f.active = A
    BY DEF VmEntry
  <1> QED
    BY <1>2, <1>3, <1>4

LEMMA DSnapshotHash ==
    ASSUME DInv, IInv', SnapshotHash
    PROVE  DInv'
  <1>1. op.pc = "snap_hash" /\ op.pc \in SnapshotPCs /\ UNCHANGED <<procs, data, saved>>
    BY DEF SnapshotHash, SnapshotPCs
  <1>2. CASE SnapshotFails
    BY <1>1, <1>2, QuietUnchanged, DSnapshotFails
  <1>3. CASE ~ SnapshotFails
    <2>1. PICK v \in VMs : v = op.vm
      BY <1>1, SnapshotFacts
    <2>2. PICK f : /\ f = [vms[v] EXCEPT
                              !.state     = op.prior,
                              !.snapshots = vms[v].snapshots \cup {vms[v].seq},
                              !.bases     = [vms[v].bases EXCEPT ![vms[v].seq] = vms[v].active],
                              !.active    = [d \in Disks |-> vms[v].seq]]
                   /\ vms' = [vms EXCEPT ![v] = f] /\ op' = NoOp
      BY <1>3, <2>1 DEF SnapshotHash
    <2>3. /\ vms \in [VMs -> VmEntry] /\ vms[v] \in VmEntry /\ vms[v].seq \in Tags /\ TypeOK
      BY <1>1, <2>1, SnapshotFacts DEF DInv, IInv, TypeOK
    <2>4. /\ f.seq = vms[v].seq /\ f.snapshots = vms[v].snapshots \cup {vms[v].seq}
          /\ f.bases[vms[v].seq] = vms[v].active
          /\ \A n \in Tags : n # vms[v].seq => f.bases[n] = vms[v].bases[n]
          /\ \A d \in Disks : f.active[d] = vms[v].seq
      BY <2>2, <2>3, RecordFields
    <2>5. vms'[v] = f /\ \A u \in VMs : u # v => vms'[u] = vms[u]
      BY <2>2, <2>3
    <2>6. PICK s : s = vms[v].seq
      OBVIOUS
    <2>7. /\ s \in Nat /\ s \in Tags
          /\ \A d \in Disks : vms[v].active[d] \in Nat /\ vms[v].active[d] < s
          /\ \A n \in vms[v].snapshots : n \in Nat /\ n \in Tags /\ n < s
          /\ \A n \in vms[v].snapshots : \A d \in Disks :
               vms[v].bases[n][d] \in Nat /\ vms[v].bases[n][d] < s
          /\ \A d \in Disks : saved[v][s][d] = data[v][d][vms[v].active[d]]
          /\ op.i = NDisks
      <3>1. SnapshotOK
        BY <1>1, SnapshotFacts
      <3> QED
        BY <1>1, <2>1, <2>3, <2>6, <3>1, EntryNumbers DEF SnapshotOK, NewTag
    <2>8. /\ \A n \in f.snapshots : n <= s
          /\ \A n \in f.snapshots : \A d \in Disks : f.bases[n][d] < s /\ f.bases[n][d] \in Nat
          /\ \A n \in f.snapshots : \A d \in Disks : saved[v][n][d] = data[v][d][f.bases[n][d]]
      <3>1. \A n \in vms[v].snapshots :
              /\ n # s /\ n <= s /\ f.bases[n] = vms[v].bases[n]
              /\ \A d \in Disks : saved[v][n][d] = data[v][d][vms[v].bases[n][d]]
        <4>1. EntryOK(v)
          BY DEF DInv
        <4> QED
          BY <2>4, <2>6, <2>7, <4>1 DEF EntryOK
      <3>2. f.bases[s] = vms[v].active /\ s <= s
        BY <2>4, <2>6, <2>7
      <3>3. \A n \in f.snapshots : n = s \/ n \in vms[v].snapshots
        BY <2>4, <2>6
      <3> QED
        BY <2>7, <3>1, <3>2, <3>3
    <2>9. EntryOK(v)'
      <3>1. /\ \A d \in Disks : f.active[d] <= f.seq
            /\ \A n \in f.snapshots : n <= f.seq
            /\ \A n \in f.snapshots : \A d \in Disks :
                 /\ f.bases[n][d] <= f.seq
                 /\ f.active[d] # f.bases[n][d]
        BY <2>4, <2>6, <2>7, <2>8
      <3> QED
        BY <1>1, <2>5, <2>8, <3>1 DEF EntryOK
    <2>10. \A u \in VMs : u # v => SameEntry(u) /\ SameFiles(u)
      BY <1>1, <2>5 DEF SameEntry, SameFiles
    <2>11. Entries'
      BY <2>9, <2>10, EntryStill DEF Entries, DInv
    <2>12. ASSUME NEW p \in Pids, Live(p)'
           PROVE  ProcOK(p)'
      <3>1. /\ Live(p) /\ procs'[p] = procs[p] /\ SameQemu(p) /\ ProcOK(p)
            /\ procs[p].run # "inmigrate" /\ procs[p].vm \in VMs
        BY <1>1, <2>12, LiveOf, NoneWaiting, SnapshotFacts DEF Live, SameQemu, DInv
      <3>2. CASE procs[p].vm # v
        <4>1. SameRestore(p)
          BY <3>1 DEF SameRestore
        <4> QED
          BY <2>10, <3>1, <3>2, <4>1, ProcStill
      <3>3. CASE procs[p].vm = v
        <4>1. Runtime = p /\ HaltedOK
          BY <1>1, <2>1, <3>1, <3>3, SnapshotOfLive, SnapshotFacts
        <4>2. /\ procs[p].mig # "active"
              /\ \A d \in Disks : procs[p].node[d] < s /\ (d < op.i => procs[p].top[d] = s)
          BY <1>1, <2>1, <2>6, <4>1 DEF HaltedOK, Runtime
        <4>3. \A d \in Disks : d < op.i
          BY <2>7, ConstantsAssumption DEF Disks
        <4>4. \A d \in Disks : /\ procs[p].node[d] \in Nat /\ procs[p].node[d] < s
                               /\ procs[p].top[d] = s
          BY <2>3, <4>2, <4>3, ProcNumbers
        <4>5. \A d \in Disks :
                 /\ procs[p].node[d] <= f.seq /\ procs[p].top[d] <= f.seq
                 /\ procs[p].top[d] # procs[p].node[d]
                 /\ \A n \in f.snapshots : procs[p].top[d] # f.bases[n][d]
          BY <2>4, <2>6, <2>7, <2>8, <4>4
        <4>6. \A d \in Disks : procs[p].view[d] = data[v][d][procs[p].top[d]]
          BY <3>1, <3>3 DEF ProcOK
        <4>7. \A d \in Disks :
                 /\ procs'[p].node[d] <= vms'[v].seq /\ procs'[p].top[d] <= vms'[v].seq
                 /\ procs'[p].top[d] = procs'[p].node[d] =>
                      procs'[p].node[d] = vms'[v].active[d]
                 /\ \A n \in vms'[v].snapshots : procs'[p].top[d] # vms'[v].bases[n][d]
          BY <2>5, <3>1, <4>5
        <4>8. /\ procs'[p].vm = v /\ procs'[p].mig # "active" /\ procs'[p].run # "inmigrate"
              /\ \A d \in Disks : procs'[p].view[d] = data'[v][d][procs'[p].top[d]]
          BY <1>1, <3>1, <3>3, <4>2, <4>6
        <4> QED
          BY <4>7, <4>8, ProcNow
      <3> QED
        BY <3>2, <3>3
    <2>13. Operating'
      BY <2>2, NotOperating, IdleNotOperating
    <2>14. \A p \in Pids : procs'[p].unread = << >>
      BY <1>1 DEF DInv
    <2> QED
      BY <2>11, <2>12, <2>13, <2>14 DEF DInv, Entries, Operating
  <1> QED
    BY <1>2, <1>3

-----------------------------------------------------------------------------
(***************************************************************************)
(* A command of snapshot that changes its QEMU, and files of its VM only.  *)
(***************************************************************************)
LEMMA SnapshotOthers ==
    ASSUME DInv, op.pc \in SnapshotPCs, \A u \in VMs : SameEntry(u),
           NEW P \in Pids, P = Runtime, NEW v, v = op.vm,
           procs'[P].unread = << >>, \A r \in Pids : r # P => procs'[r] = procs[r],
           \A u \in VMs : u # v => SameFiles(u),
           EntryOK(v)', Live(P)' => Live(P) /\ ProcOK(P)'
    PROVE  Unread' /\ Entries' /\ Qemus'
  <1>1. Unread'
    BY DEF Unread, DInv
  <1>2. Entries'
    BY EntryStill DEF Entries, DInv
  <1>3. ASSUME NEW r \in Pids, r # P, Live(r)'
        PROVE  ProcOK(r)'
    <2>1. Live(r) /\ SameQemu(r) /\ ProcOK(r)
      BY <1>3 DEF Live, SameQemu, DInv
    <2>2. procs[r].vm \in VMs /\ procs[r].vm # v
      BY <1>3, <2>1, LiveOf, SnapshotOfLive DEF DInv
    <2>3. SameRestore(r) /\ SameEntry(procs[r].vm) /\ SameFiles(procs[r].vm)
      BY <1>3, <2>2, NoneWaiting, SnapshotFacts DEF SameRestore
    <2> QED
      BY <2>1, <2>3, ProcStill
  <1> QED
    BY <1>1, <1>2, <1>3 DEF Qemus

LEMMA DSnapshotMigrate ==
    ASSUME Prompt, DInv, IInv', SnapshotMigrate
    PROVE  DInv'
  <1>1. op.pc = "snap_migrate" /\ op.pc \in SnapshotPCs /\ UNCHANGED <<data, saved>>
    BY DEF SnapshotMigrate, SnapshotPCs
  <1>2. PICK P \in Pids, v \in VMs : P = Runtime /\ v = op.vm
    BY <1>1, SnapshotFacts
  <1>3. PICK s : s = vms[v].seq
    OBVIOUS
  <1> DEFINE q  == procs[P]
             q2 == IF CanMigrate(q) THEN Migrate(q, s) ELSE q
             r  == IF CanMigrate(q) THEN "ok" ELSE "err"
  <1>4. PICK x \in Execute(q, q2, r) :
         /\ procs' = [procs EXCEPT ![P] = x.q]
         /\ IF x.got = "err" THEN SnapshotFails ELSE SnapshotGoesOn("snap_wait")
    BY <1>2, <1>3, Zenon DEF SnapshotMigrate
  <1>5. /\ q \in QemuProc /\ q.unread = << >> /\ s \in Layers
        /\ SnapshotOK /\ (Live(P) => HaltedOK /\ q.vm = v)
    BY <1>1, <1>2, <1>3, SnapshotFacts DEF Tags, Layers
  <1>6. LET m == Migrate(q, s) IN
        /\ m \in QemuProc /\ m.unread = q.unread /\ m.vm = q.vm /\ m.run = q.run
        /\ m.node = q.node /\ m.top = q.top /\ m.view = q.view
        /\ m.mig = "active" /\ m.migTag = s
    BY <1>5 DEF Migrate, QemuProc, MigState
  <1>7. /\ x.q = q \/ (x.q = Migrate(q, s) /\ Live(P))
        /\ x.got # "err" => x.q = Migrate(q, s) /\ Live(P)
    <2>1. q2 \in QemuProc /\ q2.unread = << >>
      BY <1>5, <1>6
    <2>2. /\ x.q = q \/ (x.q = q2 /\ q.run # "exited")
          /\ x.got # "err" => x.got = r /\ x.q = q2 /\ q.run # "exited"
      <3> HIDE DEF q2, r
      <3> QED
        BY <1>4, <1>5, <2>1, ExecuteNow
    <2> QED
      BY <2>2 DEF Live
  <1>8. CASE x.q = q /\ x.got = "err"
    <2>1. \A p \in Pids : procs'[p] = procs[p]
      BY <1>4, <1>8 DEF DInv, IInv, TypeOK
    <2>2. \A p \in Pids : /\ procs'[p].unread = << >>
                          /\ Live(p)' => Live(p) /\ SameQemu(p)
      BY <2>1 DEF DInv, SameQemu, Live
    <2> QED
      BY <1>1, <1>4, <1>8, <2>2, DSnapshotFails
  <1>9. CASE x.q = Migrate(q, s) /\ Live(P)
    <2>1. /\ procs'[P] = Migrate(q, s)
          /\ \A p \in Pids : p # P => procs'[p] = procs[p]
      BY <1>4, <1>9 DEF DInv, IInv, TypeOK
    <2>2. /\ procs'[P].unread = << >> /\ procs'[P].vm = v /\ procs'[P].run = q.run
          /\ procs'[P].node = q.node /\ procs'[P].top = q.top /\ procs'[P].view = q.view
          /\ procs'[P].mig = "active" /\ procs'[P].migTag = s
      BY <1>5, <1>6, <1>9, <2>1
    <2>3. \A u \in VMs : SameEntry(u) /\ SameFiles(u)
      <3>1. SnapshotFails \/ UNCHANGED vms
        BY <1>4 DEF SnapshotGoesOn
      <3> QED
        BY <1>1, <1>2, <3>1, QuietEntry DEF SnapshotFails, SameFiles, DInv
    <2>4. EntryOK(v)'
      BY <2>3, EntryStill DEF DInv
    <2>5. ProcOK(P)'
      <3>1. ProcOK(P) /\ q.vm = v /\ q.run # "inmigrate"
        BY <1>1, <1>5, <1>9, NoneWaiting, SnapshotFacts DEF DInv
      <3>2. /\ vms'[v].seq = vms[v].seq /\ vms'[v].active = vms[v].active
            /\ vms'[v].snapshots = vms[v].snapshots /\ vms'[v].bases = vms[v].bases
        BY <2>3 DEF SameEntry
      <3>3. \A d \in Disks :
                 /\ procs'[P].node[d] <= vms'[v].seq /\ procs'[P].top[d] <= vms'[v].seq
                 /\ procs'[P].top[d] = procs'[P].node[d] =>
                      procs'[P].node[d] = vms'[v].active[d]
                 /\ \A n \in vms'[v].snapshots : procs'[P].top[d] # vms'[v].bases[n][d]
        BY <2>2, <3>1, <3>2 DEF ProcOK
      <3>4. s \notin vms[v].snapshots
        <4>1. \A n \in vms[v].snapshots : n < s /\ n \in Nat
          BY <1>2, <1>3, <1>5, EntryNumbers DEF SnapshotOK, NewTag, DInv, IInv
        <4> QED
          BY <4>1
      <3>5. \A d \in Disks : procs'[P].view[d] = data'[v][d][procs'[P].top[d]]
        BY <1>1, <2>2, <3>1 DEF ProcOK
      <3> QED
        BY <2>2, <3>1, <3>2, <3>3, <3>4, <3>5, ProcNow
    <2>6. Unread' /\ Entries' /\ Qemus'
      BY <1>1, <1>2, <1>9, <2>1, <2>2, <2>3, <2>4, <2>5, SnapshotOthers
    <2>7. Operating'
      <3>1. CASE x.got = "err"
        BY <1>4, <3>1, NotOperating, IdleNotOperating DEF SnapshotFails
      <3>2. CASE x.got # "err"
        <4>1. /\ op'.vm = op.vm /\ op'.i = op.i /\ op'.pc = "snap_wait"
              /\ op'.pc \in SnapshotPCs /\ UNCHANGED vms
          BY <1>4, <3>2 DEF Operation, SnapshotGoesOn, SnapshotPCs, DInv, IInv, TypeOK
        <4>2. op.i = NDisks
          BY <1>1, <1>5 DEF SnapshotOK
        <4>3. SnapshotOK'
          BY <1>1, <1>5, <4>1, <4>2 DEF SnapshotOK, NewTag
        <4>4. /\ q.run # "running"
              /\ \A d \in Disks : /\ q.node[d] < s /\ (d < op.i => q.top[d] = s)
                                  /\ d < op.i => data[v][d][s] = data[v][d][vms[v].active[d]]
          BY <1>1, <1>2, <1>3, <1>5, <1>9 DEF HaltedOK, Runtime
        <4>5. vms'[op'.vm].runtime = P /\ op'.vm = v /\ vms'[v].seq = s
          BY <1>2, <1>3, <4>1 DEF Runtime
        <4>6. HaltedOK'
          BY <1>1, <2>2, <4>1, <4>4, <4>5 DEF HaltedOK
        <4> QED
          BY <4>1, <4>3, <4>6 DEF Operating, SnapshotPCs, RestorePCs
      <3> QED
        BY <3>1, <3>2
    <2> QED
      BY <2>6, <2>7 DEF DInv, Unread, Entries, Qemus, Operating
  <1> QED
    BY <1>7, <1>8, <1>9

(***************************************************************************)
(* An overlay is put on the active layer: its number is new, so it shares  *)
(* no file with a frozen layer, and it reads as the layer it freezes.      *)
(***************************************************************************)
LEMMA DSnapshotOverlay ==
    ASSUME Prompt, DInv, IInv', SnapshotOverlay
    PROVE  DInv'
  <1>1. op.pc = "snap_overlay" /\ op.pc \in SnapshotPCs /\ UNCHANGED saved
    BY DEF SnapshotOverlay, SnapshotPCs
  <1>2. PICK P \in Pids, v \in VMs : P = Runtime /\ v = op.vm
    BY <1>1, SnapshotFacts
  <1>3. PICK s \in Layers, d \in Disks : s = vms[v].seq /\ d = op.i
    BY <1>1, <1>2, EntryNumbers DEF DInv, IInv, OpShape
  <1> DEFINE q  == procs[P]
             m  == AddOverlay(q, d, s)
             q2 == IF CanOverlay(q, d) THEN m ELSE q
             r  == IF CanOverlay(q, d) THEN "ok" ELSE "err"
  <1>4. PICK x \in Execute(q, q2, r) :
            /\ procs' = [procs EXCEPT ![P] = x.q]
            /\ data' = IF x.q.top[d] = q.top[d] THEN data
                       ELSE [data EXCEPT ![v][d][s] = data[v][d][q.top[d]]]
            /\ IF x.got = "err" THEN SnapshotFails
               ELSE /\ op' = [op EXCEPT !.i = d + 1,
                                 !.pc = IF d + 1 = NDisks THEN "snap_migrate" ELSE @]
                    /\ UNCHANGED vms
    BY <1>2, <1>3, Zenon DEF SnapshotOverlay
  <1>5. /\ q \in QemuProc /\ q.unread = << >> /\ s \in Layers /\ s \in Nat
        /\ SnapshotOK /\ (Live(P) => HaltedOK /\ q.vm = v) /\ TypeOK
    BY <1>1, <1>2, <1>3, SnapshotFacts, EntryNumbers DEF DInv, IInv
  <1>6. /\ m \in QemuProc /\ m.unread = q.unread /\ m.vm = q.vm /\ m.run = q.run
        /\ m.node = q.node /\ m.view = q.view /\ m.mig = q.mig /\ m.migTag = q.migTag
        /\ m.top[d] = s /\ \A c \in Disks : c # d => m.top[c] = q.top[c]
    BY <1>5 DEF AddOverlay, QemuProc, Stack
  <1> HIDE DEF m
  <1>7. /\ x.q = q \/ (x.q = m /\ Live(P) /\ CanOverlay(q, d))
        /\ x.got # "err" => x.q = m /\ Live(P) /\ CanOverlay(q, d)
    <2>1. q2 \in QemuProc /\ q2.unread = << >>
      BY <1>5, <1>6
    <2>2. /\ x.q = q \/ (x.q = q2 /\ q.run # "exited")
          /\ x.got # "err" => x.got = r /\ x.q = q2 /\ q.run # "exited"
      <3> HIDE DEF q2, r
      <3> QED
        BY <1>4, <1>5, <2>1, ExecuteNow
    <2> QED
      BY <2>2 DEF Live
  <1>8. CASE x.q = q /\ x.got = "err"
    <2>1. UNCHANGED data /\ \A p \in Pids : procs'[p] = procs[p]
      BY <1>4, <1>8 DEF DInv, IInv, TypeOK
    <2>2. \A p \in Pids : /\ procs'[p].unread = << >>
                          /\ Live(p)' => Live(p) /\ SameQemu(p)
      BY <2>1 DEF DInv, SameQemu, Live
    <2> QED
      BY <1>1, <1>4, <1>8, <2>1, <2>2, DSnapshotFails
  <1>9. CASE x.q = m /\ Live(P) /\ CanOverlay(q, d)
    <2>1. /\ procs'[P] = m
          /\ \A p \in Pids : p # P => procs'[p] = procs[p]
      BY <1>4, <1>9 DEF DInv, IInv, TypeOK
    <2>2. /\ \A c \in Disks : /\ q.node[c] \in Nat /\ q.node[c] < s /\ q.top[c] \in Layers
                              /\ c < d => q.top[c] = s
                              /\ c < d => data[v][c][s] = data[v][c][vms[v].active[c]]
          /\ q.run # "running"
      <3>1. HaltedOK
        BY <1>5, <1>9
      <3>2. \A c \in Disks : q.node[c] \in Nat /\ q.top[c] \in Layers
        BY <1>5, ProcNumbers
      <3> QED
        BY <1>1, <1>2, <1>3, <3>1, <3>2 DEF HaltedOK, Runtime
    <2>3. /\ \A c \in Disks : /\ vms[v].active[c] \in Layers /\ vms[v].active[c] \in Nat
                              /\ vms[v].active[c] < s
          /\ \A n \in vms[v].snapshots : \A c \in Disks :
               /\ vms[v].bases[n][c] \in Layers /\ vms[v].bases[n][c] \in Nat
               /\ vms[v].bases[n][c] < s
      BY <1>2, <1>3, <1>5, EntryNumbers DEF SnapshotOK, NewTag
    <2>4. q.top[d] = q.node[d] /\ q.node[d] = vms[v].active[d] /\ q.top[d] # s
      <3>1. ProcOK(P)
        BY <1>9 DEF DInv
      <3>2. q.top[d] = q.node[d]
        BY <1>9 DEF CanOverlay
      <3> QED
        BY <1>5, <1>9, <2>2, <3>1, <3>2 DEF ProcOK
    <2>5. data' = [data EXCEPT ![v][d][s] = data[v][d][q.top[d]]]
      BY <1>4, <1>6, <1>9, <2>4
    <2>6. /\ data'[v][d][s] = data[v][d][q.top[d]]
          /\ \A k \in Layers : k # s => data'[v][d][k] = data[v][d][k]
          /\ \A c \in Disks : c # d => data'[v][c] = data[v][c]
          /\ \A u \in VMs : u # v => data'[u] = data[u]
      BY <1>5, <2>5, LayerWritten
    <2>7. \A c \in Disks, k \in Layers : k # s => data'[v][c][k] = data[v][c][k]
      BY <2>6
    <2>8. \A u \in VMs : SameEntry(u)
      <3>1. SnapshotFails \/ UNCHANGED vms
        BY <1>4
      <3> QED
        BY <1>2, <3>1, QuietEntry DEF SnapshotFails, DInv
    <2>9. /\ vms'[v].seq = s /\ vms'[v].active = vms[v].active
          /\ vms'[v].snapshots = vms[v].snapshots /\ vms'[v].bases = vms[v].bases
      BY <1>3, <2>8 DEF SameEntry
    <2>10. EntryOK(v)'
      <3>1. EntryOK(v)
        BY DEF DInv
      <3>2. \A n \in vms[v].snapshots : \A c \in Disks :
               data'[v][c][vms[v].bases[n][c]] = data[v][c][vms[v].bases[n][c]]
        BY <1>5, <2>3, <2>7
      <3>3. v \in VMs /\ SameEntry(v) /\ saved'[v] = saved[v]
        BY <1>1, <1>2, <2>8
      <3> QED
        BY <3>1, <3>2, <3>3, EntryKept
    <2>11. ProcOK(P)'
      <3>1. ProcOK(P) /\ q.vm = v /\ q.run # "inmigrate"
        BY <1>1, <1>5, <1>9, NoneWaiting, SnapshotFacts DEF DInv
      <3>2. \A c \in Disks :
                 /\ m.node[c] <= s /\ m.top[c] <= s
                 /\ m.top[c] = m.node[c] => m.node[c] = vms[v].active[c]
                 /\ \A n \in vms[v].snapshots : m.top[c] # vms[v].bases[n][c]
        <4>1. \A c \in Disks : c # d =>
                 /\ q.node[c] <= s /\ q.top[c] <= s
                 /\ q.top[c] = q.node[c] => q.node[c] = vms[v].active[c]
                 /\ \A n \in vms[v].snapshots : q.top[c] # vms[v].bases[n][c]
          BY <1>3, <3>1 DEF ProcOK
        <4>2. /\ m.node[d] <= s /\ m.top[d] <= s /\ m.top[d] # m.node[d]
              /\ \A n \in vms[v].snapshots : m.top[d] # vms[v].bases[n][d]
          BY <1>5, <1>6, <2>2, <2>3
        <4> QED
          BY <1>6, <4>1, <4>2
      <3>3. \A c \in Disks : m.view[c] = data'[v][c][m.top[c]]
        <4>1. \A c \in Disks : q.view[c] = data[v][c][q.top[c]]
          BY <3>1 DEF ProcOK
        <4> QED
          BY <1>6, <2>6, <4>1
      <3>4. m.mig = "active" => m.migTag \notin vms[v].snapshots
        BY <1>6, <3>1 DEF ProcOK
      <3>5. m.vm = v /\ m.run # "inmigrate"
        BY <1>6, <3>1
      <3> QED
        <4>1. /\ procs'[P] = m /\ vms'[v].seq = s
              /\ vms'[v].active = vms[v].active /\ vms'[v].bases = vms[v].bases
              /\ vms'[v].snapshots = vms[v].snapshots
          BY <2>1, <2>9
        <4>2. \A c \in Disks :
                 /\ procs'[P].node[c] <= vms'[v].seq /\ procs'[P].top[c] <= vms'[v].seq
                 /\ procs'[P].top[c] = procs'[P].node[c] =>
                      procs'[P].node[c] = vms'[v].active[c]
                 /\ \A n \in vms'[v].snapshots : procs'[P].top[c] # vms'[v].bases[n][c]
          BY <3>2, <4>1, Zenon
        <4>3. /\ procs'[P].mig = "active" => procs'[P].migTag \notin vms'[v].snapshots
              /\ \A c \in Disks : procs'[P].view[c] = data'[v][c][procs'[P].top[c]]
              /\ procs'[P].vm = v /\ procs'[P].run # "inmigrate"
          BY <3>3, <3>4, <3>5, <4>1, Zenon
        <4> QED
          BY <4>2, <4>3, ProcNow
    <2>12. \A u \in VMs : u # v => SameFiles(u)
      BY <1>1, <2>6 DEF SameFiles
    <2>13. procs'[P].unread = << >>
      BY <1>5, <1>6, <2>1
    <2>14. Unread' /\ Entries' /\ Qemus'
      BY <1>1, <1>2, <1>9, <2>1, <2>8, <2>10, <2>11, <2>12, <2>13, SnapshotOthers
    <2>15. Operating'
      <3>1. CASE x.got = "err"
        BY <1>4, <3>1, NotOperating, IdleNotOperating DEF SnapshotFails
      <3>2. CASE x.got # "err"
        <4>1. /\ op'.vm = v /\ op'.i = d + 1 /\ UNCHANGED vms
              /\ op'.pc \in {"snap_overlay", "snap_migrate"}
              /\ op'.pc = "snap_migrate" => op'.i = NDisks
          <5>1. op \in Operation
            BY DEF DInv, IInv, TypeOK
          <5> QED
            BY <1>1, <1>2, <1>4, <3>2, <5>1 DEF Operation
        <4>2. SnapshotOK'
          BY <1>2, <1>5, <4>1 DEF SnapshotOK, NewTag
        <4>3. \A c \in Disks : c < d + 1 => c = d \/ c < d
          BY <1>3, ConstantsAssumption DEF Disks
        <4>4. \A c \in Disks : c < d => c # d
          BY <1>3, ConstantsAssumption DEF Disks
        <4>5. \A c \in Disks :
                 /\ m.node[c] < s
                 /\ c < d + 1 => m.top[c] = s
                 /\ c < d + 1 => data'[v][c][s] = data'[v][c][vms[v].active[c]]
          <5>1. m.node[d] < s /\ m.top[d] = s
            BY <1>6, <2>2
          <5>2. data'[v][d][s] = data'[v][d][vms[v].active[d]]
            BY <1>5, <2>3, <2>4, <2>6
          <5>3. \A c \in Disks : c < d => m.top[c] = s
            BY <1>6, <2>2, <4>4
          <5>4. \A c \in Disks : c < d => data'[v][c][s] = data'[v][c][vms[v].active[c]]
            BY <2>2, <2>6, <4>4
          <5>5. \A c \in Disks : m.node[c] < s
            BY <1>6, <2>2
          <5> QED
            BY <4>3, <5>1, <5>2, <5>3, <5>4, <5>5
        <4>6. vms'[op'.vm].runtime = P /\ vms'[v].seq = s /\ m.run # "running"
          BY <1>2, <1>3, <1>6, <2>2, <4>1 DEF Runtime
        <4>7. HaltedOK'
          BY <2>1, <2>9, <4>1, <4>5, <4>6 DEF HaltedOK
        <4> QED
          BY <4>1, <4>2, <4>7 DEF Operating, SnapshotPCs, RestorePCs
      <3> QED
        BY <3>1, <3>2
    <2> QED
      BY <2>14, <2>15 DEF DInv, Unread, Entries, Qemus, Operating
  <1> QED
    BY <1>7, <1>8, <1>9

-----------------------------------------------------------------------------
(***************************************************************************)
(* restore: an overlay on a frozen layer; the last one makes them active.  *)
(***************************************************************************)
LEMMA DRestoreOverlay ==
    ASSUME DInv, IInv', RestoreOverlay
    PROVE  DInv'
  <1>1. op.pc = "rest_overlay" /\ op.pc \in RestorePCs /\ UNCHANGED <<procs, saved>>
    BY DEF RestoreOverlay, RestorePCs
  <1>2. PICK v \in VMs, d \in Disks : v = op.vm /\ d = op.i
    BY <1>1 DEF DInv, IInv, OpShape
  <1>3. PICK s \in Layers : s = vms[v].seq
    BY EntryNumbers DEF DInv, IInv
  <1>4. CASE op' = NoOp /\ UNCHANGED <<vms, data>>
    BY <1>1, <1>4, DReturn
  <1>5. CASE ~ (op' = NoOp /\ UNCHANGED <<vms, data>>)
    <2> DEFINE b == vms[v].bases[op.snap][d]
               A == [c \in Disks |-> s]
    <2>1. /\ data' = [data EXCEPT ![v][d][s] = data[v][d][b]]
          /\ IF d + 1 = NDisks
             THEN /\ vms' = [vms EXCEPT ![v].active = A]
                  /\ op' = [op EXCEPT !.i = d + 1, !.pc = "rest_spawn"]
             ELSE /\ op' = [op EXCEPT !.i = d + 1]
                  /\ UNCHANGED vms
      BY <1>2, <1>3, <1>5, Zenon DEF RestoreOverlay, CreateOverlay
    <2>2. RestoreOK /\ EntryOK(v) /\ TypeOK
      BY <1>1 DEF DInv, IInv
    <2>3. /\ s \in Nat /\ op.snap \in vms[v].snapshots
          /\ \A n \in vms[v].snapshots :
               /\ n \in Nat /\ n < s
               /\ \A c \in Disks : /\ vms[v].bases[n][c] \in Layers /\ vms[v].bases[n][c] \in Nat
                                   /\ vms[v].bases[n][c] < s
      BY <1>2, <1>3, <2>2, EntryNumbers DEF RestoreOK, NewTag
    <2>4. /\ data'[v][d][s] = data[v][d][b]
          /\ \A k \in Layers : k # s => data'[v][d][k] = data[v][d][k]
          /\ \A c \in Disks : c # d => data'[v][c] = data[v][c]
          /\ \A u \in VMs : u # v => data'[u] = data[u]
      BY <2>1, <2>2, LayerWritten
    <2>5. \A n \in vms[v].snapshots : \A c \in Disks :
             data'[v][c][vms[v].bases[n][c]] = data[v][c][vms[v].bases[n][c]]
      <3>1. \A c \in Disks, k \in Layers : k # s => data'[v][c][k] = data[v][c][k]
        BY <2>4
      <3> QED
        BY <2>3, <3>1
    <2>6. /\ \A u \in VMs : u # v => SameEntry(u)
          /\ vms'[v].seq = s /\ vms'[v].snapshots = vms[v].snapshots
          /\ vms'[v].bases = vms[v].bases
          /\ \/ d + 1 # NDisks /\ vms'[v].active = vms[v].active
             \/ d + 1 = NDisks /\ \A c \in Disks : vms'[v].active[c] = s
      <3>1. vms \in [VMs -> VmEntry] /\ vms[v] \in VmEntry
        BY <2>2 DEF TypeOK
      <3>2. CASE UNCHANGED vms /\ d + 1 # NDisks
        BY <1>3, <3>2 DEF SameEntry
      <3>3. CASE vms' = [vms EXCEPT ![v].active = A] /\ d + 1 = NDisks
        <4>1. \A c \in Disks : A[c] = s
          OBVIOUS
        <4> HIDE DEF A
        <4> QED
          BY <1>3, <3>1, <3>3, <4>1 DEF SameEntry, VmEntry
      <3> QED
        BY <2>1, <3>2, <3>3
    <2>7. EntryOK(v)'
      <3>1. \A c \in Disks : /\ vms'[v].active[c] <= s
                             /\ \A n \in vms[v].snapshots : vms'[v].active[c] # vms[v].bases[n][c]
        <4>1. CASE vms'[v].active = vms[v].active
          BY <1>3, <2>2, <4>1 DEF EntryOK
        <4>2. CASE \A c \in Disks : vms'[v].active[c] = s
          BY <2>3, <4>2
        <4> QED
          BY <2>6, <4>1, <4>2
      <3>2. \A n \in vms[v].snapshots :
               /\ n <= s
               /\ \A c \in Disks : /\ vms[v].bases[n][c] <= s
                                   /\ saved[v][n][c] = data[v][c][vms[v].bases[n][c]]
        BY <1>3, <2>2 DEF EntryOK
      <3> QED
        BY <1>1, <2>5, <2>6, <3>1, <3>2 DEF EntryOK
    <2>8. \A u \in VMs : u # v => SameFiles(u)
      BY <1>1, <2>4 DEF SameFiles
    <2>9. Entries'
      BY <2>6, <2>7, <2>8, EntryStill DEF Entries, DInv
    <2>10. ASSUME NEW p \in Pids, Live(p)'
           PROVE  ProcOK(p)'
      <3>1. Live(p) /\ SameQemu(p) /\ ProcOK(p) /\ procs'[p] = procs[p]
        BY <1>1, <2>10 DEF Live, SameQemu, DInv
      <3>2. procs[p].vm \in VMs /\ procs[p].vm # v
        BY <1>1, <1>2, <3>1, LiveOf, NoneWhileRestored DEF DInv
      <3>3. SameRestore(p)
        BY <1>1, <3>1, NoneWaiting DEF SameRestore
      <3> QED
        BY <2>6, <2>8, <3>1, <3>2, <3>3, ProcStill
    <2>11. Unread'
      BY <1>1 DEF Unread, DInv
    <2>12. /\ op'.vm = v /\ op'.i = d + 1 /\ op'.snap = op.snap
           /\ \/ op'.pc = "rest_overlay" /\ d + 1 # NDisks
              \/ op'.pc = "rest_spawn" /\ d + 1 = NDisks
      <3>1. op \in Operation
        BY <2>2 DEF TypeOK
      <3> QED
        BY <1>1, <1>2, <2>1, <3>1 DEF Operation
    <2>13. \A c \in Disks : c < d + 1 => data'[v][c][s] = data'[v][c][vms[v].bases[op.snap][c]]
      <3>1. \A c \in Disks : c < d => data[v][c][s] = data[v][c][vms[v].bases[op.snap][c]]
        BY <1>1, <1>2, <1>3, <2>2 DEF RestoreOK
      <3>2. \A c \in Disks : /\ c < d + 1 => c = d \/ c < d
                             /\ c < d => c # d
        BY <1>2, ConstantsAssumption DEF Disks
      <3>3. \A c \in Disks : c < d => data'[v][c] = data[v][c]
        BY <2>4, <3>2
      <3>4. data'[v][d][s] = data'[v][d][vms[v].bases[op.snap][d]]
        BY <2>3, <2>4, <2>5
      <3> QED
        BY <3>1, <3>2, <3>3, <3>4
    <2>14. op'.pc = "rest_spawn" =>
             \A c \in Disks : data'[v][c][vms'[v].active[c]] = saved[v][op.snap][c]
      <3>1. ASSUME d + 1 = NDisks, NEW c \in Disks
            PROVE  data'[v][c][vms'[v].active[c]] = saved[v][op.snap][c]
        <4>1. c < d + 1
          BY <3>1, ConstantsAssumption DEF Disks
        <4>2. saved[v][op.snap][c] = data[v][c][vms[v].bases[op.snap][c]]
          BY <2>2, <2>3 DEF EntryOK
        <4>3. vms'[v].active[c] = s
          BY <2>6, <3>1
        <4> QED
          BY <2>3, <2>5, <2>13, <4>1, <4>2, <4>3
      <3> QED
        BY <2>12, <3>1
    <2>15. RestoreOK'
      <3>1. NewTag(vms[op.vm])'
        BY <2>3, <2>6, <2>12 DEF NewTag
      <3>2. op'.snap \in vms'[v].snapshots
        BY <2>3, <2>6, <2>12
      <3>3. op'.pc = "rest_overlay" =>
              \A c \in Disks : c < op'.i =>
                data'[v][c][vms'[v].seq] = data'[v][c][vms'[v].bases[op'.snap][c]]
        BY <2>6, <2>12, <2>13
      <3>4. op'.pc = "rest_spawn" =>
              \A c \in Disks : data'[v][c][vms'[v].active[c]] = saved'[v][op'.snap][c]
        BY <1>1, <2>12, <2>14
      <3> QED
        BY <2>12, <3>1, <3>2, <3>3, <3>4 DEF RestoreOK
    <2>16. Operating'
      BY <2>12, <2>15 DEF Operating, SnapshotPCs, RestorePCs
    <2> QED
      BY <2>9, <2>10, <2>11, <2>16 DEF DInv, Unread, Entries, Operating
  <1> QED
    BY <1>4, <1>5

(***************************************************************************)
(* restore: QEMU is told which RAM state to load, and has loaded it.       *)
(***************************************************************************)
LEMMA RestoreFacts ==
    ASSUME DInv, op.pc \in {"rest_incoming", "rest_wait"}
    PROVE  /\ op.vm \in VMs /\ op.qemu \in Pids
           /\ procs[op.qemu] \in QemuProc /\ procs[op.qemu].unread = << >>
           /\ Live(op.qemu) => procs[op.qemu].vm = op.vm /\ ProcOK(op.qemu)
           /\ RestoreOK /\ op.snap \in Layers /\ TypeOK
  <1>1. op.vm \in VMs /\ op.qemu # NoPid /\ op \in Operation /\ TypeOK
    BY DEF DInv, IInv, TypeOK, OpShape
  <1>2. op.qemu \in Pids /\ op.snap \in Layers
    BY <1>1 DEF Operation
  <1>3. procs[op.qemu] \in QemuProc /\ procs[op.qemu].unread = << >>
    BY <1>1, <1>2 DEF DInv, TypeOK
  <1>4. Live(op.qemu) => procs[op.qemu].vm = op.vm /\ ProcOK(op.qemu)
    BY <1>2, LiveOf DEF DInv
  <1>5. RestoreOK
    BY DEF DInv, RestorePCs
  <1> QED
    BY <1>1, <1>2, <1>3, <1>4, <1>5

LEMMA DRestoreIncoming ==
    ASSUME Prompt, DInv, IInv', RestoreIncoming
    PROVE  DInv'
  <1>1. op.pc = "rest_incoming" /\ UNCHANGED <<data, saved>>
    BY DEF RestoreIncoming
  <1>2. PICK P \in Pids, v \in VMs : P = op.qemu /\ v = op.vm
    BY <1>1, RestoreFacts
  <1> DEFINE q == procs[P]
             m == MigrateIncoming(q, op.snap)
  <1>3. PICK x \in Execute(q, m, "ok") :
         \/ x.got = "err" /\ DropLocal
         \/ /\ x.got # "err"
            /\ procs' = [procs EXCEPT ![P] = x.q]
            /\ op' = [op EXCEPT !.pc = "rest_wait"]
            /\ UNCHANGED vms
    BY <1>2, Zenon DEF RestoreIncoming
  <1>4. CASE DropLocal
    BY <1>1, <1>4, DDropLocal
  <1>5. CASE /\ x.got # "err"
             /\ procs' = [procs EXCEPT ![P] = x.q]
             /\ op' = [op EXCEPT !.pc = "rest_wait"]
             /\ UNCHANGED vms
    <2>1. /\ q \in QemuProc /\ q.unread = << >> /\ RestoreOK /\ op.snap \in Layers
          /\ Live(P) => q.vm = v /\ ProcOK(P)
      BY <1>1, <1>2, RestoreFacts
    <2>2. /\ m \in QemuProc /\ m.unread = q.unread /\ m.vm = q.vm /\ m.run = q.run
          /\ m.node = q.node /\ m.top = q.top /\ m.view = q.view
          /\ m.mig = "active" /\ m.migTag = op.snap
      BY <2>1 DEF MigrateIncoming, QemuProc, MigState
    <2> HIDE DEF m
    <2>3. x.q = m /\ Live(P)
      BY <1>3, <1>5, <2>1, <2>2, ExecuteNow DEF Live
    <2>4. procs'[P] = m /\ \A r \in Pids : r # P => procs'[r] = procs[r]
      BY <1>5, <2>3 DEF DInv, IInv, TypeOK
    <2>5. /\ op'.pc = "rest_wait" /\ op'.vm = v /\ op'.qemu = P /\ op'.snap = op.snap
          /\ op'.i = op.i
      BY <1>2, <1>5 DEF Operation, DInv, IInv, TypeOK
    <2>6. q.run = "inmigrate"
      BY <1>1, <1>2, <2>3 DEF DInv, IncomingOK
    <2>7. ProcOK(P)'
      <3>1. \A d \in Disks :
                 /\ procs'[P].node[d] <= vms'[v].seq /\ procs'[P].top[d] <= vms'[v].seq
                 /\ procs'[P].top[d] = procs'[P].node[d] =>
                      procs'[P].node[d] = vms'[v].active[d]
                 /\ \A n \in vms'[v].snapshots : procs'[P].top[d] # vms'[v].bases[n][d]
        BY <1>5, <2>1, <2>2, <2>3, <2>4 DEF ProcOK
      <3>2. \A d \in Disks : data'[v][d][procs'[P].top[d]] = saved'[v][op'.snap][d]
        BY <1>1, <2>1, <2>2, <2>3, <2>4, <2>5, <2>6 DEF ProcOK
      <3>3. /\ procs'[P].vm = v /\ procs'[P].run = "inmigrate"
            /\ procs'[P].migTag = op'.snap
        BY <2>1, <2>2, <2>3, <2>4, <2>5, <2>6
      <3> QED
        BY <2>5, <3>1, <3>2, <3>3, ProcNow
    <2>8. ASSUME NEW r \in Pids, r # P, Live(r)'
          PROVE  ProcOK(r)'
      <3>1. Live(r) /\ SameQemu(r) /\ ProcOK(r)
        BY <2>4, <2>8 DEF Live, SameQemu, DInv
      <3>2. SameRestore(r) /\ SameEntry(procs[r].vm) /\ SameFiles(procs[r].vm)
        BY <1>1, <1>2, <1>5, <2>4, <2>8, Waiting DEF SameRestore, SameEntry, SameFiles
      <3> QED
        BY <3>1, <3>2, ProcStill
    <2>9. Unread' /\ Qemus'
      BY <2>1, <2>2, <2>4, <2>7, <2>8 DEF Unread, Qemus, DInv
    <2>10. Entries'
      <3>1. \A u \in VMs : SameEntry(u) /\ SameFiles(u)
        BY <1>1, <1>5 DEF SameEntry, SameFiles
      <3> QED
        BY <3>1, EntryStill DEF Entries, DInv
    <2>11. Operating'
      <3>1. RestoreOK'
        BY <1>1, <1>2, <1>5, <2>1, <2>5 DEF RestoreOK, NewTag
      <3> QED
        BY <2>5, <3>1 DEF Operating, SnapshotPCs, RestorePCs
    <2> QED
      BY <2>9, <2>10, <2>11 DEF DInv, Unread, Entries, Qemus, Operating
  <1> QED
    BY <1>3, <1>4, <1>5

LEMMA DRestoreWait ==
    ASSUME Prompt, DInv, IInv', RestoreWait
    PROVE  DInv'
  <1>1. op.pc = "rest_wait" /\ UNCHANGED <<data, saved>>
    BY DEF RestoreWait
  <1>2. PICK P \in Pids, v \in VMs : P = op.qemu /\ v = op.vm
    BY <1>1, RestoreFacts
  <1> DEFINE q == procs[P]
  <1>3. PICK x \in Execute(q, q, q.run) :
         \/ DropLocal
         \/ /\ x.got \notin {"err", "inmigrate", "io-error"}
            /\ procs' = [procs EXCEPT ![P] = x.q]
            /\ op' = [op EXCEPT !.pc = "rest_cont"]
            /\ UNCHANGED vms
    BY <1>2, Zenon DEF RestoreWait
  <1>4. CASE DropLocal
    BY <1>1, <1>4, DDropLocal
  <1>5. CASE /\ x.got \notin {"err", "inmigrate", "io-error"}
             /\ procs' = [procs EXCEPT ![P] = x.q]
             /\ op' = [op EXCEPT !.pc = "rest_cont"]
             /\ UNCHANGED vms
    <2>1. q \in QemuProc /\ q.unread = << >> /\ RestoreOK
      BY <1>1, <1>2, RestoreFacts
    <2>2. x.q = q /\ q.run # "inmigrate"
      BY <1>3, <1>5, <2>1, ExecuteNow
    <2>3. \A p \in Pids : procs'[p] = procs[p]
      BY <1>5, <2>2 DEF DInv, IInv, TypeOK
    <2>4. \A p \in Pids : /\ procs'[p].unread = << >>
                          /\ Live(p)' => Live(p) /\ SameQemu(p)
      BY <2>3 DEF DInv, SameQemu, Live
    <2>5. \A p \in Pids : SameRestore(p)
      BY <1>2, <2>2, <2>3, Waiting DEF SameRestore
    <2>6. \A u \in VMs : SameEntry(u)
      BY <1>5 DEF SameEntry
    <2>7. Unread' /\ Entries' /\ Qemus'
      BY <1>1, <2>4, <2>5, <2>6, QuietStep
    <2>8. op'.pc = "rest_cont" /\ op'.vm = op.vm /\ op'.snap = op.snap
      BY <1>5 DEF Operation, DInv, IInv, TypeOK
    <2>9. RestoreOK'
      BY <1>1, <1>5, <2>1, <2>8 DEF RestoreOK, NewTag
    <2>10. Operating'
      BY <2>8, <2>9 DEF Operating, SnapshotPCs, RestorePCs
    <2> QED
      BY <2>7, <2>10 DEF DInv, Unread, Entries, Qemus, Operating
  <1> QED
    BY <1>3, <1>4, <1>5

-----------------------------------------------------------------------------
(***************************************************************************)
(* The induction.                                                          *)
(***************************************************************************)
LEMMA DInit ==
    ASSUME Init
    PROVE  DInv
  <1>1. IInv
    BY IInvInit
  <1>2. \A p \in Pids : procs[p].unread = << >> /\ ~ Live(p)
    BY DEF Init, NoProc, Live
  <1>3. \A v \in VMs : EntryOK(v)
    BY DEF Init, NoEntry, EntryOK
  <1>4. op.pc = "idle"
    BY DEF Init, NoOp
  <1> QED
    BY <1>1, <1>2, <1>3, <1>4 DEF DInv, SnapshotPCs, RestorePCs

LEMMA DStutter ==
    ASSUME DInv, IInv', UNCHANGED vars
    PROVE  DInv'
  <1>1. UNCHANGED <<vms, op, procs, data, saved>>
    BY DEF vars
  <1>2. \A p \in Pids : /\ procs'[p].unread = << >>
                        /\ Live(p)' => Live(p) /\ SameQemu(p)
    BY <1>1, QuietUnchanged
  <1> QED
    BY <1>1, <1>2, DOutside

LEMMA DStep ==
    ASSUME Prompt, DInv, [Next]_vars
    PROVE  DInv'
  <1>1. IInv'
    BY IInvStep DEF DInv
  <1>2. CASE Call
    BY <1>1, <1>2, DCreate, DDelete, DPauseResume, DStop, DBootBegin, DSnapshotBegin,
       DRestoreBegin DEF Call
  <1>3. CASE Proceed
    BY <1>1, <1>3, DBootSpawn, DBootCont, DSnapshotStatus, DSnapshotPause,
       DSnapshotOverlay, DSnapshotMigrate, DSnapshotWait, DSnapshotCont, DSnapshotHash,
       DRestoreOverlay, DRestoreSpawn, DRestoreIncoming, DRestoreWait, DRestoreCont
       DEF Proceed
  <1>4. CASE SnapshotPoll
    BY <1>1, <1>4, DSnapshotPoll
  <1>5. CASE Environment
    BY <1>1, <1>5, DGuestWrite, DIoError, DQemuExit, DMigrationCompletes,
       DMigrationFails, DLoadCompletes DEF Environment
  <1>6. CASE UNCHANGED vars
    BY <1>1, <1>6, DStutter
  <1> QED
    BY <1>2, <1>3, <1>4, <1>5, <1>6 DEF Next

(***************************************************************************)
(* The inductive invariant: if no reply comes after the read timeout of    *)
(* execute(), entries, disk layers, RAM states and QEMUs fit together as   *)
(* DInv says, through every boot, snapshot and restore, whichever of their *)
(* commands fail and whatever the guests write in between.                 *)
(***************************************************************************)
THEOREM DiskInvariance ==
    ASSUME Prompt
    PROVE  Spec => []DInv
  BY DInit, DStep, PTL DEF Spec

(***************************************************************************)
(* The RAM state and the frozen layers of every recorded snapshot are of   *)
(* one instant, for any number of disks.                                   *)
(***************************************************************************)
THEOREM SnapshotsAreConsistent ==
    ASSUME Prompt
    PROVE  Spec => []SnapshotConsistent
  <1>1. DInv => SnapshotConsistent
    BY DEF DInv, EntryOK, SnapshotConsistent
  <1> QED
    BY <1>1, DiskInvariance, PTL

(***************************************************************************)
(* A guest whose RAM is loaded finds on its disks what it last saw there.  *)
(***************************************************************************)
THEOREM GuestsAreConsistent ==
    ASSUME Prompt
    PROVE  Spec => []GuestConsistent
  <1>1. DInv => GuestConsistent
    BY DEF DInv, ProcOK, GuestConsistent, Live
  <1> QED
    BY <1>1, DiskInvariance, PTL

-----------------------------------------------------------------------------
(***************************************************************************)
(* What a snapshot stands on is never exchanged: an entry changes only     *)
(* where nothing is recorded yet.                                          *)
(***************************************************************************)
BasesKept ==
    \A v \in VMs : \A n \in vms[v].snapshots \cap vms'[v].snapshots :
        vms'[v].bases[n] = vms[v].bases[n]

LEMMA EntryExchanged ==
    ASSUME TypeOK, NEW v \in VMs, NEW f, vms' = [vms EXCEPT ![v] = f],
           \A n \in vms[v].snapshots \cap f.snapshots : f.bases[n] = vms[v].bases[n]
    PROVE  BasesKept
  <1>1. vms'[v] = f /\ \A u \in VMs : u # v => vms'[u] = vms[u]
    BY DEF TypeOK
  <1> QED
    BY <1>1 DEF BasesKept

LEMMA QuietBases ==
    ASSUME \A v \in VMs : SameEntry(v)
    PROVE  BasesKept
  BY DEF SameEntry, BasesKept

LEMMA BasesCall ==
    ASSUME DInv, Call
    PROVE  BasesKept
  <1>1. PICK v \in VMs :
          \/ Create(v) \/ Delete(v) \/ Pause(v) \/ Resume(v) \/ Stop(v) \/ BootBegin(v)
          \/ SnapshotBegin(v) \/ \E n \in Tags : RestoreBegin(v, n)
    BY DEF Call
  <1>2. TypeOK /\ IInv /\ vms[v] \in VmEntry
    BY DEF DInv, IInv, TypeOK
  <1>3. CASE Create(v) \/ Delete(v)
    <2>1. PICK f : vms' = [vms EXCEPT ![v] = f] /\ f.snapshots = {}
      <3>1. [NoEntry EXCEPT !.state = "Defined"].snapshots = {} /\ NoEntry.snapshots = {}
        BY DEF NoEntry
      <3> QED
        BY <1>3, <3>1 DEF Create, Delete
    <2> QED
      BY <1>2, <2>1, EntryExchanged
  <1>4. CASE Pause(v) \/ Resume(v)
    BY <1>2, <1>4, QuietEntry, QuietBases DEF Pause, Resume
  <1>5. CASE Stop(v)
    BY <1>2, <1>5, QuietEntry, QuietBases DEF Stop
  <1>6. CASE BootBegin(v)
    BY <1>6 DEF BootBegin, BasesKept
  <1>7. CASE SnapshotBegin(v)
    <2>1. PICK f : vms' = [vms EXCEPT ![v] = f] /\ f.bases = vms[v].bases
      <3> DEFINE e1 == [vms[v] EXCEPT !.seq = vms[v].seq + 1]
                 e2 == [vms[v] EXCEPT !.seq = vms[v].seq + 1, !.state = To.SnapshotBegin]
      <3>1. e1.bases = vms[v].bases /\ e2.bases = vms[v].bases
        BY <1>2 DEF VmEntry
      <3>2. vms' = [vms EXCEPT ![v] = e1] \/ vms' = [vms EXCEPT ![v] = e2]
        BY <1>7 DEF SnapshotBegin
      <3> HIDE DEF e1, e2
      <3> QED
        BY <3>1, <3>2
    <2> QED
      BY <1>2, <2>1, EntryExchanged
  <1>8. CASE \E n \in Tags : RestoreBegin(v, n)
    <2>1. CASE vms' = [vms EXCEPT ![v].runtime = NoPid]
      BY <1>2, <2>1, QuietEntry, QuietBases
    <2>2. CASE vms' = [vms EXCEPT ![v] = [@ EXCEPT !.runtime = NoPid, !.seq = vms[v].seq + 1]]
      <3> DEFINE f == [vms[v] EXCEPT !.runtime = NoPid, !.seq = vms[v].seq + 1]
      <3>1. f.bases = vms[v].bases
        BY <1>2 DEF VmEntry
      <3>2. vms' = [vms EXCEPT ![v] = f]
        BY <2>2
      <3> HIDE DEF f
      <3> QED
        BY <1>2, <3>1, <3>2, EntryExchanged
    <2> QED
      BY <1>8, <2>1, <2>2 DEF RestoreBegin
  <1> QED
    BY <1>1, <1>3, <1>4, <1>5, <1>6, <1>7, <1>8

LEMMA BasesProceed ==
    ASSUME DInv, Proceed
    PROVE  BasesKept
  <1>1. TypeOK /\ IInv
    BY DEF DInv, IInv
  <1>2. CASE UNCHANGED vms
    BY <1>2 DEF BasesKept
  <1>3. CASE op.pc # "idle" /\ SnapshotFails
    <2>1. op.vm \in VMs
      BY <1>1, <1>3 DEF IInv, OpShape
    <2> QED
      BY <1>1, <1>3, <2>1, QuietEntry, QuietBases DEF SnapshotFails
  <1>4. CASE op.pc # "idle" /\ \E o \in {"Boot", "Restore"} : Install(o)
    <2>1. op.vm \in VMs
      BY <1>1, <1>4 DEF IInv, OpShape
    <2> QED
      BY <1>1, <1>4, <2>1, QuietEntry, QuietBases DEF Install
  <1>5. CASE SnapshotHash
    <2>1. op.pc = "snap_hash" /\ op.pc \in SnapshotPCs /\ op.pc # "idle"
      BY <1>5 DEF SnapshotHash, SnapshotPCs
    <2>2. CASE SnapshotFails
      BY <1>3, <2>1, <2>2
    <2>3. CASE ~ SnapshotFails
      <3>1. PICK v \in VMs : v = op.vm /\ vms[v].seq \in Tags /\ vms[v] \in VmEntry
        BY <1>1, <2>1, SnapshotFacts DEF TypeOK
      <3>2. PICK f : /\ f = [vms[v] EXCEPT
                              !.state     = op.prior,
                              !.snapshots = vms[v].snapshots \cup {vms[v].seq},
                              !.bases     = [vms[v].bases EXCEPT ![vms[v].seq] = vms[v].active],
                              !.active    = [d \in Disks |-> vms[v].seq]]
                     /\ vms' = [vms EXCEPT ![v] = f]
        BY <1>5, <2>3, <3>1 DEF SnapshotHash
      <3>3. \A n \in Tags : n # vms[v].seq => f.bases[n] = vms[v].bases[n]
        BY <3>1, <3>2, RecordFields
      <3>4. \A n \in vms[v].snapshots : n \in Tags /\ n # vms[v].seq
        <4>1. \A n \in vms[v].snapshots : n \in Tags /\ n \in Nat /\ n < vms[v].seq
          BY <1>1, <2>1, <3>1, SnapshotFacts, EntryNumbers DEF SnapshotOK, NewTag
        <4> QED
          BY <4>1
      <3> QED
        BY <1>1, <3>1, <3>2, <3>3, <3>4, EntryExchanged, ZenonT(60)
    <2> QED
      BY <2>2, <2>3
  <1>6. CASE RestoreOverlay
    <2>1. UNCHANGED vms \/ \E A : vms' = [vms EXCEPT ![op.vm].active = A]
      BY <1>6 DEF RestoreOverlay
    <2>2. CASE \E A : vms' = [vms EXCEPT ![op.vm].active = A]
      <3>1. op.vm \in VMs /\ vms[op.vm] \in VmEntry
        BY <1>1, <1>6 DEF RestoreOverlay, IInv, OpShape, TypeOK
      <3>2. PICK A : vms' = [vms EXCEPT ![op.vm].active = A]
        BY <2>2
      <3> DEFINE f == [vms[op.vm] EXCEPT !.active = A]
      <3>3. f.bases = vms[op.vm].bases
        BY <3>1 DEF VmEntry
      <3>4. vms' = [vms EXCEPT ![op.vm] = f]
        BY <3>2
      <3> HIDE DEF f
      <3> QED
        BY <1>1, <3>1, <3>3, <3>4, EntryExchanged
    <2> QED
      BY <1>2, <2>1, <2>2
  <1>7. CASE BootSpawn \/ RestoreSpawn \/ RestoreIncoming \/ RestoreWait
    BY <1>2, <1>7 DEF BootSpawn, RestoreSpawn, RestoreIncoming, RestoreWait, DropLocal
  <1>8. CASE BootCont \/ RestoreCont
    BY <1>2, <1>4, <1>8 DEF BootCont, RestoreCont, DropLocal
  <1>9. CASE SnapshotStatus \/ SnapshotPause \/ SnapshotMigrate \/ SnapshotWait \/ SnapshotCont
    <2>1. op.pc # "idle" /\ (SnapshotFails \/ UNCHANGED vms)
      BY <1>9 DEF SnapshotStatus, SnapshotPause, SnapshotMigrate, SnapshotWait, SnapshotCont,
                  SnapshotGoesOn
    <2> QED
      BY <1>2, <1>3, <2>1
  <1>10. CASE SnapshotOverlay
    <2>1. op.pc # "idle" /\ (SnapshotFails \/ UNCHANGED vms)
      BY <1>10 DEF SnapshotOverlay
    <2> QED
      BY <1>2, <1>3, <2>1
  <1> QED
    BY <1>5, <1>6, <1>7, <1>8, <1>9, <1>10 DEF Proceed

(***************************************************************************)
(* The RAM state of a recorded snapshot is not written over.               *)
(***************************************************************************)
StatesKept ==
    \A v \in VMs : \A n \in vms[v].snapshots : saved'[v][n] = saved[v][n]

LEMMA StatesStep ==
    ASSUME DInv, [Next]_vars
    PROVE  StatesKept
  <1>1. CASE UNCHANGED saved
    BY <1>1 DEF StatesKept
  <1>2. ASSUME NEW p \in Pids, MigrationCompletes(p)
        PROVE  StatesKept
    <2>1. /\ procs[p].run \notin {"inmigrate", "exited"} /\ procs[p].mig = "active"
          /\ saved' = [saved EXCEPT ![procs[p].vm][procs[p].migTag] = procs[p].view]
      BY <1>2 DEF MigrationCompletes
    <2>2. PICK v, k : v = procs[p].vm /\ k = procs[p].migTag
      OBVIOUS
    <2>3. TypeOK /\ Live(p) /\ v \in VMs /\ k \in Layers /\ k \notin vms[v].snapshots
      <3>1. TypeOK /\ Live(p) /\ ProcOK(p)
        BY <2>1 DEF DInv, IInv, Live
      <3> QED
        BY <2>1, <2>2, <3>1, LiveOf, ProcNumbers DEF ProcOK, DInv
    <2>4. /\ \A n \in Layers : n # k => saved'[v][n] = saved[v][n]
          /\ \A u \in VMs : u # v => saved'[u] = saved[u]
      BY <2>1, <2>2, <2>3, StateWritten
    <2>5. \A u \in VMs : \A n \in vms[u].snapshots : n \in Layers
      BY <2>3, EntryNumbers
    <2> QED
      BY <2>3, <2>4, <2>5 DEF StatesKept
  <1>3. CASE Call
    BY <1>1, <1>3 DEF Call, Create, Delete, Pause, Resume, Stop, BootBegin, SnapshotBegin,
                      RestoreBegin
  <1>4. CASE Proceed
    BY <1>1, <1>4 DEF Proceed, BootSpawn, BootCont, SnapshotStatus, SnapshotPause,
         SnapshotOverlay, SnapshotMigrate, SnapshotWait, SnapshotCont, SnapshotHash,
         RestoreOverlay, RestoreSpawn, RestoreIncoming, RestoreWait, RestoreCont
  <1>5. CASE SnapshotPoll \/ UNCHANGED vars
    BY <1>1, <1>5 DEF SnapshotPoll, vars
  <1>6. CASE Environment
    BY <1>1, <1>2, <1>6 DEF Environment, GuestWrite, IoError, QemuExit, MigrationFails,
                            LoadCompletes
  <1> QED
    BY <1>3, <1>4, <1>5, <1>6 DEF Next

LEMMA BasesStep ==
    ASSUME DInv, [Next]_vars
    PROVE  BasesKept
  <1>1. CASE UNCHANGED vms
    BY <1>1 DEF BasesKept
  <1>2. CASE SnapshotPoll \/ UNCHANGED vars
    BY <1>1, <1>2 DEF SnapshotPoll, vars
  <1>3. CASE Environment
    BY <1>1, <1>3 DEF Environment, GuestWrite, IoError, QemuExit, MigrationCompletes,
                      MigrationFails, LoadCompletes
  <1> QED
    BY <1>2, <1>3, BasesCall, BasesProceed DEF Next

(***************************************************************************)
(* "restoring the same node repeatedly never mutates it": no step writes a *)
(* layer a recorded snapshot stands on, or exchanges it.  What the frozen  *)
(* layers hold is what the RAM state believes in, before and after every   *)
(* step, and that state is not written over.                               *)
(***************************************************************************)
THEOREM LayersStayFrozen ==
    ASSUME Prompt
    PROVE  Spec => FrozenLayers
  <1>1. ASSUME DInv, [Next]_vars
        PROVE  FrozenLayersKept
    <2>1. DInv'
      BY <1>1, DStep
    <2>2. BasesKept /\ StatesKept
      BY <1>1, BasesStep, StatesStep
    <2>3. ASSUME NEW v \in VMs, NEW n \in vms[v].snapshots \cap vms'[v].snapshots,
                 NEW d \in Disks
          PROVE  /\ vms'[v].bases[n][d] = vms[v].bases[n][d]
                 /\ data'[v][d][vms[v].bases[n][d]] = data[v][d][vms[v].bases[n][d]]
      <3>1. saved[v][n][d] = data[v][d][vms[v].bases[n][d]]
        BY <1>1, <2>3 DEF DInv, EntryOK
      <3>2. saved'[v][n][d] = data'[v][d][vms'[v].bases[n][d]]
        BY <2>1, <2>3 DEF DInv, EntryOK
      <3>3. vms'[v].bases[n] = vms[v].bases[n] /\ saved'[v][n] = saved[v][n]
        BY <2>2, <2>3 DEF BasesKept, StatesKept
      <3> QED
        BY <3>1, <3>2, <3>3
    <2> QED
      BY <2>3 DEF FrozenLayersKept
  <1> QED
    BY <1>1, DiskInvariance, PTL DEF Spec, FrozenLayers
=============================================================================
