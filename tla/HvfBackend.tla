----------------------------- MODULE HvfBackend -----------------------------
(***************************************************************************)
(* The QEMU-driven backend of VMForge: HvfBackend                          *)
(* (crates/vmforge-backend-hvf/src/lib.rs), the QemuVm it drives           *)
(* (crates/vmforge-engine-qemu/src/vm.rs) and the QEMU child processes.    *)
(*                                                                         *)
(* Every trait operation takes the one mutex around the map of VMs and     *)
(* holds it until it returns, so at most one operation is in progress; an  *)
(* operation that sends several QMP commands or runs qemu-img is a         *)
(* sequence of steps, and between two of them the guest writes its disks,  *)
(* QEMU halts, finishes a migration or exits.                              *)
(*                                                                         *)
(* Data: a disk layer (a qcow2 file) is the number of the tag it was made  *)
(* for: 0 is the configured image, n the overlay snap{n}-disk{i} or        *)
(* branch{n}-disk{i}, whose numbers come from the one counter              *)
(* snapshot_seq.  The contents of a layer is the number of the last guest  *)
(* write visible through it.  A snapshot is identified by its tag (the     *)
(* code hashes the overlay paths, which hold the tag, into the id).        *)
(* Not kept: the parent of a snapshot, which nothing reads, and the        *)
(* calls that return an error before they change anything.                 *)
(***************************************************************************)
EXTENDS VmState, Naturals, Sequences

CONSTANTS
    VMs,            \* names VMs are created under
    NoVM,           \* no VM
    Pids,           \* operating-system processes QEMU may run in
    NoPid,          \* None in Option<QemuVm>
    NDisks,         \* number of disks in every VmConfig
    MaxSeq,         \* bound on snapshot_seq
    MaxWrites,      \* bound on the number of guest writes
    MaxUnread       \* bound on replies that arrive after the read timeout

ASSUME ConstantsAssumption ==
    /\ NoVM \notin VMs
    /\ NoPid \notin Pids
    /\ NDisks \in Nat \ {0}
    /\ MaxSeq \in Nat
    /\ MaxWrites \in Nat
    /\ MaxUnread \in Nat

VARIABLES
    vms,            \* HvfBackend::vms, one VmEntry per name
    op,             \* the operation that holds the mutex, with its locals
    procs,          \* the QEMU processes
    data,           \* data[v][d][n]: contents of layer n of disk d
    saved,          \* saved[v][n]: the disk contents the RAM state in
                    \* snap{n}-state.bin believes in
    writes          \* number of guest writes so far

vars == <<vms, op, procs, data, saved, writes>>

-----------------------------------------------------------------------------
(***************************************************************************)
(* Types.                                                                  *)
(***************************************************************************)
Disks  == 0 .. NDisks - 1
Tags   == 1 .. MaxSeq
Layers == 0 .. MaxSeq
Value  == 0 .. MaxWrites
Stack  == [Disks -> Layers]         \* one layer of every disk
View   == [Disks -> Value]          \* one value of every disk

VmEntry ==
    [state     : VmStates \cup {Absent},
     runtime   : Pids \cup {NoPid},
     seq       : Layers,                  \* snapshot_seq
     active    : Stack,                   \* active_disks
     snapshots : SUBSET Tags,
     bases     : [Tags -> Stack]]         \* disk_bases of each snapshot

NoEntry ==
    [state |-> Absent, runtime |-> NoPid, seq |-> 0,
     active |-> [d \in Disks |-> 0], snapshots |-> {},
     bases |-> [n \in Tags |-> [d \in Disks |-> 0]]]

RunState  == {"prelaunch", "inmigrate", "running", "paused", "postmigrate",
              "io-error", "exited"}
MigState  == {"none", "active", "completed", "failed"}
Reply     == {"ok", "err"} \cup RunState \cup MigState

QemuProc ==
    [vm     : VMs \cup {NoVM},
     run    : RunState,                   \* query-status
     node   : Stack,                      \* what node disk{i} was opened on
     top    : Stack,                      \* the layer the guest writes
     view   : View,                       \* what guest RAM takes the disks for
     mig    : MigState,                   \* query-migrate
     migTag : Layers,                     \* the state file of that migration
     unread : Seq(Reply)]                 \* replies no execute() has read yet

NoProc ==
    [vm |-> NoVM, run |-> "exited", node |-> [d \in Disks |-> 0],
     top |-> [d \in Disks |-> 0], view |-> [d \in Disks |-> 0],
     mig |-> "none", migTag |-> 0, unread |-> <<>>]

SnapshotPCs == {"snap_status", "snap_pause", "snap_overlay", "snap_migrate",
                "snap_wait", "snap_cont", "snap_hash"}
BootPCs     == {"boot_spawn", "boot_cont"}
RestorePCs  == {"rest_overlay", "rest_spawn", "rest_incoming", "rest_wait",
                "rest_cont"}

NoPrior == "none"

Operation ==
    [pc         : SnapshotPCs \cup BootPCs \cup RestorePCs \cup {"idle"},
     vm         : VMs \cup {NoVM},
     qemu       : Pids \cup {NoPid},      \* the QemuVm not yet in the entry
     prior      : Priors \cup {NoPrior},
     wasRunning : BOOLEAN,
     i          : 0 .. NDisks,            \* disks done
     snap       : Layers]                 \* the snapshot being restored

NoOp == [pc |-> "idle", vm |-> NoVM, qemu |-> NoPid, prior |-> NoPrior,
         wasRunning |-> FALSE, i |-> 0, snap |-> 0]

TypeOK ==
    /\ vms \in [VMs -> VmEntry]
    /\ op \in Operation
    /\ procs \in [Pids -> QemuProc]
    /\ data \in [VMs -> [Disks -> [Layers -> Value]]]
    /\ saved \in [VMs -> [Layers -> View]]
    /\ writes \in Value

Init ==
    /\ vms = [v \in VMs |-> NoEntry]
    /\ op = NoOp
    /\ procs = [p \in Pids |-> NoProc]
    /\ data = [v \in VMs |-> [d \in Disks |-> [n \in Layers |-> 0]]]
    /\ saved = [v \in VMs |-> [n \in Layers |-> [d \in Disks |-> 0]]]
    /\ writes = 0

Idle == op.pc = "idle"                    \* the mutex is free

(***************************************************************************)
(* The processes some handle (an entry's runtime, or the local of boot or  *)
(* restore) refers to.  The process id of an exited child is not reused    *)
(* while a Child value still refers to it.                                 *)
(***************************************************************************)
Handles == {vms[v].runtime : v \in VMs} \cup {op.qemu}

-----------------------------------------------------------------------------
(***************************************************************************)
(* One QMP exchange (QmpClient::execute, read with module QmpClient).      *)
(*                                                                         *)
(* Commands carry no id: execute() returns the first reply in the socket,  *)
(* whichever command it answers.  An outcome is what execute() returned    *)
(* ("err" for Err) and the QEMU process afterwards.  r is the answer to    *)
(* this command; the answer is returned, or it does not parse, or it comes *)
(* after the read timeout and stays in the socket.                         *)
(***************************************************************************)
Replies(q, r) ==
    LET queue == Append(q.unread, r) IN
    {[got |-> g, q |-> [q EXCEPT !.unread = Tail(queue)]]
        : g \in {Head(queue), "err"}}
    \cup
    IF Len(queue) <= MaxUnread
    THEN {[got |-> "err", q |-> [q EXCEPT !.unread = queue]]}
    ELSE {}

(***************************************************************************)
(* QEMU q executes the command, which turns it into q2, and answers r; or  *)
(* it refuses the command; or it is gone and the write or the read fails.  *)
(***************************************************************************)
Execute(q, q2, r) ==
    IF q.run = "exited"
    THEN {[got |-> "err", q |-> q]}
    ELSE Replies(q2, r) \cup Replies(q, "err")

(***************************************************************************)
(* What the commands do to QEMU.                                           *)
(*                                                                         *)
(* blockdev-snapshot-sync addresses the disk by the node it was opened     *)
(* under.  QEMU refuses it once that node is the backing file of another   *)
(* overlay, i.e. after an earlier snapshot of the same process.            *)
(***************************************************************************)
Cont(q) == IF q.run = "inmigrate" THEN q ELSE [q EXCEPT !.run = "running"]
Halt(q) == IF q.run = "running" THEN [q EXCEPT !.run = "paused"] ELSE q

CanOverlay(q, d) == q.top[d] = q.node[d]
AddOverlay(q, d, n) == [q EXCEPT !.top[d] = n]

CanMigrate(q) == q.mig # "active" /\ q.run \notin {"inmigrate", "postmigrate"}
Migrate(q, n) == [q EXCEPT !.mig = "active", !.migTag = n]

MigrateIncoming(q, n) == [q EXCEPT !.mig = "active", !.migTag = n]

-----------------------------------------------------------------------------
(***************************************************************************)
(* What the environment does to QEMU between two steps of the backend.     *)
(***************************************************************************)

(* The guest writes disk d, and remembers that it did. *)
GuestWrite(p, d) ==
    /\ procs[p].run = "running"
    /\ writes < MaxWrites
    /\ writes' = writes + 1
    /\ data' = [data EXCEPT ![procs[p].vm][d][procs[p].top[d]] = writes + 1]
    /\ procs' = [procs EXCEPT ![p] = [@ EXCEPT !.view[d] = writes + 1]]
    /\ UNCHANGED <<vms, op, saved>>

(* QEMU stops the guest by itself, on a write error (a full host disk). *)
IoError(p) ==
    /\ procs[p].run = "running"
    /\ procs' = [procs EXCEPT ![p] = [@ EXCEPT !.run = "io-error"]]
    /\ UNCHANGED <<vms, op, data, saved, writes>>

(* The guest powers off, or QEMU crashes: the process is gone. *)
QemuExit(p) ==
    /\ procs[p].run # "exited"
    /\ procs' = [procs EXCEPT ![p] = NoProc]
    /\ UNCHANGED <<vms, op, data, saved, writes>>

(* An outgoing migration ends: the RAM state is in the file, and the guest *)
(* is halted.                                                              *)
MigrationCompletes(p) ==
    /\ procs[p].mig = "active"
    /\ procs[p].run \notin {"inmigrate", "exited"}
    /\ saved' = [saved EXCEPT ![procs[p].vm][procs[p].migTag] = procs[p].view]
    /\ procs' = [procs EXCEPT ![p] =
                   [@ EXCEPT !.mig = "completed", !.run = "postmigrate"]]
    /\ UNCHANGED <<vms, op, data, writes>>

MigrationFails(p) ==
    /\ procs[p].mig = "active"
    /\ procs[p].run \notin {"inmigrate", "exited"}
    /\ procs' = [procs EXCEPT ![p] = [@ EXCEPT !.mig = "failed"]]
    /\ UNCHANGED <<vms, op, data, saved, writes>>

(* The incoming RAM state is loaded: the guest resumes from what it knew   *)
(* when the state was saved, still halted (-S).                            *)
LoadCompletes(p) ==
    /\ procs[p].mig = "active"
    /\ procs[p].run = "inmigrate"
    /\ procs' = [procs EXCEPT ![p] =
                   [@ EXCEPT !.mig = "none", !.run = "paused",
                             !.view = saved[procs[p].vm][procs[p].migTag]]]
    /\ UNCHANGED <<vms, op, data, saved, writes>>

Environment ==
    \E p \in Pids :
        \/ \E d \in Disks : GuestWrite(p, d)
        \/ IoError(p)
        \/ QemuExit(p)
        \/ MigrationCompletes(p)
        \/ MigrationFails(p)
        \/ LoadCompletes(p)

-----------------------------------------------------------------------------
(***************************************************************************)
(* The operations that are one step under the mutex.                       *)
(***************************************************************************)

(* create: only a configuration build_aarch64_virt accepts gets here. *)
Create(v) ==
    /\ Idle
    /\ vms[v].state = Absent
    /\ vms' = [vms EXCEPT ![v] = [NoEntry EXCEPT !.state = "Defined"]]
    /\ UNCHANGED <<op, procs, data, saved, writes>>

(* delete: the entry goes (and with it a QemuVm it may hold); the files in *)
(* the VM's directory stay.                                                *)
Delete(v) ==
    /\ Idle
    /\ vms[v].state \in From.Delete
    /\ vms' = [vms EXCEPT ![v] = NoEntry]
    /\ procs' = [p \in Pids |-> IF p = vms[v].runtime THEN NoProc ELSE procs[p]]
    /\ UNCHANGED <<op, data, saved, writes>>

(* pause and resume: one QMP command; Err leaves the recorded state alone. *)
Pause(v) ==
    /\ Idle
    /\ vms[v].state \in From.Pause
    /\ vms[v].runtime # NoPid
    /\ LET q == procs[vms[v].runtime] IN
       \E x \in Execute(q, Halt(q), "ok") :
         /\ procs' = [procs EXCEPT ![vms[v].runtime] = x.q]
         /\ vms' = [vms EXCEPT ![v].state = IF x.got = "err" THEN @ ELSE To.Pause]
    /\ UNCHANGED <<op, data, saved, writes>>

Resume(v) ==
    /\ Idle
    /\ vms[v].state \in From.Resume
    /\ vms[v].runtime # NoPid
    /\ LET q == procs[vms[v].runtime] IN
       \E x \in Execute(q, Cont(q), "ok") :
         /\ procs' = [procs EXCEPT ![vms[v].runtime] = x.q]
         /\ vms' = [vms EXCEPT ![v].state = IF x.got = "err" THEN @ ELSE To.Resume]
    /\ UNCHANGED <<op, data, saved, writes>>

(* quit: whether it returns Ok or an I/O error of try_wait, kill or wait,  *)
(* the QemuVm is consumed and its process is gone (Drop kills it).         *)
Quit(p) == procs' = [x \in Pids |-> IF x = p THEN NoProc ELSE procs[x]]

(* Mutant of Stop: the runtime is not taken out of the entry and quit. *)
Stop_KeepsRuntime(v) ==
    /\ Idle
    /\ vms[v].state \in From.Stop
    /\ vms' = [vms EXCEPT ![v].state = To.Stop]
    /\ UNCHANGED <<op, procs, data, saved, writes>>

Stop(v) ==
    /\ Idle
    /\ vms[v].state \in From.Stop
    /\ Quit(vms[v].runtime)
    /\ \E s \in {To.Stop} \cup (IF vms[v].runtime = NoPid THEN {} ELSE {vms[v].state}) :
         vms' = [vms EXCEPT ![v] = [@ EXCEPT !.runtime = NoPid, !.state = s]]
    /\ UNCHANGED <<op, data, saved, writes>>

-----------------------------------------------------------------------------
(***************************************************************************)
(* boot: spawn QEMU halted on the active layers, then cont.                *)
(***************************************************************************)

(* Mutant of DropLocal: no Drop, the child outlives its handle. *)
DropLocal_Leak ==
    /\ op' = NoOp
    /\ UNCHANGED <<vms, procs>>

(* Drop of the local QemuVm: boot or restore returns Err. *)
DropLocal ==
    /\ procs' = [p \in Pids |-> IF p = op.qemu THEN NoProc ELSE procs[p]]
    /\ op' = NoOp
    /\ UNCHANGED vms

(* The local QemuVm becomes the entry's runtime: boot or restore is done. *)
Install(o) ==
    /\ vms' = [vms EXCEPT ![op.vm] = [@ EXCEPT !.runtime = op.qemu, !.state = To[o]]]
    /\ op' = NoOp

BootBegin(v) ==
    /\ Idle
    /\ vms[v].state \in From.Boot
    /\ op' = [NoOp EXCEPT !.pc = "boot_spawn", !.vm = v]
    /\ UNCHANGED <<vms, procs, data, saved, writes>>

(***************************************************************************)
(* The process that build_aarch64_virt describes: a block node per active  *)
(* layer of the entry, and no vCPU runs (-S) until a cont; with run =      *)
(* "inmigrate" it also waits for a migrate-incoming (-incoming defer).     *)
(***************************************************************************)
Launched(v, run) ==
    LET a == vms[v].active IN
    [NoProc EXCEPT !.vm = v, !.run = run, !.node = a, !.top = a,
                   !.view = [d \in Disks |-> data[v][d][a[d]]]]

(* QemuVm::spawn, in boot and in restore.                                  *)
Spawn(run, next) ==
    \E p \in Pids \ Handles :
        /\ procs' = [procs EXCEPT ![p] = Launched(op.vm, run)]
        /\ op' = [op EXCEPT !.pc = next, !.qemu = p]

(* No binary, or no QMP handshake within the deadline: the child is killed *)
(* and waited for before spawn returns.                                    *)
SpawnFails == op' = NoOp /\ UNCHANGED procs

BootSpawn ==
    /\ op.pc = "boot_spawn"
    /\ Spawn("prelaunch", "boot_cont") \/ SpawnFails
    /\ UNCHANGED <<vms, data, saved, writes>>

BootCont ==
    /\ op.pc = "boot_cont"
    /\ LET q == procs[op.qemu] IN
       \E x \in Execute(q, Cont(q), "ok") :
         \/ x.got = "err" /\ DropLocal
         \/ /\ x.got # "err"
            /\ procs' = [procs EXCEPT ![op.qemu] = x.q]
            /\ Install("Boot")
    /\ UNCHANGED <<data, saved, writes>>

-----------------------------------------------------------------------------
(***************************************************************************)
(* snapshot: Snapshotting; status; stop if running; an overlay per disk;   *)
(* migrate to the state file and wait; cont if it was running; hash.       *)
(* Whatever QemuVm::snapshot returns, SnapshotEnd(prior) follows.          *)
(***************************************************************************)

(* Without a QEMU process the operation consumes a tag and returns Err. *)
SnapshotBegin(v) ==
    /\ Idle
    /\ vms[v].state \in From.SnapshotBegin
    /\ vms[v].seq < MaxSeq
    /\ \/ /\ vms[v].runtime = NoPid
          /\ vms' = [vms EXCEPT ![v] = [@ EXCEPT !.seq = vms[v].seq + 1]]
          /\ UNCHANGED op
       \/ /\ vms[v].runtime # NoPid
          /\ vms' = [vms EXCEPT ![v] = [@ EXCEPT !.seq = vms[v].seq + 1,
                                                 !.state = To.SnapshotBegin]]
          /\ op' = [NoOp EXCEPT !.pc = "snap_status", !.vm = v,
                                !.prior = vms[v].state]
    /\ UNCHANGED <<procs, data, saved, writes>>

(* Mutant of SnapshotFails: `?` on QemuVm::snapshot skips SnapshotEnd. *)
SnapshotFails_NoEnd ==
    /\ op' = NoOp
    /\ UNCHANGED vms

(* Mutant of SnapshotFails: the state of a guest left halted is recorded. *)
SnapshotFails_Paused ==
    /\ vms' = [vms EXCEPT ![op.vm].state = "Paused"]
    /\ op' = NoOp

SnapshotFails ==
    /\ vms' = [vms EXCEPT ![op.vm].state = op.prior]
    /\ op' = NoOp

SnapshotGoesOn(next) ==
    /\ op' = [op EXCEPT !.pc = next]
    /\ UNCHANGED vms

Runtime == vms[op.vm].runtime             \* the process being snapshotted

(* Mutant of SnapshotStatus: the guest is never stopped. *)
SnapshotStatus_NoPause ==
    /\ op.pc = "snap_status"
    /\ LET q == procs[Runtime] IN
       \E x \in Execute(q, q, q.run) :
         /\ procs' = [procs EXCEPT ![Runtime] = x.q]
         /\ IF x.got = "err" THEN SnapshotFails ELSE SnapshotGoesOn("snap_overlay")
    /\ UNCHANGED <<data, saved, writes>>

SnapshotStatus ==
    /\ op.pc = "snap_status"
    /\ LET q == procs[Runtime] IN
       \E x \in Execute(q, q, q.run) :
         /\ procs' = [procs EXCEPT ![Runtime] = x.q]
         /\ \/ x.got = "err" /\ SnapshotFails
            \/ /\ x.got = "running"
               /\ op' = [op EXCEPT !.pc = "snap_pause", !.wasRunning = TRUE]
               /\ UNCHANGED vms
            \/ x.got \notin {"err", "running"} /\ SnapshotGoesOn("snap_overlay")
    /\ UNCHANGED <<data, saved, writes>>

SnapshotPause ==
    /\ op.pc = "snap_pause"
    /\ LET q == procs[Runtime] IN
       \E x \in Execute(q, Halt(q), "ok") :
         /\ procs' = [procs EXCEPT ![Runtime] = x.q]
         /\ IF x.got = "err" THEN SnapshotFails ELSE SnapshotGoesOn("snap_overlay")
    /\ UNCHANGED <<data, saved, writes>>

(* The overlay of the next disk: a new file, as far as the guest can see a *)
(* copy of the layer under it, which it freezes.                           *)
SnapshotOverlay ==
    /\ op.pc = "snap_overlay"
    /\ LET q   == procs[Runtime]
           d   == op.i
           tag == vms[op.vm].seq
           q2  == IF CanOverlay(q, d) THEN AddOverlay(q, d, tag) ELSE q
       IN \E x \in Execute(q, q2, IF CanOverlay(q, d) THEN "ok" ELSE "err") :
            /\ procs' = [procs EXCEPT ![Runtime] = x.q]
            /\ data' = IF x.q.top[d] = q.top[d] THEN data
                       ELSE [data EXCEPT ![op.vm][d][tag] = data[op.vm][d][q.top[d]]]
            /\ IF x.got = "err" THEN SnapshotFails
               ELSE /\ op' = [op EXCEPT !.i = d + 1,
                                 !.pc = IF d + 1 = NDisks THEN "snap_migrate" ELSE @]
                    /\ UNCHANGED vms
    /\ UNCHANGED <<saved, writes>>

SnapshotMigrate ==
    /\ op.pc = "snap_migrate"
    /\ LET q  == procs[Runtime]
           q2 == IF CanMigrate(q) THEN Migrate(q, vms[op.vm].seq) ELSE q
       IN \E x \in Execute(q, q2, IF CanMigrate(q) THEN "ok" ELSE "err") :
            /\ procs' = [procs EXCEPT ![Runtime] = x.q]
            /\ IF x.got = "err" THEN SnapshotFails ELSE SnapshotGoesOn("snap_wait")
    /\ UNCHANGED <<data, saved, writes>>

(* wait_migration: a poll that ends the loop, or the 120 s deadline. *)
SnapshotWait ==
    /\ op.pc = "snap_wait"
    /\ LET q == procs[Runtime] IN
       \E x \in Execute(q, q, q.mig) :
         /\ procs' = [procs EXCEPT ![Runtime] = x.q]
         /\ \/ x.got = "completed"
               /\ SnapshotGoesOn(IF op.wasRunning THEN "snap_cont" ELSE "snap_hash")
            \/ x.got # "completed" /\ SnapshotFails
    /\ UNCHANGED <<data, saved, writes>>

(* A poll that does not. *)
SnapshotPoll ==
    /\ op.pc = "snap_wait"
    /\ LET q == procs[Runtime] IN
       \E x \in Execute(q, q, q.mig) :
         /\ x.got \notin {"err", "completed", "failed"}
         /\ procs' = [procs EXCEPT ![Runtime] = x.q]
    /\ UNCHANGED <<vms, op, data, saved, writes>>

SnapshotCont ==
    /\ op.pc = "snap_cont"
    /\ LET q == procs[Runtime] IN
       \E x \in Execute(q, Cont(q), "ok") :
         /\ procs' = [procs EXCEPT ![Runtime] = x.q]
         /\ IF x.got = "err" THEN SnapshotFails ELSE SnapshotGoesOn("snap_hash")
    /\ UNCHANGED <<data, saved, writes>>

(* Reading the state file may fail; otherwise the snapshot is recorded on  *)
(* the layers that were active, and the overlays become the active ones.   *)
SnapshotHash ==
    /\ op.pc = "snap_hash"
    /\ \/ SnapshotFails
       \/ /\ LET e == vms[op.vm] IN
             vms' = [vms EXCEPT ![op.vm] =
                [@ EXCEPT !.state     = op.prior,
                          !.snapshots = e.snapshots \cup {e.seq},
                          !.bases     = [e.bases EXCEPT ![e.seq] = e.active],
                          !.active    = [d \in Disks |-> e.seq]]]
          /\ op' = NoOp
    /\ UNCHANGED <<procs, data, saved, writes>>

-----------------------------------------------------------------------------
(***************************************************************************)
(* restore: quit a paused QEMU; fresh overlays on the frozen layers, which *)
(* become active; spawn on them, load the saved RAM state, cont.           *)
(***************************************************************************)
(* Mutant of RestoreBegin: a paused QEMU is not quit. *)
RestoreBegin_NoQuit(v, n) ==
    /\ Idle
    /\ vms[v].state \in From.Restore
    /\ n \in vms[v].snapshots
    /\ vms[v].seq < MaxSeq
    /\ vms' = [vms EXCEPT ![v] = [@ EXCEPT !.seq = vms[v].seq + 1]]
    /\ op' = [NoOp EXCEPT !.pc = "rest_overlay", !.vm = v, !.snap = n]
    /\ UNCHANGED <<procs, data, saved, writes>>

RestoreBegin(v, n) ==
    /\ Idle
    /\ vms[v].state \in From.Restore
    /\ n \in vms[v].snapshots
    /\ vms[v].seq < MaxSeq
    /\ Quit(vms[v].runtime)
    /\ \/ /\ vms' = [vms EXCEPT ![v] = [@ EXCEPT !.runtime = NoPid,
                                                 !.seq = vms[v].seq + 1]]
          /\ op' = [NoOp EXCEPT !.pc = "rest_overlay", !.vm = v, !.snap = n]
       \/ /\ vms[v].runtime # NoPid           \* quit() returned Err
          /\ vms' = [vms EXCEPT ![v].runtime = NoPid]
          /\ UNCHANGED op
    /\ UNCHANGED <<data, saved, writes>>

(* qemu-img create: an overlay n of disk d that reads as the layer b. *)
CreateOverlay(v, d, b, n) == [data EXCEPT ![v][d][n] = data[v][d][b]]

(* Mutant of RestoreOverlay: overlays on the active layers. *)
RestoreOverlay_OnActive ==
    /\ op.pc = "rest_overlay"
    /\ LET v == op.vm
           n == vms[v].seq
       IN /\ data' = [data EXCEPT ![v] = [d \in Disks |->
                         [@[d] EXCEPT ![n] = data[v][d][vms[v].active[d]]]]]
          /\ vms' = [vms EXCEPT ![v].active = [e \in Disks |-> n]]
    /\ op' = [op EXCEPT !.i = NDisks, !.pc = "rest_spawn"]
    /\ UNCHANGED <<procs, saved, writes>>

(* Mutant of RestoreOverlay: QEMU is given the frozen layers themselves. *)
RestoreOverlay_None ==
    /\ op.pc = "rest_overlay"
    /\ vms' = [vms EXCEPT ![op.vm].active = vms[op.vm].bases[op.snap]]
    /\ op' = [op EXCEPT !.i = NDisks, !.pc = "rest_spawn"]
    /\ UNCHANGED <<procs, data, saved, writes>>

RestoreOverlay ==
    /\ op.pc = "rest_overlay"
    /\ LET v == op.vm
           d == op.i
           n == vms[v].seq
       IN \/ op' = NoOp /\ UNCHANGED <<vms, data>>     \* qemu-img failed
          \/ /\ data' = CreateOverlay(v, d, vms[v].bases[op.snap][d], n)
             /\ IF d + 1 = NDisks
                THEN /\ vms' = [vms EXCEPT ![v].active = [e \in Disks |-> n]]
                     /\ op' = [op EXCEPT !.i = d + 1, !.pc = "rest_spawn"]
                ELSE /\ op' = [op EXCEPT !.i = d + 1]
                     /\ UNCHANGED vms
    /\ UNCHANGED <<procs, saved, writes>>

RestoreSpawn ==
    /\ op.pc = "rest_spawn"
    /\ Spawn("inmigrate", "rest_incoming") \/ SpawnFails
    /\ UNCHANGED <<vms, data, saved, writes>>

RestoreIncoming ==
    /\ op.pc = "rest_incoming"
    /\ LET q == procs[op.qemu] IN
       \E x \in Execute(q, MigrateIncoming(q, op.snap), "ok") :
         \/ x.got = "err" /\ DropLocal
         \/ /\ x.got # "err"
            /\ procs' = [procs EXCEPT ![op.qemu] = x.q]
            /\ op' = [op EXCEPT !.pc = "rest_wait"]
            /\ UNCHANGED vms
    /\ UNCHANGED <<data, saved, writes>>

(* Mutant of RestoreWait: a load that is not done is started over. *)
RestoreWait_Again ==
    /\ op.pc = "rest_wait"
    /\ LET q == procs[op.qemu] IN
       \E x \in Execute(q, q, q.run) :
         \/ /\ x.got \in {"err", "inmigrate", "io-error"}
            /\ procs' = [procs EXCEPT ![op.qemu] = NoProc]
            /\ op' = [op EXCEPT !.pc = "rest_spawn", !.qemu = NoPid]
         \/ /\ x.got \notin {"err", "inmigrate", "io-error"}
            /\ procs' = [procs EXCEPT ![op.qemu] = x.q]
            /\ op' = [op EXCEPT !.pc = "rest_cont"]
    /\ UNCHANGED <<vms, data, saved, writes>>

(* restore_incoming: poll until the run state leaves inmigrate, or the     *)
(* 120 s deadline.                                                         *)
RestoreWait ==
    /\ op.pc = "rest_wait"
    /\ LET q == procs[op.qemu] IN
       \E x \in Execute(q, q, q.run) :
         \/ x.got \in {"err", "inmigrate", "io-error"} /\ DropLocal
         \/ /\ x.got \notin {"err", "inmigrate", "io-error"}
            /\ procs' = [procs EXCEPT ![op.qemu] = x.q]
            /\ op' = [op EXCEPT !.pc = "rest_cont"]
            /\ UNCHANGED vms
    /\ UNCHANGED <<data, saved, writes>>

RestoreCont ==
    /\ op.pc = "rest_cont"
    /\ LET q == procs[op.qemu] IN
       \E x \in Execute(q, Cont(q), "ok") :
         \/ x.got = "err" /\ DropLocal
         \/ /\ x.got # "err"
            /\ procs' = [procs EXCEPT ![op.qemu] = x.q]
            /\ Install("Restore")
    /\ UNCHANGED <<data, saved, writes>>

-----------------------------------------------------------------------------
(* What callers ask for. *)
Call ==
    \E v \in VMs :
        \/ Create(v)
        \/ Delete(v)
        \/ Pause(v)
        \/ Resume(v)
        \/ Stop(v)
        \/ BootBegin(v)
        \/ SnapshotBegin(v)
        \/ \E n \in Tags : RestoreBegin(v, n)

(* The next step of the operation in progress. *)
Proceed ==
    \/ BootSpawn \/ BootCont
    \/ SnapshotStatus \/ SnapshotPause \/ SnapshotOverlay \/ SnapshotMigrate
    \/ SnapshotWait \/ SnapshotCont \/ SnapshotHash
    \/ RestoreOverlay \/ RestoreSpawn \/ RestoreIncoming \/ RestoreWait
    \/ RestoreCont

Next == Call \/ Proceed \/ SnapshotPoll \/ Environment

(***************************************************************************)
(* The thread inside an operation runs; every wait in it has a deadline    *)
(* (connect 10 s, read 30 s, migration 120 s, quit 10 s).  Callers, guests *)
(* and QEMU owe nothing.                                                   *)
(***************************************************************************)
Spec == Init /\ [][Next]_vars /\ WF_vars(Proceed)

-----------------------------------------------------------------------------
(***************************************************************************)
(* Properties.                                                             *)
(***************************************************************************)
Live(p) == procs[p].run # "exited"

(***************************************************************************)
(* No QEMU process is left behind: every live one is the runtime of its    *)
(* VM's entry or the local of the boot or restore in progress, whatever    *)
(* step of an operation failed (the `?` returns, Drop and take()).         *)
(***************************************************************************)
QemuOwned ==
    \A p \in Pids : Live(p) =>
        \/ procs[p].vm \in VMs /\ vms[procs[p].vm].runtime = p
        \/ op.qemu = p /\ op.vm = procs[p].vm

(***************************************************************************)
(* What an operation in progress knows: the inductive invariant behind     *)
(* QemuOwned, OneQemuPerVm, NoQemuAtRest and the refinement of Lifecycle.  *)
(* The locals of an operation exist only while it runs; a snapshot works   *)
(* on a VM that is Snapshotting and has a runtime; boot and restore work   *)
(* on a VM that has none.                                                  *)
(***************************************************************************)
OpShape ==
    /\ op.pc = "idle" => op = NoOp
    /\ op.pc # "idle" => op.vm \in VMs
    /\ op.pc \in SnapshotPCs =>
          /\ vms[op.vm].state = "Snapshotting"
          /\ vms[op.vm].runtime # NoPid
          /\ vms[op.vm].seq \in Tags
          /\ op.prior \in Priors
    /\ op.pc \in BootPCs =>
          vms[op.vm].state \in From.Boot /\ vms[op.vm].runtime = NoPid
    /\ op.pc \in RestorePCs =>
          /\ vms[op.vm].state \in From.Restore /\ vms[op.vm].runtime = NoPid
          /\ vms[op.vm].seq \in Tags
          /\ op.snap \in Tags
    /\ op.pc \notin SnapshotPCs => op.prior = NoPrior
    /\ op.pc \in {"snap_status", "snap_pause"} => op.i = 0
    /\ op.pc \in {"snap_overlay", "rest_overlay"} => op.i \in Disks
    /\ op.qemu # NoPid <=>
          op.pc \in {"boot_cont", "rest_incoming", "rest_wait", "rest_cont"}
    /\ \A v \in VMs : vms[v].state = "Snapshotting" =>
          op.pc \in SnapshotPCs /\ op.vm = v

(***************************************************************************)
(* Who holds which process: no two handles share one, a VM at rest holds   *)
(* none, and no process is without a handle.                               *)
(***************************************************************************)
AtRest == {Absent, "Defined", "Stopped"}

Ownership ==
    /\ \A v \in VMs : vms[v].state \in AtRest => vms[v].runtime = NoPid
    /\ \A v, w \in VMs : vms[v].runtime = vms[w].runtime /\ v # w
                          => vms[v].runtime = NoPid
    /\ \A v \in VMs : op.qemu # NoPid => vms[v].runtime # op.qemu
    /\ QemuOwned

IInv == TypeOK /\ OpShape /\ Ownership

(***************************************************************************)
(* Two QEMU processes never run the disks of one VM: boot and restore only *)
(* spawn when the entry holds no runtime.                                  *)
(***************************************************************************)
OneQemuPerVm ==
    \A p, r \in Pids : Live(p) /\ Live(r) /\ procs[p].vm = procs[r].vm => p = r

(***************************************************************************)
(* A VM that is Defined, Stopped or deleted runs no QEMU once no operation *)
(* is in progress ("no runtime resources allocated").                      *)
(***************************************************************************)
NoQemuAtRest ==
    Idle => \A p \in Pids : Live(p) =>
        vms[procs[p].vm].state \in {"Running", "Paused"}

(***************************************************************************)
(* The saved RAM state of a recorded snapshot and its frozen layers belong *)
(* to the same instant: what RAM takes every disk for is what the layers   *)
(* hold, although the overlays and the RAM are captured by separate        *)
(* commands.                                                               *)
(***************************************************************************)
SnapshotConsistent ==
    \A v \in VMs : \A n \in vms[v].snapshots : \A d \in Disks :
        saved[v][n][d] = data[v][d][vms[v].bases[n][d]]

(***************************************************************************)
(* A guest whose RAM is loaded finds on every disk what it last saw there, *)
(* after any sequence of boots, snapshots and restores.                    *)
(***************************************************************************)
GuestConsistent ==
    \A p \in Pids : procs[p].run \notin {"exited", "inmigrate"} =>
        \A d \in Disks :
            procs[p].view[d] = data[procs[p].vm][d][procs[p].top[d]]

(***************************************************************************)
(* "restoring the same node repeatedly never mutates it": no step changes  *)
(* a layer a recorded snapshot stands on.                                  *)
(***************************************************************************)
FrozenLayersKept ==
    \A v \in VMs : \A n \in vms[v].snapshots \cap vms'[v].snapshots :
        \A d \in Disks :
            /\ vms'[v].bases[n][d] = vms[v].bases[n][d]
            /\ data'[v][d][vms[v].bases[n][d]] = data[v][d][vms[v].bases[n][d]]

FrozenLayers == [][FrozenLayersKept]_vars

(***************************************************************************)
(* Why the three hold if no reply is late (MaxUnread = 0), the inductive   *)
(* invariant behind them.  Of an entry: what is recorded is not newer than *)
(* the last tag, and the active layers are not frozen ones.                *)
(***************************************************************************)
EntryOK(v) ==
    LET e == vms[v] IN
    /\ \A d \in Disks : e.active[d] <= e.seq
    /\ \A n \in e.snapshots : n <= e.seq
    /\ \A n \in e.snapshots : \A d \in Disks :
         /\ e.bases[n][d] <= e.seq
         /\ e.active[d] # e.bases[n][d]
         /\ saved[v][n][d] = data[v][d][e.bases[n][d]]

(***************************************************************************)
(* Of a QEMU: it writes no frozen layer, an overlay it can still be given  *)
(* goes on the active layer, and its migration is into no recorded file.   *)
(* A QEMU that waits for its RAM state is that of the restore in progress. *)
(***************************************************************************)
ProcOK(p) ==
    LET q == procs[p]
        e == vms[q.vm]
    IN
    /\ \A d \in Disks : /\ q.node[d] <= e.seq /\ q.top[d] <= e.seq
                        /\ q.top[d] = q.node[d] => q.node[d] = e.active[d]
                        /\ \A n \in e.snapshots : q.top[d] # e.bases[n][d]
    /\ q.run # "inmigrate" =>
         /\ q.mig = "active" => q.migTag \notin e.snapshots
         /\ \A d \in Disks : q.view[d] = data[q.vm][d][q.top[d]]
    /\ q.run = "inmigrate" =>
         /\ op.qemu = p /\ op.pc \in {"rest_incoming", "rest_wait"}
         /\ q.mig = "active" => q.migTag = op.snap
         /\ \A d \in Disks : data[q.vm][d][q.top[d]] = saved[q.vm][op.snap][d]

(***************************************************************************)
(* Of the operation in progress: its tag is new; a snapshot has halted the *)
(* guest before the first overlay, whose contents stay those of the layer  *)
(* under it until the RAM is saved; a restore has overlays that read as    *)
(* the frozen layers, and its QEMU waits until it is told what to load.    *)
(***************************************************************************)
NewTag(e) == \A n \in e.snapshots : n < e.seq /\ \A d \in Disks : e.bases[n][d] < e.seq

SnapshotOK ==
    LET v == op.vm
        e == vms[v]
    IN
    /\ NewTag(e) /\ \A d \in Disks : e.active[d] < e.seq
    /\ op.pc \in {"snap_migrate", "snap_wait", "snap_cont", "snap_hash"} => op.i = NDisks
    /\ op.pc \in {"snap_cont", "snap_hash"} =>
         \A d \in Disks : saved[v][e.seq][d] = data[v][d][e.active[d]]

HaltedOK ==
    LET v == op.vm
        e == vms[v]
        q == procs[e.runtime]
    IN
    /\ \A d \in Disks : q.node[d] < e.seq /\ (d < op.i => q.top[d] = e.seq)
    /\ op.pc \in {"snap_overlay", "snap_migrate", "snap_wait"} =>
         /\ q.run # "running"
         /\ \A d \in Disks : d < op.i => data[v][d][e.seq] = data[v][d][e.active[d]]
    /\ op.pc = "snap_wait" =>
         /\ q.mig = "active" => q.migTag = e.seq
         /\ q.mig = "completed" =>
              \A d \in Disks : saved[v][e.seq][d] = data[v][d][e.active[d]]
    /\ op.pc \in {"snap_cont", "snap_hash"} => q.mig # "active"

RestoreOK ==
    LET v == op.vm
        e == vms[v]
    IN
    /\ NewTag(e) /\ op.snap \in e.snapshots
    /\ op.pc = "rest_overlay" =>
         \A d \in Disks : d < op.i => data[v][d][e.seq] = data[v][d][e.bases[op.snap][d]]
    /\ op.pc = "rest_spawn" =>
         \A d \in Disks : data[v][d][e.active[d]] = saved[v][op.snap][d]

IncomingOK ==
    Live(op.qemu) => procs[op.qemu].run = "inmigrate" /\ procs[op.qemu].mig # "active"

DInv ==
    /\ IInv
    /\ \A p \in Pids : procs[p].unread = <<>>
    /\ \A v \in VMs : EntryOK(v)
    /\ \A p \in Pids : Live(p) => ProcOK(p)
    /\ op.pc \in SnapshotPCs => SnapshotOK /\ (Live(Runtime) => HaltedOK)
    /\ op.pc \in RestorePCs => RestoreOK
    /\ op.pc = "rest_incoming" => IncomingOK

(***************************************************************************)
(* The trait's promise (module Lifecycle): states move along the table     *)
(* only, a failed operation does not move them, and a snapshot returns to  *)
(* the state it was taken in.                                              *)
(***************************************************************************)
L == INSTANCE Lifecycle WITH
        state <- [v \in VMs |-> vms[v].state],
        prior <- [v \in VMs |-> IF op.vm = v THEN op.prior ELSE NoPrior]

ImplementsLifecycle == L!Spec

(***************************************************************************)
(* The safety part of that promise, without the fairness of SnapshotEnd.   *)
(***************************************************************************)
LifecycleSteps == L!Init /\ [][L!Next]_(L!vars)

(***************************************************************************)
(* Every operation returns and gives the mutex back, so that no VM stays   *)
(* locked out of every other operation.                                    *)
(***************************************************************************)
OperationsReturn == ~Idle ~> Idle

-----------------------------------------------------------------------------
(***************************************************************************)
(* What comments promise and the code does not keep.                       *)
(***************************************************************************)

(***************************************************************************)
(* core/src/lib.rs on snapshot: "the VM returns to its prior state".  A    *)
(* guest the snapshot found running and paused runs again when snapshot    *)
(* returns, unless QEMU died or halted it for an I/O error.                *)
(***************************************************************************)
SnapshotReturnsToPrior ==
    [][ /\ op.pc \in SnapshotPCs \ {"snap_status", "snap_pause"}
        /\ op.wasRunning
        /\ op'.pc = "idle"
        => procs'[Runtime].run \notin {"paused", "postmigrate"} ]_vars

(***************************************************************************)
(* state.rs on Paused: "RAM and device state retained".  A restore that    *)
(* returns Err to the caller and leaves the VM Paused leaves it the QEMU   *)
(* process that holds its RAM.                                             *)
(***************************************************************************)
PausedRetainsRam ==
    [][ op.pc \in RestorePCs /\ op'.pc = "idle" /\ vms'[op.vm].state = "Paused"
          => vms'[op.vm].runtime # NoPid ]_vars

(***************************************************************************)
(* state.rs on Stopped: "disk state retained".  When stop ends a QEMU, the *)
(* layers the next boot will open hold what its guest last saw on disk.    *)
(***************************************************************************)
StoppedRetainsDisk ==
    [][ \A v \in VMs :
          /\ vms[v].state \in From.Stop /\ vms'[v].state = "Stopped"
          /\ vms[v].runtime # NoPid /\ Live(vms[v].runtime)
          => \A d \in Disks :
               data'[v][d][vms'[v].active[d]] = procs[vms[v].runtime].view[d] ]_vars
=============================================================================
