----------------------------- MODULE Lifecycle -----------------------------
(***************************************************************************)
(* What the Hypervisor trait promises its callers about the state of a VM  *)
(* (crates/vmforge-core/src/lib.rs): a VM comes into being Defined, moves  *)
(* along the edges of VmState::transition only, and a snapshot brings it   *)
(* back to the state it was taken in.  The backend is shown to implement   *)
(* this specification (module HvfBackend, property ImplementsLifecycle).   *)
(***************************************************************************)
EXTENDS VmState

CONSTANT VMs                    \* the names VMs are created under

VARIABLES
    state,                      \* lifecycle state of every VM
    prior                       \* where a VM in Snapshotting returns to

vars == <<state, prior>>

NoPrior == "none"               \* prior of a VM that is not Snapshotting

TypeOK ==
    /\ state \in [VMs -> VmStates \cup {Absent}]
    /\ prior \in [VMs -> Priors \cup {NoPrior}]

Init ==
    /\ state = [v \in VMs |-> Absent]
    /\ prior = [v \in VMs |-> NoPrior]

-----------------------------------------------------------------------------
(***************************************************************************)
(* create: (none) -> Defined.                                              *)
(***************************************************************************)
Create(v) ==
    /\ state[v] = Absent
    /\ state' = [state EXCEPT ![v] = "Defined"]
    /\ UNCHANGED prior

(***************************************************************************)
(* boot, pause, resume, stop, restore and delete: one edge of the table.   *)
(***************************************************************************)
Apply(v, o) ==
    /\ state[v] \in From[o]
    /\ state' = [state EXCEPT ![v] = To[o]]
    /\ UNCHANGED prior

(***************************************************************************)
(* snapshot: into Snapshotting, and back to the state it came from.        *)
(***************************************************************************)
SnapshotBegin(v) ==
    /\ state[v] \in From.SnapshotBegin
    /\ state' = [state EXCEPT ![v] = "Snapshotting"]
    /\ prior' = [prior EXCEPT ![v] = state[v]]

SnapshotEnd(v) ==
    /\ state[v] = "Snapshotting"
    /\ state' = [state EXCEPT ![v] = prior[v]]
    /\ prior' = [prior EXCEPT ![v] = NoPrior]

Next ==
    \E v \in VMs :
        \/ Create(v)
        \/ \E o \in DOMAIN From \ {"SnapshotBegin"} : Apply(v, o)
        \/ SnapshotBegin(v)
        \/ SnapshotEnd(v)

(***************************************************************************)
(* Snapshotting is transient: a snapshot that begins ends.                 *)
(***************************************************************************)
Spec ==
    /\ Init
    /\ [][Next]_vars
    /\ \A v \in VMs : WF_vars(SnapshotEnd(v))
=============================================================================
