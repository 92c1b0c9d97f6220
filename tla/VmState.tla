------------------------------ MODULE VmState ------------------------------
(***************************************************************************)
(* The lifecycle table of vmforge-core (crates/vmforge-core/src/state.rs): *)
(* VmState, VmOp and VmState::transition.  Every backend consults this     *)
(* table and nothing else to decide whether an operation is legal.         *)
(***************************************************************************)

(***************************************************************************)
(* The states of a VM known to a backend.                                  *)
(***************************************************************************)
VmStates == {"Defined", "Running", "Paused", "Stopped", "Snapshotting"}

(***************************************************************************)
(* A name no VM is registered under: VmState::transition answers None for  *)
(* Delete, and the backend removes the entry.                              *)
(***************************************************************************)
Absent == "absent"

(***************************************************************************)
(* The states from which transition(self, op) is not InvalidTransition.    *)
(* SnapshotEnd is kept apart because it carries the state to return to.    *)
(***************************************************************************)
From == [Boot          |-> {"Defined", "Stopped"},
         Pause         |-> {"Running"},
         Resume        |-> {"Paused"},
         Stop          |-> {"Running", "Paused"},
         SnapshotBegin |-> {"Running", "Paused"},
         Restore       |-> {"Defined", "Stopped", "Paused"},
         Delete        |-> {"Defined", "Stopped"}]

(***************************************************************************)
(* The state such a transition leads to.                                   *)
(***************************************************************************)
To == [Boot          |-> "Running",
       Pause         |-> "Paused",
       Resume        |-> "Running",
       Stop          |-> "Stopped",
       SnapshotBegin |-> "Snapshotting",
       Restore       |-> "Running",
       Delete        |-> Absent]

(***************************************************************************)
(* SnapshotEnd(prior) is legal in Snapshotting only, and only for these    *)
(* values of prior, which is the state it leads to.                        *)
(***************************************************************************)
Priors == {"Running", "Paused"}
=============================================================================
