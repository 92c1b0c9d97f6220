--------------------------- MODULE MCSnapshotStore ---------------------------
(***************************************************************************)
(* Small instances of SnapshotStore for TLC.                               *)
(***************************************************************************)
EXTENDS SnapshotStore
=============================================================================
