---------------------------- MODULE MCDiskStore ----------------------------
(***************************************************************************)
(* Small instances of DiskStore for TLC.  Snapshot names and processes are *)
(* interchangeable.                                                        *)
(***************************************************************************)
EXTENDS DiskStore, TLC

Symmetry == Permutations(Names) \cup Permutations(Procs)
=============================================================================
