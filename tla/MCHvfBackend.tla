---------------------------- MODULE MCHvfBackend ----------------------------
(***************************************************************************)
(* Small instances of HvfBackend for TLC.  Processes are interchangeable   *)
(* until a handle names one.                                               *)
(***************************************************************************)
EXTENDS HvfBackend, TLC

Symmetry == Permutations(Pids)
=============================================================================
