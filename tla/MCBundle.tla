------------------------------ MODULE MCBundle ------------------------------
(***************************************************************************)
(* Small instances of Bundle for TLC.  The files are interchangeable.      *)
(***************************************************************************)
EXTENDS Bundle, TLC

Symmetry == Permutations(Files)
=============================================================================
