---------------------------- MODULE MCQmpClient ----------------------------
(***************************************************************************)
(* Small instances of QmpClient for TLC.                                   *)
(***************************************************************************)
EXTENDS QmpClient
=============================================================================
