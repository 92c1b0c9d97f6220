---------------------------- MODULE MCGuestAgent ----------------------------
(***************************************************************************)
(* Small instances of GuestAgent for TLC.                                  *)
(***************************************************************************)
EXTENDS GuestAgent
=============================================================================
