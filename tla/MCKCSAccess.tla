---------------------------- MODULE MCKCSAccess -----------------------------
(***************************************************************************)
(* KCSAccess.tla for TLC.                                                  *)
(***************************************************************************)
EXTENDS KCSAccess
=============================================================================
