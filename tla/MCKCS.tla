------------------------------- MODULE MCKCS --------------------------------
(***************************************************************************)
(* KCS.tla for model checking.                                             *)
(***************************************************************************)
EXTENDS KCS
=============================================================================
