----------------------------- MODULE MCWatcher ------------------------------
(***************************************************************************)
(* Watcher.tla for TLC.                                                    *)
(***************************************************************************)
EXTENDS Watcher
=============================================================================
