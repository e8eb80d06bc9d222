----------------------------- MODULE TestShards -----------------------------
(***************************************************************************)
(* The shards of a test run, each of them one goroutine of LTM and the VM  *)
(* that it starts.                                                         *)
(***************************************************************************)
EXTENDS ResultTypes

CONSTANT Shards    \* the shards a test run may be split into
=============================================================================
