----------------------------- MODULE MCSharder -----------------------------
(* Two shards: one that brings results home beside one that does not.      *)
EXTENDS Sharder
=============================================================================
