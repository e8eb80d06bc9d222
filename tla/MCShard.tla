------------------------------ MODULE MCShard ------------------------------
(* Shards do not share state with each other, so one shard is a full model. *)
EXTENDS Shard
=============================================================================
