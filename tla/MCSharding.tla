----------------------------- MODULE MCSharding -----------------------------
(* Up to two regions, some without quota, and up to four configurations.   *)
EXTENDS Sharding

\* A region may have used more than its limit, once that was lowered.
MCIPs == {-1, 1, 3}

\* The shardIDs of a large test run are all different.
ASSUME ManyShards ==
  \A i, j \in 0..60 : ShardID(i) = ShardID(j) => i = j
=============================================================================
