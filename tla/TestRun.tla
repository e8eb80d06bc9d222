------------------------------ MODULE TestRun ------------------------------
(***************************************************************************)
(* What LTM promises about one test run, shards and files left out: the    *)
(* verdict is decided once, after the last shard has ended; everybody who  *)
(* waits for it is told that verdict and no other; and the run disappears  *)
(* from the status of the server only after they were told.                *)
(***************************************************************************)
EXTENDS ResultTypes

CONSTANT
  Shards           \* the shards a test run may have

VARIABLES
  parties,         \* who waits for the verdict
  live,            \* shards that have not ended
  verdict,         \* the verdict, "Default" until it is decided
  told,            \* pairs of a party and the verdict it was told
  open             \* the run is listed in the status of the server

runVars == <<parties, live, verdict, told, open>>

RunInit ==
  /\ parties \in SUBSET {"watcher", "kcs"}
  /\ live \in SUBSET Shards
  /\ verdict = "Default"
  /\ told = {}
  /\ open = TRUE

EndShard(s) ==
  /\ s \in live
  /\ live' = live \ {s}
  /\ UNCHANGED <<parties, verdict, told, open>>

Judge ==
  /\ live = {} /\ told = {} /\ verdict = "Default"
  /\ verdict' \in {"Pass", "Fail", "Error"}
  /\ UNCHANGED <<parties, live, told, open>>

Tell(p) ==
  /\ live = {} /\ open
  /\ \A t \in told : t[1] # p
  /\ told' = told \cup {<<p, verdict>>}
  /\ UNCHANGED <<parties, live, verdict, open>>

Close ==
  /\ open
  /\ \A p \in parties : \E t \in told : t[1] = p
  /\ open' = FALSE
  /\ UNCHANGED <<parties, live, verdict, told>>

RunNext ==
  \/ \E s \in Shards : EndShard(s)
  \/ Judge
  \/ \E p \in parties : Tell(p)
  \/ Close

RunSpec == RunInit /\ [][RunNext]_runVars
=============================================================================
