---------------------------- MODULE ShardPromise ----------------------------
(***************************************************************************)
(* What one test shard promises to the scheduler that started it: it runs, *)
(* it exits once, and it leaves behind a verdict and some local files that *)
(* no later step of the shard changes.  Shard.tla implements this          *)
(* specification; Sharder.tla is built on it.                              *)
(***************************************************************************)
EXTENDS TestShards

VARIABLES
  phase,           \* phase[s]: has the goroutine of s started, has it exited
  outcome          \* outcome[s]: what it left behind when it exited

shardVars == <<phase, outcome>>

Phase == {"idle", "running", "done"}

\* result: the shard's testResult; dir: its unpacked results directory exists;
\* serial: its local copy of the serial console exists.
OutcomeRecord == [result : ResultType, dir : BOOLEAN, serial : BOOLEAN]

Nothing == [result |-> "Default", dir |-> FALSE, serial |-> FALSE]

\* A shard never judges Pass or Fail itself; it says Crash only when it has no
\* results; and it stays at Default without results only if its VM was never
\* launched, so that nothing was read from a serial console either.
Promised(o) ==
  /\ o.result \in {"Default", "Hang", "Crash", "Error"}
  /\ o.result = "Crash" => ~o.dir
  /\ o.result = "Default" /\ ~o.dir => ~o.serial

PromisedOutcome == {o \in OutcomeRecord : Promised(o)}

ShardInit ==
  /\ phase = [s \in Shards |-> "idle"]
  /\ outcome = [s \in Shards |-> Nothing]

StartShard(s) ==
  /\ phase[s] = "idle"
  /\ phase' = [phase EXCEPT ![s] = "running"]
  /\ UNCHANGED outcome

ExitShard(s) ==
  /\ phase[s] = "running"
  /\ phase' = [phase EXCEPT ![s] = "done"]
  /\ \E o \in PromisedOutcome : outcome' = [outcome EXCEPT ![s] = o]

ShardNext == \E s \in Shards : StartShard(s) \/ ExitShard(s)

ShardSpec == ShardInit /\ [][ShardNext]_shardVars
=============================================================================
