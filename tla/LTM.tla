-------------------------------- MODULE LTM --------------------------------
(***************************************************************************)
(* A test run of LTM as a whole: the scheduler of Sharder.tla and, in      *)
(* place of the promise it is built on, the shard goroutines of Shard.tla  *)
(* with their VMs.  `go shard.Run(&wg)` lets a goroutine begin; its        *)
(* deferred exit and wg.Done hand what it left behind to the scheduler,    *)
(* which reads the fields of its shards without a lock.                    *)
(***************************************************************************)
EXTENDS Shard, Sharder

ltmVars == <<worker, vm, phase, outcome, sharder>>

LTMInit == Init /\ SharderInit

\* A step of the scheduler's goroutine; StartNext, its go statement, is one.
Schedule == RunStep /\ UNCHANGED vars

\* A step of the goroutine of s, once there is one, short of its last.
Work(s) ==
  /\ phase[s] = "running"
  /\ worker[s].pc # "exit"
  /\ ShardStep(s)
  /\ UNCHANGED sharderVars

\* The deferred calls of shard.Run: exit, then wg.Done.  From here on the
\* scheduler finds the verdict and the files of s as they now are.
Return(s) ==
  /\ phase[s] = "running"
  /\ Exit(s)
  /\ phase' = [phase EXCEPT ![s] = "done"]
  /\ outcome' = [outcome EXCEPT ![s] = OutcomeOf(worker'[s])]
  /\ sharder' = [sharder EXCEPT !.wg = @ - 1]

\* The VM of s, which may outlive the shard and the test run.
VMRuns(s) == VMStep(s) /\ UNCHANGED sharderVars

LTMNext ==
  \/ Schedule
  \/ \E s \in Shards : Work(s) \/ Return(s) \/ VMRuns(s)

LTMSpec == LTMInit /\ [][LTMNext]_ltmVars

-----------------------------------------------------------------------------
(* Properties.                                                             *)

\* Once finish has begun, no shard goroutine changes its verdict or its files:
\* what finish reads of them without a lock is what they ended with.
FinishIsAlone ==
  [][sharder.pc \notin {"start", "wait"} => UNCHANGED worker]_ltmVars

\* A test run passes only if every shard of it has exited without a complaint,
\* and has its results unpacked unless its VM could not be launched.
PassWasTested ==
  sharder.testResult = "Pass" =>
    \A s \in sharder.shards :
      /\ worker[s].pc = "done" /\ worker[s].testResult = "Default"
      /\ worker[s].dir \/ worker[s].vmStatus = "failed to launch"

\* Results that a shard has deleted from the bucket are in the uploaded
\* tarball, if there is one: from the VM to the tarball nothing is dropped.
DeletedAreUploaded ==
  sharder.tarball # {} =>
    \A s \in Shards : vm[s].bucket = "deleted" => s \in sharder.tarball
=============================================================================
