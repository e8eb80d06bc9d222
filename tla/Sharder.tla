------------------------------ MODULE Sharder ------------------------------
(***************************************************************************)
(* The test scheduler of LTM (ltm/sharder.go): Run starts one goroutine    *)
(* per shard, waits for all of them, aggregates what they left behind,     *)
(* decides the verdict of the test run, mails and uploads it, and hands it *)
(* to the watcher and to KCS in deferred calls that run even if one of     *)
(* these steps panics.  A shard is what ShardPromise.tla says of it.       *)
(***************************************************************************)
EXTENDS Naturals, FiniteSets, Functions, ShardPromise

CONSTANT
  FailureCounts     \* numbers of failed tests a shard's results may report

ASSUME SharderAssumption ==
  /\ IsFiniteSet(Shards)
  /\ FailureCounts \subseteq Nat

VARIABLE
  sharder           \* the ShardScheduler, its goroutine and what it produced

sharderVars == <<phase, outcome, sharder>>

SharderPC == {"start", "wait", "aggregate", "info", "summary", "email", "pack",
       "watcher", "kcs", "clean", "recover", "done"}

NotSent == "not sent"

SharderRecord ==
  [pc : SharderPC,                 \* the deferred calls are its last steps
   reportKCS : BOOLEAN,            \* the request came from a bisector
   receiver : BOOLEAN,             \* the request names a reportReceiver
   shards : SUBSET Shards,         \* the shards this sharder was built with
   failed : [Shards -> Nat],       \* failed tests in the results of a shard
   wg : Nat,                       \* counter of the sync.WaitGroup
   panicking : BOOLEAN,            \* a panic is unwinding the deferred calls
   agg : [Shards -> {"none", "dir", "serial"}],  \* what is in aggDir
   ltmLogs : BOOLEAN,              \* the directory ltm_logs exists in aggDir
   testResult : ResultType,
   registered : BOOLEAN,           \* in sharderMap
   tarball : SUBSET Shards,        \* whose results are in the uploaded tarball
   mail : SUBSET {"report", "failure"},
   watcherResult : ResultType \cup {NotSent},  \* argument of UpdateWatcherTest
   kcsResult : ResultType \cup {NotSent}]      \* in the LTMBisectStep request

\* NewShardScheduler has returned.  A command line that does not parse leaves
\* no shards at all (getConfigs).
NewShardScheduler(reportKCS, receiver, chosen, failed) ==
  [pc |-> "start", reportKCS |-> reportKCS, receiver |-> receiver,
   shards |-> chosen, failed |-> failed, wg |-> 0, panicking |-> FALSE,
   agg |-> [s \in Shards |-> "none"], ltmLogs |-> FALSE,
   testResult |-> "Default", registered |-> TRUE, tarball |-> {}, mail |-> {},
   watcherResult |-> NotSent, kcsResult |-> NotSent]

SharderInit ==
  /\ ShardInit
  /\ \E reportKCS, receiver \in BOOLEAN, chosen \in SUBSET Shards,
        failed \in [Shards -> FailureCounts] :
       sharder = NewShardScheduler(reportKCS, receiver, chosen, failed)

-----------------------------------------------------------------------------
(* Run: wg.Add and go for every shard, then wg.Wait.                       *)

StartNext(s) ==
  /\ sharder.pc = "start"
  /\ s \in sharder.shards
  /\ StartShard(s)
  /\ sharder' = [sharder EXCEPT !.wg = @ + 1]

AllStarted ==
  /\ sharder.pc = "start"
  /\ \A s \in sharder.shards : phase[s] # "idle"
  /\ sharder' = [sharder EXCEPT !.pc = "wait"]
  /\ UNCHANGED shardVars

\* Mutant: a shard returns without wg.Done.
ShardDoneUncounted(s) ==
  /\ ExitShard(s)
  /\ UNCHANGED sharder

\* The goroutine of shard s ends with wg.Done.
ShardDone(s) ==
  /\ ExitShard(s)
  /\ sharder' = [sharder EXCEPT !.wg = @ - 1]

Wait ==
  /\ sharder.pc = "wait"
  /\ sharder.wg = 0
  /\ sharder' = [sharder EXCEPT !.pc = "aggregate"]
  /\ UNCHANGED shardVars

-----------------------------------------------------------------------------
(* finish.  A panic in it goes on with the deferred calls.                 *)

Unwinding == [sharder EXCEPT !.pc = "watcher", !.panicking = TRUE]

\* Mutant: the serial output of a shard without results is left behind.
AggregatedDirOnly(o) == IF o.dir THEN "dir" ELSE "none"

\* What aggResults moves for a shard: its directory, else its serial output.
Aggregated(o) ==
  IF o.dir THEN "dir" ELSE IF o.serial THEN "serial" ELSE "none"

Moved(ss) ==
  [s \in Shards |-> IF s \in ss THEN Aggregated(outcome[s]) ELSE "none"]

HasResults == \E s \in sharder.shards : Aggregated(outcome[s]) # "none"

AggResults ==
  /\ sharder.pc = "aggregate"
  /\ HasResults
  /\ sharder' = [sharder EXCEPT !.pc = "info", !.agg = Moved(sharder.shards)]
  /\ UNCHANGED shardVars

\* No results at all, or a file operation fails half way through the shards.
AggResultsPanics ==
  /\ sharder.pc = "aggregate"
  /\ \E ss \in SUBSET sharder.shards :
       sharder' = [Unwinding EXCEPT !.agg = Moved(ss)]
  /\ UNCHANGED shardVars

\* createInfo and createRunStats only log that they failed.
CreateInfo ==
  /\ sharder.pc = "info"
  /\ \E made \in BOOLEAN :
       sharder' = [sharder EXCEPT !.pc = "summary", !.ltmLogs = made]
  /\ UNCHANGED shardVars

WithResults == {s \in sharder.shards : sharder.agg[s] = "dir"}

\* gen_results_summary prints the failures of each suite that has any, and
\* their total.  The code looks for "0 failures" in that text, which is there
\* as soon as one of the printed numbers ends in the digit 0.
EndsInZero(n) == n % 10 = 0

TotalFailures == SumFunctionOnSet(sharder.failed, WithResults)

SaysZeroFailures ==
  \/ EndsInZero(TotalFailures)
  \/ \E s \in WithResults : sharder.failed[s] > 0 /\ EndsInZero(sharder.failed[s])

\* The script leaves no report if it fails or finds no results.
Reports ==
  {"none"} \cup (IF WithResults = {} THEN {}
                 ELSE {IF SaysZeroFailures THEN "0 failures" ELSE "failures"})

ShardResults == {outcome[s].result : s \in sharder.shards}

\* Mutant: the Error of a shard is not looked at.
VerdictIgnoringError(report) ==
  IF ShardResults \cap {"Hang", "Crash"} # {} \/ report = "failures" THEN "Fail"
  ELSE "Pass"

Verdict(report) ==
  IF ShardResults \cap {"Hang", "Crash"} # {} \/ report = "failures" THEN "Fail"
  ELSE IF "Error" \in ShardResults THEN "Error"
  ELSE "Pass"

GenResultsSummary ==
  /\ sharder.pc = "summary"
  /\ \E report \in Reports :
       sharder' = [sharder EXCEPT !.pc = IF sharder.reportKCS THEN "pack" ELSE "email",
                                  !.testResult = Verdict(report)]
  /\ UNCHANGED shardVars

EmailReport ==
  /\ sharder.pc = "email"
  /\ sharder.receiver
  /\ sharder' = [sharder EXCEPT !.pc = "pack", !.mail = @ \cup {"report"}]
  /\ UNCHANGED shardVars

\* email.Send fails, as it always does without a receiver.
EmailReportPanics ==
  /\ sharder.pc = "email"
  /\ sharder' = Unwinding
  /\ UNCHANGED shardVars

\* What tar puts into the tarball, if tar, xz and the upload all work.
Packed == {s \in sharder.shards : sharder.agg[s] # "none"}

PackResults ==
  /\ sharder.pc = "pack"
  /\ sharder.ltmLogs
  /\ \E content \in {{}, Packed} :
       sharder' = [sharder EXCEPT !.pc = "watcher", !.tarball = content]
  /\ UNCHANGED shardVars

\* The run log cannot be copied into ltm_logs, or an upload fails: that of the
\* tarball, or that of the summary after it.
PackResultsPanics ==
  /\ sharder.pc = "pack"
  /\ \E content \in (IF sharder.ltmLogs THEN {{}, Packed} ELSE {{}}) :
       sharder' = [Unwinding EXCEPT !.tarball = content]
  /\ UNCHANGED shardVars

-----------------------------------------------------------------------------
(* The deferred calls of Run, last in first out.                           *)

\* Mutant: sendKCSReport is never deferred.
SendWatcherResultOnly ==
  /\ sharder.pc = "watcher"
  /\ sharder' = [sharder EXCEPT !.pc = "clean",
                                !.watcherResult = sharder.testResult]
  /\ UNCHANGED shardVars

SendWatcherResult ==
  /\ sharder.pc = "watcher"
  /\ sharder' = [sharder EXCEPT !.pc = IF sharder.reportKCS THEN "kcs" ELSE "clean",
                                !.watcherResult = sharder.testResult]
  /\ UNCHANGED shardVars

\* SendInternalRequest panics if KCS cannot be reached or refuses.
SendKCSReport ==
  /\ sharder.pc = "kcs"
  /\ \E refused \in BOOLEAN :
       sharder' = [sharder EXCEPT !.pc = "clean",
                                  !.kcsResult = sharder.testResult,
                                  !.panicking = @ \/ refused]
  /\ UNCHANGED shardVars

\* clean takes the sharder out of sharderMap and removes aggDir.
Clean ==
  /\ sharder.pc = "clean"
  /\ sharder' = [sharder EXCEPT !.pc = "recover", !.registered = FALSE,
                                !.agg = [s \in Shards |-> "none"],
                                !.ltmLogs = FALSE]
  /\ UNCHANGED shardVars

\* email.ReportFailure recovers and mails the log, if there is a receiver and
\* the mail can be sent.
ReportFailure ==
  /\ sharder.pc = "recover"
  /\ \E sent \in BOOLEAN :
       sharder' = [sharder EXCEPT !.pc = "done", !.panicking = FALSE,
                     !.mail = IF sent /\ sharder.panicking /\ sharder.receiver
                              THEN @ \cup {"failure"} ELSE @]
  /\ UNCHANGED shardVars

RunStep ==
  \/ \E s \in Shards : StartNext(s)
  \/ AllStarted \/ Wait \/ AggResults \/ AggResultsPanics \/ CreateInfo
  \/ GenResultsSummary \/ EmailReport \/ EmailReportPanics
  \/ PackResults \/ PackResultsPanics
  \/ SendWatcherResult \/ SendKCSReport \/ Clean \/ ReportFailure

SharderNext == RunStep \/ \E s \in Shards : ShardDone(s)

SharderSpec == SharderInit /\ [][SharderNext]_sharderVars

\* Run is one goroutine whose calls all return; that every shard exits is
\* Termination of Shard.tla.
SharderFairness == WF_sharderVars(RunStep) /\ \A s \in Shards : WF_sharderVars(ShardDone(s))

SharderFairSpec == SharderSpec /\ SharderFairness

-----------------------------------------------------------------------------
(* Properties.                                                             *)

SharderTypeOK ==
  /\ phase \in [Shards -> Phase]
  /\ outcome \in [Shards -> OutcomeRecord]
  /\ sharder \in SharderRecord

\* wg.Wait is a barrier: once aggregation has begun, no shard goroutine runs
\* that could still change a verdict or a file the sharder is reading.
Barrier ==
  [][sharder.pc \notin {"start", "wait"} => UNCHANGED shardVars]_sharderVars

\* A test run passes only if every shard ended without a complaint and at least
\* one of them brought results home; serial output alone is never enough.
PassEarned ==
  sharder.testResult = "Pass" =>
    /\ \A s \in sharder.shards : phase[s] = "done" /\ outcome[s].result = "Default"
    /\ \E s \in sharder.shards : outcome[s].dir

\* The uploaded tarball is complete: it holds what every shard left behind.
UploadComplete ==
  sharder.tarball # {} =>
    \A s \in sharder.shards : outcome[s].dir \/ outcome[s].serial => s \in sharder.tarball

\* The scheduler implements the abstract test run: one verdict, decided after
\* the last shard, told to the watcher and to KCS before the run is unlisted.
Told ==
  {<<"watcher", r>> : r \in {sharder.watcherResult} \ {NotSent}} \cup
  {<<"kcs", r>> : r \in {sharder.kcsResult} \ {NotSent}}

Abstract == INSTANCE TestRun WITH
  parties <- IF sharder.reportKCS THEN {"watcher", "kcs"} ELSE {"watcher"},
  live <- {s \in sharder.shards : phase[s] # "done"},
  verdict <- sharder.testResult,
  told <- Told,
  open <- sharder.registered

ImplementsTestRun == Abstract!RunSpec

\* Run returns whatever panics on the way, and leaves no entry in sharderMap.
Completes == <>[](sharder.pc = "done" /\ ~sharder.registered)

-----------------------------------------------------------------------------
(* What a comment says, and the code does not do.                          *)

\* "Pass: nothing above happens and no test failure found" (sharder.go:505).
PassMeansNoFailure ==
  sharder.testResult = "Pass" => \A s \in WithResults : sharder.failed[s] = 0
=============================================================================
