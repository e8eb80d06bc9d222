------------------------------- MODULE Shard -------------------------------
(***************************************************************************)
(* A test shard of the light test manager (ltm/shard.go): the goroutine    *)
(* that launches one test VM, watches it through the GCE API, collects its *)
(* results from the GCS bucket and decides how it ended.  The VM, the API  *)
(* and the bucket run concurrently with it and fail on their own.          *)
(*                                                                         *)
(* Time is counted in ticks of monitorInterval.  The two timeouts are      *)
(* multiples of it, so a tick may fall just before or just after one.      *)
(***************************************************************************)
EXTENDS Naturals, TestShards

CONSTANTS
  NoStatusTimeout,  \* ticks without any status before tests count as unlaunched
  MonitorTimeout,   \* ticks without a status change before a test counts as hung
  MaxAttempts,      \* how often the bucket is listed for the results
  MaxTests          \* status changes a VM makes before it runs out of tests

ASSUME ShardAssumption ==
  /\ NoStatusTimeout \in Nat \ {0}
  /\ MonitorTimeout \in Nat
  /\ NoStatusTimeout < MonitorTimeout
  /\ MaxAttempts \in Nat \ {0}
  /\ MaxTests \in Nat

VARIABLES
  worker,           \* worker[s]: the ShardWorker of s and its goroutine
  vm                \* vm[s]: the test VM of s and its results in the bucket

vars == <<worker, vm>>

PC == {"idle", "launch", "monitor", "shutdown", "results", "unpack", "delete",
       "exit", "done"}

\* "testing" stands for every status the VM publishes in its metadata.
VMStatus == {"waiting for launch", "launching", "failed to launch", "testing",
             "unexpected error", "timeout without launching tests",
             "timeout on one test", "finished without launching tests",
             "finished"}

WorkerRecord ==
  [pc : PC, vmStatus : VMStatus, vmTimeout : BOOLEAN, testResult : ResultType,
   quiet : 0..MonitorTimeout,       \* ticks since vmtestStart
   attempts : 0..MaxAttempts, panic : BOOLEAN,
   serial : BOOLEAN, dir : BOOLEAN, \* serialOutputPath, unpackedResultsDir exist
   keepDeadVM : BOOLEAN]            \* of its scheduler: GCE_LTM_KEEP_DEAD_VM is set

\* state: what the GCE API answers; fresh: the status metadata differs from
\* what the monitor last read; reason: who set the shutdown_reason metadata;
\* left: statuses still to come; deleteFailed: a DeleteInstance call was refused.
VMRecord ==
  [state : {"none", "running", "stopping", "gone"}, fresh : BOOLEAN,
   reason : {"none", "ltm", "user"}, left : 0..MaxTests, deleteFailed : BOOLEAN,
   bucket : {"none", "stored", "deleted"}]

NewShardWorker(keep) ==
  [pc |-> "idle", vmStatus |-> "waiting for launch", vmTimeout |-> FALSE,
   testResult |-> "Default", quiet |-> 0, attempts |-> MaxAttempts,
   panic |-> FALSE, serial |-> FALSE, dir |-> FALSE, keepDeadVM |-> keep]

NoVM == [state |-> "none", fresh |-> FALSE, reason |-> "none",
         left |-> MaxTests, deleteFailed |-> FALSE, bucket |-> "none"]

Init ==
  /\ \E keep \in BOOLEAN : worker = [s \in Shards |-> NewShardWorker(keep)]
  /\ vm = [s \in Shards |-> NoVM]

-----------------------------------------------------------------------------
(* The shard goroutine: Run.                                               *)

Start(s) ==
  /\ worker[s].pc = "idle"
  /\ worker' = [worker EXCEPT ![s].pc = "launch", ![s].vmStatus = "launching"]
  /\ UNCHANGED vm

\* A panic unwinds to the deferred exit.
Panic(s) == worker' = [worker EXCEPT ![s].pc = "exit", ![s].panic = TRUE]

\* The command log cannot be created.
CmdLogFails(s) ==
  /\ worker[s].pc = "launch"
  /\ Panic(s)
  /\ UNCHANGED vm

\* gce-xfstests fails, perhaps after the instance was already created.
LaunchFails(s) ==
  /\ worker[s].pc = "launch"
  /\ worker' = [worker EXCEPT ![s].pc = "exit",
                              ![s].vmStatus = "failed to launch"]
  /\ \E state \in {"none", "running"} : vm' = [vm EXCEPT ![s].state = state]

LaunchSucceeds(s) ==
  /\ worker[s].pc = "launch"
  /\ worker' = [worker EXCEPT ![s].pc = "monitor", ![s].quiet = 0]
  /\ vm' = [vm EXCEPT ![s].state = "running"]

-----------------------------------------------------------------------------
(* monitor: one action per way through the body of its loop.               *)

\* vmtestStart still equals monitorStart exactly while the status is "launching".
NotFoundStatus(w) ==
  IF w.vmStatus = "launching" THEN "failed to launch" ELSE w.vmStatus

InstanceNotFound(s) ==
  /\ worker[s].pc = "monitor"
  /\ vm[s].state = "gone"
  /\ worker' = [worker EXCEPT ![s].pc = "results",
                              ![s].vmStatus = NotFoundStatus(worker[s])]
  /\ UNCHANGED vm

InstanceInfoFails(s) ==
  /\ worker[s].pc = "monitor"
  /\ worker' = [worker EXCEPT ![s].pc = "exit", ![s].panic = TRUE,
                              ![s].vmStatus = "unexpected error"]
  /\ UNCHANGED vm

\* updateSerialData leaves a local copy unless the API or the disk refuses.
Serial(s) == {worker[s].serial, TRUE}

InstanceStopped(s) ==
  /\ worker[s].pc = "monitor"
  /\ vm[s].state = "stopping"
  /\ \E serial \in Serial(s) :
       worker' = [worker EXCEPT ![s].pc = "results", ![s].serial = serial]
  /\ UNCHANGED vm

StatusChanged(s) ==
  /\ worker[s].pc = "monitor"
  /\ vm[s].state = "running" /\ vm[s].fresh
  /\ \E serial \in Serial(s) :
       worker' = [worker EXCEPT ![s].vmStatus = "testing", ![s].quiet = 0,
                                ![s].serial = serial]
  /\ vm' = [vm EXCEPT ![s].fresh = FALSE]

\* While "launching", the launch timeout is the first to pass: it is the shorter.
Timeout(w) ==
  IF w.vmStatus = "launching" THEN NoStatusTimeout ELSE MonitorTimeout

KeepWaiting(s) ==
  /\ worker[s].pc = "monitor"
  /\ vm[s].state = "running" /\ ~vm[s].fresh
  /\ worker[s].quiet + 1 <= Timeout(worker[s])
  /\ \E serial \in Serial(s) :
       worker' = [worker EXCEPT ![s].quiet = @ + 1, ![s].serial = serial]
  /\ UNCHANGED vm

\* The two verdicts of the monitor, given once shutdownOnTimeout has returned.
TimeoutStatus(w) ==
  IF w.vmStatus = "launching" THEN "timeout without launching tests"
                              ELSE "timeout on one test"

\* Mutant: both timeouts count as a hang.
TimeoutResultHang(w) == "Hang"

TimeoutResult(w) == IF w.vmStatus = "launching" THEN "Error" ELSE "Hang"

\* shutdownOnTimeout is not called with keepDeadVM, and does nothing but set
\* vmTimeout if the metadata already has a shutdown_reason.
NoShutdown(s) == worker[s].keepDeadVM \/ vm[s].reason # "none"

TimeIsUp(s) ==
  /\ worker[s].pc = "monitor"
  /\ vm[s].state = "running" /\ ~vm[s].fresh
  /\ worker[s].quiet + 1 >= Timeout(worker[s])

TimedOut(s) ==
  /\ TimeIsUp(s) /\ NoShutdown(s)
  /\ \E serial \in Serial(s) :
       worker' = [worker EXCEPT ![s].pc = "results", ![s].serial = serial,
                                ![s].vmTimeout = ~worker[s].keepDeadVM,
                                ![s].vmStatus = TimeoutStatus(worker[s]),
                                ![s].testResult = TimeoutResult(worker[s])]
  /\ UNCHANGED vm

\* shutdownOnTimeout tries to set the metadata, and goes on either way.
SetShutdownReason(s) ==
  /\ TimeIsUp(s) /\ ~NoShutdown(s)
  /\ \E serial \in Serial(s) :
       worker' = [worker EXCEPT ![s].pc = "shutdown", ![s].serial = serial,
                                ![s].vmTimeout = TRUE]
  /\ \E r \in {"none", "ltm"} : vm' = [vm EXCEPT ![s].reason = r]

\* What a VM does when an instances.delete call reaches it.
Deleted(v) ==
  IF v.state = "running" THEN [v EXCEPT !.state = "stopping"] ELSE v

\* Mutant: the VM is told why it should stop, and left alone.
ShutdownOnTimeoutKeepsVM(s) ==
  /\ worker[s].pc = "shutdown"
  /\ worker' = [worker EXCEPT ![s].pc = "results",
                              ![s].vmStatus = TimeoutStatus(worker[s]),
                              ![s].testResult = TimeoutResult(worker[s])]
  /\ UNCHANGED vm

\* shutdownOnTimeout deletes the VM, or only logs that it could not.
ShutdownOnTimeout(s) ==
  /\ worker[s].pc = "shutdown"
  /\ worker' = [worker EXCEPT ![s].pc = "results",
                              ![s].vmStatus = TimeoutStatus(worker[s]),
                              ![s].testResult = TimeoutResult(worker[s])]
  /\ \/ vm' = [vm EXCEPT ![s] = Deleted(vm[s])]
     \/ vm' = [vm EXCEPT ![s].deleteFailed = TRUE]

-----------------------------------------------------------------------------
(* finish, getResults and exit.                                            *)

ResultsFound(s) ==
  /\ worker[s].pc = "results"
  /\ vm[s].bucket = "stored"
  /\ worker' = [worker EXCEPT ![s].pc = "unpack"]
  /\ UNCHANGED vm

\* Mutant: a retry is not counted.
ResultsMissingUncounted(s) ==
  /\ worker[s].pc = "results"
  /\ worker[s].attempts > 1
  /\ UNCHANGED vars

\* Listing the bucket fails, or shows no results yet.
ResultsMissing(s) ==
  /\ worker[s].pc = "results"
  /\ worker[s].attempts > 1
  /\ worker' = [worker EXCEPT ![s].attempts = @ - 1]
  /\ UNCHANGED vm

\* No url after the last attempt.
Unlaunched(w) == w.testResult = "Default" /\ w.vmStatus = "launching"

MissingStatus(w) ==
  IF Unlaunched(w) THEN "finished without launching tests" ELSE w.vmStatus

MissingResult(w) ==
  IF w.testResult # "Default" THEN w.testResult
  ELSE IF w.vmStatus = "launching" THEN "Error" ELSE "Crash"

ResultsAbsent(s) ==
  /\ worker[s].pc = "results"
  /\ worker[s].attempts = 1
  /\ worker' = [worker EXCEPT ![s].pc = "exit",
                              ![s].vmStatus = MissingStatus(worker[s]),
                              ![s].testResult = MissingResult(worker[s])]
  /\ UNCHANGED vm

\* get-results fails or leaves no directory.
UnpackFails(s) ==
  /\ worker[s].pc = "unpack"
  /\ \E dir \in BOOLEAN :
       worker' = [worker EXCEPT ![s].pc = "exit", ![s].panic = TRUE,
                                ![s].dir = dir]
  /\ UNCHANGED vm

\* Mutant: get-results is trusted to have left the directory.
UnpackUnchecked(s) ==
  /\ worker[s].pc = "unpack"
  /\ \E dir \in BOOLEAN :
       worker' = [worker EXCEPT ![s].pc = "delete", ![s].dir = dir]
  /\ UNCHANGED vm

\* The serial copy of a VM that did not time out is removed, if that works.
Unpack(s) ==
  /\ worker[s].pc = "unpack"
  /\ \E serial \in {worker[s].serial, worker[s].serial /\ worker[s].vmTimeout} :
       worker' = [worker EXCEPT ![s].pc = "delete", ![s].dir = TRUE,
                                ![s].serial = serial]
  /\ UNCHANGED vm

\* Results and summary are deleted from the bucket; a failure is only logged.
DeleteFiles(s) ==
  /\ worker[s].pc = "delete"
  /\ worker' = [worker EXCEPT ![s].pc = "exit", ![s].vmStatus = "finished"]
  /\ \E b \in {vm[s].bucket, "deleted"} : vm' = [vm EXCEPT ![s].bucket = b]

\* Mutant: exit recovers without leaving a verdict.
ExitResultUnset(w) == w.testResult

\* The deferred exit recovers, then wg.Done releases the scheduler.
ExitResult(w) ==
  IF w.panic /\ w.testResult = "Default" THEN "Error" ELSE w.testResult

Exit(s) ==
  /\ worker[s].pc = "exit"
  /\ worker' = [worker EXCEPT ![s].pc = "done",
                              ![s].testResult = ExitResult(worker[s])]
  /\ UNCHANGED vm

ShardStep(s) ==
  \/ Start(s) \/ CmdLogFails(s) \/ LaunchFails(s) \/ LaunchSucceeds(s)
  \/ InstanceNotFound(s) \/ InstanceInfoFails(s) \/ InstanceStopped(s)
  \/ StatusChanged(s) \/ KeepWaiting(s) \/ TimedOut(s)
  \/ SetShutdownReason(s) \/ ShutdownOnTimeout(s)
  \/ ResultsFound(s) \/ ResultsMissing(s) \/ ResultsAbsent(s)
  \/ UnpackFails(s) \/ Unpack(s) \/ DeleteFiles(s) \/ Exit(s)

-----------------------------------------------------------------------------
(* The test VM (runtests.sh, gce-logger, gce-shutdown) and its owner.      *)

\* gce-logger publishes a new status.
PublishStatus(s) ==
  /\ vm[s].state = "running" /\ vm[s].left > 0
  /\ vm' = [vm EXCEPT ![s].fresh = TRUE, ![s].left = @ - 1]
  /\ UNCHANGED worker

\* gce-shutdown uploads the results, also while the instance is stopping.
UploadResults(s) ==
  /\ vm[s].state \in {"running", "stopping"} /\ vm[s].bucket = "none"
  /\ vm' = [vm EXCEPT ![s].bucket = "stored"]
  /\ UNCHANGED worker

\* The VM deletes itself, is preempted or dies.
StopVM(s) ==
  /\ vm[s].state = "running"
  /\ vm' = [vm EXCEPT ![s] = Deleted(vm[s])]
  /\ UNCHANGED worker

VanishVM(s) ==
  /\ vm[s].state = "stopping"
  /\ vm' = [vm EXCEPT ![s].state = "gone"]
  /\ UNCHANGED worker

\* gce-xfstests abort: sets shutdown_reason, then deletes the VM or fails to.
AbortVM(s) ==
  /\ vm[s].state = "running" /\ vm[s].reason # "user"
  /\ \E v \in {vm[s], Deleted(vm[s])} :
       vm' = [vm EXCEPT ![s] = [v EXCEPT !.reason = "user"]]
  /\ UNCHANGED worker

VMStep(s) ==
  \/ PublishStatus(s) \/ UploadResults(s) \/ StopVM(s) \/ VanishVM(s)
  \/ AbortVM(s)

Next == \E s \in Shards : ShardStep(s) \/ VMStep(s)

\* The Go scheduler, the ticker and the sleeps let every goroutine go on; the
\* VM is under no obligation at all.
Fairness == \A s \in Shards : WF_vars(ShardStep(s))

Spec == Init /\ [][Next]_vars

FairSpec == Spec /\ Fairness

-----------------------------------------------------------------------------
(* Properties.                                                             *)

TypeOK ==
  /\ worker \in [Shards -> WorkerRecord]
  /\ vm \in [Shards -> VMRecord]

\* finish deletes a shard's results from the bucket only after they have been
\* unpacked on the LTM server: at no moment are they in neither place.
ResultsKept ==
  \A s \in Shards : vm[s].bucket = "deleted" => worker[s].dir

\* A shard that exits leaves its VM running only for a reason it can name: the
\* configuration keeps dead VMs, somebody else asked for the shutdown, deleting
\* it failed, or the shard lost sight of it (launch command or GCE API failed).
NoOrphanVM ==
  \A s \in Shards :
    worker[s].pc = "done" /\ vm[s].state = "running" =>
      \/ worker[s].keepDeadVM \/ vm[s].reason = "user" \/ vm[s].deleteFailed
      \/ worker[s].vmStatus \in {"failed to launch", "unexpected error"}

\* Hang says that a test wedged: the monitor gives it only to a VM that had
\* published a status, the launch timeout being the shorter one.
HangAfterStatus ==
  \A s \in Shards : worker[s].testResult = "Hang" => vm[s].left < MaxTests

\* With GCE_LTM_KEEP_DEAD_VM no step of the shard stops a VM, however long it
\* has been silent (Documentation/gce-xfstests.md:199-202).
DeadVMKept ==
  [][\A s \in Shards :
       worker[s].keepDeadVM /\ worker'[s] # worker[s] /\ vm[s].state = "running" =>
         vm'[s].state = "running"]_vars

\* The first verdict on a shard stands: missing results or a panic on the way
\* out never turn a Hang into a Crash or an Error.
VerdictStable ==
  [][\A s \in Shards : worker[s].testResult # "Default" =>
       worker'[s].testResult = worker[s].testResult]_vars

\* How a shard looks to the scheduler.
PhaseOf(w) ==
  CASE w.pc = "idle" -> "idle" [] w.pc = "done" -> "done" [] OTHER -> "running"

OutcomeOf(w) ==
  IF w.pc = "done" THEN [result |-> w.testResult, dir |-> w.dir, serial |-> w.serial]
  ELSE [result |-> "Default", dir |-> FALSE, serial |-> FALSE]

Promise == INSTANCE ShardPromise WITH
  phase <- [s \in Shards |-> PhaseOf(worker[s])],
  outcome <- [s \in Shards |-> OutcomeOf(worker[s])]

\* What the scheduler relies on (ShardPromise.tla): a shard exits once, never
\* judges Pass or Fail, says Crash only without results, and leaves no verdict
\* and no results only if nothing was ever launched.
KeepsPromise == Promise!ShardSpec

\* Every shard exits, whatever its VM and the GCE API do, so that wg.Wait of
\* the scheduler returns.
Termination == \A s \in Shards : <>(worker[s].pc = "done")
=============================================================================
