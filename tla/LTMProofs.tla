----------------------------- MODULE LTMProofs -----------------------------
(***************************************************************************)
(* Proofs about LTM, for any finite set of shards, any timeouts and any    *)
(* number of attempts: first Shard.tla by itself, then Sharder.tla on what *)
(* ShardPromise.tla promises, then the two together.                       *)
(***************************************************************************)
EXTENDS LTM, FiniteSetTheorems, TLAPS

-----------------------------------------------------------------------------
(* The shard.                                                              *)

\* The shard has not given up watching its VM.
Watched(w) == w.pc \in {"idle", "launch", "monitor", "shutdown"}

\* The verdict: none while the VM is watched, and Hang only for a VM that has
\* published a status.
ShardVerdictInv(w, v) ==
  /\ w.testResult \in {"Default", "Hang", "Crash", "Error"}
  /\ Watched(w) => w.testResult = "Default"
  /\ w.pc = "launch" => w.vmStatus = "launching"
  /\ w.pc \in {"monitor", "shutdown"} => w.vmStatus \in {"launching", "testing"}
  /\ v.fresh \/ w.testResult = "Hang" => v.left < MaxTests
  /\ w.pc \in {"monitor", "shutdown"} /\ w.vmStatus = "testing" => v.left < MaxTests

\* The results: unpacked before they are deleted, and deleted last.
ResultsInv(w, v) ==
  /\ w.dir => w.pc \in {"delete", "exit", "done"}
  /\ w.pc = "delete" => w.dir
  /\ v.bucket = "deleted" => w.dir /\ w.pc \in {"exit", "done"}
  /\ w.testResult = "Crash" => ~w.dir /\ w.pc \in {"exit", "done"}
  /\ w.pc \in {"idle", "launch"} => ~w.serial
  /\ w.pc = "exit" /\ w.testResult = "Default" /\ ~w.panic /\ ~w.dir => ~w.serial

\* The VM: left running only for one of the reasons of NoOrphanVM.
Excused(w, v) == w.keepDeadVM \/ v.reason = "user" \/ v.deleteFailed

VMInv(w, v) ==
  /\ w.pc \in {"idle", "launch"} => v.state = "none"
  /\ w.pc \in {"idle", "launch", "monitor"} => v.reason # "ltm"
  /\ w.pc = "shutdown" => ~w.keepDeadVM
  /\ w.pc \in {"results", "unpack", "delete"} /\ v.state = "running" => Excused(w, v)
  /\ w.pc \in {"exit", "done"} /\ v.state = "running" =>
       Excused(w, v) \/ w.vmStatus \in {"failed to launch", "unexpected error"}

Good(w, v) == ShardVerdictInv(w, v) /\ ResultsInv(w, v) /\ VMInv(w, v)

\* The inductive invariant.
ShardInv == TypeOK /\ \A s \in Shards : Good(worker[s], vm[s])

-----------------------------------------------------------------------------
(* The invariant is inductive.                                             *)

\* A step changes one shard and its VM: it is enough to look at these two.
LEMMA StepOfOne ==
  ASSUME ShardInv, NEW s \in Shards, NEW w \in WorkerRecord, NEW v \in VMRecord,
         Good(w, v), worker' = [worker EXCEPT ![s] = w], vm' = [vm EXCEPT ![s] = v]
  PROVE  ShardInv'
<1>1. TypeOK'
  BY DEF ShardInv, TypeOK
<1>2. ASSUME NEW r \in Shards PROVE Good(worker'[r], vm'[r])
  <2>1. CASE r = s
    BY <2>1 DEF ShardInv, TypeOK
  <2>2. CASE r # s
    BY <2>2 DEF ShardInv, TypeOK
  <2>3. QED
    BY <2>1, <2>2
<1>3. QED
  BY <1>1, <1>2 DEF ShardInv

\* NewShardWorker establishes the invariant.
LEMMA ShardInitInv == Init => ShardInv
<1> SUFFICES ASSUME Init PROVE ShardInv
  OBVIOUS
<1> PICK keep \in BOOLEAN : worker = [s \in Shards |-> NewShardWorker(keep)]
  BY DEF Init
<1>1. NewShardWorker(keep) \in WorkerRecord
  <2>1. 0 \in 0..MonitorTimeout /\ MaxAttempts \in 0..MaxAttempts
    BY ShardAssumption
  <2>2. QED
    BY <2>1, Zenon DEF NewShardWorker, WorkerRecord, PC, VMStatus, ResultType
<1>2. NoVM \in VMRecord
  BY ShardAssumption DEF NoVM, VMRecord
<1>3. Good(NewShardWorker(keep), NoVM)
  BY Zenon DEF Good, ShardVerdictInv, Watched, ResultsInv, VMInv, Excused, NewShardWorker, NoVM
<1>4. QED
  BY <1>1, <1>2, <1>3 DEF Init, ShardInv, TypeOK

\* Every action of the shard goroutine and of the VM preserves it.
LEMMA ShardNextInv == ShardInv /\ [Next]_vars => ShardInv'
<1> SUFFICES ASSUME ShardInv, [Next]_vars PROVE ShardInv'
  OBVIOUS
<1>1. ASSUME NEW s \in Shards, Start(s) PROVE ShardInv'
  <2> DEFINE w == [worker[s] EXCEPT !.pc = "launch", !.vmStatus = "launching"]
  <2> DEFINE v == vm[s]
  <2>1. worker[s] \in WorkerRecord /\ vm[s] \in VMRecord /\ Good(worker[s], vm[s])
    BY DEF ShardInv, TypeOK
  <2>2. worker' = [worker EXCEPT ![s] = w] /\ vm' = [vm EXCEPT ![s] = v]
    BY <1>1, <2>1, Zenon DEF Start, ShardInv, TypeOK
  <2>3. w \in WorkerRecord
    BY <2>1, Zenon DEF WorkerRecord, PC, VMStatus
  <2>4. v \in VMRecord
    BY <2>1 DEF VMRecord
  <2>5. Good(w, v)
    BY <1>1, <2>1 DEF Start, Good, ShardVerdictInv, Watched, ResultsInv, VMInv, Excused,
       WorkerRecord, VMRecord
  <2>6. QED
    BY <2>2, <2>3, <2>4, <2>5, StepOfOne, Zenon
<1>2. ASSUME NEW s \in Shards, CmdLogFails(s) PROVE ShardInv'
  <2> DEFINE w == [worker[s] EXCEPT !.pc = "exit", !.panic = TRUE]
  <2> DEFINE v == vm[s]
  <2>1. worker[s] \in WorkerRecord /\ vm[s] \in VMRecord /\ Good(worker[s], vm[s])
    BY DEF ShardInv, TypeOK
  <2>2. worker' = [worker EXCEPT ![s] = w] /\ vm' = [vm EXCEPT ![s] = v]
    BY <1>2, <2>1, Zenon DEF CmdLogFails, Panic, ShardInv, TypeOK
  <2>3. w \in WorkerRecord
    BY <2>1, Zenon DEF WorkerRecord, PC, Panic
  <2>4. v \in VMRecord
    BY <2>1 DEF VMRecord
  <2>5. Good(w, v)
    BY <1>2, <2>1, Zenon DEF CmdLogFails, Panic, Good, ShardVerdictInv, Watched, ResultsInv,
       VMInv, Excused, WorkerRecord, VMRecord
  <2>6. QED
    BY <2>2, <2>3, <2>4, <2>5, StepOfOne, Zenon
<1>3. ASSUME NEW s \in Shards, LaunchFails(s) PROVE ShardInv'
  <2>0. PICK x \in {"none", "running"} : vm' = [vm EXCEPT ![s].state = x]
    BY <1>3, Zenon DEF LaunchFails
  <2> DEFINE w == [worker[s] EXCEPT !.pc = "exit", !.vmStatus = "failed to launch"]
  <2> DEFINE v == [vm[s] EXCEPT !.state = x]
  <2>1. worker[s] \in WorkerRecord /\ vm[s] \in VMRecord /\ Good(worker[s], vm[s])
    BY DEF ShardInv, TypeOK
  <2>2. worker' = [worker EXCEPT ![s] = w] /\ vm' = [vm EXCEPT ![s] = v]
    BY <1>3, <2>0, <2>1, Zenon DEF LaunchFails, ShardInv, TypeOK
  <2>3. w \in WorkerRecord
    BY <2>0, <2>1, Zenon DEF WorkerRecord, PC, VMStatus
  <2>4. v \in VMRecord
    BY <2>0, <2>1 DEF VMRecord
  <2>5. Good(w, v)
    BY <1>3, <2>0, <2>1, ZenonT(60) DEF LaunchFails, Good, ShardVerdictInv, Watched,
       ResultsInv,
       VMInv, Excused, WorkerRecord, VMRecord
  <2>6. QED
    BY <2>2, <2>3, <2>4, <2>5, StepOfOne, Zenon
<1>4. ASSUME NEW s \in Shards, LaunchSucceeds(s) PROVE ShardInv'
  <2> DEFINE w == [worker[s] EXCEPT !.pc = "monitor", !.quiet = 0]
  <2> DEFINE v == [vm[s] EXCEPT !.state = "running"]
  <2>1. worker[s] \in WorkerRecord /\ vm[s] \in VMRecord /\ Good(worker[s], vm[s])
    BY DEF ShardInv, TypeOK
  <2>2. worker' = [worker EXCEPT ![s] = w] /\ vm' = [vm EXCEPT ![s] = v]
    BY <1>4, <2>1, Zenon DEF LaunchSucceeds, ShardInv, TypeOK
  <2>a. 0 \in 0..MonitorTimeout
    BY <1>4, <2>1, ShardAssumption DEF LaunchSucceeds, WorkerRecord, VMRecord
  <2>3. w \in WorkerRecord
    BY <2>a, <2>1, Zenon DEF WorkerRecord, PC
  <2>4. v \in VMRecord
    BY <2>a, <2>1 DEF VMRecord
  <2>5. Good(w, v)
    BY <1>4, <2>a, <2>1 DEF LaunchSucceeds, Good, ShardVerdictInv, Watched, ResultsInv,
       VMInv, Excused, WorkerRecord, VMRecord
  <2>6. QED
    BY <2>2, <2>3, <2>4, <2>5, StepOfOne, Zenon
<1>5. ASSUME NEW s \in Shards, InstanceNotFound(s) PROVE ShardInv'
  <2> DEFINE w == [worker[s] EXCEPT !.pc = "results", !.vmStatus = NotFoundStatus(worker[s])]
  <2> DEFINE v == vm[s]
  <2>1. worker[s] \in WorkerRecord /\ vm[s] \in VMRecord /\ Good(worker[s], vm[s])
    BY DEF ShardInv, TypeOK
  <2>2. worker' = [worker EXCEPT ![s] = w] /\ vm' = [vm EXCEPT ![s] = v]
    BY <1>5, <2>1, Zenon DEF InstanceNotFound, ShardInv, TypeOK
  <2>3. w \in WorkerRecord
    BY <2>1, ZenonT(60) DEF WorkerRecord, PC, VMStatus, NotFoundStatus
  <2>4. v \in VMRecord
    BY <2>1 DEF VMRecord
  <2>5. Good(w, v)
    BY <1>5, <2>1, Zenon DEF InstanceNotFound, NotFoundStatus, Good, ShardVerdictInv,
       Watched, ResultsInv, VMInv, Excused, WorkerRecord, VMRecord
  <2>6. QED
    BY <2>2, <2>3, <2>4, <2>5, StepOfOne, Zenon
<1>6. ASSUME NEW s \in Shards, InstanceInfoFails(s) PROVE ShardInv'
  <2> DEFINE w == [worker[s] EXCEPT !.pc = "exit", !.panic = TRUE, !.vmStatus = "unexpected error"]
  <2> DEFINE v == vm[s]
  <2>1. worker[s] \in WorkerRecord /\ vm[s] \in VMRecord /\ Good(worker[s], vm[s])
    BY DEF ShardInv, TypeOK
  <2>2. worker' = [worker EXCEPT ![s] = w] /\ vm' = [vm EXCEPT ![s] = v]
    BY <1>6, <2>1, Zenon DEF InstanceInfoFails, ShardInv, TypeOK
  <2>3. w \in WorkerRecord
    BY <2>1, Zenon DEF WorkerRecord, PC, VMStatus
  <2>4. v \in VMRecord
    BY <2>1 DEF VMRecord
  <2>5. Good(w, v)
    BY <1>6, <2>1, ZenonT(60) DEF InstanceInfoFails, Good, ShardVerdictInv, Watched,
       ResultsInv,
       VMInv, Excused, WorkerRecord, VMRecord
  <2>6. QED
    BY <2>2, <2>3, <2>4, <2>5, StepOfOne, Zenon
<1>7. ASSUME NEW s \in Shards, InstanceStopped(s) PROVE ShardInv'
  <2>0. PICK x \in Serial(s) : worker' = [worker EXCEPT ![s].pc = "results", ![s].serial = x]
    BY <1>7, Zenon DEF InstanceStopped, Serial
  <2> DEFINE w == [worker[s] EXCEPT !.pc = "results", !.serial = x]
  <2> DEFINE v == vm[s]
  <2>1. worker[s] \in WorkerRecord /\ vm[s] \in VMRecord /\ Good(worker[s], vm[s])
    BY DEF ShardInv, TypeOK
  <2>2. worker' = [worker EXCEPT ![s] = w] /\ vm' = [vm EXCEPT ![s] = v]
    BY <1>7, <2>0, <2>1, Zenon DEF InstanceStopped, ShardInv, TypeOK
  <2>3. w \in WorkerRecord
    BY <2>0, <2>1, Zenon DEF WorkerRecord, PC, Serial
  <2>4. v \in VMRecord
    BY <2>0, <2>1 DEF VMRecord
  <2>5. Good(w, v)
    BY <1>7, <2>0, <2>1 DEF InstanceStopped, Serial, Good, ShardVerdictInv, Watched,
       ResultsInv, VMInv, Excused, WorkerRecord, VMRecord
  <2>6. QED
    BY <2>2, <2>3, <2>4, <2>5, StepOfOne, Zenon
<1>8. ASSUME NEW s \in Shards, StatusChanged(s) PROVE ShardInv'
  <2>0. PICK x \in Serial(s) : worker' = [worker EXCEPT
           ![s].vmStatus = "testing", ![s].quiet = 0, ![s].serial = x]
    BY <1>8, Zenon DEF StatusChanged, Serial
  <2> DEFINE w == [worker[s] EXCEPT !.vmStatus = "testing", !.quiet = 0, !.serial = x]
  <2> DEFINE v == [vm[s] EXCEPT !.fresh = FALSE]
  <2>1. worker[s] \in WorkerRecord /\ vm[s] \in VMRecord /\ Good(worker[s], vm[s])
    BY DEF ShardInv, TypeOK
  <2>2. worker' = [worker EXCEPT ![s] = w] /\ vm' = [vm EXCEPT ![s] = v]
    BY <1>8, <2>0, <2>1, Zenon DEF StatusChanged, ShardInv, TypeOK
  <2>a. 0 \in 0..MonitorTimeout
    BY <1>8, <2>1, ShardAssumption DEF StatusChanged, Serial, WorkerRecord, VMRecord
  <2>3. w \in WorkerRecord
    BY <2>0, <2>a, <2>1, ZenonT(60) DEF WorkerRecord, VMStatus, Serial
  <2>4. v \in VMRecord
    BY <2>0, <2>a, <2>1, Zenon DEF VMRecord
  <2>5. Good(w, v)
    BY <1>8, <2>0, <2>a, <2>1 DEF StatusChanged, Serial, Good, ShardVerdictInv, Watched,
       ResultsInv, VMInv, Excused, WorkerRecord, VMRecord
  <2>6. QED
    BY <2>2, <2>3, <2>4, <2>5, StepOfOne, Zenon
<1>9. ASSUME NEW s \in Shards, KeepWaiting(s) PROVE ShardInv'
  <2>0. PICK x \in Serial(s) : worker' = [worker EXCEPT
           ![s].quiet = @ + 1, ![s].serial = x]
    BY <1>9, Zenon DEF KeepWaiting, Serial, Timeout
  <2> DEFINE w == [worker[s] EXCEPT !.quiet = @ + 1, !.serial = x]
  <2> DEFINE v == vm[s]
  <2>1. worker[s] \in WorkerRecord /\ vm[s] \in VMRecord /\ Good(worker[s], vm[s])
    BY DEF ShardInv, TypeOK
  <2>2. worker' = [worker EXCEPT ![s] = w] /\ vm' = [vm EXCEPT ![s] = v]
    BY <1>9, <2>0, <2>1, Zenon DEF KeepWaiting, ShardInv, TypeOK
  <2>a. worker[s].quiet + 1 \in 0..MonitorTimeout
    BY <1>9, <2>1, ShardAssumption DEF KeepWaiting, Serial, Timeout, WorkerRecord,
       VMRecord
  <2>3. w \in WorkerRecord
    BY <2>0, <2>a, <2>1, Zenon DEF WorkerRecord, VMStatus, Serial, Timeout
  <2>4. v \in VMRecord
    BY <2>0, <2>a, <2>1 DEF VMRecord
  <2>5. Good(w, v)
    BY <1>9, <2>0, <2>a, <2>1, ZenonT(60) DEF KeepWaiting, Serial, Timeout, Good,
       ShardVerdictInv, Watched, ResultsInv, VMInv, Excused, WorkerRecord, VMRecord
  <2>6. QED
    BY <2>2, <2>3, <2>4, <2>5, StepOfOne, Zenon
<1>10. ASSUME NEW s \in Shards, TimedOut(s) PROVE ShardInv'
  <2>0. PICK x \in Serial(s) : worker' = [worker EXCEPT
           ![s].pc = "results", ![s].serial = x, ![s].vmTimeout = ~worker[s].keepDeadVM,
           ![s].vmStatus = TimeoutStatus(worker[s]),
           ![s].testResult = TimeoutResult(worker[s])]
    BY <1>10, Zenon DEF TimedOut, Serial, TimeIsUp, NoShutdown, TimeoutStatus,
       TimeoutResult
  <2> DEFINE w == [worker[s] EXCEPT !.pc = "results", !.serial = x, !.vmTimeout = ~worker[s].keepDeadVM,
                                   !.vmStatus = TimeoutStatus(worker[s]),
                                   !.testResult = TimeoutResult(worker[s])]
  <2> DEFINE v == vm[s]
  <2>1. worker[s] \in WorkerRecord /\ vm[s] \in VMRecord /\ Good(worker[s], vm[s])
    BY DEF ShardInv, TypeOK
  <2>2. worker' = [worker EXCEPT ![s] = w] /\ vm' = [vm EXCEPT ![s] = v]
    BY <1>10, <2>0, <2>1, ZenonT(120) DEF TimedOut, ShardInv, TypeOK
  <2>3. w \in WorkerRecord
    BY <2>0, <2>1, ZenonT(120) DEF WorkerRecord, PC, VMStatus, ResultType, Serial,
       TimeIsUp, NoShutdown, TimeoutStatus, TimeoutResult
  <2>4. v \in VMRecord
    BY <2>0, <2>1 DEF VMRecord
  <2>5. Good(w, v)
    BY <1>10, <2>0, <2>1, ZenonT(60) DEF TimedOut, Serial, TimeIsUp, NoShutdown,
       TimeoutStatus, TimeoutResult, Good, ShardVerdictInv, Watched, ResultsInv, VMInv,
       Excused, WorkerRecord, VMRecord
  <2>6. QED
    BY <2>2, <2>3, <2>4, <2>5, StepOfOne, Zenon
<1>11. ASSUME NEW s \in Shards, ResultsFound(s) PROVE ShardInv'
  <2> DEFINE w == [worker[s] EXCEPT !.pc = "unpack"]
  <2> DEFINE v == vm[s]
  <2>1. worker[s] \in WorkerRecord /\ vm[s] \in VMRecord /\ Good(worker[s], vm[s])
    BY DEF ShardInv, TypeOK
  <2>2. worker' = [worker EXCEPT ![s] = w] /\ vm' = [vm EXCEPT ![s] = v]
    BY <1>11, <2>1 DEF ResultsFound, ShardInv, TypeOK
  <2>3. w \in WorkerRecord
    BY <2>1 DEF WorkerRecord, PC
  <2>4. v \in VMRecord
    BY <2>1 DEF VMRecord
  <2>5. Good(w, v)
    BY <1>11, <2>1 DEF ResultsFound, Good, ShardVerdictInv, Watched, ResultsInv, VMInv,
       Excused, WorkerRecord, VMRecord
  <2>6. QED
    BY <2>2, <2>3, <2>4, <2>5, StepOfOne, Zenon
<1>12. ASSUME NEW s \in Shards, ResultsMissing(s) PROVE ShardInv'
  <2> DEFINE w == [worker[s] EXCEPT !.attempts = @ - 1]
  <2> DEFINE v == vm[s]
  <2>1. worker[s] \in WorkerRecord /\ vm[s] \in VMRecord /\ Good(worker[s], vm[s])
    BY DEF ShardInv, TypeOK
  <2>2. worker' = [worker EXCEPT ![s] = w] /\ vm' = [vm EXCEPT ![s] = v]
    BY <1>12, <2>1 DEF ResultsMissing, ShardInv, TypeOK
  <2>a. worker[s].attempts - 1 \in 0..MaxAttempts
    BY <1>12, <2>1, ShardAssumption DEF ResultsMissing, WorkerRecord, VMRecord
  <2>3. w \in WorkerRecord
    BY <2>a, <2>1 DEF WorkerRecord
  <2>4. v \in VMRecord
    BY <2>a, <2>1 DEF VMRecord
  <2>5. Good(w, v)
    BY <1>12, <2>a, <2>1, ZenonT(60) DEF ResultsMissing, Good, ShardVerdictInv, Watched,
       ResultsInv, VMInv, Excused, WorkerRecord, VMRecord
  <2>6. QED
    BY <2>2, <2>3, <2>4, <2>5, StepOfOne, Zenon
<1>13. ASSUME NEW s \in Shards, ResultsAbsent(s) PROVE ShardInv'
  <2> DEFINE w == [worker[s] EXCEPT !.pc = "exit", !.vmStatus = MissingStatus(worker[s]), !.testResult = MissingResult(worker[s])]
  <2> DEFINE v == vm[s]
  <2>1. worker[s] \in WorkerRecord /\ vm[s] \in VMRecord /\ Good(worker[s], vm[s])
    BY DEF ShardInv, TypeOK
  <2>2. worker' = [worker EXCEPT ![s] = w] /\ vm' = [vm EXCEPT ![s] = v]
    BY <1>13, <2>1, Zenon DEF ResultsAbsent, ShardInv, TypeOK
  <2>3. w \in WorkerRecord
    BY <2>1, ZenonT(60) DEF WorkerRecord, PC, VMStatus, ResultType, MissingStatus,
       MissingResult, Unlaunched
  <2>4. v \in VMRecord
    BY <2>1 DEF VMRecord
  <2>5. Good(w, v)
    BY <1>13, <2>1, ZenonT(120) DEF ResultsAbsent, MissingStatus, MissingResult,
       Unlaunched, Good, ShardVerdictInv, Watched, ResultsInv, VMInv, Excused, WorkerRecord,
       VMRecord
  <2>6. QED
    BY <2>2, <2>3, <2>4, <2>5, StepOfOne, Zenon
<1>14. ASSUME NEW s \in Shards, UnpackFails(s) PROVE ShardInv'
  <2>0. PICK x \in BOOLEAN : worker' = [worker EXCEPT
           ![s].pc = "exit", ![s].panic = TRUE, ![s].dir = x]
    BY <1>14, Zenon DEF UnpackFails
  <2> DEFINE w == [worker[s] EXCEPT !.pc = "exit", !.panic = TRUE, !.dir = x]
  <2> DEFINE v == vm[s]
  <2>1. worker[s] \in WorkerRecord /\ vm[s] \in VMRecord /\ Good(worker[s], vm[s])
    BY DEF ShardInv, TypeOK
  <2>2. worker' = [worker EXCEPT ![s] = w] /\ vm' = [vm EXCEPT ![s] = v]
    BY <1>14, <2>0, <2>1, Zenon DEF UnpackFails, ShardInv, TypeOK
  <2>3. w \in WorkerRecord
    BY <2>0, <2>1, Zenon DEF WorkerRecord, PC
  <2>4. v \in VMRecord
    BY <2>0, <2>1 DEF VMRecord
  <2>5. Good(w, v)
    BY <1>14, <2>0, <2>1, ZenonT(60) DEF UnpackFails, Good, ShardVerdictInv, Watched,
       ResultsInv,
       VMInv, Excused, WorkerRecord, VMRecord
  <2>6. QED
    BY <2>2, <2>3, <2>4, <2>5, StepOfOne, Zenon
<1>15. ASSUME NEW s \in Shards, Unpack(s) PROVE ShardInv'
  <2>0. PICK x \in {worker[s].serial, worker[s].serial /\ worker[s].vmTimeout} :
           worker' = [worker EXCEPT ![s].pc = "delete", ![s].dir = TRUE, ![s].serial = x]
    BY <1>15, Zenon DEF Unpack
  <2> DEFINE w == [worker[s] EXCEPT !.pc = "delete", !.dir = TRUE, !.serial = x]
  <2> DEFINE v == vm[s]
  <2>1. worker[s] \in WorkerRecord /\ vm[s] \in VMRecord /\ Good(worker[s], vm[s])
    BY DEF ShardInv, TypeOK
  <2>2. worker' = [worker EXCEPT ![s] = w] /\ vm' = [vm EXCEPT ![s] = v]
    BY <1>15, <2>0, <2>1, Zenon DEF Unpack, ShardInv, TypeOK
  <2>3. w \in WorkerRecord
    BY <2>0, <2>1, ZenonT(60) DEF WorkerRecord, PC
  <2>4. v \in VMRecord
    BY <2>0, <2>1 DEF VMRecord
  <2>5. Good(w, v)
    BY <1>15, <2>0, <2>1 DEF Unpack, Good, ShardVerdictInv, Watched, ResultsInv, VMInv,
       Excused, WorkerRecord, VMRecord
  <2>6. QED
    BY <2>2, <2>3, <2>4, <2>5, StepOfOne, Zenon
<1>16. ASSUME NEW s \in Shards, DeleteFiles(s) PROVE ShardInv'
  <2>0. PICK x \in {vm[s].bucket, "deleted"} : vm' = [vm EXCEPT ![s].bucket = x]
    BY <1>16, Zenon DEF DeleteFiles
  <2> DEFINE w == [worker[s] EXCEPT !.pc = "exit", !.vmStatus = "finished"]
  <2> DEFINE v == [vm[s] EXCEPT !.bucket = x]
  <2>1. worker[s] \in WorkerRecord /\ vm[s] \in VMRecord /\ Good(worker[s], vm[s])
    BY DEF ShardInv, TypeOK
  <2>2. worker' = [worker EXCEPT ![s] = w] /\ vm' = [vm EXCEPT ![s] = v]
    BY <1>16, <2>0, <2>1, Zenon DEF DeleteFiles, ShardInv, TypeOK
  <2>3. w \in WorkerRecord
    BY <2>0, <2>1, ZenonT(60) DEF WorkerRecord, PC, VMStatus
  <2>4. v \in VMRecord
    BY <2>0, <2>1 DEF VMRecord
  <2>5. Good(w, v)
    BY <1>16, <2>0, <2>1 DEF DeleteFiles, Good, ShardVerdictInv, Watched, ResultsInv, VMInv,
       Excused, WorkerRecord, VMRecord
  <2>6. QED
    BY <2>2, <2>3, <2>4, <2>5, StepOfOne, Zenon
<1>17. ASSUME NEW s \in Shards, Exit(s) PROVE ShardInv'
  <2> DEFINE w == [worker[s] EXCEPT !.pc = "done", !.testResult = ExitResult(worker[s])]
  <2> DEFINE v == vm[s]
  <2>1. worker[s] \in WorkerRecord /\ vm[s] \in VMRecord /\ Good(worker[s], vm[s])
    BY DEF ShardInv, TypeOK
  <2>2. worker' = [worker EXCEPT ![s] = w] /\ vm' = [vm EXCEPT ![s] = v]
    BY <1>17, <2>1, Zenon DEF Exit, ShardInv, TypeOK
  <2>3. w \in WorkerRecord
    BY <2>1, ZenonT(60) DEF WorkerRecord, PC, ResultType, ExitResult
  <2>4. v \in VMRecord
    BY <2>1 DEF VMRecord
  <2>5. Good(w, v)
    BY <1>17, <2>1, ZenonT(120) DEF Exit, ExitResult, Good, ShardVerdictInv, Watched,
       ResultsInv, VMInv, Excused, WorkerRecord, VMRecord
  <2>6. QED
    BY <2>2, <2>3, <2>4, <2>5, StepOfOne, Zenon
<1>18. ASSUME NEW s \in Shards, PublishStatus(s) PROVE ShardInv'
  <2> DEFINE w == worker[s]
  <2> DEFINE v == [vm[s] EXCEPT !.fresh = TRUE, !.left = @ - 1]
  <2>1. worker[s] \in WorkerRecord /\ vm[s] \in VMRecord /\ Good(worker[s], vm[s])
    BY DEF ShardInv, TypeOK
  <2>2. worker' = [worker EXCEPT ![s] = w] /\ vm' = [vm EXCEPT ![s] = v]
    BY <1>18, <2>1, Zenon DEF PublishStatus, ShardInv, TypeOK
  <2>a. vm[s].left - 1 \in 0..MaxTests /\ vm[s].left - 1 < MaxTests
    BY <1>18, <2>1, ShardAssumption DEF PublishStatus, WorkerRecord, VMRecord
  <2>3. w \in WorkerRecord
    BY <2>a, <2>1 DEF WorkerRecord
  <2>4. v \in VMRecord
    BY <2>a, <2>1, Zenon DEF VMRecord
  <2>5. Good(w, v)
    BY <1>18, <2>a, <2>1, ZenonT(120) DEF PublishStatus, Good, ShardVerdictInv, Watched,
       ResultsInv, VMInv, Excused, WorkerRecord, VMRecord
  <2>6. QED
    BY <2>2, <2>3, <2>4, <2>5, StepOfOne, Zenon
<1>19. ASSUME NEW s \in Shards, UploadResults(s) PROVE ShardInv'
  <2> DEFINE w == worker[s]
  <2> DEFINE v == [vm[s] EXCEPT !.bucket = "stored"]
  <2>1. worker[s] \in WorkerRecord /\ vm[s] \in VMRecord /\ Good(worker[s], vm[s])
    BY DEF ShardInv, TypeOK
  <2>2. worker' = [worker EXCEPT ![s] = w] /\ vm' = [vm EXCEPT ![s] = v]
    BY <1>19, <2>1 DEF UploadResults, ShardInv, TypeOK
  <2>3. w \in WorkerRecord
    BY <2>1 DEF WorkerRecord
  <2>4. v \in VMRecord
    BY <2>1 DEF VMRecord
  <2>5. Good(w, v)
    BY <1>19, <2>1, ZenonT(120) DEF UploadResults, Good, ShardVerdictInv, Watched,
       ResultsInv, VMInv, Excused, WorkerRecord, VMRecord
  <2>6. QED
    BY <2>2, <2>3, <2>4, <2>5, StepOfOne, Zenon
<1>20. ASSUME NEW s \in Shards, StopVM(s) PROVE ShardInv'
  <2> DEFINE w == worker[s]
  <2> DEFINE v == [vm[s] EXCEPT !.state = "stopping"]
  <2>1. worker[s] \in WorkerRecord /\ vm[s] \in VMRecord /\ Good(worker[s], vm[s])
    BY DEF ShardInv, TypeOK
  <2>2. worker' = [worker EXCEPT ![s] = w] /\ vm' = [vm EXCEPT ![s] = v]
    BY <1>20, <2>1 DEF StopVM, Deleted, ShardInv, TypeOK
  <2>3. w \in WorkerRecord
    BY <2>1 DEF WorkerRecord, Deleted
  <2>4. v \in VMRecord
    BY <2>1 DEF VMRecord
  <2>5. Good(w, v)
    BY <1>20, <2>1, ZenonT(120) DEF StopVM, Deleted, Good, ShardVerdictInv, Watched,
       ResultsInv, VMInv, Excused, WorkerRecord, VMRecord
  <2>6. QED
    BY <2>2, <2>3, <2>4, <2>5, StepOfOne, Zenon
<1>21. ASSUME NEW s \in Shards, VanishVM(s) PROVE ShardInv'
  <2> DEFINE w == worker[s]
  <2> DEFINE v == [vm[s] EXCEPT !.state = "gone"]
  <2>1. worker[s] \in WorkerRecord /\ vm[s] \in VMRecord /\ Good(worker[s], vm[s])
    BY DEF ShardInv, TypeOK
  <2>2. worker' = [worker EXCEPT ![s] = w] /\ vm' = [vm EXCEPT ![s] = v]
    BY <1>21, <2>1 DEF VanishVM, ShardInv, TypeOK
  <2>3. w \in WorkerRecord
    BY <2>1 DEF WorkerRecord
  <2>4. v \in VMRecord
    BY <2>1, SMTT(60) DEF VMRecord
  <2>5. Good(w, v)
    BY <1>21, <2>1 DEF VanishVM, Good, ShardVerdictInv, Watched, ResultsInv, VMInv, Excused,
       WorkerRecord, VMRecord
  <2>6. QED
    BY <2>2, <2>3, <2>4, <2>5, StepOfOne, Zenon
<1>22. ASSUME NEW s \in Shards, AbortVM(s) PROVE ShardInv'
  <2>1. worker[s] \in WorkerRecord /\ vm[s] \in VMRecord /\ Good(worker[s], vm[s])
    BY DEF ShardInv, TypeOK
  <2>0. PICK x \in {vm[s], Deleted(vm[s])} : vm' = [vm EXCEPT ![s] = [x EXCEPT !.reason = "user"]]
    BY <1>22, Zenon DEF AbortVM
  <2> DEFINE v == [x EXCEPT !.reason = "user"]
  <2>2. worker' = [worker EXCEPT ![s] = worker[s]] /\ vm' = [vm EXCEPT ![s] = v]
    BY <1>22, <2>0, Zenon DEF AbortVM, ShardInv, TypeOK
  <2>3. v \in VMRecord
    BY <2>0, <2>1 DEF VMRecord, Deleted
  <2>4. Good(worker[s], v)
    BY <1>22, <2>0, <2>1, ZenonT(120) DEF AbortVM, Deleted, Good, ShardVerdictInv, Watched,
       ResultsInv, VMInv, Excused, WorkerRecord, VMRecord
  <2>5. QED
    BY <2>1, <2>2, <2>3, <2>4, StepOfOne, Zenon
<1>23. ASSUME NEW s \in Shards, ShutdownOnTimeout(s) PROVE ShardInv'
  <2>1. worker[s] \in WorkerRecord /\ vm[s] \in VMRecord /\ Good(worker[s], vm[s])
    BY DEF ShardInv, TypeOK
  <2> DEFINE w == [worker[s] EXCEPT !.pc = "results",
                                   !.vmStatus = TimeoutStatus(worker[s]),
                                   !.testResult = TimeoutResult(worker[s])]
  <2>2. worker' = [worker EXCEPT ![s] = w]
    BY <1>23, <2>1, Zenon DEF ShutdownOnTimeout, ShardInv, TypeOK
  <2>3. w \in WorkerRecord
    BY <2>1, ZenonT(60) DEF WorkerRecord, PC, VMStatus, ResultType, TimeoutStatus,
       TimeoutResult
  <2>4. PICK v \in {Deleted(vm[s]), [vm[s] EXCEPT !.deleteFailed = TRUE]} :
          vm' = [vm EXCEPT ![s] = v]
    BY <1>23, <2>1 DEF ShutdownOnTimeout, ShardInv, TypeOK
  <2>5. v \in VMRecord
    BY <2>1, <2>4, ZenonT(60) DEF VMRecord, Deleted
  <2>6. Good(w, v)
    BY <1>23, <2>1, <2>4, ZenonT(120) DEF ShutdownOnTimeout, TimeoutStatus,
       TimeoutResult, Deleted, Good, ShardVerdictInv, Watched, ResultsInv, VMInv, Excused,
       WorkerRecord, VMRecord
  <2>7. QED
    BY <2>2, <2>3, <2>4, <2>5, <2>6, StepOfOne, Zenon
<1>24. ASSUME NEW s \in Shards, SetShutdownReason(s) PROVE ShardInv'
  <2>1. worker[s] \in WorkerRecord /\ vm[s] \in VMRecord /\ Good(worker[s], vm[s])
    BY DEF ShardInv, TypeOK
  <2>2. PICK x \in Serial(s) : worker' = [worker EXCEPT
           ![s].pc = "shutdown", ![s].serial = x, ![s].vmTimeout = TRUE]
    BY <1>24, Zenon DEF SetShutdownReason
  <2>3. PICK r \in {"none", "ltm"} : vm' = [vm EXCEPT ![s].reason = r]
    BY <1>24, Zenon DEF SetShutdownReason
  <2> DEFINE w == [worker[s] EXCEPT !.pc = "shutdown", !.serial = x, !.vmTimeout = TRUE]
  <2> DEFINE v == [vm[s] EXCEPT !.reason = r]
  <2>4. worker' = [worker EXCEPT ![s] = w] /\ vm' = [vm EXCEPT ![s] = v]
    BY <2>1, <2>2, <2>3, Zenon DEF ShardInv, TypeOK
  <2>5. w \in WorkerRecord
    BY <2>1, <2>2, Zenon DEF WorkerRecord, PC, Serial
  <2>6. v \in VMRecord
    BY <2>1, <2>3 DEF VMRecord
  <2>7. Good(w, v)
    BY <1>24, <2>1, <2>2, <2>3 DEF SetShutdownReason, TimeIsUp, NoShutdown, Good,
       ShardVerdictInv, Watched, ResultsInv, VMInv, Excused, WorkerRecord, VMRecord
  <2>8. QED
    BY <2>4, <2>5, <2>6, <2>7, StepOfOne, Zenon
<1>25. CASE UNCHANGED vars
  BY <1>25 DEF vars, ShardInv, TypeOK
<1>26. QED
  BY <1>1, <1>2, <1>3, <1>4, <1>5, <1>6, <1>7, <1>8, <1>9, <1>10, <1>11, <1>12, <1>13,
     <1>14, <1>15, <1>16, <1>17, <1>18, <1>19, <1>20, <1>21, <1>22, <1>23, <1>24,
     <1>25 DEF Next, ShardStep, VMStep

-----------------------------------------------------------------------------
(* The theorems.                                                           *)

\* The inductive invariant holds in every reachable state of Run, monitor,
\* finish and exit.
THEOREM ShardInvariance == Spec => []ShardInv
<1>1. Init => ShardInv
  BY ShardInitInv
<1>2. ShardInv /\ [Next]_vars => ShardInv'
  BY ShardNextInv
<1>3. QED
  BY <1>1, <1>2, PTL DEF Spec

\* Every field holds a value of its type, the tick and attempt counters included.
THEOREM ShardTypeCorrect == Spec => []TypeOK
<1>1. ShardInv => TypeOK
  BY DEF ShardInv
<1>2. QED
  BY <1>1, ShardInvariance, PTL

\* finish never deletes results from the bucket that are not unpacked on disk.
THEOREM ResultsAreKept == Spec => []ResultsKept
<1>1. ShardInv => ResultsKept
  BY DEF ShardInv, Good, ResultsInv, ResultsKept
<1>2. QED
  BY <1>1, ShardInvariance, PTL

\* A VM outlives its shard only for one of the reasons NoOrphanVM names.
THEOREM NoVMIsOrphaned == Spec => []NoOrphanVM
<1>1. ShardInv => NoOrphanVM
  BY Zenon DEF ShardInv, Good, VMInv, Excused, NoOrphanVM
<1>2. QED
  BY <1>1, ShardInvariance, PTL

\* monitor judges Hang only if the VM had published a status.
THEOREM HangsHadStarted == Spec => []HangAfterStatus
<1>1. ShardInv => HangAfterStatus
  BY DEF ShardInv, Good, ShardVerdictInv, HangAfterStatus
<1>2. QED
  BY <1>1, ShardInvariance, PTL

-----------------------------------------------------------------------------
(* The verdict is stable, and the shard keeps its promise.                 *)

\* The steps between the first and the last one of a shard.
Inner(s) ==
  \/ CmdLogFails(s) \/ LaunchFails(s) \/ LaunchSucceeds(s)
  \/ InstanceNotFound(s) \/ InstanceInfoFails(s) \/ InstanceStopped(s)
  \/ StatusChanged(s) \/ KeepWaiting(s) \/ TimedOut(s)
  \/ SetShutdownReason(s) \/ ShutdownOnTimeout(s)
  \/ ResultsFound(s) \/ ResultsMissing(s) \/ ResultsAbsent(s)
  \/ UnpackFails(s) \/ Unpack(s) \/ DeleteFiles(s)

\* What such a step does to the goroutine of s, and to no other.
InnerEffect(s) ==
  /\ worker[s].pc \notin {"idle", "done"} /\ worker'[s].pc \notin {"idle", "done"}
  /\ worker[s].testResult # "Default" => worker'[s].testResult = worker[s].testResult
  /\ worker[s].keepDeadVM /\ vm[s].state = "running" => vm'[s].state = "running"
  /\ \A r \in Shards \ {s} : worker'[r] = worker[r]

\* A step of the goroutine in between leaves its phase, a verdict once given,
\* and every other goroutine alone.
LEMMA InnerStep ==
  ASSUME ShardInv, NEW s \in Shards, Inner(s) PROVE InnerEffect(s)
<1> USE DEF InnerEffect
<1>1. /\ worker \in [Shards -> WorkerRecord] /\ ShardVerdictInv(worker[s], vm[s])
      /\ worker[s] \in WorkerRecord /\ vm \in [Shards -> VMRecord]
      /\ VMInv(worker[s], vm[s])
  BY DEF ShardInv, TypeOK, Good
<1>2. CASE CmdLogFails(s)
  BY <1>1, <1>2 DEF CmdLogFails, Panic, WorkerRecord
<1>3. CASE LaunchFails(s)
  BY <1>1, <1>3, Zenon DEF LaunchFails, WorkerRecord, VMRecord, VMInv
<1>4. CASE LaunchSucceeds(s)
  BY <1>1, <1>4 DEF LaunchSucceeds, WorkerRecord, VMRecord
<1>5. CASE InstanceNotFound(s)
  BY <1>1, <1>5 DEF InstanceNotFound, WorkerRecord
<1>6. CASE InstanceInfoFails(s)
  BY <1>1, <1>6, Zenon DEF InstanceInfoFails, WorkerRecord
<1>7. CASE InstanceStopped(s)
  BY <1>1, <1>7 DEF InstanceStopped, WorkerRecord
<1>8. CASE StatusChanged(s)
  BY <1>1, <1>8 DEF StatusChanged, WorkerRecord, VMRecord
<1>9. CASE KeepWaiting(s)
  BY <1>1, <1>9 DEF KeepWaiting, WorkerRecord
<1>10. CASE TimedOut(s)
  BY <1>1, <1>10 DEF TimedOut, TimeIsUp, ShardVerdictInv, Watched, WorkerRecord
<1>11. CASE SetShutdownReason(s)
  BY <1>1, <1>11 DEF SetShutdownReason, TimeIsUp, WorkerRecord, VMRecord
<1>12. CASE ShutdownOnTimeout(s)
  BY <1>1, <1>12 DEF ShutdownOnTimeout, ShardVerdictInv, Watched, WorkerRecord, VMRecord, VMInv
<1>13. CASE ResultsFound(s)
  BY <1>1, <1>13 DEF ResultsFound, WorkerRecord
<1>14. CASE ResultsMissing(s)
  BY <1>1, <1>14 DEF ResultsMissing, WorkerRecord
<1>15. CASE ResultsAbsent(s)
  BY <1>1, <1>15 DEF ResultsAbsent, MissingResult, WorkerRecord
<1>16. CASE UnpackFails(s)
  BY <1>1, <1>16 DEF UnpackFails, WorkerRecord
<1>17. CASE Unpack(s)
  BY <1>1, <1>17 DEF Unpack, WorkerRecord
<1>18. CASE DeleteFiles(s)
  BY <1>1, <1>18 DEF DeleteFiles, WorkerRecord, VMRecord
<1>19. QED
  BY <1>2, <1>3, <1>4, <1>5, <1>6, <1>7, <1>8, <1>9, <1>10, <1>11, <1>12, <1>13,
     <1>14, <1>15, <1>16, <1>17, <1>18, Zenon DEF Inner

\* Every step is one of these, the first or the last, or not of a shard at all.
LEMMA StepKinds ==
  ASSUME [Next]_vars
  PROVE  \/ UNCHANGED worker
         \/ \E s \in Shards : Start(s) \/ Inner(s) \/ Exit(s)
BY ZenonT(60) DEF Next, ShardStep, VMStep, Inner, vars, PublishStatus, UploadResults,
   StopVM,
   VanishVM, AbortVM

\* Neither finish nor exit overwrites a verdict given earlier.
THEOREM VerdictIsStable == Spec => VerdictStable
<1>1. ShardInv /\ [Next]_vars =>
        [\A s \in Shards : worker[s].testResult # "Default" =>
           worker'[s].testResult = worker[s].testResult]_vars
  <2> SUFFICES ASSUME ShardInv, [Next]_vars, NEW r \in Shards,
                      worker[r].testResult # "Default"
               PROVE  worker'[r].testResult = worker[r].testResult
    OBVIOUS
  <2>1. CASE UNCHANGED worker
    BY <2>1
  <2>2. ASSUME NEW s \in Shards, Start(s)
        PROVE  worker'[r].testResult = worker[r].testResult
    BY <2>2 DEF Start, ShardInv, TypeOK, WorkerRecord
  <2>3. ASSUME NEW s \in Shards, Inner(s)
        PROVE  worker'[r].testResult = worker[r].testResult
    BY <2>3, InnerStep DEF InnerEffect
  <2>4. ASSUME NEW s \in Shards, Exit(s)
        PROVE  worker'[r].testResult = worker[r].testResult
    BY <2>4 DEF Exit, ExitResult, ShardInv, TypeOK, WorkerRecord
  <2>5. QED
    BY <2>1, <2>2, <2>3, <2>4, StepKinds
<1>2. QED
  BY <1>1, ShardInvariance, PTL DEF Spec, VerdictStable

\* With keepDeadVM, no step of a shard stops its VM.
THEOREM DeadVMIsKept == Spec => DeadVMKept
<1>1. ShardInv /\ [Next]_vars =>
        [\A s \in Shards :
           worker[s].keepDeadVM /\ worker'[s] # worker[s] /\ vm[s].state = "running" =>
             vm'[s].state = "running"]_vars
  <2> SUFFICES ASSUME ShardInv, [Next]_vars, NEW r \in Shards, worker[r].keepDeadVM,
                      worker'[r] # worker[r], vm[r].state = "running"
               PROVE  vm'[r].state = "running"
    OBVIOUS
  <2>1. ASSUME NEW s \in Shards, Start(s) \/ Exit(s) PROVE vm'[r].state = "running"
    BY <2>1, SMTT(60) DEF Start, Exit
  <2>2. ASSUME NEW s \in Shards, Inner(s) PROVE vm'[r].state = "running"
    BY <2>2, InnerStep DEF InnerEffect
  <2>3. QED
    BY <2>1, <2>2, StepKinds
<1>2. QED
  BY <1>1, ShardInvariance, PTL DEF Spec, DeadVMKept

\* A function that differs from f at most at s is an update of f.
LEMMA UpdateAt ==
  ASSUME NEW S, NEW s \in S, NEW f, NEW g, NEW e,
         f = [r \in S |-> f[r]], g = [r \in S |-> g[r]],
         g[s] = e, \A r \in S \ {s} : g[r] = f[r]
  PROVE  g = [f EXCEPT ![s] = e]
OBVIOUS

\* The shards NewShardWorker builds are idle in ShardPromise.
LEMMA PromiseInit == Init => Promise!ShardInit
<1>1. ASSUME NEW keep \in BOOLEAN
      PROVE  /\ PhaseOf(NewShardWorker(keep)) = "idle"
             /\ OutcomeOf(NewShardWorker(keep)) = Promise!Nothing
  BY DEF NewShardWorker, PhaseOf, OutcomeOf, Promise!Nothing
<1>2. QED
  BY <1>1 DEF Init, Promise!ShardInit

\* Start and Exit are the steps of ShardPromise, all others are stuttering.
LEMMA PromiseStep == ShardInv /\ [Next]_vars => [Promise!ShardNext]_(Promise!shardVars)
<1> SUFFICES ASSUME ShardInv, [Next]_vars PROVE [Promise!ShardNext]_(Promise!shardVars)
  OBVIOUS
<1>1. CASE UNCHANGED worker
  BY <1>1 DEF Promise!shardVars
<1>2. ASSUME NEW s \in Shards, Start(s) PROVE Promise!StartShard(s)
  <2>1. /\ \A r \in Shards \ {s} : worker'[r] = worker[r]
        /\ PhaseOf(worker[s]) = "idle" /\ PhaseOf(worker'[s]) = "running"
        /\ OutcomeOf(worker'[s]) = OutcomeOf(worker[s])
    BY <1>2 DEF Start, ShardInv, TypeOK, WorkerRecord, PhaseOf, OutcomeOf
  <2> DEFINE p == [r \in Shards |-> PhaseOf(worker[r])]
  <2> DEFINE q == [r \in Shards |-> PhaseOf(worker'[r])]
  <2>2. q = [p EXCEPT ![s] = "running"]
    <3>1. q[s] = "running" /\ \A r \in Shards \ {s} : q[r] = p[r]
      BY <2>1
    <3>2. p = [r \in Shards |-> p[r]] /\ q = [r \in Shards |-> q[r]]
      OBVIOUS
    <3> HIDE DEF p, q
    <3>3. QED
      BY <3>1, <3>2, UpdateAt
  <2>3. [r \in Shards |-> OutcomeOf(worker'[r])] = [r \in Shards |-> OutcomeOf(worker[r])]
    BY <2>1
  <2>4. p[s] = "idle"
    BY <2>1
  <2>5. QED
    BY <2>2, <2>3, <2>4 DEF Promise!StartShard, PhaseOf, OutcomeOf
<1>3. ASSUME NEW s \in Shards, Inner(s) PROVE UNCHANGED Promise!shardVars
  BY <1>3, InnerStep DEF InnerEffect, PhaseOf, OutcomeOf, Promise!shardVars
<1>4. ASSUME NEW s \in Shards, Exit(s) PROVE Promise!ExitShard(s)
  <2> DEFINE o == [result |-> ExitResult(worker[s]), dir |-> worker[s].dir,
                   serial |-> worker[s].serial]
  <2>1. worker[s] \in WorkerRecord /\ Good(worker[s], vm[s]) /\ worker[s].pc = "exit"
    BY <1>4, SMTT(60) DEF Exit, ShardInv, TypeOK
  <2>2. o \in Promise!PromisedOutcome
    BY <2>1 DEF WorkerRecord, Good, ShardVerdictInv, ResultsInv, ExitResult, ResultType,
       Promise!PromisedOutcome, Promise!Promised, Promise!OutcomeRecord, Promise!ResultType
  <2>3. /\ \A r \in Shards \ {s} : worker'[r] = worker[r]
        /\ PhaseOf(worker[s]) = "running" /\ PhaseOf(worker'[s]) = "done"
        /\ OutcomeOf(worker'[s]) = o
    BY <1>4, <2>1 DEF Exit, ShardInv, TypeOK, WorkerRecord, PhaseOf, OutcomeOf
  <2> DEFINE p == [r \in Shards |-> PhaseOf(worker[r])]
  <2> DEFINE q == [r \in Shards |-> PhaseOf(worker'[r])]
  <2> DEFINE a == [r \in Shards |-> OutcomeOf(worker[r])]
  <2> DEFINE b == [r \in Shards |-> OutcomeOf(worker'[r])]
  <2>4. q = [p EXCEPT ![s] = "done"] /\ b = [a EXCEPT ![s] = o]
    <3>1. q[s] = "done" /\ \A r \in Shards \ {s} : q[r] = p[r]
      BY <2>3
    <3>2. b[s] = o /\ \A r \in Shards \ {s} : b[r] = a[r]
      BY <2>3
    <3>3. /\ p = [r \in Shards |-> p[r]] /\ q = [r \in Shards |-> q[r]]
          /\ a = [r \in Shards |-> a[r]] /\ b = [r \in Shards |-> b[r]]
      OBVIOUS
    <3> HIDE DEF p, q, a, b, o
    <3>4. QED
      BY <3>1, <3>2, <3>3, UpdateAt, ZenonT(60)
  <2>5. p[s] = "running"
    BY <2>3
  <2> HIDE DEF o
  <2>6. QED
    BY <2>2, <2>4, <2>5, Zenon DEF Promise!ExitShard, PhaseOf, OutcomeOf
<1>5. QED
  BY <1>1, <1>2, <1>3, <1>4, StepKinds DEF Promise!ShardNext

\* Shard implements ShardPromise: what the scheduler may assume of any shard.
THEOREM PromiseIsKept == Spec => KeepsPromise
BY PromiseInit, PromiseStep, ShardInvariance, PTL DEF Spec, KeepsPromise, Promise!ShardSpec

-----------------------------------------------------------------------------
(* The scheduler.                                                          *)

Live == {s \in Shards : phase[s] = "running"}

Finishing == sharder.pc \notin {"start", "wait"}

\* The WaitGroup counts the goroutines that run, and wg.Wait is a barrier.
WaitInv ==
  /\ sharder.wg = Cardinality(Live)
  /\ \A s \in Shards : phase[s] # "idle" => s \in sharder.shards
  /\ sharder.pc # "start" => \A s \in sharder.shards : phase[s] # "idle"
  /\ Finishing => Live = {}
  /\ \A s \in Shards : phase[s] = "done" => Promised(outcome[s])

\* Between aggResults and packResults, aggDir holds what the shards left.
AggInv ==
  sharder.pc \in {"info", "summary", "email", "pack"} =>
    sharder.agg = Moved(sharder.shards) /\ HasResults

\* The verdict is decided by genResultsSummary and by nothing else.
SharderVerdictInv ==
  /\ sharder.testResult \in {"Default", "Pass", "Fail", "Error"}
  /\ sharder.pc \in {"start", "wait", "aggregate", "info", "summary"} =>
       sharder.testResult = "Default"
  /\ PassEarned

UploadInv ==
  /\ sharder.tarball # {} => Finishing
  /\ UploadComplete

\* The deferred calls: who has been told, and when the sharder is unlisted.
TellInv ==
  /\ sharder.pc \in {"kcs", "clean", "recover", "done"} <=> sharder.watcherResult # NotSent
  /\ sharder.pc \in {"clean", "recover", "done"} /\ sharder.reportKCS
       <=> sharder.kcsResult # NotSent
  /\ sharder.pc = "kcs" => sharder.reportKCS
  /\ sharder.registered <=> sharder.pc \notin {"recover", "done"}

SharderInv == SharderTypeOK /\ WaitInv /\ AggInv /\ SharderVerdictInv /\ UploadInv /\ TellInv
-----------------------------------------------------------------------------
(* The invariant is inductive.                                             *)

\* NewShardScheduler establishes the invariant.
LEMMA SharderInitInv == SharderInit => SharderInv
<1> SUFFICES ASSUME SharderInit PROVE SharderInv
  OBVIOUS
<1>1. PICK reportKCS \in BOOLEAN, receiver \in BOOLEAN, chosen \in SUBSET Shards,
           failed \in [Shards -> FailureCounts] :
        sharder = NewShardScheduler(reportKCS, receiver, chosen, failed)
  BY DEF SharderInit
<1>2. phase = [s \in Shards |-> "idle"] /\ outcome = [s \in Shards |-> Nothing]
  BY DEF SharderInit, ShardInit
<1>3. sharder \in SharderRecord
  BY <1>1, SharderAssumption DEF NewShardScheduler, SharderRecord, SharderPC, ResultType
<1>4. phase \in [Shards -> Phase] /\ outcome \in [Shards -> OutcomeRecord]
  BY <1>2 DEF Phase, OutcomeRecord, Nothing, ResultType
<1>5. Live = {} /\ Cardinality({}) = 0
  BY <1>2, FS_EmptySet DEF Live
<1>6. WaitInv
  BY <1>1, <1>2, <1>5 DEF WaitInv, Finishing, NewShardScheduler
<1>7. AggInv /\ SharderVerdictInv /\ UploadInv /\ TellInv
  BY <1>1, Zenon DEF AggInv, SharderVerdictInv, PassEarned, UploadInv, UploadComplete, TellInv,
     NewShardScheduler, NotSent, ResultType
<1>8. QED
  BY <1>3, <1>4, <1>6, <1>7 DEF SharderInv, SharderTypeOK

\* What AggInv speaks of depends on the shards and their outcomes only.
LEMMA AggSame ==
  ASSUME outcome' = outcome, sharder'.shards = sharder.shards
  PROVE  /\ HasResults' <=> HasResults
         /\ Moved(sharder.shards)' = Moved(sharder.shards)
BY DEF HasResults, Moved, Aggregated

LEMMA MovedType == \A ss : Moved(ss) \in [Shards -> {"none", "dir", "serial"}]
BY DEF Moved, Aggregated

LEMMA VerdictType == \A report : Verdict(report) \in {"Pass", "Fail", "Error"}
BY DEF Verdict

\* What no step of the scheduler after StartNext changes.
Kept ==
  /\ phase' = phase /\ outcome' = outcome
  /\ sharder'.shards = sharder.shards /\ sharder'.wg = sharder.wg
  /\ sharder'.reportKCS = sharder.reportKCS

\* Every step of the scheduler goroutine after it has started the shards
\* preserves the invariant.
LEMMA RunInv ==
  ASSUME SharderInv, UNCHANGED shardVars,
         \/ AllStarted \/ Wait \/ AggResults \/ AggResultsPanics \/ CreateInfo
         \/ GenResultsSummary \/ EmailReport \/ EmailReportPanics
         \/ PackResults \/ PackResultsPanics
         \/ SendWatcherResult \/ SendKCSReport \/ Clean \/ ReportFailure
  PROVE  SharderInv'
<1>0. sharder \in SharderRecord /\ phase' = phase /\ outcome' = outcome
  BY DEF SharderInv, SharderTypeOK, shardVars
<1>1. CASE AllStarted
  <2>2. sharder.pc = "start"
    BY <1>1 DEF AllStarted
  <2>3. sharder' \in SharderRecord
    BY <1>0, <1>1 DEF AllStarted, SharderRecord, SharderPC
  <2>4. sharder'.pc = "wait" /\ Kept
    BY <1>0, <1>1 DEF AllStarted, Kept, SharderRecord
  <2>5. /\ sharder'.agg = sharder.agg
        /\ sharder'.testResult = sharder.testResult
        /\ sharder'.tarball = sharder.tarball
        /\ sharder'.watcherResult = sharder.watcherResult
        /\ sharder'.kcsResult = sharder.kcsResult
        /\ sharder'.registered = sharder.registered
    BY <1>0, <1>1 DEF AllStarted, SharderRecord
  <2>6. WaitInv'
    BY <2>2, <2>4, <2>5, <1>1, SMTT(60) DEF SharderInv, WaitInv, Live, Finishing, Kept,
       AllStarted
  <2>7. AggInv'
    BY <2>2, <2>4, <2>5, AggSame, SMTT(60) DEF SharderInv, AggInv, Kept
  <2>8. UploadInv'
    BY <2>2, <2>4, <2>5, SMTT(60) DEF SharderInv, UploadInv, UploadComplete, Finishing, Kept
  <2>9. SharderVerdictInv'
    BY <2>2, <2>4, <2>5 DEF SharderInv, SharderVerdictInv, PassEarned, Kept
  <2>10. TellInv'
    BY <2>2, <2>4, <2>5, SMTT(60) DEF SharderInv, TellInv, Kept
  <2>11. QED
    BY <1>0, <2>3, <2>6, <2>7, <2>8, <2>9, <2>10, SMTT(60) DEF SharderInv, SharderTypeOK
<1>2. CASE Wait
  <2>2. sharder.pc = "wait"
    BY <1>2 DEF Wait
  <2>3. sharder' \in SharderRecord
    BY <1>0, <1>2 DEF Wait, SharderRecord, SharderPC
  <2>4. sharder'.pc = "aggregate" /\ Kept
    BY <1>0, <1>2 DEF Wait, Kept, SharderRecord
  <2>5. /\ sharder'.agg = sharder.agg
        /\ sharder'.testResult = sharder.testResult
        /\ sharder'.tarball = sharder.tarball
        /\ sharder'.watcherResult = sharder.watcherResult
        /\ sharder'.kcsResult = sharder.kcsResult
        /\ sharder'.registered = sharder.registered
    BY <1>0, <1>2 DEF Wait, SharderRecord
  <2>6. WaitInv'
    <3>1. IsFiniteSet(Live) /\ Live \subseteq Shards
      BY SharderAssumption, FS_Subset DEF Live
    <3>2. Live = {}
      BY <1>2, <3>1, FS_EmptySet, ZenonT(60) DEF Wait, SharderInv, WaitInv
    <3>3. Live' = Live
      BY <2>4 DEF Kept, Live
    <3>4. QED
      BY <2>2, <2>4, <3>2, <3>3, SMTT(60) DEF SharderInv, WaitInv, Kept
  <2>7. AggInv'
    BY <2>2, <2>4, <2>5, AggSame, SMTT(60) DEF SharderInv, AggInv, Kept
  <2>8. UploadInv'
    BY <2>2, <2>4, <2>5, SMTT(60) DEF SharderInv, UploadInv, UploadComplete, Finishing, Kept
  <2>9. SharderVerdictInv'
    BY <2>2, <2>4, <2>5 DEF SharderInv, SharderVerdictInv, PassEarned, Kept
  <2>10. TellInv'
    BY <2>2, <2>4, <2>5, SMTT(60) DEF SharderInv, TellInv, Kept
  <2>11. QED
    BY <1>0, <2>3, <2>6, <2>7, <2>8, <2>9, <2>10 DEF SharderInv, SharderTypeOK
<1>3. CASE AggResults
  <2>2. sharder.pc = "aggregate"
    BY <1>3 DEF AggResults
  <2>3. sharder' \in SharderRecord
    BY <1>0, <1>3, MovedType, ZenonT(60) DEF AggResults, SharderRecord, SharderPC
  <2>4. sharder'.pc = "info" /\ Kept
    BY <1>0, <1>3 DEF AggResults, Kept, SharderRecord
  <2>5. /\ sharder'.agg = Moved(sharder.shards)
        /\ sharder'.testResult = sharder.testResult
        /\ sharder'.tarball = sharder.tarball
        /\ sharder'.watcherResult = sharder.watcherResult
        /\ sharder'.kcsResult = sharder.kcsResult
        /\ sharder'.registered = sharder.registered
    BY <1>0, <1>3 DEF AggResults, SharderRecord
  <2>6. WaitInv'
    BY <2>2, <2>4, <2>5 DEF SharderInv, WaitInv, Live, Finishing, Kept
  <2>7. AggInv'
    BY <2>2, <2>4, <2>5, AggSame, <1>3, SMTT(60) DEF AggResults, SharderInv, AggInv, Kept
  <2>8. UploadInv'
    BY <2>2, <2>4, <2>5, SMTT(60) DEF SharderInv, UploadInv, UploadComplete, Finishing, Kept
  <2>9. SharderVerdictInv'
    BY <2>2, <2>4, <2>5, SMTT(60) DEF SharderInv, SharderVerdictInv, PassEarned, Kept
  <2>10. TellInv'
    BY <2>2, <2>4, <2>5, SMTT(60) DEF SharderInv, TellInv, Kept
  <2>11. QED
    BY <1>0, <2>3, <2>6, <2>7, <2>8, <2>9, <2>10 DEF SharderInv, SharderTypeOK
<1>4. CASE AggResultsPanics
  <2>1. PICK ss \in SUBSET sharder.shards : sharder' = [Unwinding EXCEPT !.agg = Moved(ss)]
    BY <1>4 DEF AggResultsPanics
  <2>2. sharder.pc = "aggregate"
    BY <1>4 DEF AggResultsPanics
  <2>3. sharder' \in SharderRecord
    BY <1>0, <2>1, MovedType, ZenonT(40) DEF Unwinding, SharderRecord, SharderPC
  <2>4. sharder'.pc = "watcher" /\ Kept
    BY <1>0, <2>1 DEF Unwinding, Kept, SharderRecord
  <2>5. /\ sharder'.agg = Moved(ss)
        /\ sharder'.testResult = sharder.testResult
        /\ sharder'.tarball = sharder.tarball
        /\ sharder'.watcherResult = sharder.watcherResult
        /\ sharder'.kcsResult = sharder.kcsResult
        /\ sharder'.registered = sharder.registered
    BY <1>0, <2>1 DEF Unwinding, SharderRecord
  <2>6. WaitInv'
    BY <2>2, <2>4, <2>5, SMTT(60) DEF SharderInv, WaitInv, Live, Finishing, Kept
  <2>7. AggInv'
    BY <2>2, <2>4, <2>5, AggSame, SMTT(60) DEF SharderInv, AggInv, Kept
  <2>8. UploadInv'
    BY <2>2, <2>4, <2>5, SMTT(60) DEF SharderInv, UploadInv, UploadComplete, Finishing, Kept
  <2>9. SharderVerdictInv'
    BY <2>2, <2>4, <2>5, SMTT(60) DEF SharderInv, SharderVerdictInv, PassEarned, Kept
  <2>10. TellInv'
    BY <2>2, <2>4, <2>5, SMTT(60) DEF SharderInv, TellInv, Kept
  <2>11. QED
    BY <1>0, <2>3, <2>6, <2>7, <2>8, <2>9, <2>10, SMTT(60) DEF SharderInv, SharderTypeOK
<1>5. CASE CreateInfo
  <2>1. PICK made \in BOOLEAN : sharder' = [sharder EXCEPT !.pc = "summary", !.ltmLogs = made]
    BY <1>5, ZenonT(40) DEF CreateInfo
  <2>2. sharder.pc = "info"
    BY <1>5, Zenon DEF CreateInfo
  <2>3. sharder' \in SharderRecord
    BY <1>0, <2>1, ZenonT(40) DEF SharderRecord, SharderPC
  <2>4. sharder'.pc = "summary" /\ Kept
    BY <1>0, <2>1 DEF Kept, SharderRecord
  <2>5. /\ sharder'.agg = sharder.agg
        /\ sharder'.testResult = sharder.testResult
        /\ sharder'.tarball = sharder.tarball
        /\ sharder'.watcherResult = sharder.watcherResult
        /\ sharder'.kcsResult = sharder.kcsResult
        /\ sharder'.registered = sharder.registered
    BY <1>0, <2>1 DEF SharderRecord
  <2>6. WaitInv'
    BY <2>2, <2>4, <2>5, SMTT(60) DEF SharderInv, WaitInv, Live, Finishing, Kept
  <2>7. AggInv'
    BY <2>2, <2>4, <2>5, AggSame, SMTT(60) DEF SharderInv, AggInv, Kept
  <2>8. UploadInv'
    BY <2>2, <2>4, <2>5 DEF SharderInv, UploadInv, UploadComplete, Finishing, Kept
  <2>9. SharderVerdictInv'
    BY <2>2, <2>4, <2>5, SMTT(60) DEF SharderInv, SharderVerdictInv, PassEarned, Kept
  <2>10. TellInv'
    BY <2>2, <2>4, <2>5 DEF SharderInv, TellInv, Kept
  <2>11. QED
    BY <1>0, <2>3, <2>6, <2>7, <2>8, <2>9, <2>10, SMTT(60) DEF SharderInv, SharderTypeOK
<1>6. CASE GenResultsSummary
  <2>1. PICK report \in Reports : sharder' = [sharder EXCEPT
           !.pc = IF sharder.reportKCS THEN "pack" ELSE "email",
           !.testResult = Verdict(report)]
    BY <1>6, ZenonT(40) DEF GenResultsSummary
  <2>2. sharder.pc = "summary"
    BY <1>6, Zenon DEF GenResultsSummary
  <2>3. sharder' \in SharderRecord
    BY <1>0, <2>1, VerdictType, ZenonT(120) DEF SharderRecord, SharderPC, ResultType
  <2>4. sharder'.pc = (IF sharder.reportKCS THEN "pack" ELSE "email") /\ Kept
    BY <1>0, <2>1 DEF Kept, SharderRecord
  <2>5. /\ sharder'.agg = sharder.agg
        /\ sharder'.testResult = Verdict(report)
        /\ sharder'.tarball = sharder.tarball
        /\ sharder'.watcherResult = sharder.watcherResult
        /\ sharder'.kcsResult = sharder.kcsResult
        /\ sharder'.registered = sharder.registered
    BY <1>0, <2>1 DEF SharderRecord
  <2>6. WaitInv'
    BY <2>2, <2>4, <2>5 DEF SharderInv, WaitInv, Live, Finishing, Kept
  <2>7. AggInv'
    BY <2>2, <2>4, <2>5, AggSame DEF SharderInv, AggInv, Kept
  <2>8. UploadInv'
    BY <2>2, <2>4, <2>5 DEF SharderInv, UploadInv, UploadComplete, Finishing, Kept
  <2>9. SharderVerdictInv'
    <3>1. sharder'.testResult \in {"Pass", "Fail", "Error"}
      BY <2>5, VerdictType, SMTT(60)
    <3>2. ASSUME Verdict(report) = "Pass" PROVE PassEarned'
      <4>1. \A s \in sharder.shards : phase[s] = "done" /\ Promised(outcome[s])
        BY <2>2 DEF SharderInv, SharderTypeOK, WaitInv, Live, Finishing, Phase, SharderRecord
      <4>2. ShardResults \cap {"Hang", "Crash"} = {} /\ "Error" \notin ShardResults
        BY <3>2 DEF Verdict
      <4>3. \A s \in sharder.shards : outcome[s].result = "Default"
        BY <4>1, <4>2 DEF ShardResults, Promised
      <4>4. PICK s \in sharder.shards : Aggregated(outcome[s]) # "none"
        BY <2>2 DEF SharderInv, AggInv, HasResults
      <4>5. outcome[s].dir
        BY <4>1, <4>3, <4>4, SMTT(60) DEF Promised, Aggregated
      <4>6. QED
        BY <2>4, <4>1, <4>3, <4>5, SMTT(60) DEF PassEarned, Kept
    <3>3. QED
      BY <2>4, <2>5, <3>1, <3>2, SMTT(60) DEF SharderVerdictInv, PassEarned
  <2>10. TellInv'
    BY <2>2, <2>4, <2>5, SMTT(60) DEF SharderInv, TellInv, Kept
  <2>11. QED
    BY <1>0, <2>3, <2>6, <2>7, <2>8, <2>9, <2>10, SMTT(60) DEF SharderInv, SharderTypeOK
<1>7. CASE EmailReport
  <2>2. sharder.pc = "email"
    BY <1>7 DEF EmailReport
  <2>3. sharder' \in SharderRecord
    BY <1>0, <1>7, ZenonT(60) DEF EmailReport, SharderRecord, SharderPC
  <2>4. sharder'.pc = "pack" /\ Kept
    BY <1>0, <1>7 DEF EmailReport, Kept, SharderRecord
  <2>5. /\ sharder'.agg = sharder.agg
        /\ sharder'.testResult = sharder.testResult
        /\ sharder'.tarball = sharder.tarball
        /\ sharder'.watcherResult = sharder.watcherResult
        /\ sharder'.kcsResult = sharder.kcsResult
        /\ sharder'.registered = sharder.registered
    BY <1>0, <1>7, SMTT(60) DEF EmailReport, SharderRecord
  <2>6. WaitInv'
    BY <2>2, <2>4, <2>5, SMTT(60) DEF SharderInv, WaitInv, Live, Finishing, Kept
  <2>7. AggInv'
    BY <2>2, <2>4, <2>5, AggSame, SMTT(60) DEF SharderInv, AggInv, Kept
  <2>8. UploadInv'
    BY <2>2, <2>4, <2>5, SMTT(60) DEF SharderInv, UploadInv, UploadComplete, Finishing, Kept
  <2>9. SharderVerdictInv'
    BY <2>2, <2>4, <2>5, SMTT(60) DEF SharderInv, SharderVerdictInv, PassEarned, Kept
  <2>10. TellInv'
    BY <2>2, <2>4, <2>5, SMTT(60) DEF SharderInv, TellInv, Kept
  <2>11. QED
    BY <1>0, <2>3, <2>6, <2>7, <2>8, <2>9, <2>10 DEF SharderInv, SharderTypeOK
<1>8. CASE EmailReportPanics
  <2>2. sharder.pc = "email"
    BY <1>8 DEF EmailReportPanics
  <2>3. sharder' \in SharderRecord
    BY <1>0, <1>8, ZenonT(60) DEF EmailReportPanics, Unwinding, SharderRecord, SharderPC
  <2>4. sharder'.pc = "watcher" /\ Kept
    BY <1>0, <1>8 DEF EmailReportPanics, Unwinding, Kept, SharderRecord
  <2>5. /\ sharder'.agg = sharder.agg
        /\ sharder'.testResult = sharder.testResult
        /\ sharder'.tarball = sharder.tarball
        /\ sharder'.watcherResult = sharder.watcherResult
        /\ sharder'.kcsResult = sharder.kcsResult
        /\ sharder'.registered = sharder.registered
    BY <1>0, <1>8, SMTT(60) DEF EmailReportPanics, Unwinding, SharderRecord
  <2>6. WaitInv'
    BY <2>2, <2>4, <2>5, SMTT(60) DEF SharderInv, WaitInv, Live, Finishing, Kept
  <2>7. AggInv'
    BY <2>2, <2>4, <2>5, AggSame, SMTT(60) DEF SharderInv, AggInv, Kept
  <2>8. UploadInv'
    BY <2>2, <2>4, <2>5, SMTT(60) DEF SharderInv, UploadInv, UploadComplete, Finishing, Kept
  <2>9. SharderVerdictInv'
    BY <2>2, <2>4, <2>5, SMTT(60) DEF SharderInv, SharderVerdictInv, PassEarned, Kept
  <2>10. TellInv'
    BY <2>2, <2>4, <2>5, SMTT(60) DEF SharderInv, TellInv, Kept
  <2>11. QED
    BY <1>0, <2>3, <2>6, <2>7, <2>8, <2>9, <2>10 DEF SharderInv, SharderTypeOK
<1>9. CASE PackResults
  <2>1. PICK content \in {{}, Packed} : sharder' = [sharder EXCEPT
           !.pc = "watcher", !.tarball = content]
    BY <1>9, ZenonT(60) DEF PackResults
  <2>2. sharder.pc = "pack"
    BY <1>9 DEF PackResults
  <2>3. sharder' \in SharderRecord
    BY <1>0, <2>1, ZenonT(60) DEF SharderRecord, SharderPC, Packed
  <2>4. sharder'.pc = "watcher" /\ Kept
    BY <1>0, <2>1 DEF Kept, SharderRecord
  <2>5. /\ sharder'.agg = sharder.agg
        /\ sharder'.testResult = sharder.testResult
        /\ sharder'.tarball = content
        /\ sharder'.watcherResult = sharder.watcherResult
        /\ sharder'.kcsResult = sharder.kcsResult
        /\ sharder'.registered = sharder.registered
    BY <1>0, <2>1 DEF SharderRecord
  <2>6. WaitInv'
    BY <2>2, <2>4, <2>5, SMTT(60) DEF SharderInv, WaitInv, Live, Finishing, Kept
  <2>7. AggInv'
    BY <2>2, <2>4, <2>5, AggSame, SMTT(60) DEF SharderInv, AggInv, Kept
  <2>8. UploadInv'
    <3>1. \A s \in sharder.shards :
            outcome[s].dir \/ outcome[s].serial => sharder.agg[s] # "none"
      BY <2>2 DEF SharderInv, SharderTypeOK, SharderRecord, AggInv, Moved, Aggregated
    <3>2. \A s \in sharder.shards : outcome[s].dir \/ outcome[s].serial => s \in Packed
      BY <3>1, SMTT(60) DEF Packed
    <3>3. QED
      BY <2>1, <2>4, <2>5, <3>2, SMTT(60) DEF UploadInv, UploadComplete, Finishing, Kept
  <2>9. SharderVerdictInv'
    BY <2>2, <2>4, <2>5, SMTT(60) DEF SharderInv, SharderVerdictInv, PassEarned, Kept
  <2>10. TellInv'
    BY <2>2, <2>4, <2>5, SMTT(60) DEF SharderInv, TellInv, Kept
  <2>11. QED
    BY <1>0, <2>3, <2>6, <2>7, <2>8, <2>9, <2>10, SMTT(60) DEF SharderInv, SharderTypeOK
<1>10. CASE PackResultsPanics
  <2>1. PICK content \in {{}, Packed} : sharder' = [Unwinding EXCEPT !.tarball = content]
    BY <1>10 DEF PackResultsPanics
  <2>2. sharder.pc = "pack"
    BY <1>10 DEF PackResultsPanics
  <2>3. sharder' \in SharderRecord
    BY <1>0, <2>1, ZenonT(60) DEF Unwinding, SharderRecord, SharderPC, Packed
  <2>4. sharder'.pc = "watcher" /\ Kept
    BY <1>0, <2>1 DEF Unwinding, Kept, SharderRecord
  <2>5. /\ sharder'.agg = sharder.agg
        /\ sharder'.testResult = sharder.testResult
        /\ sharder'.tarball = content
        /\ sharder'.watcherResult = sharder.watcherResult
        /\ sharder'.kcsResult = sharder.kcsResult
        /\ sharder'.registered = sharder.registered
    BY <1>0, <2>1 DEF Unwinding, SharderRecord
  <2>6. WaitInv'
    BY <2>2, <2>4, <2>5 DEF SharderInv, WaitInv, Live, Finishing, Kept
  <2>7. AggInv'
    BY <2>2, <2>4, <2>5, AggSame DEF SharderInv, AggInv, Kept
  <2>8. UploadInv'
    <3>1. \A s \in sharder.shards :
            outcome[s].dir \/ outcome[s].serial => sharder.agg[s] # "none"
      BY <2>2 DEF SharderInv, SharderTypeOK, SharderRecord, AggInv, Moved, Aggregated
    <3>2. \A s \in sharder.shards : outcome[s].dir \/ outcome[s].serial => s \in Packed
      BY <3>1 DEF Packed
    <3>3. QED
      BY <2>1, <2>4, <2>5, <3>2, SMTT(60) DEF UploadInv, UploadComplete, Finishing, Kept
  <2>9. SharderVerdictInv'
    BY <2>2, <2>4, <2>5 DEF SharderInv, SharderVerdictInv, PassEarned, Kept
  <2>10. TellInv'
    BY <2>2, <2>4, <2>5 DEF SharderInv, TellInv, Kept
  <2>11. QED
    BY <1>0, <2>3, <2>6, <2>7, <2>8, <2>9, <2>10 DEF SharderInv, SharderTypeOK
<1>11. CASE SendWatcherResult
  <2>2. sharder.pc = "watcher"
    BY <1>11 DEF SendWatcherResult
  <2>3. sharder' \in SharderRecord
    BY <1>0, <1>11, ZenonT(60) DEF SendWatcherResult, SharderRecord, SharderPC
  <2>4. sharder'.pc = (IF sharder.reportKCS THEN "kcs" ELSE "clean") /\ Kept
    BY <1>0, <1>11 DEF SendWatcherResult, Kept, SharderRecord
  <2>5. /\ sharder'.agg = sharder.agg
        /\ sharder'.testResult = sharder.testResult
        /\ sharder'.tarball = sharder.tarball
        /\ sharder'.watcherResult = sharder.testResult
        /\ sharder'.kcsResult = sharder.kcsResult
        /\ sharder'.registered = sharder.registered
    BY <1>0, <1>11 DEF SendWatcherResult, SharderRecord
  <2>6. WaitInv'
    BY <2>2, <2>4, <2>5 DEF SharderInv, WaitInv, Live, Finishing, Kept
  <2>7. AggInv'
    BY <2>2, <2>4, <2>5, AggSame, SMTT(60) DEF SharderInv, AggInv, Kept
  <2>8. UploadInv'
    BY <2>2, <2>4, <2>5, SMTT(60) DEF SharderInv, UploadInv, UploadComplete, Finishing, Kept
  <2>9. SharderVerdictInv'
    BY <2>2, <2>4, <2>5, SMTT(60) DEF SharderInv, SharderVerdictInv, PassEarned, Kept
  <2>10. TellInv'
    <3>1. sharder.testResult # NotSent
      BY ZenonT(40) DEF SharderInv, SharderVerdictInv, NotSent
    <3>2. QED
      BY <2>2, <2>4, <2>5, <3>1 DEF SharderInv, TellInv, Kept
  <2>11. QED
    BY <1>0, <2>3, <2>6, <2>7, <2>8, <2>9, <2>10 DEF SharderInv, SharderTypeOK
<1>12. CASE SendKCSReport
  <2>1. PICK refused \in BOOLEAN : sharder' = [sharder EXCEPT
           !.pc = "clean", !.kcsResult = sharder.testResult, !.panicking = @ \/ refused]
    BY <1>12, ZenonT(40) DEF SendKCSReport
  <2>2. sharder.pc = "kcs"
    BY <1>12, Zenon DEF SendKCSReport
  <2>3. sharder' \in SharderRecord
    BY <1>0, <2>1, ZenonT(120) DEF SharderRecord, SharderPC
  <2>4. sharder'.pc = "clean" /\ Kept
    BY <1>0, <2>1 DEF Kept, SharderRecord
  <2>5. /\ sharder'.agg = sharder.agg
        /\ sharder'.testResult = sharder.testResult
        /\ sharder'.tarball = sharder.tarball
        /\ sharder'.watcherResult = sharder.watcherResult
        /\ sharder'.kcsResult = sharder.testResult
        /\ sharder'.registered = sharder.registered
    BY <1>0, <2>1 DEF SharderRecord
  <2>6. WaitInv'
    BY <2>2, <2>4, <2>5 DEF SharderInv, WaitInv, Live, Finishing, Kept
  <2>7. AggInv'
    BY <2>2, <2>4, <2>5, AggSame DEF SharderInv, AggInv, Kept
  <2>8. UploadInv'
    BY <2>2, <2>4, <2>5 DEF SharderInv, UploadInv, UploadComplete, Finishing, Kept
  <2>9. SharderVerdictInv'
    BY <2>2, <2>4, <2>5 DEF SharderInv, SharderVerdictInv, PassEarned, Kept
  <2>10. TellInv'
    <3>1. sharder.testResult # NotSent
      BY ZenonT(60) DEF SharderInv, SharderVerdictInv, NotSent
    <3>2. QED
      BY <2>2, <2>4, <2>5, <3>1 DEF SharderInv, TellInv, Kept
  <2>11. QED
    BY <1>0, <2>3, <2>6, <2>7, <2>8, <2>9, <2>10 DEF SharderInv, SharderTypeOK
<1>13. CASE Clean
  <2>2. sharder.pc = "clean"
    BY <1>13 DEF Clean
  <2>3. sharder' \in SharderRecord
    BY <1>0, <1>13, MovedType, ZenonT(60) DEF Clean, SharderRecord, SharderPC
  <2>4. sharder'.pc = "recover" /\ Kept
    BY <1>0, <1>13 DEF Clean, Kept, SharderRecord
  <2>5. /\ sharder'.agg = [s \in Shards |-> "none"]
        /\ sharder'.testResult = sharder.testResult
        /\ sharder'.tarball = sharder.tarball
        /\ sharder'.watcherResult = sharder.watcherResult
        /\ sharder'.kcsResult = sharder.kcsResult
        /\ sharder'.registered = FALSE
    BY <1>0, <1>13 DEF Clean, SharderRecord
  <2>6. WaitInv'
    BY <2>2, <2>4, <2>5, SMTT(60) DEF SharderInv, WaitInv, Live, Finishing, Kept
  <2>7. AggInv'
    BY <2>2, <2>4, <2>5, AggSame, SMTT(60) DEF SharderInv, AggInv, Kept
  <2>8. UploadInv'
    BY <2>2, <2>4, <2>5, SMTT(60) DEF SharderInv, UploadInv, UploadComplete, Finishing, Kept
  <2>9. SharderVerdictInv'
    BY <2>2, <2>4, <2>5, SMTT(60) DEF SharderInv, SharderVerdictInv, PassEarned, Kept
  <2>10. TellInv'
    BY <2>2, <2>4, <2>5, SMTT(30) DEF SharderInv, TellInv, Kept
  <2>11. QED
    BY <1>0, <2>3, <2>6, <2>7, <2>8, <2>9, <2>10 DEF SharderInv, SharderTypeOK
<1>14. CASE ReportFailure
  <2>1. PICK sent \in BOOLEAN : sharder' = [sharder EXCEPT
           !.pc = "done", !.panicking = FALSE,
           !.mail = IF sent /\ sharder.panicking /\ sharder.receiver
                    THEN @ \cup {"failure"} ELSE @]
    BY <1>14, ZenonT(40) DEF ReportFailure
  <2>2. sharder.pc = "recover"
    BY <1>14, Zenon DEF ReportFailure
  <2>3. sharder' \in SharderRecord
    <3>1. (IF sent /\ sharder.panicking /\ sharder.receiver
           THEN sharder.mail \cup {"failure"} ELSE sharder.mail) \in SUBSET {"report", "failure"}
      BY <1>0 DEF SharderRecord
    <3>2. QED
      BY <1>0, <2>1, <3>1, ZenonT(120) DEF SharderRecord, SharderPC
  <2>4. sharder'.pc = "done" /\ Kept
    BY <1>0, <2>1 DEF Kept, SharderRecord
  <2>5. /\ sharder'.agg = sharder.agg
        /\ sharder'.testResult = sharder.testResult
        /\ sharder'.tarball = sharder.tarball
        /\ sharder'.watcherResult = sharder.watcherResult
        /\ sharder'.kcsResult = sharder.kcsResult
        /\ sharder'.registered = sharder.registered
    BY <1>0, <2>1 DEF SharderRecord
  <2>6. WaitInv'
    BY <2>2, <2>4, <2>5 DEF SharderInv, WaitInv, Live, Finishing, Kept
  <2>7. AggInv'
    BY <2>2, <2>4, <2>5, AggSame DEF SharderInv, AggInv, Kept
  <2>8. UploadInv'
    BY <2>2, <2>4, <2>5 DEF SharderInv, UploadInv, UploadComplete, Finishing, Kept
  <2>9. SharderVerdictInv'
    BY <2>2, <2>4, <2>5 DEF SharderInv, SharderVerdictInv, PassEarned, Kept
  <2>10. TellInv'
    BY <2>2, <2>4, <2>5 DEF SharderInv, TellInv, Kept
  <2>11. QED
    BY <1>0, <2>3, <2>6, <2>7, <2>8, <2>9, <2>10 DEF SharderInv, SharderTypeOK
<1>15. QED
  BY SMTT(60), <1>1, <1>2, <1>3, <1>4, <1>5, <1>6, <1>7, <1>8, <1>9, <1>10, <1>11,
     <1>12, <1>13,
     <1>14

\* Starting a shard preserves the invariant.
LEMMA StartInv == ASSUME SharderInv, NEW s \in Shards, StartNext(s) PROVE SharderInv'
<1>1. /\ sharder \in SharderRecord /\ phase \in [Shards -> Phase]
      /\ outcome' = outcome /\ phase' = [phase EXCEPT ![s] = "running"]
      /\ phase[s] = "idle" /\ s \in sharder.shards /\ sharder.pc = "start"
  BY DEF SharderInv, SharderTypeOK, StartNext, StartShard
<1>2. Live' = Live \cup {s} /\ s \notin Live
  BY <1>1 DEF Live
<1>3. Cardinality(Live') = Cardinality(Live) + 1 /\ Cardinality(Live) \in Nat
  <2>1. IsFiniteSet(Live)
    BY SharderAssumption, FS_Subset DEF Live
  <2>2. QED
    BY <1>2, <2>1, FS_AddElement, FS_CardinalityType, Zenon
<1>4. sharder' = [sharder EXCEPT !.wg = sharder.wg + 1]
  BY DEF StartNext
<1>5. sharder' \in SharderRecord
  BY <1>1, <1>4, SMTT(60) DEF SharderRecord
<1>6. /\ sharder'.pc = sharder.pc /\ sharder'.shards = sharder.shards
      /\ sharder'.wg = sharder.wg + 1 /\ sharder'.testResult = sharder.testResult
      /\ sharder'.tarball = sharder.tarball /\ sharder'.registered = sharder.registered
      /\ sharder'.watcherResult = sharder.watcherResult
      /\ sharder'.kcsResult = sharder.kcsResult
      /\ sharder'.reportKCS = sharder.reportKCS
  BY <1>1, <1>4 DEF SharderRecord
<1>7. phase' \in [Shards -> Phase] /\ outcome' \in [Shards -> OutcomeRecord]
  BY <1>1, SMTT(60) DEF SharderInv, SharderTypeOK, Phase
<1>8. WaitInv'
  BY <1>1, <1>3, <1>6, SMTT(60) DEF SharderInv, WaitInv, Finishing, Promised
<1>9. AggInv' /\ SharderVerdictInv' /\ UploadInv' /\ TellInv'
  BY <1>1, <1>6, Zenon DEF SharderInv, AggInv, SharderVerdictInv, PassEarned, UploadInv, UploadComplete,
     Finishing, TellInv
<1>10. QED
  BY <1>5, <1>7, <1>8, <1>9 DEF SharderInv, SharderTypeOK

\* The end of a shard preserves the invariant.
LEMMA DoneInv == ASSUME SharderInv, NEW s \in Shards, ShardDone(s) PROVE SharderInv'
<1>1. /\ sharder \in SharderRecord /\ phase \in [Shards -> Phase]
      /\ outcome \in [Shards -> OutcomeRecord]
      /\ phase' = [phase EXCEPT ![s] = "done"] /\ phase[s] = "running"
  BY DEF SharderInv, SharderTypeOK, ShardDone, ExitShard
<1>2. PICK o \in PromisedOutcome : outcome' = [outcome EXCEPT ![s] = o]
  BY Zenon DEF ShardDone, ExitShard
<1>3. Live' = Live \ {s} /\ s \in Live
  BY <1>1, SMTT(60) DEF Live
<1>4. Cardinality(Live') = Cardinality(Live) - 1 /\ Cardinality(Live') \in Nat
  <2>1. IsFiniteSet(Live) /\ IsFiniteSet(Live')
    BY <1>3, SharderAssumption, FS_Subset, SMTT(60) DEF Live
  <2>2. QED
    BY <1>3, <2>1, FS_RemoveElement, FS_CardinalityType, SMTT(60)
<1>5. sharder.wg - 1 \in Nat
  BY <1>4 DEF SharderInv, WaitInv
<1>6. sharder' = [sharder EXCEPT !.wg = sharder.wg - 1]
  BY DEF ShardDone
<1>7. sharder' \in SharderRecord
  BY <1>1, <1>5, <1>6, SMTT(60) DEF SharderRecord
<1>8. /\ sharder'.pc = sharder.pc /\ sharder'.shards = sharder.shards
      /\ sharder'.wg = sharder.wg - 1 /\ sharder'.testResult = sharder.testResult
      /\ sharder'.tarball = sharder.tarball /\ sharder'.registered = sharder.registered
      /\ sharder'.watcherResult = sharder.watcherResult
      /\ sharder'.kcsResult = sharder.kcsResult
      /\ sharder'.reportKCS = sharder.reportKCS
  BY <1>1, <1>6 DEF SharderRecord
<1>9. phase' \in [Shards -> Phase] /\ outcome' \in [Shards -> OutcomeRecord]
  BY <1>1, <1>2 DEF Phase, PromisedOutcome
<1>10. sharder.pc \in {"start", "wait"}
  BY <1>3, SMTT(60) DEF SharderInv, WaitInv, Finishing
<1>11. WaitInv'
  <2>1. sharder'.wg = Cardinality(Live')
    BY <1>4, <1>8, SMTT(60) DEF SharderInv, WaitInv
  <2>2. \A r \in Shards : phase'[r] # "idle" => r \in sharder'.shards
    BY <1>1, <1>8, SMTT(60) DEF SharderInv, WaitInv
  <2>3. sharder'.pc # "start" => \A r \in sharder'.shards : phase'[r] # "idle"
    BY <1>1, <1>8 DEF SharderInv, WaitInv
  <2>4. \A r \in Shards : phase'[r] = "done" => Promised(outcome'[r])
    BY <1>1, <1>2, SMTT(60) DEF SharderInv, WaitInv, PromisedOutcome
  <2>5. QED
    BY <1>8, <1>10, <2>1, <2>2, <2>3, <2>4, SMTT(60) DEF WaitInv, Finishing, Promised
<1>12. AggInv' /\ SharderVerdictInv' /\ UploadInv' /\ TellInv'
  BY <1>8, <1>10, SMTT(30) DEF SharderInv, AggInv, SharderVerdictInv, PassEarned, UploadInv,
     UploadComplete,
     Finishing, TellInv
<1>13. QED
  BY <1>7, <1>9, <1>11, <1>12 DEF SharderInv, SharderTypeOK

\* Every action of Sharder.tla preserves the invariant.
LEMMA SharderNextInv == SharderInv /\ [SharderNext]_sharderVars => SharderInv'
<1> SUFFICES ASSUME SharderInv, [SharderNext]_sharderVars PROVE SharderInv'
  BY SMTT(120)
<1>1. CASE UNCHANGED sharderVars
  <2>1. phase' = phase /\ outcome' = outcome /\ sharder' = sharder
    BY <1>1 DEF sharderVars
  <2>2. SharderTypeOK' /\ TellInv'
    BY <2>1, Zenon DEF SharderInv, SharderTypeOK, TellInv
  <2>3. WaitInv'
    BY <2>1, Zenon DEF SharderInv, WaitInv, Live, Finishing
  <2>4. AggInv'
    BY <2>1, AggSame DEF SharderInv, AggInv
  <2>5. SharderVerdictInv'
    BY <2>1, Zenon DEF SharderInv, SharderVerdictInv, PassEarned
  <2>6. UploadInv'
    BY <2>1, Zenon DEF SharderInv, UploadInv, UploadComplete, Finishing
  <2>7. QED
    BY <2>2, <2>3, <2>4, <2>5, <2>6, Zenon DEF SharderInv
<1>2. ASSUME NEW s \in Shards, StartNext(s) PROVE SharderInv'
  BY <1>2, StartInv
<1>3. ASSUME NEW s \in Shards, ShardDone(s) PROVE SharderInv'
  BY <1>3, DoneInv
<1>4. QED
  BY <1>1, <1>2, <1>3, RunInv, ZenonT(60) DEF SharderNext, RunStep, AllStarted, Wait, AggResults,
     AggResultsPanics, CreateInfo, GenResultsSummary, EmailReport, EmailReportPanics,
     PackResults, PackResultsPanics, SendWatcherResult, SendKCSReport, Clean, ReportFailure

-----------------------------------------------------------------------------
(* The theorems.                                                           *)

\* The inductive invariant holds in every reachable state of Run and finish.
THEOREM SharderInvariance == SharderSpec => []SharderInv
BY SharderInitInv, SharderNextInv, PTL DEF SharderSpec

\* Every field holds a value of its type; wg never goes below zero, which in Go
\* would be a panic.
THEOREM SharderTypeCorrect == SharderSpec => []SharderTypeOK
<1>1. SharderInv => SharderTypeOK
  BY DEF SharderInv
<1>2. QED
  BY <1>1, SharderInvariance, PTL

\* A run is judged Pass only if no shard complained and one brought results.
THEOREM PassIsEarned == SharderSpec => []PassEarned
<1>1. SharderInv => PassEarned
  BY DEF SharderInv, SharderVerdictInv
<1>2. QED
  BY <1>1, SharderInvariance, PTL

\* An uploaded tarball holds what every shard left behind.
THEOREM UploadIsComplete == SharderSpec => []UploadComplete
<1>1. SharderInv => UploadComplete
  BY DEF SharderInv, UploadInv
<1>2. QED
  BY <1>1, SharderInvariance, PTL

\* Once wg.Wait has returned no shard goroutine takes a step.
THEOREM WaitIsBarrier == SharderSpec => Barrier
<1>1. SharderInv /\ [SharderNext]_sharderVars =>
        [sharder.pc \notin {"start", "wait"} => UNCHANGED shardVars]_sharderVars
  <2> SUFFICES ASSUME SharderInv, [SharderNext]_sharderVars, sharder.pc \notin {"start", "wait"}
               PROVE  UNCHANGED shardVars
    OBVIOUS
  <2>1. \A s \in Shards : phase[s] # "running"
    BY SMTT(60) DEF SharderInv, WaitInv, Finishing, Live
  <2>2. QED
    BY <2>1, Zenon DEF sharderVars, shardVars, SharderNext, RunStep, StartNext, ShardDone, ExitShard,
       AllStarted, Wait, AggResults, AggResultsPanics, CreateInfo, GenResultsSummary,
       EmailReport, EmailReportPanics, PackResults, PackResultsPanics,
       SendWatcherResult, SendKCSReport, Clean, ReportFailure
<1>2. QED
  BY <1>1, SharderInvariance, PTL DEF SharderSpec, Barrier

-----------------------------------------------------------------------------
(* The scheduler implements the abstract test run.                         *)

\* The steps nobody outside the scheduler sees.
Silent ==
  \/ AllStarted \/ Wait \/ AggResults \/ AggResultsPanics \/ CreateInfo
  \/ EmailReport \/ EmailReportPanics \/ PackResults \/ PackResultsPanics
  \/ ReportFailure

SameView ==
  /\ sharder'.shards = sharder.shards /\ sharder'.reportKCS = sharder.reportKCS
  /\ sharder'.testResult = sharder.testResult
  /\ sharder'.watcherResult = sharder.watcherResult
  /\ sharder'.kcsResult = sharder.kcsResult
  /\ sharder'.registered = sharder.registered

\* A silent step changes nothing the abstract test run speaks of.
LEMMA SilentStep == ASSUME SharderInv, Silent PROVE SameView /\ UNCHANGED shardVars
<1> USE DEF SameView
<1>0. sharder \in SharderRecord
  BY DEF SharderInv, SharderTypeOK
<1>1. CASE AllStarted
  BY <1>0, <1>1 DEF AllStarted, SharderRecord
<1>2. CASE Wait
  BY <1>0, <1>2 DEF Wait, SharderRecord
<1>3. CASE AggResults
  BY <1>0, <1>3 DEF AggResults, SharderRecord
<1>4. CASE AggResultsPanics
  BY <1>0, <1>4 DEF AggResultsPanics, Unwinding, SharderRecord
<1>5. CASE CreateInfo
  BY <1>0, <1>5 DEF CreateInfo, SharderRecord
<1>6. CASE EmailReport
  BY <1>0, <1>6 DEF EmailReport, SharderRecord
<1>7. CASE EmailReportPanics
  BY <1>0, <1>7 DEF EmailReportPanics, Unwinding, SharderRecord
<1>8. CASE PackResults
  BY <1>0, <1>8 DEF PackResults, SharderRecord
<1>9. CASE PackResultsPanics
  BY <1>0, <1>9 DEF PackResultsPanics, Unwinding, SharderRecord
<1>10. CASE ReportFailure
  BY <1>0, <1>10, SMTT(60) DEF ReportFailure, SharderRecord
<1>11. QED
  BY <1>1, <1>2, <1>3, <1>4, <1>5, <1>6, <1>7, <1>8, <1>9, <1>10, SMTT(60) DEF Silent

\* A scheduler that NewShardScheduler returned is a fresh abstract test run.
LEMMA RunStepInit == SharderInit => Abstract!RunInit
<1> SUFFICES ASSUME SharderInit PROVE Abstract!RunInit
  OBVIOUS
<1>1. PICK reportKCS \in BOOLEAN, receiver \in BOOLEAN, chosen \in SUBSET Shards,
           failed \in [Shards -> FailureCounts] :
        sharder = NewShardScheduler(reportKCS, receiver, chosen, failed)
  BY DEF SharderInit
<1>2. Told = {}
  BY <1>1, Zenon DEF Told, NewShardScheduler
<1>3. QED
  BY <1>1, <1>2, SMTT(60) DEF NewShardScheduler, Abstract!RunInit

\* Every step is a step of the abstract test run or leaves it alone.
LEMMA RunStepNext == SharderInv /\ [SharderNext]_sharderVars => [Abstract!RunNext]_(Abstract!runVars)
<1> SUFFICES ASSUME SharderInv, [SharderNext]_sharderVars PROVE [Abstract!RunNext]_(Abstract!runVars)
  OBVIOUS
<1>0. sharder \in SharderRecord /\ phase \in [Shards -> Phase]
  BY DEF SharderInv, SharderTypeOK
<1>1. CASE SameView /\ UNCHANGED shardVars
  BY <1>1 DEF SameView, shardVars, Told, Abstract!runVars
<1>2. ASSUME NEW s \in Shards, StartNext(s) PROVE UNCHANGED Abstract!runVars
  BY <1>0, <1>2 DEF StartNext, StartShard, Told, SharderRecord, Abstract!runVars
<1>3. ASSUME NEW s \in Shards, ShardDone(s) PROVE Abstract!EndShard(s)
  BY <1>0, <1>3, SMTT(60) DEF ShardDone, ExitShard, Told, SharderRecord,
     Abstract!EndShard, SharderInv,
     WaitInv
<1>4. Finishing => {s \in sharder.shards : phase[s] # "done"} = {}
  BY <1>0, SMTT(60) DEF SharderInv, WaitInv, Finishing, Live, Phase, SharderRecord
<1>5. ASSUME GenResultsSummary PROVE Abstract!Judge
  <2>1. PICK report \in Reports : sharder' = [sharder EXCEPT
           !.pc = IF sharder.reportKCS THEN "pack" ELSE "email",
           !.testResult = Verdict(report)]
    BY <1>5, Zenon DEF GenResultsSummary
  <2>2. /\ sharder.pc = "summary" /\ sharder.testResult = "Default"
        /\ sharder.watcherResult = NotSent /\ sharder.kcsResult = NotSent
        /\ phase' = phase
    BY <1>5 DEF GenResultsSummary, SharderInv, SharderVerdictInv, TellInv, shardVars
  <2>3. /\ sharder'.testResult \in {"Pass", "Fail", "Error"}
        /\ sharder'.shards = sharder.shards /\ sharder'.reportKCS = sharder.reportKCS
        /\ sharder'.watcherResult = sharder.watcherResult
        /\ sharder'.kcsResult = sharder.kcsResult
        /\ sharder'.registered = sharder.registered
    BY <1>0, <2>1, VerdictType, SMTT(60) DEF SharderRecord
  <2>4. Told = {} /\ Told' = {}
    BY <2>2, <2>3, SMTT(60) DEF Told
  <2>5. QED
    BY <1>4, <2>2, <2>3, <2>4, SMTT(30) DEF Finishing, Abstract!Judge
<1>6. ASSUME SendWatcherResult PROVE Abstract!Tell("watcher")
  <2>1. /\ sharder.pc = "watcher" /\ sharder.registered
        /\ sharder.watcherResult = NotSent /\ sharder.kcsResult = NotSent
        /\ sharder.testResult # NotSent /\ phase' = phase
    BY <1>6, Zenon DEF SendWatcherResult, SharderInv, SharderVerdictInv, TellInv, NotSent, shardVars
  <2>2. /\ sharder'.watcherResult = sharder.testResult
        /\ sharder'.testResult = sharder.testResult
        /\ sharder'.shards = sharder.shards /\ sharder'.reportKCS = sharder.reportKCS
        /\ sharder'.kcsResult = sharder.kcsResult
        /\ sharder'.registered = sharder.registered
    BY <1>0, <1>6, SMTT(60) DEF SendWatcherResult, SharderRecord
  <2>3. Told = {} /\ Told' = {<<"watcher", sharder.testResult>>}
    BY <2>1, <2>2, SMTT(60) DEF Told
  <2>4. QED
    BY <1>4, <2>1, <2>2, <2>3, SMTT(60) DEF Finishing, Abstract!Tell
<1>7. ASSUME SendKCSReport PROVE Abstract!Tell("kcs")
  <2>1. /\ sharder.pc = "kcs" /\ sharder.registered
        /\ sharder.watcherResult # NotSent /\ sharder.kcsResult = NotSent
        /\ sharder.testResult # NotSent /\ phase' = phase
    BY <1>7, Zenon DEF SendKCSReport, SharderInv, SharderVerdictInv, TellInv, NotSent, shardVars
  <2>2. /\ sharder'.kcsResult = sharder.testResult
        /\ sharder'.testResult = sharder.testResult
        /\ sharder'.shards = sharder.shards /\ sharder'.reportKCS = sharder.reportKCS
        /\ sharder'.watcherResult = sharder.watcherResult
        /\ sharder'.registered = sharder.registered
    BY <1>0, <1>7, SMTT(60) DEF SendKCSReport, SharderRecord
  <2>3. /\ Told = {<<"watcher", sharder.watcherResult>>}
        /\ Told' = Told \cup {<<"kcs", sharder.testResult>>}
    BY <2>1, <2>2, SMTT(60) DEF Told
  <2>4. QED
    BY <1>4, <2>1, <2>2, <2>3, SMTT(60) DEF Finishing, Abstract!Tell
<1>8. ASSUME Clean PROVE Abstract!Close
  <2>1. /\ sharder.pc = "clean" /\ sharder.registered
        /\ sharder.watcherResult # NotSent /\ phase' = phase
        /\ sharder.reportKCS => sharder.kcsResult # NotSent
    BY <1>8 DEF Clean, SharderInv, TellInv, shardVars
  <2>2. /\ sharder'.registered = FALSE
        /\ sharder'.testResult = sharder.testResult
        /\ sharder'.shards = sharder.shards /\ sharder'.reportKCS = sharder.reportKCS
        /\ sharder'.watcherResult = sharder.watcherResult
        /\ sharder'.kcsResult = sharder.kcsResult
    BY <1>0, <1>8, SMTT(60) DEF Clean, SharderRecord
  <2>3. /\ <<"watcher", sharder.watcherResult>> \in Told
        /\ sharder.reportKCS => <<"kcs", sharder.kcsResult>> \in Told
        /\ Told' = Told
    BY <2>1, <2>2 DEF Told
  <2>4. QED
    BY <2>1, <2>2, <2>3 DEF Abstract!Close
<1>9. \/ Silent \/ UNCHANGED sharderVars
      \/ GenResultsSummary \/ SendWatcherResult \/ SendKCSReport \/ Clean
      \/ \E s \in Shards : StartNext(s) \/ ShardDone(s)
  BY DEF SharderNext, RunStep, Silent
<1>10. CASE UNCHANGED sharderVars
  BY <1>10, SMTT(30) DEF sharderVars, Told, Abstract!runVars
<1>11. /\ SendWatcherResult => "watcher" \in IF sharder.reportKCS THEN {"watcher", "kcs"} ELSE {"watcher"}
       /\ SendKCSReport => "kcs" \in IF sharder.reportKCS THEN {"watcher", "kcs"} ELSE {"watcher"}
  BY Zenon DEF SendKCSReport, SharderInv, TellInv
<1>12. QED
  BY SMTT(60), <1>1, <1>2, <1>3, <1>5, <1>6, <1>7, <1>8, <1>9, <1>10, <1>11, SilentStep
     DEF Abstract!RunNext

\* The scheduler of sharder.go implements TestRun: one verdict, decided after
\* the last shard, and told to everybody before the run is unlisted.
THEOREM RunIsImplemented == SharderSpec => ImplementsTestRun
BY RunStepInit, RunStepNext, SharderInvariance, PTL
   DEF SharderSpec, ImplementsTestRun, Abstract!RunSpec

-----------------------------------------------------------------------------
(* The shards and their scheduler together.                                *)

\* Why a shard ended without a verdict: it has results, or no VM to get them
\* from; or it is about to be judged for its panic.
Explained(w) == w.testResult # "Default" \/ w.dir \/ w.vmStatus = "failed to launch"

\* What the scheduler sees of a shard is what the shard is.
LinkInv ==
  \A s \in Shards :
    /\ phase[s] = "idle" => worker[s].pc = "idle"
    /\ phase[s] = "done" <=> worker[s].pc = "done"
    /\ worker[s].pc = "done" => outcome[s] = OutcomeOf(worker[s])
    /\ worker[s].pc = "exit" => worker[s].panic \/ Explained(worker[s])
    /\ worker[s].pc = "done" => Explained(worker[s])

\* The inductive invariant of LTM.
LTMInv == ShardInv /\ SharderInv /\ LinkInv

\* Whatever way a shard takes to its deferred exit, it can be explained.
LEMMA InnerExplained ==
  ASSUME ShardInv, NEW s \in Shards, Inner(s), worker'[s].pc = "exit"
  PROVE  worker'[s].panic \/ Explained(worker'[s])
<1>1. /\ worker \in [Shards -> WorkerRecord] /\ worker[s] \in WorkerRecord
      /\ ResultsInv(worker[s], vm[s])
  BY DEF ShardInv, TypeOK, Good
<1>2. CASE CmdLogFails(s)
  BY <1>1, <1>2 DEF CmdLogFails, Panic, WorkerRecord
<1>3. CASE LaunchFails(s)
  BY <1>1, <1>3, Zenon DEF LaunchFails, WorkerRecord, Explained
<1>4. CASE InstanceInfoFails(s)
  BY <1>1, <1>4, Zenon DEF InstanceInfoFails, WorkerRecord
<1>5. CASE ResultsAbsent(s)
  BY <1>1, <1>5, Zenon DEF ResultsAbsent, MissingResult, WorkerRecord, Explained
<1>6. CASE UnpackFails(s)
  BY <1>1, <1>6 DEF UnpackFails, WorkerRecord
<1>7. CASE DeleteFiles(s)
  BY <1>1, <1>7 DEF DeleteFiles, ResultsInv, WorkerRecord, Explained
<1>8. CASE LaunchSucceeds(s) \/ InstanceNotFound(s) \/ InstanceStopped(s)
  BY <1>1, <1>8 DEF LaunchSucceeds, InstanceNotFound, InstanceStopped, WorkerRecord
<1>9. CASE StatusChanged(s) \/ KeepWaiting(s)
  BY <1>1, <1>9 DEF StatusChanged, KeepWaiting, WorkerRecord
<1>10. CASE TimedOut(s)
  BY <1>1, <1>10 DEF TimedOut, WorkerRecord
<1>11. CASE SetShutdownReason(s)
  BY <1>1, <1>11 DEF SetShutdownReason, WorkerRecord
<1>12. CASE ShutdownOnTimeout(s)
  BY <1>1, <1>12 DEF ShutdownOnTimeout, WorkerRecord
<1>13. CASE ResultsFound(s) \/ ResultsMissing(s) \/ Unpack(s)
  BY <1>1, <1>13 DEF ResultsFound, ResultsMissing, Unpack, WorkerRecord
<1>14. QED
  BY <1>2, <1>3, <1>4, <1>5, <1>6, <1>7, <1>8, <1>9, <1>10, <1>11, <1>12, <1>13,
     Zenon DEF Inner

\* What a shard leaves behind is what ShardPromise says of it.
LEMMA ExitLeaves ==
  ASSUME ShardInv, NEW s \in Shards, Exit(s)
  PROVE  /\ worker[s].pc = "exit" /\ worker'[s].pc = "done"
         /\ \A r \in Shards \ {s} : worker'[r] = worker[r]
         /\ OutcomeOf(worker'[s]) \in PromisedOutcome
         /\ worker[s].panic \/ Explained(worker[s]) => Explained(worker'[s])
<1> DEFINE w == [worker[s] EXCEPT !.pc = "done", !.testResult = ExitResult(worker[s])]
<1>1. /\ worker \in [Shards -> WorkerRecord] /\ worker[s] \in WorkerRecord
      /\ ShardVerdictInv(worker[s], vm[s]) /\ ResultsInv(worker[s], vm[s])
      /\ worker[s].pc = "exit"
  BY DEF ShardInv, TypeOK, Good, Exit
<1>2. worker' = [worker EXCEPT ![s] = w]
  BY Zenon DEF Exit
<1>3. /\ w.pc = "done" /\ w.testResult = ExitResult(worker[s])
      /\ w.dir = worker[s].dir /\ w.serial = worker[s].serial
      /\ w.vmStatus = worker[s].vmStatus
  BY <1>1 DEF WorkerRecord
<1>4. [result |-> ExitResult(worker[s]), dir |-> worker[s].dir,
       serial |-> worker[s].serial] \in PromisedOutcome
  BY <1>1, Zenon DEF WorkerRecord, ShardVerdictInv, ResultsInv, ExitResult, ResultType,
     PromisedOutcome, Promised, OutcomeRecord
<1>5. worker'[s] = w /\ \A r \in Shards \ {s} : worker'[r] = worker[r]
  BY <1>1, <1>2
<1> HIDE DEF w
<1>6. worker[s].panic \/ Explained(worker[s]) => Explained(w)
  <2>1. CASE worker[s].testResult = "Default" /\ worker[s].panic
    BY <1>3, <2>1 DEF Explained, ExitResult
  <2>2. CASE worker[s].testResult # "Default" \/ ~worker[s].panic
    BY <1>3, <2>2, Zenon DEF Explained, ExitResult
  <2>3. QED
    BY <2>1, <2>2
<1>7. OutcomeOf(worker'[s]) \in PromisedOutcome
  BY <1>3, <1>4, <1>5 DEF OutcomeOf
<1>8. QED
  BY <1>1, <1>3, <1>5, <1>6, <1>7

\* A step of the whole is a step of the shards and their VMs.
LEMMA ShardsStep == [LTMNext]_ltmVars => [Next]_vars
<1> SUFFICES ASSUME [LTMNext]_ltmVars PROVE [Next]_vars
  OBVIOUS
<1>1. CASE UNCHANGED ltmVars \/ Schedule
  BY <1>1 DEF ltmVars, vars, Schedule
<1>2. ASSUME NEW s \in Shards, Work(s) \/ Return(s) \/ VMRuns(s) PROVE Next
  <2>1. ShardStep(s) \/ VMStep(s)
    BY <1>2, Zenon DEF Work, Return, VMRuns, ShardStep
  <2>2. QED
    BY <2>1, Zenon DEF Next
<1>3. QED
  BY <1>1, <1>2, Zenon DEF LTMNext

\* A step of the whole is a step of the scheduler: a shard that returns keeps
\* the promise the scheduler is built on.
LEMMA SchedulerStep == ShardInv /\ [LTMNext]_ltmVars => [SharderNext]_sharderVars
<1> SUFFICES ASSUME ShardInv, [LTMNext]_ltmVars PROVE [SharderNext]_sharderVars
  OBVIOUS
<1>1. CASE UNCHANGED ltmVars
  BY <1>1 DEF ltmVars, sharderVars
<1>2. CASE Schedule
  BY <1>2, Zenon DEF Schedule, SharderNext
<1>3. ASSUME NEW s \in Shards, Work(s) \/ VMRuns(s) PROVE UNCHANGED sharderVars
  BY <1>3, Zenon DEF Work, VMRuns
<1>4. ASSUME NEW s \in Shards, Return(s) PROVE SharderNext
  <2>1. Exit(s) /\ OutcomeOf(worker'[s]) \in PromisedOutcome
    BY <1>4, ExitLeaves, Zenon DEF Return
  <2>2. ShardDone(s)
    BY <1>4, <2>1, Zenon DEF Return, ShardDone, ExitShard
  <2>3. QED
    BY <2>2, Zenon DEF SharderNext
<1>5. QED
  BY <1>1, <1>2, <1>3, <1>4, Zenon DEF LTMNext

\* What a step of the goroutine of s does to it, and to no other.
LEMMA WorkStep ==
  ASSUME ShardInv, NEW s \in Shards, Work(s)
  PROVE  /\ worker[s].pc # "done" /\ worker'[s].pc \notin {"idle", "done"}
         /\ worker'[s].pc = "exit" => worker'[s].panic \/ Explained(worker'[s])
         /\ \A r \in Shards \ {s} : worker'[r] = worker[r]
<1>1. Start(s) \/ Inner(s)
  BY Zenon DEF Work, ShardStep, Exit, Inner
<1>2. CASE Start(s)
  BY <1>2 DEF Start, ShardInv, TypeOK, WorkerRecord
<1>3. CASE Inner(s)
  BY <1>3, InnerStep, InnerExplained, Zenon DEF InnerEffect
<1>4. QED
  BY <1>1, <1>2, <1>3, Zenon

\* The link between the two views of a shard is never broken.
LEMMA LinkStep == LTMInv /\ [LTMNext]_ltmVars => LinkInv'
<1> SUFFICES ASSUME LTMInv, [LTMNext]_ltmVars PROVE LinkInv'
  OBVIOUS
<1>1. /\ ShardInv /\ LinkInv
      /\ phase \in [Shards -> Phase] /\ outcome \in [Shards -> OutcomeRecord]
  BY DEF LTMInv, SharderInv, SharderTypeOK
<1>2. CASE UNCHANGED <<worker, phase, outcome>>
  BY <1>1, <1>2, Zenon DEF LinkInv
<1>3. ASSUME NEW s \in Shards, VMRuns(s) PROVE UNCHANGED <<worker, phase, outcome>>
  BY <1>3, Zenon DEF VMRuns, VMStep, PublishStatus, UploadResults, StopVM, VanishVM,
     AbortVM, sharderVars
<1>4. CASE UNCHANGED ltmVars
  BY <1>2, <1>4, Zenon DEF ltmVars
<1>5. ASSUME NEW s \in Shards, StartNext(s), UNCHANGED vars PROVE LinkInv'
  <2>1. /\ phase[s] = "idle" /\ phase' = [phase EXCEPT ![s] = "running"]
        /\ outcome' = outcome /\ worker' = worker
    BY <1>5, Zenon DEF StartNext, StartShard, vars
  <2>2. phase'[s] = "running" /\ \A r \in Shards \ {s} : phase'[r] = phase[r]
    BY <1>1, <2>1
  <2>3. worker[s].pc = "idle"
    BY <1>1, <2>1, Zenon DEF LinkInv
  <2>4. QED
    BY <1>1, <2>1, <2>2, <2>3, SMTT(60) DEF LinkInv
<1>6. CASE Schedule
  <2>1. CASE UNCHANGED shardVars
    BY <1>2, <1>6, <2>1, Zenon DEF Schedule, vars, shardVars
  <2>2. CASE \E s \in Shards : StartNext(s)
    BY <1>5, <1>6, <2>2, Zenon DEF Schedule
  <2>3. QED
    BY <1>6, <2>1, <2>2, ZenonT(60) DEF Schedule, RunStep, AllStarted, Wait, AggResults,
       AggResultsPanics, CreateInfo, GenResultsSummary, EmailReport, EmailReportPanics,
       PackResults, PackResultsPanics, SendWatcherResult, SendKCSReport, Clean,
       ReportFailure
<1>7. ASSUME NEW s \in Shards, Work(s) PROVE LinkInv'
  <2>1. phase[s] = "running" /\ phase' = phase /\ outcome' = outcome
    BY <1>7, Zenon DEF Work, sharderVars
  <2>2. /\ worker[s].pc # "done" /\ worker'[s].pc \notin {"idle", "done"}
        /\ worker'[s].pc = "exit" => worker'[s].panic \/ Explained(worker'[s])
        /\ \A r \in Shards \ {s} : worker'[r] = worker[r]
    BY <1>1, <1>7, WorkStep
  <2>3. QED
    BY <1>1, <2>1, <2>2, SMTT(60) DEF LinkInv
<1>8. ASSUME NEW s \in Shards, Return(s) PROVE LinkInv'
  <2>1. /\ worker[s].pc = "exit" /\ worker'[s].pc = "done"
        /\ \A r \in Shards \ {s} : worker'[r] = worker[r]
        /\ worker[s].panic \/ Explained(worker[s]) => Explained(worker'[s])
    BY <1>1, <1>8, ExitLeaves, Zenon DEF Return
  <2>2. /\ phase' = [phase EXCEPT ![s] = "done"]
        /\ outcome' = [outcome EXCEPT ![s] = OutcomeOf(worker'[s])]
    BY <1>8, Zenon DEF Return
  <2>3. /\ phase'[s] = "done" /\ outcome'[s] = OutcomeOf(worker'[s])
        /\ \A r \in Shards \ {s} : phase'[r] = phase[r] /\ outcome'[r] = outcome[r]
    BY <1>1, <2>2
  <2>4. Explained(worker'[s])
    BY <1>1, <2>1, Zenon DEF LinkInv
  <2>5. QED
    BY <1>1, <2>1, <2>3, <2>4, SMTT(60) DEF LinkInv
<1>9. QED
  BY <1>2, <1>3, <1>4, <1>6, <1>7, <1>8, Zenon DEF LTMNext

\* A test run begins with the scheduler and its shards idle.
LEMMA LTMInitInv == LTMInit => LTMInv
<1> SUFFICES ASSUME LTMInit PROVE LTMInv
  OBVIOUS
<1>1. ShardInv /\ SharderInv
  BY ShardInitInv, SharderInitInv, Zenon DEF LTMInit
<1>2. \A s \in Shards : worker[s].pc = "idle" /\ phase[s] = "idle"
  <2>1. PICK keep \in BOOLEAN : worker = [s \in Shards |-> NewShardWorker(keep)]
    BY Zenon DEF LTMInit, Init
  <2>2. phase = [s \in Shards |-> "idle"]
    BY Zenon DEF LTMInit, SharderInit, ShardInit
  <2>3. QED
    BY <2>1, <2>2, Zenon DEF NewShardWorker
<1>3. LinkInv
  BY <1>2 DEF LinkInv
<1>4. QED
  BY <1>1, <1>3 DEF LTMInv

-----------------------------------------------------------------------------
(* The theorems on LTM.                                                    *)

\* The inductive invariant holds in every reachable state of a test run.
THEOREM LTMInvariance == LTMSpec => []LTMInv
<1>1. LTMInv /\ [LTMNext]_ltmVars => LTMInv'
  BY ShardsStep, SchedulerStep, ShardNextInv, SharderNextInv, LinkStep, Zenon DEF LTMInv
<1>2. QED
  BY <1>1, LTMInitInv, PTL DEF LTMSpec

\* Beside the scheduler, the shards and their VMs behave as Shard.tla says: what
\* is proved of Spec (ResultsKept, NoOrphanVM, VerdictStable ...) holds in LTM.
THEOREM ShardsInLTM == LTMSpec => Spec
<1>1. LTMInit => Init
  BY DEF LTMInit
<1>2. QED
  BY <1>1, ShardsStep, PTL DEF LTMSpec, Spec

\* With real shards in place of the promise, the scheduler behaves as
\* Sharder.tla says: what is proved of SharderSpec holds in LTM.
THEOREM SchedulerInLTM == LTMSpec => SharderSpec
<1>1. LTMInit => SharderInit
  BY DEF LTMInit
<1>2. LTMInv => ShardInv
  BY DEF LTMInv
<1>3. QED
  BY <1>1, <1>2, SchedulerStep, LTMInvariance, PTL DEF LTMSpec, SharderSpec

\* LTM, down to the monitor of each shard and its VM, implements the abstract
\* test run: one verdict, given after the last shard has returned and told to
\* the watcher and to KCS before the run is unlisted.
THEOREM LTMImplementsTestRun == LTMSpec => ImplementsTestRun
BY SchedulerInLTM, RunIsImplemented, PTL

\* wg.Wait keeps the goroutines of the shards out of finish.
THEOREM FinishRunsAlone == LTMSpec => FinishIsAlone
<1>1. LTMInv /\ [LTMNext]_ltmVars =>
        [sharder.pc \notin {"start", "wait"} => UNCHANGED worker]_ltmVars
  <2> SUFFICES ASSUME LTMInv, LTMNext, sharder.pc \notin {"start", "wait"}
               PROVE  UNCHANGED worker
    BY Zenon
  <2>1. \A s \in Shards : phase[s] # "running"
    BY Zenon DEF LTMInv, SharderInv, WaitInv, Finishing, Live
  <2>2. ASSUME NEW s \in Shards, VMRuns(s) PROVE UNCHANGED worker
    BY <2>2, Zenon DEF VMRuns, VMStep, PublishStatus, UploadResults, StopVM, VanishVM,
       AbortVM
  <2>3. QED
    BY <2>1, <2>2, Zenon DEF LTMNext, Schedule, vars, Work, Return
<1>2. QED
  BY <1>1, LTMInvariance, PTL DEF LTMSpec, FinishIsAlone

\* A test run passes only if each of its shards has unpacked its results, or
\* could not launch its VM, and found nothing to complain of.
THEOREM PassesWereTested == LTMSpec => []PassWasTested
<1>1. LTMInv => PassWasTested
  <2> SUFFICES ASSUME LTMInv, sharder.testResult = "Pass", NEW s \in sharder.shards
               PROVE  /\ worker[s].pc = "done" /\ worker[s].testResult = "Default"
                      /\ worker[s].dir \/ worker[s].vmStatus = "failed to launch"
    BY Zenon DEF PassWasTested
  <2>1. s \in Shards
    BY DEF LTMInv, SharderInv, SharderTypeOK, SharderRecord
  <2>2. phase[s] = "done" /\ outcome[s].result = "Default"
    BY Zenon DEF LTMInv, SharderInv, SharderVerdictInv, PassEarned
  <2>3. /\ worker[s].pc = "done" /\ outcome[s] = OutcomeOf(worker[s])
        /\ Explained(worker[s])
    BY <2>1, <2>2, Zenon DEF LTMInv, LinkInv
  <2>4. worker[s].testResult = "Default"
    BY <2>2, <2>3 DEF OutcomeOf
  <2>5. QED
    BY <2>3, <2>4, Zenon DEF Explained
<1>2. QED
  BY <1>1, LTMInvariance, PTL

\* Results are deleted from the bucket only to be found in the tarball.
THEOREM DeletedWereUploaded == LTMSpec => []DeletedAreUploaded
<1>1. LTMInv => DeletedAreUploaded
  <2> SUFFICES ASSUME LTMInv, sharder.tarball # {}, NEW s \in Shards,
                      vm[s].bucket = "deleted"
               PROVE  s \in sharder.tarball
    BY Zenon DEF DeletedAreUploaded
  <2>1. worker[s].dir /\ worker[s].pc \in {"exit", "done"}
    BY Zenon DEF LTMInv, ShardInv, Good, ResultsInv
  <2>2. Finishing /\ UploadComplete /\ WaitInv /\ phase \in [Shards -> Phase]
    BY Zenon DEF LTMInv, SharderInv, UploadInv, SharderTypeOK
  <2>3. phase[s] = "done"
    <3>1. phase[s] # "running"
      BY <2>2, Zenon DEF WaitInv, Live
    <3>2. phase[s] # "idle"
      BY <2>1 DEF LTMInv, LinkInv
    <3>3. QED
      BY <2>2, <3>1, <3>2 DEF Phase
  <2>4. outcome[s] = OutcomeOf(worker[s]) /\ worker[s].pc = "done"
    BY <2>3, Zenon DEF LTMInv, LinkInv
  <2>5. outcome[s].dir
    BY <2>1, <2>4 DEF OutcomeOf
  <2>6. s \in sharder.shards
    BY <2>2, <2>3 DEF WaitInv
  <2>7. QED
    BY <2>2, <2>5, <2>6, Zenon DEF UploadComplete
<1>2. QED
  BY <1>1, LTMInvariance, PTL
=============================================================================
