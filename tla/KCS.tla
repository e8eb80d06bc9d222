-------------------------------- MODULE KCS ---------------------------------
(***************************************************************************)
(* The kernel compile server (kcs/): the goroutines of its requests        *)
(* (RunBisect, StartBuild), the monitor goroutine of every git bisection,  *)
(* and the tracker that shuts the server down when it is idle, with the    *)
(* locks, the channels and the map they share.                             *)
(*                                                                         *)
(* A git bisection is its testID.  How git picks commits is left out: a    *)
(* bisection has some number of steps left.  The LTM server is a           *)
(* record of what it does for a bisection.                                 *)
(***************************************************************************)
EXTENDS Naturals, FiniteSets

CONSTANTS
  Handlers,     \* bound: goroutines handling a request at one time
  Bisections,   \* bound: git bisections requested, by testID
  MaxSteps,     \* bound: commits a bisection may have to look at
  MayExpire,    \* whether a bisection may be idle for bisectorTimeout
  Tracker,      \* the tracker goroutine
  Nobody        \* holder of a lock that is free

ASSUME KCSAssumption ==
  /\ MaxSteps \in Nat /\ MayExpire \in BOOLEAN
  /\ Handlers \cap Bisections = {}
  /\ Tracker \notin Handlers \cup Bisections
  /\ Nobody \notin Handlers \cup Bisections
  /\ {"bisectorLock", "buildLock", "repoLock"} \cap Bisections = {}

VARIABLES
  pc,           \* where every goroutine is; that of bisection b is its monitor
  task,         \* the request a handler works on
  bisector,     \* GitBisector, its repository and its entry in bisectorMap
  locks,        \* the holder of every lock
  ltm           \* what LTM does for a bisection

vars == <<pc, task, bisector, locks, ltm>>

Procs == Handlers \cup Bisections \cup {Tracker}

\* The lock of a bisection is that of its repository.
Locks == {"bisectorLock", "buildLock", "repoLock"} \cup Bisections

HandlerPC ==
  {"idle", "check", "clone", "register", "start", "lookup", "step", "finish",
   "build", "buildLock", "signal", "compile", "upload", "send", "reply",
   "repoLock", "lock", "delete", "done"}

MonitorPC == {"none", "select", "lock", "delete", "done", "stopped"}

TrackerPC == {"select", "status", "shutdown", "close", "gone"}

TaskRecord == [kind : {"bisect", "build"}, id : Bisections \cup {Nobody}, panics : BOOLEAN]

BisectorRecord ==
  [registered : BOOLEAN,              \* in bisectorMap
   repo : BOOLEAN,                    \* its directory exists
   active : BOOLEAN,                  \* lastActive is within bisectorTimeout
   left : 0..MaxSteps,                \* commits git has still to be told about
   done : {"none", "open", "closed"}] \* the channel done

NoTask == [kind |-> "build", id |-> Nobody, panics |-> FALSE]

NoBisector ==
  [registered |-> FALSE, repo |-> FALSE, active |-> FALSE, left |-> 0, done |-> "none"]

Init ==
  /\ pc = [p \in Procs |-> IF p \in Handlers THEN "idle"
                           ELSE IF p = Tracker THEN "select" ELSE "none"]
  /\ task = [h \in Handlers |-> NoTask]
  /\ bisector = [b \in Bisections |-> NoBisector]
  /\ locks = [l \in Locks |-> Nobody]
  /\ ltm = [b \in Bisections |-> "new"]

-----------------------------------------------------------------------------
(* Helpers.                                                                *)

Free(l) == locks[l] = Nobody

\* The bisection a goroutine works on.
Mine(p) == IF p \in Handlers THEN task[p].id ELSE p

\* The deferred unlocks of a goroutine.
Released(p) == [l \in Locks |-> IF locks[l] = p THEN Nobody ELSE locks[l]]

Goto(p, label) == pc' = [pc EXCEPT ![p] = label]

\* The web server takes requests until Shutdown closes it.
Accepting == pc[Tracker] \in {"select", "status", "shutdown"}

\* The process dies and systemd starts it again: what is in memory is lost,
\* what is on disk is not.
Crash ==
  /\ pc' = [p \in Procs |-> IF p \in Handlers THEN "idle"
                            ELSE IF p = Tracker THEN "select" ELSE "none"]
  /\ task' = [h \in Handlers |-> NoTask]
  /\ bisector' = [b \in Bisections |-> [NoBisector EXCEPT !.repo = bisector[b].repo]]
  /\ locks' = [l \in Locks |-> Nobody]
  /\ UNCHANGED ltm

-----------------------------------------------------------------------------
(* runCompile: a request arrives and gets a goroutine.                     *)

Take(h, kind, b, label) ==
  /\ pc[h] = "idle"
  /\ Accepting
  /\ task' = [task EXCEPT ![h] = [kind |-> kind, id |-> b, panics |-> FALSE]]
  /\ Goto(h, label)
  /\ UNCHANGED <<bisector, locks>>

\* LTM sends the request to start a bisection once.
TakeStart(h, b) ==
  /\ ltm[b] = "new"
  /\ ltm' = [ltm EXCEPT ![b] = "asked"]
  /\ Take(h, "bisect", b, "check")

\* LTM reports the result of the test of a bisection.
TakeStep(h, b) ==
  /\ ltm[b] = "testing"
  /\ ltm' = [ltm EXCEPT ![b] = "asked"]
  /\ Take(h, "bisect", b, "lookup")

TakeBuild(h) ==
  /\ Take(h, "build", Nobody, "repoLock")
  /\ UNCHANGED ltm

\* The report never arrives: sendKCSReport fails at LTM.
ReportLost(b) ==
  /\ ltm[b] = "testing"
  /\ ltm' = [ltm EXCEPT ![b] = "lost"]
  /\ UNCHANGED <<pc, task, bisector, locks>>

-----------------------------------------------------------------------------
(* RunBisect: a new bisection.                                             *)

\* bisectorMap is read without bisectorLock.
Exists(h) ==
  /\ pc[h] = "check"
  /\ Goto(h, IF bisector[Mine(h)].registered THEN "idle" ELSE "clone")
  /\ UNCHANGED <<task, bisector, locks, ltm>>

\* Go ends the process when it sees a map read while it is written to.
MapRace(h) ==
  /\ pc[h] = "check"
  /\ \E p \in Procs : pc[p] \in {"register", "delete"}
  /\ Crash

NewGitBisector(h) ==
  LET b == Mine(h) IN
  /\ pc[h] = "clone"
  /\ bisector' = [bisector EXCEPT ![b] =
                    [NoBisector EXCEPT !.repo = TRUE, !.active = TRUE, !.done = "open"]]
  /\ pc' = [pc EXCEPT ![h] = "register", ![b] = "select"]
  /\ UNCHANGED <<task, locks, ltm>>

\* Nothing is left behind if it panics.
NewGitBisectorPanics(h) ==
  /\ pc[h] = "clone"
  /\ Goto(h, "idle")
  /\ UNCHANGED <<task, bisector, locks, ltm>>

Register(h) ==
  /\ pc[h] = "register"
  /\ Free("bisectorLock")
  /\ bisector' = [bisector EXCEPT ![Mine(h)].registered = TRUE]
  /\ Goto(h, "start")
  /\ UNCHANGED <<task, locks, ltm>>

\* Start: git bisect start, bad and good.
Start(h) ==
  /\ pc[h] = "start"
  /\ bisector[Mine(h)].repo
  /\ \E n \in 0..MaxSteps :
       bisector' = [bisector EXCEPT ![Mine(h)].active = TRUE, ![Mine(h)].left = n]
  /\ Goto(h, "finish")
  /\ UNCHANGED <<task, locks, ltm>>

-----------------------------------------------------------------------------
(* RunBisect: the next step of a bisection.                                *)

\* The bisection is looked up and its HEAD is the commit of the request.
Lookup(h) ==
  /\ pc[h] = "lookup"
  /\ Free("bisectorLock")
  /\ bisector[Mine(h)].registered /\ bisector[Mine(h)].repo
  /\ Goto(h, "step")
  /\ UNCHANGED <<task, bisector, locks, ltm>>

\* There is no such bisection, or its HEAD cannot be read or is another commit.
\* Exit is not yet deferred, and LTM does not report a second time.
LookupPanics(h) ==
  /\ pc[h] = "lookup"
  /\ Free("bisectorLock")
  /\ ltm' = IF bisector[Mine(h)].registered THEN [ltm EXCEPT ![Mine(h)] = "refused"] ELSE ltm
  /\ Goto(h, "idle")
  /\ UNCHANGED <<task, bisector, locks>>

\* Step: git bisect good, bad or skip.
Step(h) ==
  LET b == Mine(h) IN
  /\ pc[h] = "step"
  /\ bisector[b].left > 0 => bisector[b].repo
  /\ \E n \in 0..MaxSteps :
       /\ n < bisector[b].left \/ n = 0
       /\ bisector' = [bisector EXCEPT ![b].active = TRUE, ![b].left = n]
  /\ Goto(h, "finish")
  /\ UNCHANGED <<task, locks, ltm>>

\* A panic of Start, Step, Build or StartTest is on its way to the deferred Exit.
Unwind(h) ==
  /\ task' = [task EXCEPT ![h].panics = TRUE]
  /\ Goto(h, "lock")

\* Mutant: there is no deferred Exit.
GitFailsNoExit(h) ==
  /\ pc[h] \in {"start", "step"}
  /\ pc[h] = "step" => bisector[Mine(h)].left > 0
  /\ bisector' = [bisector EXCEPT ![Mine(h)].active = TRUE]
  /\ Goto(h, "idle")
  /\ UNCHANGED <<task, locks, ltm>>

\* git fails: bad revisions, only skipped commits left, an unknown result.
GitFails(h) ==
  /\ pc[h] \in {"start", "step"}
  /\ pc[h] = "step" => bisector[Mine(h)].left > 0
  /\ bisector' = [bisector EXCEPT ![Mine(h)].active = TRUE]
  /\ Unwind(h)
  /\ UNCHANGED <<locks, ltm>>

\* Finish: a bisection that has ended is reported and cleaned up.
Finish(h) ==
  /\ pc[h] = "finish"
  /\ Goto(h, IF bisector[Mine(h)].left = 0 THEN "lock" ELSE "build")
  /\ UNCHANGED <<task, bisector, locks, ltm>>

-----------------------------------------------------------------------------
(* Clean, by the handler that finishes or panics or by the monitor.        *)

CleanLock(p) ==
  /\ pc[p] = "lock"
  /\ Free("bisectorLock")
  /\ locks' = [locks EXCEPT !["bisectorLock"] = p]
  /\ Goto(p, "delete")
  /\ UNCHANGED <<task, bisector, ltm>>

\* Mutant: the entry stays in bisectorMap.
CleanDeleteKeepsEntry(p) ==
  LET b == Mine(p) IN
  /\ pc[p] = "delete"
  /\ Free(b)
  /\ bisector' = [bisector EXCEPT ![b].repo = FALSE]
  /\ Goto(p, "done")
  /\ UNCHANGED <<task, locks, ltm>>

\* The repository's own lock is taken to delete it.
CleanDelete(p) ==
  LET b == Mine(p) IN
  /\ pc[p] = "delete"
  /\ Free(b)
  /\ bisector' = [bisector EXCEPT ![b].repo = FALSE, ![b].registered = FALSE]
  /\ Goto(p, "done")
  /\ UNCHANGED <<task, locks, ltm>>

\* Mutant: the channel stays open.
CleanDoneNoClose(p) ==
  LET b == Mine(p) IN
  /\ pc[p] = "done"
  /\ pc[b] = "select"
  /\ pc' = [pc EXCEPT ![p] = "idle", ![b] = "stopped"]
  /\ locks' = Released(p)
  /\ UNCHANGED <<task, bisector, ltm>>

\* done <- true meets the monitor, then the channel is closed.
CleanDone(p) ==
  LET b == Mine(p) IN
  /\ pc[p] = "done"
  /\ pc[b] = "select"
  /\ bisector' = [bisector EXCEPT ![b].done = "closed"]
  /\ pc' = [pc EXCEPT ![p] = "idle", ![b] = "stopped"]
  /\ locks' = Released(p)
  /\ UNCHANGED <<task, ltm>>

\* A send on a closed channel panics: the lock is released, and Clean runs
\* again if this was not yet the Clean of Exit.
CleanPanics(h) ==
  /\ pc[h] = "done"
  /\ bisector[Mine(h)].done = "closed"
  /\ locks' = Released(h)
  /\ task' = [task EXCEPT ![h].panics = TRUE]
  /\ Goto(h, IF task[h].panics THEN "idle" ELSE "lock")
  /\ UNCHANGED <<bisector, ltm>>

-----------------------------------------------------------------------------
(* The monitor goroutine.                                                  *)

\* Four hours pass without a step.
Expire(b) ==
  /\ MayExpire
  /\ bisector[b].active
  /\ bisector' = [bisector EXCEPT ![b].active = FALSE]
  /\ UNCHANGED <<pc, task, locks, ltm>>

\* The monitor itself calls Clean.
CheckActive(b) ==
  /\ pc[b] = "select"
  /\ ~bisector[b].active
  /\ Goto(b, "lock")
  /\ UNCHANGED <<task, bisector, locks, ltm>>

-----------------------------------------------------------------------------
(* Build, and StartBuild, which share RunBuild.                            *)

\* HEAD is read to name the build.
Build(h) ==
  /\ pc[h] = "build"
  /\ bisector[Mine(h)].repo
  /\ bisector' = [bisector EXCEPT ![Mine(h)].active = TRUE]
  /\ Goto(h, "buildLock")
  /\ UNCHANGED <<task, locks, ltm>>

BuildPanics(h) ==
  /\ pc[h] = "build"
  /\ ~bisector[Mine(h)].repo
  /\ bisector' = [bisector EXCEPT ![Mine(h)].active = TRUE]
  /\ Unwind(h)
  /\ UNCHANGED <<locks, ltm>>

\* StartBuild takes repoLock for as long as it runs.
RepoLock(h) ==
  /\ pc[h] = "repoLock"
  /\ Free("repoLock")
  /\ locks' = [locks EXCEPT !["repoLock"] = h]
  /\ Goto(h, "buildLock")
  /\ UNCHANGED <<task, bisector, ltm>>

\* Mutant: the lock is not released when the checkout fails.
CheckoutFailsLocked(h) ==
  /\ pc[h] = "repoLock"
  /\ Free("repoLock")
  /\ locks' = [locks EXCEPT !["repoLock"] = h]
  /\ Goto(h, "idle")
  /\ UNCHANGED <<task, bisector, ltm>>

\* The repository cannot be cloned or the commit not be checked out, or (before
\* the lock is taken) the request makes no sense.
CheckoutFails(h) ==
  /\ pc[h] = "repoLock"
  /\ Free("repoLock")
  /\ Goto(h, "idle")
  /\ UNCHANGED <<task, bisector, locks, ltm>>

BuildLock(h) ==
  /\ pc[h] = "buildLock"
  /\ Free("buildLock")
  /\ locks' = [locks EXCEPT !["buildLock"] = h]
  /\ Goto(h, "signal")
  /\ UNCHANGED <<task, bisector, ltm>>

\* newBuild <- true meets the tracker in its select.
Signal(h) ==
  /\ pc[h] = "signal"
  /\ pc[Tracker] = "select"
  /\ Goto(h, "compile")
  /\ UNCHANGED <<task, bisector, locks, ltm>>

\* A bisection's repository is locked while it is built.
Compile(h) ==
  LET b == Mine(h) IN
  /\ pc[h] = "compile"
  /\ task[h].kind = "bisect" => Free(b) /\ bisector[b].repo
  /\ locks' = IF task[h].kind = "bisect" THEN [locks EXCEPT ![b] = h] ELSE locks
  /\ Goto(h, "upload")
  /\ UNCHANGED <<task, bisector, ltm>>

\* The kernel is built and uploaded.
Built(h) ==
  /\ pc[h] = "upload"
  /\ locks' = IF task[h].kind = "bisect" THEN Released(h)
                                         ELSE [locks EXCEPT !["buildLock"] = Nobody]
  /\ Goto(h, "send")
  /\ UNCHANGED <<task, bisector, ltm>>

\* It is not, or the repository is gone: a bisection skips the commit, a build ends with a panic.
BuildFails(h) ==
  /\ pc[h] \in {"compile", "upload"}
  /\ locks' = Released(h)
  /\ Goto(h, IF task[h].kind = "bisect" THEN "step" ELSE "idle")
  /\ UNCHANGED <<task, bisector, ltm>>

-----------------------------------------------------------------------------
(* SendInternalRequest to LTM.                                             *)

\* StartBuild asks LTM for a test if the build was for LTM; repoLock is released
\* whether that works or not.
SendBuild(h) ==
  /\ pc[h] = "send"
  /\ task[h].kind = "build"
  /\ locks' = Released(h)
  /\ Goto(h, "idle")
  /\ UNCHANGED <<task, bisector, ltm>>

\* Mutant: a request LTM has taken is sent again.
SendTestAgain(h) ==
  /\ pc[h] = "send"
  /\ task[h].kind = "bisect"
  /\ ltm' = [ltm EXCEPT ![Mine(h)] = "testing"]
  /\ Goto(h, "send")
  /\ UNCHANGED <<task, bisector, locks>>

\* StartTest: LTM takes the request.
SendTest(h) ==
  /\ pc[h] = "send"
  /\ task[h].kind = "bisect"
  /\ ltm' = [ltm EXCEPT ![Mine(h)] = "testing"]
  /\ Goto(h, "reply")
  /\ UNCHANGED <<task, bisector, locks>>

Replied(h) ==
  /\ pc[h] = "reply"
  /\ Goto(h, "idle")
  /\ UNCHANGED <<task, bisector, locks, ltm>>

\* LTM cannot be reached, or its answer takes too long or is a refusal.  A
\* second attempt has no request body left and fails as well.
SendFails(h) ==
  /\ pc[h] \in {"send", "reply"} /\ task[h].kind = "bisect"
  /\ Unwind(h)
  /\ UNCHANGED <<bisector, locks, ltm>>

-----------------------------------------------------------------------------
(* StartTracker and shutdown.                                              *)

\* An hour passed in the select.
TimerFires ==
  /\ pc[Tracker] = "select"
  /\ Goto(Tracker, "status")
  /\ UNCHANGED <<task, bisector, locks, ltm>>

\* Mutant: what counts is the directories on disk.
NoRepositories == \A b \in Bisections : ~bisector[b].repo

NoBisectors == \A b \in Bisections : ~bisector[b].registered

BisectorStatus ==
  /\ pc[Tracker] = "status"
  /\ Free("bisectorLock")
  /\ Goto(Tracker, IF NoBisectors THEN "shutdown" ELSE "select")
  /\ UNCHANGED <<task, bisector, locks, ltm>>

\* The metadata is set, the log saved and the web server closed.
Shutdown ==
  /\ pc[Tracker] = "shutdown"
  /\ Goto(Tracker, "close")
  /\ UNCHANGED <<task, bisector, locks, ltm>>

DeleteInstance ==
  /\ pc[Tracker] = "close"
  /\ Goto(Tracker, "gone")
  /\ UNCHANGED <<task, bisector, locks, ltm>>

\* A panic in the tracker ends the process.
ShutdownPanics ==
  /\ pc[Tracker] \in {"shutdown", "close"}
  /\ Crash

-----------------------------------------------------------------------------
Clean(p) == CleanLock(p) \/ CleanDelete(p) \/ CleanDone(p)

Receive(h) ==
  TakeBuild(h) \/ \E b \in Bisections : TakeStart(h, b) \/ TakeStep(h, b)

Handle(h) ==
  \/ Exists(h) \/ MapRace(h) \/ NewGitBisector(h) \/ NewGitBisectorPanics(h)
  \/ Register(h) \/ Start(h) \/ Lookup(h) \/ LookupPanics(h) \/ Step(h) \/ GitFails(h) \/ Finish(h)
  \/ Clean(h) \/ CleanPanics(h)
  \/ Build(h) \/ BuildPanics(h) \/ RepoLock(h) \/ CheckoutFails(h) \/ BuildLock(h)
  \/ Signal(h) \/ Compile(h) \/ Built(h) \/ BuildFails(h)
  \/ SendBuild(h) \/ SendTest(h) \/ Replied(h) \/ SendFails(h)

Monitor(b) == CheckActive(b) \/ Clean(b)

Track == TimerFires \/ BisectorStatus \/ Shutdown \/ DeleteInstance \/ ShutdownPanics

\* Nothing runs on once the VM is gone.
Next ==
  /\ pc[Tracker] # "gone"
  /\ \/ \E h \in Handlers : Receive(h) \/ Handle(h)
     \/ \E b \in Bisections : Monitor(b) \/ Expire(b) \/ ReportLost(b)
     \/ Track

Spec == Init /\ [][Next]_vars

\* Go's locks and channels starve nobody; the server is scheduled; the GCE
\* API does not fail for ever.  No assumption is made on
\* requests and on LTM.
Fairness ==
  /\ \A h \in Handlers : SF_vars(Handle(h))
  /\ \A b \in Bisections : SF_vars(Monitor(b)) /\ WF_vars(Expire(b))
  /\ SF_vars(TimerFires) /\ SF_vars(BisectorStatus)
  /\ SF_vars(Shutdown) /\ SF_vars(DeleteInstance)

FairSpec == Spec /\ Fairness

-----------------------------------------------------------------------------
(* Properties.                                                             *)

TypeOK ==
  /\ pc \in [Procs -> HandlerPC \cup MonitorPC \cup TrackerPC]
  /\ \A h \in Handlers : pc[h] \in HandlerPC
  /\ \A b \in Bisections : pc[b] \in MonitorPC
  /\ pc[Tracker] \in TrackerPC
  /\ task \in [Handlers -> TaskRecord]
  /\ bisector \in [Bisections -> BisectorRecord]
  /\ locks \in [Locks -> Handlers \cup Bisections \cup {Nobody}]
  /\ ltm \in [Bisections -> {"new", "asked", "testing", "lost", "refused"}]

\* The locks the code a goroutine is in has taken.
Holds(p) ==
  {l \in Locks :
     \/ l = "bisectorLock" /\ pc[p] \in {"delete", "done"}
     \/ l = "buildLock" /\ pc[p] \in {"signal", "compile", "upload"}
     \/ /\ p \in Handlers /\ task[p].kind = "build"
        /\ l = "repoLock" /\ pc[p] \in {"buildLock", "signal", "compile", "upload", "send"}
     \/ /\ p \in Handlers /\ task[p].kind = "bisect"
        /\ l = task[p].id /\ pc[p] = "upload"}

\* No lock is left behind, by return or by panic, and none is held by two: a
\* lock is held by a goroutine exactly while that is in the code it protects.
LocksMatch ==
  \A l \in Locks, p \in Handlers \cup Bisections : locks[l] = p <=> l \in Holds(p)

\* A bisection in bisectorMap can go on: its repository exists and its monitor
\* is there to receive from done.
RegisteredIsWhole ==
  \A b \in Bisections :
    bisector[b].registered =>
      bisector[b].repo /\ bisector[b].done = "open" /\ pc[b] \in {"select", "lock", "delete"}

\* The handlers that read and write the fields of bisection b.
Workers(b) ==
  {h \in Handlers : /\ task[h].kind = "bisect" /\ task[h].id = b
                    /\ pc[h] \notin {"idle", "reply", "lock", "delete", "done"}}

\* The fields of a GitBisector have no lock of their own; still no two requests
\* work on a bisection at a time, and none while LTM runs its test.
OneWorker ==
  \A b \in Bisections :
    /\ Cardinality(Workers(b)) <= 1
    /\ ltm[b] = "testing" => Workers(b) = {}

\* A bisection in bisectorMap goes on: LTM tests a kernel for it or a handler
\* works on it, whatever panics once Exit is deferred (bisect.go:484).  There are
\* two exceptions: the report of LTM was lost on its way, or RunBisect panicked
\* over it before that line (bisect.go:476-481).
NotStranded ==
  \A b \in Bisections :
    bisector[b].registered =>
      \/ ltm[b] \in {"testing", "lost", "refused"}
      \/ \E h \in Handlers : task[h].id = b /\ pc[h] # "idle"

Gone == pc[Tracker] = "gone"

\* The monitor of an expired bisection waits for itself, or for a handler that
\* waits for it, with bisectorLock held.
Stuck ==
  \E b \in Bisections :
    \/ pc[b] = "done"
    \/ pc[b] = "lock" /\ \E h \in Handlers : pc[h] = "done" /\ task[h].id = b

\* Every request comes to its end, unless the VM is deleted before or a
\* bisection that expired has stuck its monitor.
EveryRequestEnds ==
  \A h \in Handlers : pc[h] # "idle" ~> (pc[h] = "idle" \/ Gone \/ Stuck)

Idle == \A h \in Handlers : pc[h] = "idle"

\* A server without requests and bisections shuts itself down, unless the
\* monitor of one that expired is stuck.
IdleShutsDown ==
  <>[](Idle /\ \A b \in Bisections : ~bisector[b].registered) => <>(Gone \/ Stuck)

-----------------------------------------------------------------------------
(* What the documents say, and the code does not do.                       *)

\* "the KCS server shuts down itself automatically after being idle for more
\* than one hour" (gce-xfstests.md:410); bisections that nobody continues are
\* removed by a "monitor goroutine that removes expired bisectors"
\* (bisect.go:64).
ShutsDownWhenIdle == <>[]Idle => <>Gone
=============================================================================
