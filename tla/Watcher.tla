------------------------------ MODULE Watcher -------------------------------
(***************************************************************************)
(* The git watchers of LTM (ltm/watcher.go): a goroutine for every branch  *)
(* that is watched, the ForwardKCS goroutines it starts, the requests of   *)
(* users, the results that test schedulers report, and the two kinds of    *)
(* lock they share.                                                        *)
(*                                                                         *)
(* A watcher is its testID, and the test of a commit is named by the       *)
(* commit.  testRequest holds pointers: every ForwardKCS of a watcher      *)
(* sends the one request as it is at that moment.                          *)
(***************************************************************************)
EXTENDS Naturals, Sequences

CONSTANTS
  Watchers,     \* bound: branches watched, by testID
  Commits,      \* bound: commits that appear as HEAD of a branch
  Handlers,     \* bound: goroutines of requests and of ended tests at one time
  MaxTests,     \* bound: tests in the history of a watcher
  AggMinCount,  \* aggMinCount
  Nobody        \* holder of a lock that is free

ASSUME WatcherAssumption ==
  /\ Commits # {} /\ MaxTests \in Nat /\ AggMinCount \in Nat
  /\ Handlers \cap Watchers = {}
  /\ Nobody \notin Handlers \cup Watchers /\ "watcherLock" \notin Watchers

VARIABLES
  watcher,      \* GitWatcher, its goroutine and its entry in watcherMap
  request,      \* what testRequest points to
  forward,      \* the ForwardKCS goroutines of a watcher
  asked,        \* the requests that reached KCS
  reported,     \* the tests whose result UpdateWatcherTest has entered
  branch,       \* HEAD of the remote branch
  call,         \* what a handler does
  locks         \* holder of watcherLock and of every historyLock

vars == <<watcher, request, forward, asked, reported, branch, call, locks>>

Locks == {"watcherLock"} \cup Watchers

Results == {"pass", "failure"}

TestInfo == [test : Commits, status : Results \cup {"running"}]

Request == [commit : Commits, test : Commits]

WatcherRecord ==
  [pc : {"none", "append", "commit", "test", "select", "agg", "clean", "stopped"},
   registered : BOOLEAN,              \* in watcherMap
   head : Commits,
   history : Seq(TestInfo),
   done : {"none", "open", "closed"}] \* the channel done

ForwardRecord ==
  [pending : Nat,                     \* goroutines that have not sent yet
   failed : BOOLEAN]                  \* one of them failed

CallRecord ==
  [pc : {"idle", "new", "create", "stop", "send", "status", "infos", "report", "update"},
   id : Watchers \cup {Nobody}, test : Commits \cup {Nobody}, todo : SUBSET Watchers]

NoWatcher(c) ==
  [pc |-> "none", registered |-> FALSE, head |-> c, history |-> <<>>, done |-> "none"]

NoCall == [pc |-> "idle", id |-> Nobody, test |-> Nobody, todo |-> {}]

NoForward == [pending |-> 0, failed |-> FALSE]

Init ==
  \E c \in Commits :
    /\ watcher = [v \in Watchers |-> NoWatcher(c)]
    /\ request = [v \in Watchers |-> [commit |-> c, test |-> c]]
    /\ forward = [v \in Watchers |-> NoForward]
    /\ asked = [v \in Watchers |-> {}]
    /\ reported = [v \in Watchers |-> {}]
    /\ branch = [v \in Watchers |-> c]
    /\ call = [h \in Handlers |-> NoCall]
    /\ locks = [l \in Locks |-> Nobody]

-----------------------------------------------------------------------------
(* Helpers.                                                                *)

Free(l) == locks[l] = Nobody

Lock(l, p) == locks' = [locks EXCEPT ![l] = p]

Goto(w, label) == watcher' = [watcher EXCEPT ![w].pc = label]

Step(h, label) == call' = [call EXCEPT ![h].pc = label]

\* A request ends, by return or by a panic that FailureHandler answers.
Return(h) == call' = [call EXCEPT ![h] = NoCall]

\* The process ends and systemd restarts it: the watchers are gone.
Crash ==
  /\ watcher' = [w \in Watchers |->
                   [watcher[w] EXCEPT !.pc = IF @ = "none" THEN @ ELSE "stopped",
                                      !.registered = FALSE, !.history = <<>>]]
  /\ forward' = [w \in Watchers |-> NoForward]
  /\ call' = [h \in Handlers |-> NoCall]
  /\ locks' = [l \in Locks |-> Nobody]
  /\ UNCHANGED <<request, asked, reported, branch>>

\* Somebody pushes to the branch, or forces it back.
Push(w) ==
  /\ \E c \in Commits \ {branch[w]} : branch' = [branch EXCEPT ![w] = c]
  /\ UNCHANGED <<watcher, request, forward, asked, reported, call, locks>>

-----------------------------------------------------------------------------
(* The goroutine of a watcher: watch, InitTest, tidyUp and Clean.          *)

\* InitTest: the test enters the history.
AppendTest(w) ==
  /\ watcher[w].pc = "append"
  /\ Free(w)
  /\ watcher' = [watcher EXCEPT
       ![w].pc = "commit",
       ![w].history = Append(@, [test |-> watcher[w].head, status |-> "running"])]
  /\ UNCHANGED <<request, forward, asked, reported, branch, call, locks>>

\* The request is overwritten in place, one field after the other.
SetCommit(w) ==
  /\ watcher[w].pc = "commit"
  /\ request' = [request EXCEPT ![w].commit = watcher[w].head]
  /\ Goto(w, "test")
  /\ UNCHANGED <<forward, asked, reported, branch, call, locks>>

\* Mutant: ForwardKCS gets the request before the testID is in it.
SetTestTooLate(w) ==
  /\ watcher[w].pc = "test"
  /\ forward' = [forward EXCEPT ![w].pending = @ + 1]
  /\ Goto(w, "select")
  /\ UNCHANGED <<request, asked, reported, branch, call, locks>>

\* And a ForwardKCS goroutine starts.
SetTest(w) ==
  /\ watcher[w].pc = "test"
  /\ request' = [request EXCEPT ![w].test = watcher[w].head]
  /\ forward' = [forward EXCEPT ![w].pending = @ + 1]
  /\ Goto(w, "select")
  /\ UNCHANGED <<asked, reported, branch, call, locks>>

\* The branch has moved since the last look.
Update(w) ==
  /\ watcher[w].pc = "select"
  /\ branch[w] # watcher[w].head
  /\ Len(watcher[w].history) < MaxTests
  /\ watcher' = [watcher EXCEPT ![w].head = branch[w], ![w].pc = "append"]
  /\ UNCHANGED <<request, forward, asked, reported, branch, call, locks>>

\* git ls-remote fails, or tidyUp cannot create its directory, and watch panics.
UpdateFails(w) ==
  /\ watcher[w].pc = "select"
  /\ Goto(w, "clean")
  /\ UNCHANGED <<request, forward, asked, reported, branch, call, locks>>

\* tidyUp takes historyLock and calls aggResults, whose first step is to take
\* it again: there is no step from "agg".  With fewer tests, or without
\* access to GCE, tidyUp changes nothing.
TidyUp(w) ==
  /\ watcher[w].pc = "select"
  /\ Free(w)
  /\ Len(watcher[w].history) >= AggMinCount
  /\ Lock(w, w)
  /\ Goto(w, "agg")
  /\ UNCHANGED <<request, forward, asked, reported, branch, call>>

\* Mutant: the channel stays open.
CleanNoClose(w) ==
  /\ watcher[w].pc = "clean"
  /\ Free("watcherLock")
  /\ watcher' = [watcher EXCEPT ![w].pc = "stopped", ![w].registered = FALSE]
  /\ UNCHANGED <<request, forward, asked, reported, branch, call, locks>>

Clean(w) ==
  /\ watcher[w].pc = "clean"
  /\ Free("watcherLock")
  /\ watcher' = [watcher EXCEPT ![w].pc = "stopped", ![w].done = "closed",
                                ![w].registered = FALSE]
  /\ UNCHANGED <<request, forward, asked, reported, branch, call, locks>>

-----------------------------------------------------------------------------
(* ForwardKCS.                                                             *)

\* KCS takes the request, which is what testRequest points to now.
Forward(w) ==
  /\ forward[w].pending > 0
  /\ forward' = [forward EXCEPT ![w].pending = @ - 1]
  /\ asked' = [asked EXCEPT ![w] = @ \cup {request[w]}]
  /\ UNCHANGED <<watcher, request, reported, branch, call, locks>>

\* KCS cannot be launched or reached: ReportFailure sends a mail.
ForwardFails(w) ==
  /\ forward[w].pending > 0
  /\ forward' = [forward EXCEPT ![w].pending = @ - 1, ![w].failed = TRUE]
  /\ UNCHANGED <<watcher, request, asked, reported, branch, call, locks>>

\* The directory of the log cannot be created: nothing recovers the panic.
ForwardPanics(w) ==
  /\ forward[w].pending > 0
  /\ Crash

-----------------------------------------------------------------------------
(* runTests: a user asks for a watcher (NewGitWatcher).                    *)

\* Something for handler h to do.
Take(h, label, w, t) ==
  /\ call[h].pc = "idle"
  /\ call' = [call EXCEPT ![h] = [pc |-> label, id |-> w, test |-> t, todo |-> {}]]
  /\ UNCHANGED <<watcher, request, forward, asked, reported, branch, locks>>

\* GetTimeStamp gives every request a testID of its own.
TakeNew(h, w) ==
  /\ watcher[w].pc = "none"
  /\ \A g \in Handlers : call[g].pc \in {"new", "create"} => call[g].id # w
  /\ Take(h, "new", w, Nobody)

NewLock(h) ==
  /\ call[h].pc = "new"
  /\ Free("watcherLock")
  /\ Lock("watcherLock", h)
  /\ Step(h, "create")
  /\ UNCHANGED <<watcher, request, forward, asked, reported, branch>>

NewGitWatcher(h) ==
  LET w == call[h].id IN
  /\ call[h].pc = "create"
  /\ watcher' = [watcher EXCEPT ![w] =
       [pc |-> "append", registered |-> TRUE, head |-> branch[w], history |-> <<>>,
        done |-> "open"]]
  /\ Lock("watcherLock", Nobody)
  /\ Return(h)
  /\ UNCHANGED <<request, forward, asked, reported, branch>>

\* The branch does not exist, or the configuration is incomplete.
NewGitWatcherPanics(h) ==
  /\ call[h].pc = "create"
  /\ Lock("watcherLock", Nobody)
  /\ Return(h)
  /\ UNCHANGED <<watcher, request, forward, asked, reported, branch>>

-----------------------------------------------------------------------------
(* StopWatcher.                                                            *)

TakeStop(h, w) == Take(h, "stop", w, Nobody)

\* watcherMap is read without watcherLock.
FindWatcher(h) ==
  /\ call[h].pc = "stop"
  /\ IF watcher[call[h].id].registered THEN Step(h, "send") ELSE Return(h)
  /\ UNCHANGED <<watcher, request, forward, asked, reported, branch, locks>>

\* Go ends the process when it sees a map read while it is written to.
MapRace(h) ==
  /\ call[h].pc = "stop"
  /\ \/ \E g \in Handlers : call[g].pc = "create"
     \/ Free("watcherLock") /\ \E w \in Watchers : watcher[w].pc = "clean"
  /\ Crash

\* Mutant: the watcher leaves its select and not its loop.
SendDoneStays(h) ==
  LET w == call[h].id IN
  /\ call[h].pc = "send"
  /\ watcher[w].pc = "select" /\ watcher[w].done = "open"
  /\ Return(h)
  /\ UNCHANGED <<watcher, request, forward, asked, reported, branch, locks>>

\* done <- true meets the watcher in its select.
SendDone(h) ==
  LET w == call[h].id IN
  /\ call[h].pc = "send"
  /\ watcher[w].pc = "select" /\ watcher[w].done = "open"
  /\ Goto(w, "clean")
  /\ Return(h)
  /\ UNCHANGED <<request, forward, asked, reported, branch, locks>>

\* A send on a closed channel panics, also one that has been waiting.
SendPanics(h) ==
  /\ call[h].pc = "send"
  /\ watcher[call[h].id].done = "closed"
  /\ Return(h)
  /\ UNCHANGED <<watcher, request, forward, asked, reported, branch, locks>>

-----------------------------------------------------------------------------
(* WatcherStatus.                                                          *)

TakeStatus(h) == Take(h, "status", Nobody, Nobody)

StatusLock(h) ==
  /\ call[h].pc = "status"
  /\ Free("watcherLock")
  /\ Lock("watcherLock", h)
  /\ call' = [call EXCEPT ![h].pc = "infos",
                          ![h].todo = {w \in Watchers : watcher[w].registered}]
  /\ UNCHANGED <<watcher, request, forward, asked, reported, branch>>

\* Info of one watcher, for which historyLock is taken and released.
Info(h, w) ==
  /\ call[h].pc = "infos" /\ w \in call[h].todo
  /\ Free(w)
  /\ call' = [call EXCEPT ![h].todo = @ \ {w}]
  /\ UNCHANGED <<watcher, request, forward, asked, reported, branch, locks>>

StatusDone(h) ==
  /\ call[h].pc = "infos" /\ call[h].todo = {}
  /\ Lock("watcherLock", Nobody)
  /\ Return(h)
  /\ UNCHANGED <<watcher, request, forward, asked, reported, branch>>

-----------------------------------------------------------------------------
(* UpdateWatcherTest: a test scheduler reports the result of a test.       *)

\* A test that KCS was asked for ends; how often it was asked for is left open.
TakeReport(h, w) == \E r \in asked[w] : Take(h, "report", w, r.test)

ReportLock(h) ==
  /\ call[h].pc = "report"
  /\ Free("watcherLock")
  /\ IF watcher[call[h].id].registered
     THEN Lock("watcherLock", h) /\ Step(h, "update")
     ELSE Return(h) /\ UNCHANGED locks
  /\ UNCHANGED <<watcher, request, forward, asked, reported, branch>>

Entries(w, t) == {i \in DOMAIN watcher[w].history : watcher[w].history[i].test = t}

\* Mutant: only the newest entry of the history is looked at.
EntryNewest(w, t) ==
  {i \in Entries(w, t) : i = Len(watcher[w].history)}

\* The first entry of the test, if there is one.
Entry(w, t) == {i \in Entries(w, t) : \A j \in Entries(w, t) : i <= j}

UpdateTest(h) ==
  LET w == call[h].id
      t == call[h].test
  IN
  /\ call[h].pc = "update"
  /\ Free(w)
  /\ \E result \in Results :
       watcher' = [watcher EXCEPT ![w].history =
                     [i \in DOMAIN @ |-> IF i \in Entry(w, t)
                                         THEN [@[i] EXCEPT !.status = result] ELSE @[i]]]
  /\ reported' = [reported EXCEPT ![w] = @ \cup {t}]
  /\ Lock("watcherLock", Nobody)
  /\ Return(h)
  /\ UNCHANGED <<request, forward, asked, branch>>

-----------------------------------------------------------------------------
Watch(w) ==
  \/ AppendTest(w) \/ SetCommit(w) \/ SetTest(w)
  \/ Update(w) \/ UpdateFails(w) \/ TidyUp(w) \/ Clean(w)

ForwardKCS(w) == Forward(w) \/ ForwardFails(w) \/ ForwardPanics(w)

Receive(h) ==
  TakeStatus(h) \/ \E w \in Watchers : TakeNew(h, w) \/ TakeStop(h, w) \/ TakeReport(h, w)

Handle(h) ==
  \/ NewLock(h) \/ NewGitWatcher(h) \/ NewGitWatcherPanics(h)
  \/ FindWatcher(h) \/ MapRace(h) \/ SendDone(h) \/ SendPanics(h)
  \/ StatusLock(h) \/ (\E w \in Watchers : Info(h, w)) \/ StatusDone(h)
  \/ ReportLock(h) \/ UpdateTest(h)

Next ==
  \/ \E w \in Watchers : Push(w) \/ Watch(w) \/ ForwardKCS(w)
  \/ \E h \in Handlers : Receive(h) \/ Handle(h)

Spec == Init /\ [][Next]_vars

\* Goroutines are scheduled, Go's locks and its select starve nobody.  Nothing
\* is assumed of users, of the branch, of the tickers and of KCS.
Fairness ==
  /\ \A w \in Watchers : SF_vars(AppendTest(w) \/ SetCommit(w) \/ SetTest(w) \/ Clean(w))
  /\ \A h \in Handlers : SF_vars(Handle(h))

FairSpec == Spec /\ Fairness

-----------------------------------------------------------------------------
(* Properties.                                                             *)

TypeOK ==
  /\ watcher \in [Watchers -> WatcherRecord]
  /\ \A w \in Watchers : Len(watcher[w].history) <= MaxTests + 1
  /\ request \in [Watchers -> Request]
  /\ forward \in [Watchers -> ForwardRecord]
  /\ asked \in [Watchers -> SUBSET Request]
  /\ reported \in [Watchers -> SUBSET Commits]
  /\ branch \in [Watchers -> Commits]
  /\ call \in [Handlers -> CallRecord]
  /\ locks \in [Locks -> Handlers \cup Watchers \cup {Nobody}]

\* No lock is left behind, by return or by panic: watcherLock is held exactly
\* while a request is in the code it protects, historyLock exactly by a tidyUp.
LocksMatch ==
  /\ \A h \in Handlers :
       locks["watcherLock"] = h <=> call[h].pc \in {"create", "infos", "update"}
  /\ \A w \in Watchers : locks[w] = IF watcher[w].pc = "agg" THEN w ELSE Nobody

\* watcherMap holds the watchers that run and no other: a request that finds one
\* there finds somebody at the other end of done, or a Clean that will close it.
RegisteredRuns ==
  \A w \in Watchers :
    /\ watcher[w].registered <=> watcher[w].pc \notin {"none", "stopped"}
    /\ watcher[w].registered => watcher[w].done = "open"

\* A result that LTM was told is in the history, whatever else is tested:
\* UpdateTest never meets a test it does not know.
ResultsRecorded ==
  \A w \in Watchers :
    watcher[w].registered =>
      \A t \in reported[w] :
        \E i \in DOMAIN watcher[w].history :
          watcher[w].history[i].test = t /\ watcher[w].history[i].status # "running"

\* The commits share one request, yet the newest is not lost: when nothing is
\* on its way and nothing has failed, KCS was asked to test what the watcher
\* took for HEAD, under its own name.
LatestIsTested ==
  \A w \in Watchers :
    watcher[w].pc = "select" /\ forward[w] = NoForward =>
      [commit |-> watcher[w].head, test |-> watcher[w].head] \in asked[w]

\* A tidyUp found enough tests, and waits for the lock it holds.
Aggregating == \E w \in Watchers : watcher[w].pc = "agg"

\* Every request is answered, unless a tidyUp got to aggResults.
EveryCallEnds ==
  \A h \in Handlers : call[h].pc # "idle" ~> (call[h].pc = "idle" \/ Aggregating)

\* A watcher that somebody wants to stop stops, unless a tidyUp got to
\* aggResults.
StopStops ==
  \A h \in Handlers, w \in Watchers :
    (call[h].pc = "send" /\ call[h].id = w) ~> (~watcher[w].registered \/ Aggregating)

-----------------------------------------------------------------------------
(* What the comments say, and the code does not do.                        *)

\* "If new commits are detected, it calls KCS to build a kernel and run a
\* test." (watcher.go:137)
EveryCommitIsTested ==
  \A w \in Watchers :
    watcher[w].pc = "select" /\ forward[w] = NoForward =>
      \A i \in DOMAIN watcher[w].history :
        \E r \in asked[w] : r.test = watcher[w].history[i].test

\* "tidyUp cleans up the GCS bucket by fetching and aggregating the test result
\* files since last agg time." (watcher.go:201)
TidiesUp == \A w \in Watchers : watcher[w].pc = "agg" ~> watcher[w].pc # "agg"
=============================================================================
