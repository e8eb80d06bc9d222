# A verification project for xfstests-bld

xfstests-bld builds test appliances for Linux file systems and runs xfstests in
them. Most of the repository is scripts that run once, from top to bottom, and
vendored C libraries. The part that is hard to get right is what runs tests
without supervision for days: a pair of Go servers under
`src/test-appliance/files/usr/local/lib/gce-server` (called `gce-server/` below),
and the test loop of the VMs, which has to go on after every crash of the kernel
it tests:

* **LTM**, the light test manager (`ltm/`), takes test requests, cuts them into
  shards, launches a VM for each, watches the VMs, collects results, decides a
  verdict, mails it, and watches git branches for new commits to test;
* **KCS**, the kernel compile server (`kcs/`), builds kernels for users, for LTM
  and for git bisections, and deletes its own VM when it is idle;
* **runtests.sh**, in a test VM, runs xfstests' `check` for each configuration,
  and is entered anew when the VM boots again after a crash.

The servers are concurrent programs: a goroutine for every request, shard, watcher and
bisection, locks and channels between them, panics that unwind through deferred
calls, and VMs, a bucket and a metadata server that fail on their own. This
directory holds TLA+ models of them, TLC runs that check the models on small
instances, and TLAPS proofs for instances of any size.

## 1. The parts of the system

| Part | Source | State | Operations | Module |
|---|---|---|---|---|
| Shard worker | `ltm/shard.go` | status, verdict, timers, local files; the VM and its results in the bucket | Run, monitor, shutdownOnTimeout, finish, getResults, exit | `Shard` |
| Test scheduler | `ltm/sharder.go` | WaitGroup, aggregate directory, verdict, entry in sharderMap | Run, aggResults, createInfo, genResultsSummary, emailReport, packResults, the deferred calls | `Sharder` |
| Sharding | `ltm/sharder.go`, `util/gcp` | quotas, list of zones, groups of configurations | initLocalSharding, initRegionSharding, splitConfigs | `Sharding` |
| Git watchers | `ltm/watcher.go`, `ltm/build.go` | watcherMap, histories, the shared request, two kinds of lock | NewGitWatcher, watch, InitTest, tidyUp, Clean, ForwardKCS, StopWatcher, WatcherStatus, UpdateWatcherTest | `Watcher` |
| Bisections and builds | `kcs/bisect.go`, `kcs/build.go`, `kcs/main.go` | bisectorMap, repositories, build and repository locks, channels `done` | RunBisect and its steps, the monitor, StartBuild | `KCS` |
| Idle tracker | `kcs/tracker.go` | timer, shutdown | StartTracker, shutdown | `KCS` |
| Access of LTM to KCS | `util/server/server.go`, `util/gcp`, `gce-launch-kcs` | the KCS VM, `.kcs_instance`, KCSConfig, launchLock | SendInternalRequest, InternalQuery, accessKCS, runLaunchKCS, the script, KCS's own shutdown | `KCSAccess` |
| The search | `kcs/bisect.go`, `util/git/git.go` | git bisect's good, bad and skipped commits, testHistory | Start, Step, Build, Finish, BisectStart, BisectStep | `GitBisect` |
| Test loop in the VM | `root/runtests.sh`, `root/runtests_utils`, `merge_xunit`, `update_properties_xunit`, `gce-logger` | FSTESTCFG, devices, the files of each configuration, fstest-completed | the loop over FSTESTCFG, get_one_fs_config, copy_xunit_results, the iterations, the report; crashes | `FsConfig`, `RunTests` |
| Command line parser | `util/parser`, `getConfigs`, `run-fstests/util/parse_cli` | none: functions | Cmd, sanitizeCmd, expandAliases, processConfigs, singleConfig | `Parser`, `ShardRun` |

`PROJECT.json` lists the remaining parts with the reason why they are not, or
only partly, modelled (section 8).

How they interact:

```
 user --> LTM: NewShardScheduler (Sharding) --> Sharder --starts--> Shard --> VM, bucket
          LTM: Watcher --ForwardKCS--> KCS: StartBuild --test request--> LTM: Sharder
          Sharder --sendWatcherResult--> Watcher (UpdateWatcherTest)
 user --> LTM --> KCS: RunBisect (KCS, GitBisect) --StartTest--> LTM: Sharder
          Sharder --sendKCSReport--> KCS: RunBisect, next step
          LTM --accessKCS (KCSAccess)--> KCS: any of the requests above
 command line --> Parser --> Sharding --> Shard --> VM: RunTests (ShardRun)
```

The interfaces are specifications of their own:

* `ShardPromise` is what a scheduler may rely on of a shard. `Shard` is shown to
  implement it; `Sharder` is built on it instead of on `Shard`, so that TLC need not
  multiply their states. `LTM` puts the two together, real shards in place of the
  promise; that it behaves as both of them say is a theorem (section 4).
* `TestRun` is what LTM promises of a test run: one verdict, decided after the
  last shard, told unchanged to everybody who waits, before the run is unlisted.
  `Sharder` is shown to implement it.
* `Bisection` is what a git bisection is to the server that runs it: a number of
  commits git has still to be told about, which every result makes smaller. `KCS`
  counts its bisections like this; `GitBisect`, which has the commits, is shown to
  implement it.
* `ResultTypes` has the verdicts the two servers exchange, `TestShards` the set of
  shards.
* `ShardRun` composes `Parser` with `RunTests`: what LTM, or the user's own
  machine, makes of a command line is what the VM is booted with, and is compared
  with what the VM has run in the end.

What makes the code hard: panics between two locks; deferred calls that must run
in the right order; a check followed by an action on a map, a channel or a
metadata key that somebody else changes in between; a request object shared by
goroutines; timeouts that race with the VM they judge; text output that is parsed
for a verdict; quotas of zero and below; files that a crash finds half-written; two
parsers of one command line.

## 2. How the models correspond to the code

Every definition that stands for code is in the `map` of `PROJECT.json` with its
file and lines. Conventions common to all modules:

* A Go struct is one record-valued variable; field names are the source's.
  A goroutine's position is the field or variable `pc`; a label stands for the
  code from one visible effect (lock, channel, API call, shared write) to the
  next. What happens between two of them is one action.
* Each way a handler may go is an action: the good path, and one for each kind of
  failure (`...Fails`, `...Panics`). A panic goes on with the deferred calls.
* Data is cut down to what decides something. A configuration is its position, a
  commit a model value or a number, a report is `"0 failures"`, `"failures"` or
  none, a VM status is one of the strings the code compares with.
* `Mutant:` comments mark deliberately wrong variants of the definition below
  them. Each property is violated when one of them takes the place of that
  definition.

**Shard.** `worker[s]` is a ShardWorker, `vm[s]` its VM, the VM's metadata and
its results in the bucket. Time is counted in ticks of the monitor's ticker, and
a tick may fall just before or just after a timeout. The VM may publish a status,
upload, stop, vanish or be aborted by a user at any moment, also between the two
calls of shutdownOnTimeout. `keepDeadVM` is the scheduler's setting; it is the
same for all shards of a run.

**Sharder.** `sharder` is the ShardScheduler with its goroutine. The labels
`watcher`, `kcs`, `clean` and `recover` are the deferred calls of Run in the order
in which Go runs them; `Unwinding` is a panic on its way there. Every step of
finish may fail. The number of failed tests of a shard is kept as a number
because genResultsSummary searches for the text `0 failures`, and whether that
text occurs depends on the last digit (`EndsInZero`).

The definitions that `Sharder` has in common with `Shard` have its name in front
(`SharderInit`, `SharderNext`, `SharderSpec`, `SharderTypeOK`), because `LTM` extends
both.

**LTM.** A test run as a whole. A step is one of the scheduler (`Schedule`), of a shard
goroutine that the scheduler has started (`Work`), or of a VM (`VMRuns`), each leaving
the others' variables alone; and `Return`, the deferred calls of shard.Run, which is a
step of both sides. `phase` and `outcome` are no longer promised: `outcome[s]` is what
the goroutine of `s` has in its fields when it calls wg.Done.

**Sharding.** `plan` holds the local variables of initLocalSharding,
initRegionSharding and splitConfigs, and an action is one turn of one of their
loops. Free quota may be negative: usage may be above a limit that was lowered.
Integer division rounds towards zero, as in Go.

**KCS.** `pc` has the position of every handler, monitor (one per bisection) and
of the tracker; `locks` the holder of bisectorLock, buildLock, repoLock and of
each bisection's repository lock. A read of bisectorMap without the lock while
another goroutine writes it (`MapRace`) ends the process, as Go's runtime does;
systemd then starts it with empty maps (`Crash`). A bisection is a number of
steps left. `ltm[b]` says whose turn it is: LTM has not asked yet, has asked KCS
to start or go on, tests a kernel, has lost its report, or had it refused: RunBisect
panics over it before it has deferred Exit (`LookupPanics`).

**Watcher.** `watcher` has the goroutine, the map entry and the history; `request`
is the one request object that `testRequest` points to. InitTest writes its two
fields in two steps (`SetCommit`, `SetTest`), and a ForwardKCS goroutine started
earlier may send it before, between or after them. historyLock is held by tidyUp
only; a lock taken again by its holder is never granted.

**GitBisect.** git itself is external: it knows the newest good commit, the
oldest bad one and the skipped ones, and may check out any other in between. The
result of a test is arbitrary; `misled` remembers that one contradicted the truth.

**KCSAccess.** KCS VMs are numbered, and a VM's number stands for its address, in
`.kcs_instance` (`file`) and in gcp.KCSConfig (`config`) alike; 0 is a file that
exists without an address. A call goes through getInfo, launchLock, the script's
describe, touch, trap, create, write and wait steps, and sendRequest's attempts, whose
body can be read once. gcloud may fail, or say something untrue (`misled`); LTM may
restart, and `untrapped` remembers that it did so between touch and trap; KCS marks its metadata, closes and deletes itself in three steps, and
each of them may fall between any two of a call's.

**FsConfig, RunTests.** `disk` and `completed` are files and survive a crash; `env`
and `job` are the script's variables and its position, and do not. A file that is
written in place, or replaced by two renames, has a state in between (`"torn"`,
`"none"`; tests-to-run grows block by block), so that a crash may fall there.
`finished` and `hist` are history: how often a test really ended, and which
crashes cut what, which tests a `check` gave up on. `check` is external: it tells
gce-logger of a test when it begins (`LogTest`), writes result.xml anew when one ends
(`TestEnds`), repeats a failed test when asked to (`TestAgain`), and may stop before its
last test (`CheckGivesUp`). What was written before a crash is taken to be on
the disk; gce-logger calls syncfs to that end.

**Parser, ShardRun.** An argument is its kind, and the words of `-c`; a word is the
sequence of its parts. Go's map of configurations is read in any order
(`getConfigs`). The tree of configuration files is a constant, the same for LTM and
for the VM, as both have it from the same image. The loops of the parser are recursive
functions over the positions of the command line. The kinds `bool`, `opt` and `flag`
are the options in sanitizeCmd's two lists; a `flag` is one that sanitizeCmd takes to
have an argument and parse_cli does not (`--update-files` and its like), and `unlisted`
one that is for LTM or KCS alone and in neither list (`--kbuild-opts`). `Accepted` are
the command lines that parse_cli lets pass, with the argument of `-c` a word of its own
(not `-c4k`) and not empty; `RequestAssumption` says that a VM is booted for one of
these.

## 3. Runs

The properties of a module share a run. Where progress is lost in a known way
(section 5), the liveness properties name it and say what holds otherwise.

| Run | Checks | Shows |
|---|---|---|
| `shard` | ResultsKept, NoOrphanVM, HangAfterStatus, KeepsPromise, Termination | Results are never in neither place, VMs are not left running without a reason, a hang is not called before a status, a shard implements `ShardPromise` and always exits |
| `sharder` | PassEarned, UploadComplete, ImplementsTestRun, Completes | No verdict or upload before the last shard, Pass is earned, the abstract test run, Run always returns |
| `sharding` | EveryConfigOnce, Balanced, RegionWithinQuota, HomeFirst, SharedOnlyIfFull | Every configuration is tested once, evenly, within quota, other continents and shared VMs last |
| `kcs` | LocksMatch, RegisteredIsWhole, OneWorker, NotStranded, EveryRequestEnds, IdleShutsDown | No lock leaks, a registered bisection is whole, worked on by one, and not forgotten but in two named cases; requests end and an idle server goes, unless the monitor of an expired bisection is stuck |
| `watcher` | ResultsRecorded, LatestIsTested, EveryCallEnds, StopStops | The history stays consistent; the newest commit is tested; requests are answered and a stopped watcher stops, unless tidyUp is stuck |
| `kcs_access` | NoSecondVM, AddressKnown, AtMostOnce, EveryCallEnds, MarkedIsDeleted | One KCS VM at a time, its address stays known apart from the cases of section 5, a request is taken once, a marked KCS is deleted, calls end |
| `runtests` | DoneIsTested, ResultsKept, AskedIsRun, ShardArgs, DevicesApart, DoneStays, Completes | However the VM crashes, a completed configuration was tested and has its results, apart from what section 5 names, and is left alone; what FSTESTCFG names is run, and LTM's FSTESTCFG names what the user asked for, unless the option was swallowed; the devices differ; the script ends |
| `bisect` | FoundIsFirstBad, EachCommitOnce, CountsDown, Ends | The search finds the bug, tests nothing twice, is the countdown that `KCS` takes it for, ends |
| `sharder_pass` | PassMeansNoFailure (violated) | Ten failures count as none |
| `kcs_stuck` | ShutsDownWhenIdle (violated) | An expired bisection blocks the server for ever |
| `watcher_lost` | EveryCommitIsTested (violated) | A commit is overwritten before it is sent |
| `watcher_tidy` | TidiesUp (violated) | tidyUp waits for its own lock |

The type invariants (`TypeOK`) and VerdictStable, DeadVMKept, Barrier, NoIdleShard,
RegisteredRuns, LateOnlyIfRaced, BuildsBounded, Narrows and the LocksMatch of
`Watcher` are in no run: they are theorems (section 4), for every instance. So are the
properties of `LTM`: with two shards its states are too many for a run.

### Bounds, and why they are enough

* `MCShard`: one shard, because shards share no state. NoStatusTimeout 2 and
  MonitorTimeout 3 ticks keep the order of the real timeouts and let a status
  come before, between and after them. MaxAttempts 2 has a retry and a last
  attempt. MaxTests 3 statuses let the timer be reset more than once.
* `MCSharder`: two shards, so that one has results and the other has not, or they
  end in either order; requests with none and one shard are included. 3 and 0
  failures give reports with and without failures; `SharderPass` uses 0 and 10.
* `MCSharding`: up to four configurations, two regions, quotas of CPUs, addresses
  and disks below, at and above one VM, so that the number of groups is smaller
  than, equal to and larger than the number of configurations and does not divide
  it.
* `MCKCS`: two handlers, so that two requests meet on a bisection; one bisection,
  because bisections share only bisectorLock, buildLock and repoLock, for which the
  two handlers compete already; two steps, so that a bisection is continued and
  finished. It may expire.
* `MCWatcher`: one watcher (watchers share only watcherLock), two commits, so that
  the branch moves forth and back, two handlers; up to three tests in the history with
  aggMinCount 2, so that tidyUp can be due.
* `MCKCSAccess`: two calls, so that they meet in the script, two VMs one after the
  other, so that an address can be stale, two attempts.
* `MCRunTests`: three tests, so that a restart, which drops the last two entries of
  the log, still leaves one out; up to three crashes, so that a restart crashes
  again; one and two iterations, up to two repeats. Two file systems, of which
  `ext3` is also the name of a configuration of `ext4`, as in the appliance; a list,
  a list in a list, a comment in a list, duplicates, an unknown word, aliases,
  `smoke`, options of each kind, with and without an argument, and each kind of device.
  Ten command lines put these together.
* `MCGitBisect`: six commits. Every first bad commit, every set of good commits.

CHECK_DEADLOCK is FALSE where the program ends (a shard, a run, a plan, a
bisection, a server that has deleted its VM, a script that has reported). `Watcher`
and `KCSAccess` never end, and their runs check deadlock. No run uses symmetry.

### Fairness

* Shard: weak fairness of each shard goroutine's steps. The ticker, the sleeps
  and the API calls return, or fail and panic. Nothing is assumed of the VM.
* Sharder: weak fairness of Run and of the exit of each shard. The latter is
  `Termination` of `Shard`. One premise is not given: UpdateWatcherTest needs
  watcherLock and a historyLock, and `watcher_tidy` shows how these can be taken
  for ever. `Completes` therefore holds as long as no watcher is stuck in tidyUp.
* KCS: the goroutines that can go on do, and locks are granted (Go's mutexes do
  not starve a waiter). The timer fires, and deleting the VM does not fail for
  ever: after a failure systemd restarts the server. Nothing is assumed of users
  or of LTM.
* Watcher: as KCS. Nothing is assumed of users, the branch, the tickers or KCS.
* KCSAccess: a call goes on, launchLock is granted (strong fairness: others hold it
  now and then), the KCS server goes on, and setting its metadata and deleting its VM
  do not fail for ever. Nothing is assumed of users, gcloud's answers or restarts.
* RunTests: the script goes on, and `check` comes to an end (each test may take its
  time, but ends or crashes the VM). A test that crashes the VM every time is begun
  again for ever; `Completes` is about a VM that crashes finitely often, which the
  bound on crashes makes of every one.
* GitBisect: the handler goes on, and LTM reports each test it took (`Completes`
  of `Sharder`). Lost reports are in `KCS` (`ReportLost`).

## 4. Proofs

Eight modules hold theorems: `LTMProofs` (on `Shard`, `Sharder` and `LTM`),
`ShardingProofs`, `KCSProofs`, `WatcherProofs`, `GitBisectProofs`, `KCSAccessProofs`,
`RunTestsProofs` and `ShardRunProofs`. Each specification is shown to satisfy
`[]Inv` for an inductive invariant `Inv` (lemma `InitInv`, a lemma for each action;
theorem `Invariance`; in `LTMProofs` these names begin with `Shard`, `Sharder` and
`LTM`), and the properties of the runs are derived from it. The only assumptions are
the `ASSUME`s of the modelled modules: bounds are naturals, sets of processes are
disjoint, the launch timeout is the shorter one, the shards of a run are finitely
many, a configuration has at least one test and is to be run at least once; the tree of
configurations has the shape and the two names the code takes for granted (`all.list`
and `4k` of the primary file system), and no name in it holds a `#`. The invariants
were checked with TLC before they were proved.

* **LTMProofs**, the shard: any number of shards, any timeouts. `ShardInv` adds to the
  types, for each shard and its VM: when which verdict is possible (`ShardVerdictInv`; needed
  for HangAfterStatus and KeepsPromise), that results are unpacked before they
  are deleted (`ResultsInv`), and who may have set the shutdown reason at which
  label (`VMInv`; NoOrphanVM is only its last case). A step concerns one shard
  (`StepOfOne`), so the proof looks at one. Proved: TypeOK, ResultsKept,
  NoOrphanVM, HangAfterStatus, VerdictStable, DeadVMKept, and the refinement
  KeepsPromise: Start and Exit are the steps of `ShardPromise`, all others stutter.
* **LTMProofs**, the scheduler: any finite set of shards. The key is
  `wg = Cardinality(Live)` (`WaitInv`): wg.Wait lets Run go on exactly when no
  shard goroutine runs. With what the aggregate directory holds (`AggInv`), when
  the verdict is decided (`SharderVerdictInv`) and who has been told (`TellInv`), this
  gives SharderTypeOK, PassEarned, UploadComplete, Barrier and the refinement
  ImplementsTestRun.
* **LTMProofs**, the two together. `Sharder` takes it from `ShardPromise` that a shard
  leaves a promised outcome; `Shard` does not say when its goroutines begin. `LTMInv`
  is both invariants and the link between the two views of a shard (`LinkInv`): a
  goroutine that was not started has done nothing, one that is done for the scheduler
  is done for itself, and its outcome is what it left. From it, every step of `LTM` is
  a step of `Shard` (`ShardsInLTM`) and a step of `Sharder` (`SchedulerInLTM`, where
  `Return` keeps the promise), so that what is proved of either holds of the whole,
  ImplementsTestRun included (`LTMImplementsTestRun`). What neither can say alone:
  FinishIsAlone (finish reads the fields of the shards without a lock, when nobody
  writes them any more), PassWasTested (a run passes only if each shard has unpacked
  its results or could not launch its VM; why a shard may end without a verdict is
  `Explained`), and DeletedAreUploaded (what a shard has deleted from the bucket is in
  the tarball, if there is one).
* **ShardingProofs**, any number of configurations and regions, any integer
  quotas. The loops' invariants: the entries of a region in usedZones are counted
  by `added` and never exceed its limit, a permutation keeps the count, and
  configuration c is dealt to group (c - 1) mod numShards. Proved: all seven
  properties of the module, and that shard IDs differ.
* **KCSProofs**, any number of handlers, bisections and steps. RegisteredIsWhole
  and OneWorker are not inductive alone: that no two handlers work on a bisection
  rests on there being one turn per bisection, held by LTM or by a handler
  (`OneTurn`), on nobody knowing a bisection that is being set up (`SetUpAlone`),
  and on what has been cleaned up staying out of the map (`CleanedOK`). Proved:
  TypeOK, LocksMatch, RegisteredIsWhole, OneWorker, NotStranded; the last of a
  bisection whose report was neither lost nor refused before Exit was deferred.
* **WatcherProofs**, any number of watchers, commits, handlers and tests. For one
  watcher, what testRequest holds at each label of InitTest and that it was sent,
  is on its way or failed (`RequestInv`, for LatestIsTested), and that a test is in
  the history before KCS can be asked for it and before its result can come in
  (`HistoryInv`, for ResultsRecorded). For a handler, that the testID it sets a
  watcher up under is its own and that a watcher found under watcherLock stays in
  the map (`CallInv`). Proved: TypeOK, LocksMatch, RegisteredRuns,
  ResultsRecorded, LatestIsTested.
* **GitBisectProofs**, any number of commits and any results. The first bad
  commit stays between the ends of the search unless a test was wrong (`Search`),
  HEAD is a candidate until Step (`HeadInv`), and what was built is no candidate
  any more (`HistoryInv`). Proved: TypeOK, FoundIsFirstBad, EachCommitOnce,
  Narrows. The refinement CountsDown maps what is left to the number of candidates,
  none once the search has ended: HEAD is one of them, so something is left as long
  as a kernel is built, and it is none of them after Step. From the countdown alone
  follows BuildsBounded: the kernels built and the commits left are together no more
  than the commits between the ends (`Budget`).
* **KCSAccessProofs**, any number of callers, VMs and attempts. Who is in the script
  holds launchLock (`LockInv`), so that what its describe found stays true until it
  creates the VM (`CreateInv`, for NoSecondVM); the address is known also while
  somebody holds the lock, up to the script's first change of the file (`Known`, for
  AddressKnown); a server process needs a running VM (`VMInv`); only sendRequest's
  loop has something KCS can take (`SendInv`). AddressKnown holds of the states with
  neither `misled` nor `untrapped`. Proved: TypeOK, NoSecondVM,
  AddressKnown, AtMostOnce, LateOnlyIfRaced.
* **RunTestsProofs**, any number of tests, iterations, repeats and crashes, any tree
  of configurations. DoneIsTested is about the end of a configuration; what makes it
  true at the end is that at every moment each test of the list is still to do, or
  in the log, where all but the last one or two entries have ended, or has ended in
  every iteration so far (`CountInv`, `RoundInv`, with `Trimmed` on what `head -n -2`
  leaves: the last entry of the log may be a repeat of the one before it). ResultsKept
  rests on where the test case of an ended test is at each label: in results.xml, in
  check's report, or in the file that is about to be renamed (`HaveInv`, `SoundInv`,
  `ReportInv`). The devices have an invariant of their own (`DevInv`). AskedIsRun
  compares what was run with a reference definition: the configurations among the
  least set of words that has those of FSTESTCFG and, for each list in it, the lines
  of that list (`Reached`). Its invariant `AskInv` says that at every moment the
  configurations completed or skipped, the one in hand, and those that the words
  still to be read name are together those asked for. What makes it inductive is that
  a list names what its lines name (`ListNames`) and any other word itself or nothing
  (`WordNames`), whatever else is to be read; both use that the set is the least one.
  DoneIsTested and ResultsKept are about all tests but those a check gave up on
  (`hist.unrun`): that a check gives up takes nothing from the tests before. Proved:
  TypeOK, DoneIsTested, ResultsKept, DoneStays, DevicesApart, AskedIsRun. `ListAssumption`, that what is left of a list without its
  comments is a list of words, is there to keep the loops out of this module; it
  follows from `TreeAssumption` (`LinesAre` of `ShardRunProofs`).
* **ShardRunProofs**, any tree of configurations and any accepted command line. ShardArgs
  is about what a chain of loops computes: sanitizeCmd, expandAliases, processConfigs,
  getConfigs, and the VM's own reading of what they return. No
  prover at hand does induction over data, but the least turn of a loop at which a fact
  fails is a first-order matter: the natural numbers are well-founded (`UpTo`). That
  the recursive functions are defined at all is proved the same way (`LoopExists`). For
  sanitizeCmd, what is known after i arguments is `Cleaned`: nothing meant for LTM is
  left (apart from what its lists leave out), `-c`, its argument and `smoke` are, and `-c` is still followed by its
  argument; this is where it is needed that no `flag` stands before `-c` or `smoke`
  (`NoneSwallowed`). expandAliases and processConfigs then leave only other arguments
  (`OnlyOther`, `unlisted` ones included), and what the map of configurations holds is what each word of `-c` was
  found to stand for (`Held`, `AllFound`), in any order (`GetConfigsIs`). That the VM
  resolves this to the same configurations, comments and lists in lists included,
  rests on `Reached` being the least set again.

Only model-checked: everything under fairness (Termination, Completes,
EveryRequestEnds, IdleShutsDown, EveryCallEnds, StopStops, MarkedIsDeleted, Ends),
which is outside what TLAPS proves here. That `Sharder` may count on the exit of each
shard is `Termination` of `Shard`, and is not shown for `LTM` as a whole. Every
invariant and every action property of a passing run is also a theorem.
TotalFailures is a fold and no theorem depends on its value.

## 5. Disagreements with comments and documents

Shown by a run:

1. `sharder_pass`: genResultsSummary (`sharder.go:539`) takes a report for clean
   if it contains `0 failures`, which `10 failures` does.
2. `kcs_stuck`: the monitor of an expired bisection sends on a channel that only
   it receives from, with bisectorLock held (`bisect.go:396`).
3. `watcher_lost`: the watcher's commits share one request object; a commit found
   before the request for its predecessor is sent replaces it (`watcher.go:195`).
4. `watcher_tidy`: tidyUp calls aggResults with historyLock held, which takes it
   again (`watcher.go:230`).

Noticed while modelling, each a behaviour of the models, without a run of its own:

* A shard whose launch command fails ends as Default without results, although
  `shard.go:289` says of Default that the result is found; genResultsSummary then
  ignores it, so a run with an unlaunched shard can be a Pass (`sharder.go:504`).
  `PassEarned` and `PassWasTested` state what is left: at least one shard brought
  results, and only an unlaunched one did not.
* A VM that is gone before it published a status is judged Crash, not Error
  (`shard.go:290-292`).
* If the report cannot be mailed, packResults is not reached, and clean removes
  the aggregated results (`sharder.go:575`).
* Local sharding with no quota left launches a VM for every configuration:
  splitConfigs takes 0 for "no limit" (`sharder.go:283`). `RegionWithinQuota` is
  therefore about region sharding only.
* A build of more than an hour for a user is cut off by the idle tracker, whose
  timer is reset only when a build begins (`tracker.go:69`).
* A Crash is told to git as bad (`git.go:253`), while
  `Documentation/gce-xfstests.md:431` says that commits with crashed test VMs are
  skipped. A VM that dies for reasons of its own thus misleads a bisection: the
  premise `~misled` of `FoundIsFirstBad`.
* A result of Default ends the bisection with an error (`git.go:257`), although
  the same line of the document says a commit with a test error is skipped.

* RunBisect panics when HEAD of the bisection's repository cannot be read or is not the
  commit that was tested (`bisect.go:476-481`). Exit is deferred only at line 484: the
  bisection stays in bisectorMap, with nobody to continue it, until it expires
  (`"refused"`, an exception of `NotStranded`; the other is a report that got lost).

Of the way to KCS:

* gce-launch-kcs waits for the VM it has created. If that is deleted before the script
  sees it, the script waits for ever with launchLock held (`Hanging`, the exception of
  `EveryCallEnds`). For a VM that it found, NO_ACTION is set from line 86 to line 190
  and the wait at line 186 ends at once: when KCS deletes itself in between, the script
  ends well with a `.kcs_instance` without an address (`WriteAddress`).
* The script creates `.kcs_instance` with touch (`gce-launch-kcs:141`) before it sets
  the trap that would remove it (line 143). When LTM dies between the two while a KCS
  exists, the empty file stays: KCSConfig is not nil, accessKCS does not run the
  script, and this KCS is not found any more (`untrapped`, an exception of
  `AddressKnown`).
* A request that passed its check of the metadata before KCS marked itself may be
  taken and answered by a server that then deletes its VM (`raced`).
* When gcloud fails in the script, it may leave a `.kcs_instance` without an address,
  on which the next call panics, or LTM keeps the address of a VM that is gone
  (`misled`, a premise of `NoSecondVM` and `AddressKnown`).

Of the test loop:

* tests-to-run exists from the moment the shell opens it. A crash before `sort` has
  written it leaves a short list, which the restart takes for the whole, and the
  configuration is completed without the other tests (`runtests.sh:583-594`;
  `hist.torn`, an exception of `DoneIsTested`).
* The exit status of `check` is not looked at (`runtests.sh:630-632`). When it gives up,
  because a device cannot be made or mounted, the tests it did not finish are not run,
  and the configuration is completed all the same (lines 642, 680). `DoneIsTested` and
  `ResultsKept` are about the other tests (`hist.unrun`).
* A crash between merge_xunit's two renames, or while update_properties_xunit writes,
  loses the results so far, and a report that is no XML is removed unless it is the
  first (`hist.cut`, an exception of `ResultsKept`).
* A crash after the merge and before `rm` merges the same test cases again.
* SCRATCH_DEV_POOL is not cleared by clear_fs_config and takes the place of the
  SCRATCH_DEV of every later configuration (`env.pool`, the exception of
  `DevicesApart`). LOGWRITES_DEV is not cleared either, which `DevicesApart` covers.
* `runtests.sh:456` appends `$FSTRESS_AVOID` where `$FSSTRESS_AVOID` is meant: what a
  configuration avoids is lost when there is a general setting.

Of the two parsers (the premises `Plain` and `Swallowed` of `ShardArgs`):

* `parser.go:163` says of a word `<fs>` that it "uses default config for <fs> if it
  exists", but the check is for a regular file, and the word is taken for a
  configuration of the primary file system. `-c ext3` is ext3's default in a VM that
  reads it, and ext4's configuration `ext3` by way of LTM.
* LTM finds nothing for `<fs>/default` and `base:fs/cfg`, keeps the comment lines of
  a list, opens lists once only, and does not see `-c4k` written as one word. What it
  keeps is read again by the VM, which drops the comments and opens inner lists.
* `--update-files`, `--update-xfstests` and `--update-xfstests-tar` take no argument
  (`parse_cli:296-298`), but are among the options whose argument sanitizeCmd drops
  (`parser.go:28-30`): `ltm --update-files -c xfs/4k` loses its `-c`, and LTM runs every
  configuration of the primary file system; a `smoke` there is lost the same way
  (`Swallowed`).
* `--kbuild-opts` is in neither list of sanitizeCmd and is handed on to the shard, where
  parse_cli refuses it (`parse_cli:998-1002`).
* `parser.go:53-54` says that duplicates are removed; they are kept, and it is
  fstest-completed that makes the second one harmless (`DoneStays`).

## 6. Hazards

`PROJECT.json` lists what could go wrong and would hardly be met by a test, with
the line where it bites and the properties that would catch it. Three have no property:

* Several requests read the same quota before any of them has launched its VMs
  (`sharder.go:216`). The code does not guard against it, and nothing it promises is
  broken by it: a launch that exceeds the quota fails and is a shard's error, which
  `Shard` and `Sharder` have.
* The report cannot be mailed (`sharder.go:575`): the aggregate is then not uploaded,
  see section 5. `UploadComplete` is about what is uploaded.
* Two tests of a watcher with one ID (`watcher.go:185`): UpdateTest enters a result in
  the older entry. `ResultsRecorded` only asks for the result to be in one of them.

`AskedIsRun` knows a configuration by file system and name: `ext4:overlay/small` and
`xfs:overlay/small`, which differ in the base file system, are one to it.
`MarkedIsDeleted` is about the access to KCS, where the tracker is not blocked; how a
stuck monitor blocks it is in `KCS` (`kcs_stuck`). The unlocked reads of lastActive in
the monitors are outside `OneWorker`.

## 7. What could come next

The composition of `KCS` with `TestRun` into LTM and KCS bisecting together. Both
sides of that interface are modelled and checked; the composition is not.

## 8. Not modelled

* Mail, logging, status pages and log files: pure output. Where sending a mail
  decides about what follows, its failure is an action.
* The contents of results, reports and kernels. gen_results_summary is what
  genResultsSummary reads of its output.
* The mock servers: test doubles of what is modelled.
* Login, sessions and request decoding (`util/server`), and the base64 form of a
  command line: a request is taken as decoded. Timeouts and retries of internal
  requests are in `KCSAccess`, and in `KCS` and `Sharder` as requests that fail after,
  or without, having been taken.
* runtests.sh without `--run-once` (kvm, Android), blktests, the accounting of
  check.time and the sizes of partitions: what the VM runs on GCE is the loop that is
  modelled. xfstests itself is external.
* The set-up scripts, image and kernel builds and the command line tools other than
  the parsing of `-c`: straight-line scripts without concurrent state.
  `gce-xfstests abort` is an action of `Shard`.
* The vendored libraries and tools that make up most of the repository's lines
  (acl, attr, e2fsprogs-libs, libaio, popt, dbench and others under `fstests-bld`): C code built and shipped, not part of
  how tests are run.
* A crash of the LTM process in a test run: `Watcher` and `KCSAccess` have it, because
  a panicking ForwardKCS causes it. Test runs keep no state across a restart: there
  is nothing to recover.
