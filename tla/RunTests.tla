------------------------------ MODULE RunTests ------------------------------
(***************************************************************************)
(* The test loop in a test VM, runtests.sh --run-once, which a VM that     *)
(* crashed in a test and booted again enters anew: for every configuration *)
(* of FSTESTCFG it runs xfstests' check on the tests the configuration has *)
(* not completed, collects check's reports in results.xml and notes the    *)
(* configuration in fstest-completed.                                      *)
(*                                                                         *)
(* What is on the results disk (disk, completed) survives a crash, what    *)
(* the script holds (env, job) does not.  hist and finished are history:   *)
(* what happened that no file tells.  Tests are numbered as sort does.     *)
(***************************************************************************)
EXTENDS FsConfig

CONSTANTS
  Requests,     \* what the VM is booted for: [words, rpt, loop, crashes, ...],
                \* crashes a bound on the crashes of the VM
  NumTests      \* tests of a configuration

VARIABLES
  request,      \* FSTESTCFG and the options of every boot
  disk,         \* per configuration, the files of $RESULT_BASE
  completed,    \* fstest-completed
  env,          \* the script's FSTESTCFG, devices and SCRATCH_DEV_POOL
  job,          \* where the script is, in which configuration
  finished,     \* how often check finished a test, up to rpt
  hist          \* crashes, and what they cut short; what was skipped, and unrun

vars == <<request, disk, completed, env, job, finished, hist>>

Tests == 1..NumTests

ASSUME RunAssumption ==
  /\ NumTests \in Nat \ {0}
  /\ \A r \in Requests :
       r.words \in Seq(Word) /\ r.rpt \in Nat \ {0} /\ r.loop \in Nat /\ r.crashes \in Nat

\* listed, list: tests-to-run.  logged, log: completed.  report, sound: the
\* test cases of check's result.xml ({}: no file) and whether it is XML.
\* results, cases: results.xml.
NoFiles == [listed |-> FALSE, list |-> {}, logged |-> FALSE, log |-> <<>>,
            report |-> {}, sound |-> TRUE, results |-> "none", cases |-> {}]

BootEnv(words) == [work |-> words, dev |-> NoDevices, pool |-> FALSE]

BootJob ==
  [pc |-> "next", ret |-> "", cfg |-> <<>>, j |-> 0, kept |-> <<>>,
   todo |-> {}, ran |-> {}, repeats |-> 0, new |-> {}]

Init ==
  /\ request \in Requests
  /\ disk = [c \in Files |-> NoFiles]
  /\ completed = {}
  /\ env = BootEnv(request.words) /\ job = BootJob
  /\ finished = [c \in Files |-> [t \in Tests |-> 0]]
  /\ hist = [crashes |-> 0, torn |-> {}, cut |-> {}, skipped |-> {},
             unrun |-> [c \in Files |-> {}]]

At(label) == job.pc = label
Goto(label) == job' = [job EXCEPT !.pc = label]
SetWork(words) == env' = [work |-> words, dev |-> env.dev, pool |-> env.pool]
This == disk[job.cfg]
Put(files) == disk' = [disk EXCEPT ![job.cfg] = files]

-----------------------------------------------------------------------------
(***************************************************************************)
(* The next word of FSTESTCFG                                              *)
(***************************************************************************)

Unknown ==
  /\ At("next") /\ env.work # <<>>
  /\ ~IsList(Head(env.work)) /\ ~IsConfig(Head(env.work))
  /\ SetWork(Tail(env.work))
  /\ UNCHANGED <<request, disk, completed, job, finished, hist>>

\* Mutant: the list replaces what is left of FSTESTCFG.
ExpandListOnly ==
  /\ At("next") /\ env.work # <<>> /\ IsList(Head(env.work))
  /\ LET path == Resolve(Head(env.work))
     IN  SetWork(Lines(path[1], Lists[path]))
  /\ UNCHANGED <<request, disk, completed, job, finished, hist>>

ExpandList ==
  /\ At("next") /\ env.work # <<>> /\ IsList(Head(env.work))
  /\ LET path == Resolve(Head(env.work))
     IN  SetWork(Lines(path[1], Lists[path]) \o Tail(env.work))
  /\ UNCHANGED <<request, disk, completed, job, finished, hist>>

\* The devices of the configuration; SCRATCH_DEV_POOL stays set from one
\* configuration to the next, and takes the place of SCRATCH_DEV.
SourceConfig ==
  /\ At("next") /\ env.work # <<>> /\ IsConfig(Head(env.work))
  /\ LET c == Resolve(Head(env.work))
         dev == Assign(env.dev, c)
         pool == env.pool \/ Sets[c].pool
     IN  /\ job' = [job EXCEPT !.pc = "ready", !.cfg = c]
         /\ env' = [work |-> Tail(env.work), pool |-> pool,
                    dev |-> IF pool THEN [dev EXCEPT !["SCRATCH_DEV"] = ""] ELSE dev]
  /\ UNCHANGED <<request, disk, completed, finished, hist>>

\* Mutant: the word stays.
SkipAgain ==
  /\ At("ready") \/ At("format") \/ (At("list") /\ ~This.listed)
  /\ Goto("next")
  /\ SetWork(<<job.cfg>> \o env.work)
  /\ hist' = [hist EXCEPT !.skipped = @ \cup {job.cfg}]
  /\ UNCHANGED <<request, disk, completed, finished>>

\* continue: no such device; mkfs fails or the kernel lacks a feature;
\* check -n fails.
Skip ==
  /\ At("ready") \/ At("format") \/ (At("list") /\ ~This.listed)
  /\ Goto("next")
  /\ hist' = [hist EXCEPT !.skipped = @ \cup {job.cfg}]
  /\ UNCHANGED <<request, disk, completed, env, finished>>

AlreadyRun ==
  /\ At("ready") /\ job.cfg \in completed
  /\ Goto("next")
  /\ UNCHANGED <<request, disk, completed, env, finished, hist>>

\* Mutant: fstest-completed is not looked at.
BeginAgain ==
  /\ At("ready")
  /\ job' = [job EXCEPT !.pc = "copy", !.ret = "format"]
  /\ UNCHANGED <<request, disk, completed, env, finished, hist>>

\* Mutant: the report a crash left is not collected.
BeginAnew ==
  /\ At("ready") /\ job.cfg \notin completed
  /\ Goto("format")
  /\ UNCHANGED <<request, disk, completed, env, finished, hist>>

Begin ==
  /\ At("ready") /\ job.cfg \notin completed
  /\ job' = [job EXCEPT !.pc = "copy", !.ret = "format"]
  /\ UNCHANGED <<request, disk, completed, env, finished, hist>>

-----------------------------------------------------------------------------
(***************************************************************************)
(* copy_xunit_results, which goes on at job.ret                            *)
(***************************************************************************)

CopyNone ==
  /\ At("copy") /\ This.report = {}
  /\ Goto(job.ret)
  /\ UNCHANGED <<request, disk, completed, env, finished, hist>>

\* merge_xunit writes results.xml.new and renames results.xml to .bak ...
MergeBackup ==
  /\ At("copy") /\ This.report # {} /\ This.results = "whole" /\ This.sound
  /\ job' = [job EXCEPT !.pc = "renamed", !.new = This.cases \cup This.report]
  /\ Put([This EXCEPT !.results = "none", !.cases = {}])
  /\ UNCHANGED <<request, completed, env, finished, hist>>

\* ... and then .new to results.xml.
MergeRename ==
  /\ At("renamed")
  /\ job' = [job EXCEPT !.pc = "remove", !.new = {}]
  /\ Put([This EXCEPT !.results = "whole", !.cases = job.new])
  /\ UNCHANGED <<request, completed, env, finished, hist>>

\* One of the two is not XML; the exit status is not looked at.
MergeFails ==
  /\ At("copy") /\ This.report # {}
  /\ This.results = "torn" \/ (This.results = "whole" /\ ~This.sound)
  /\ Goto("remove")
  /\ UNCHANGED <<request, disk, completed, env, finished, hist>>

\* update_properties_xunit writes results.xml in place.
UpdateOpen ==
  /\ At("copy") /\ This.report # {} /\ This.results = "none" /\ This.sound
  /\ Goto("updating")
  /\ Put([This EXCEPT !.results = "torn"])
  /\ UNCHANGED <<request, completed, env, finished, hist>>

UpdateDone ==
  /\ At("updating")
  /\ Goto("remove")
  /\ Put([This EXCEPT !.results = "whole", !.cases = This.report])
  /\ UNCHANGED <<request, completed, env, finished, hist>>

\* mv result.xml result.xml.broken; the rm that follows finds nothing.
UpdateFails ==
  /\ At("copy") /\ This.report # {} /\ This.results = "none" /\ ~This.sound
  /\ Goto(job.ret)
  /\ Put([This EXCEPT !.report = {}, !.sound = TRUE])
  /\ UNCHANGED <<request, completed, env, finished, hist>>

RemoveResult ==
  /\ At("remove")
  /\ Goto(job.ret)
  /\ Put([This EXCEPT !.report = {}, !.sound = TRUE])
  /\ UNCHANGED <<request, completed, env, finished, hist>>

-----------------------------------------------------------------------------
(***************************************************************************)
(* The list of tests, and the iterations                                   *)
(***************************************************************************)

Formatted ==
  /\ At("format")
  /\ Goto("list")
  /\ UNCHANGED <<request, disk, completed, env, finished, hist>>

UseList ==
  /\ At("list") /\ This.listed
  /\ job' = [job EXCEPT !.pc = "iterate", !.j = 1]
  /\ UNCHANGED <<request, disk, completed, env, finished, hist>>

\* The shell creates tests-to-run before check -n has said anything ...
OpenList ==
  /\ At("list") /\ ~This.listed
  /\ Goto("listing")
  /\ Put([This EXCEPT !.listed = TRUE, !.list = {}])
  /\ UNCHANGED <<request, completed, env, finished, hist>>

\* ... and sort writes it block by block.
WriteList(n) ==
  /\ At("listing") /\ n \notin This.list
  /\ Put([This EXCEPT !.list = 1..n])
  /\ job' = IF n = NumTests THEN [job EXCEPT !.pc = "iterate", !.j = 1] ELSE job
  /\ UNCHANGED <<request, completed, env, finished, hist>>

\* Where an iteration goes on once /tmp/tests-to-run is there.
Remaining(log) ==
  LET todo == This.list \ {log[i] : i \in DOMAIN log}
  IN  [job EXCEPT !.pc = IF todo = {} THEN "fsck" ELSE "check", !.todo = todo,
                  !.ran = {}, !.kept = <<>>]

FirstRun ==
  /\ At("iterate") /\ ~This.logged
  /\ Put([This EXCEPT !.logged = TRUE, !.log = <<>>])
  /\ job' = Remaining(<<>>)
  /\ UNCHANGED <<request, completed, env, finished, hist>>

\* Mutant: the log is taken as it is.
TrimNothing ==
  /\ At("iterate") /\ This.logged
  /\ job' = [job EXCEPT !.pc = "moving", !.kept = This.log]
  /\ Put([This EXCEPT !.logged = FALSE, !.log = <<>>])
  /\ UNCHANGED <<request, completed, env, finished, hist>>

\* head -n -2 drops the test that was running and the one before it.  /tmp
\* is another file system: mv removes the log before it copies the new one.
Trim ==
  /\ At("iterate") /\ This.logged
  /\ job' = [job EXCEPT !.pc = "moving", !.kept = SubSeq(This.log, 1, Len(This.log) - 2)]
  /\ Put([This EXCEPT !.logged = FALSE, !.log = <<>>])
  /\ UNCHANGED <<request, completed, env, finished, hist>>

Move ==
  /\ At("moving")
  /\ Put([This EXCEPT !.logged = TRUE, !.log = job.kept])
  /\ job' = Remaining(job.kept)
  /\ UNCHANGED <<request, completed, env, finished, hist>>

-----------------------------------------------------------------------------
(***************************************************************************)
(* check, which tells gce-logger of a test when it begins, and writes the  *)
(* result.xml of this call anew when it ends                               *)
(***************************************************************************)

\* The next test of the sorted list.
LogTest(t) ==
  /\ At("check") /\ t \in job.todo /\ \A u \in job.todo : t <= u
  /\ Put([This EXCEPT !.log = Append(@, t)])
  /\ Goto("testing")
  /\ UNCHANGED <<request, completed, env, finished, hist>>

Running == This.log[Len(This.log)]

Count(t) ==
  finished' = [finished EXCEPT ![job.cfg][t] = IF @ < request.rpt THEN @ + 1 ELSE @]

TestEnds ==
  /\ At("testing")
  /\ Count(Running)
  /\ Put([This EXCEPT !.report = job.ran \cup {Running}])
  /\ job' = [job EXCEPT !.pc = "check", !.todo = @ \ {Running}, !.repeats = 0,
                        !.ran = @ \cup {Running}]
  /\ UNCHANGED <<request, completed, env, hist>>

\* -L: a test that fails begins again; only when there is one iteration.
TestAgain ==
  /\ At("testing") /\ request.rpt = 1 /\ job.repeats < request.loop
  /\ Count(Running)
  /\ Put([This EXCEPT !.report = job.ran \cup {Running}, !.log = Append(@, Running)])
  /\ job' = [job EXCEPT !.repeats = @ + 1, !.ran = @ \cup {Running}]
  /\ UNCHANGED <<request, completed, env, hist>>

\* What a test printed makes the report no XML.
Unreadable ==
  /\ At("check") \/ At("testing")
  /\ job.ran # {} /\ This.sound
  /\ Put([This EXCEPT !.sound = FALSE])
  /\ hist' = [hist EXCEPT !.cut = @ \cup {job.cfg}]
  /\ UNCHANGED <<request, completed, env, job, finished>>

CheckEnds ==
  /\ At("check") /\ job.todo = {}
  /\ job' = [job EXCEPT !.pc = "copy", !.ret = "fsck", !.ran = {}]
  /\ UNCHANGED <<request, disk, completed, env, finished, hist>>

\* check stops before its last test (a device cannot be formatted or mounted, it
\* is killed); its exit status is not looked at.
CheckGivesUp ==
  /\ At("check") \/ At("testing")
  /\ job.todo # {}
  /\ job' = [job EXCEPT !.pc = "copy", !.ret = "fsck", !.ran = {}, !.repeats = 0]
  /\ hist' = [hist EXCEPT !.unrun[job.cfg] = @ \cup job.todo]
  /\ UNCHANGED <<request, disk, completed, env, finished>>

EndIteration ==
  /\ At("fsck")
  /\ Put([This EXCEPT !.logged = FALSE, !.log = <<>>])
  /\ job' = IF job.j < request.rpt THEN [job EXCEPT !.pc = "iterate", !.j = @ + 1]
            ELSE [job EXCEPT !.pc = "finish"]
  /\ UNCHANGED <<request, completed, env, finished, hist>>

Finish ==
  /\ At("finish")
  /\ completed' = completed \cup {job.cfg}
  /\ job' = [job EXCEPT !.pc = "next", !.j = 0]
  /\ UNCHANGED <<request, disk, env, finished, hist>>

Report ==
  /\ At("next") /\ env.work = <<>>
  /\ Goto("over")
  /\ UNCHANGED <<request, disk, completed, env, finished, hist>>

-----------------------------------------------------------------------------
\* The VM crashes, boots and enters the script again.
Crash ==
  /\ ~At("over") /\ hist.crashes < request.crashes
  /\ env' = BootEnv(request.words) /\ job' = BootJob
  /\ hist' = [hist EXCEPT
       !.crashes = @ + 1,
       !.torn = IF At("listing") THEN @ \cup {job.cfg} ELSE @,
       !.cut = IF At("renamed") \/ At("updating") THEN @ \cup {job.cfg} ELSE @]
  /\ UNCHANGED <<request, disk, completed, finished>>

NextConfig ==
  Unknown \/ ExpandList \/ SourceConfig \/ Skip \/ AlreadyRun \/ Begin \/ Report

CopyXunitResults ==
  \/ CopyNone \/ MergeBackup \/ MergeRename \/ MergeFails
  \/ UpdateOpen \/ UpdateDone \/ UpdateFails \/ RemoveResult

Iterate ==
  \/ Formatted \/ UseList \/ OpenList \/ (\E n \in Tests : WriteList(n))
  \/ FirstRun \/ Trim \/ Move \/ EndIteration \/ Finish

Check == (\E t \in Tests : LogTest(t)) \/ TestEnds \/ TestAgain \/ CheckEnds

Script == NextConfig \/ CopyXunitResults \/ Iterate \/ Check

Next == Script \/ Unreadable \/ CheckGivesUp \/ Crash

Spec == Init /\ [][Next]_vars

\* The script runs; a crash, an unreadable report or a check that gives up need
\* not come.
FairSpec == Spec /\ WF_vars(Script)
-----------------------------------------------------------------------------
(***************************************************************************)
(* Properties                                                              *)
(***************************************************************************)
Labels == {"next", "ready", "copy", "renamed", "updating", "remove", "format", "list",
           "listing", "iterate", "moving", "check", "testing", "fsck", "finish", "over"}

FilesOfConfig ==
  [listed : BOOLEAN, list : SUBSET Tests, logged : BOOLEAN, log : Seq(Tests),
   report : SUBSET Tests, sound : BOOLEAN, results : {"none", "torn", "whole"},
   cases : SUBSET Tests]

\* Every variable has its type; an iteration is one of those asked for, and
\* the script is in a configuration whenever it is past the first step.
TypeOK ==
  /\ disk \in [Files -> FilesOfConfig]
  /\ completed \subseteq Files
  /\ finished \in [Files -> [Tests -> 0..request.rpt]]
  /\ job.pc \in Labels /\ job.ret \in {"", "format", "fsck"}
  /\ job.cfg \in Files \cup {<<>>} /\ (~At("next") /\ ~At("over") => job.cfg \in Files)
  /\ job.j \in 0..request.rpt /\ job.repeats \in 0..request.loop
  /\ job.todo \subseteq Tests /\ job.ran \subseteq Tests /\ job.new \subseteq Tests
  /\ job.kept \in Seq(Tests)
  /\ env.dev \in [Slots -> Values] /\ env.pool \in BOOLEAN
  /\ hist.crashes \in 0..request.crashes
  /\ hist.torn \subseteq Files /\ hist.cut \subseteq Files /\ hist.skipped \subseteq Files
  /\ hist.unrun \in [Files -> SUBSET Tests]

\* A configuration in fstest-completed has had every one of its tests run to
\* the end at least RPT_COUNT times, however often the VM crashed and
\* whichever test it crashed in (runtests.sh:609-643: the log of tests that
\* were begun, less its last two lines, is what a restart leaves out).  There
\* are two exceptions: a crash while tests-to-run was being written, and the
\* tests that a check had not finished when it gave up (runtests.sh:630-632 does
\* not look at its exit status); the tests before these count all the same.
DoneIsTested ==
  \A c \in completed \ hist.torn : \A t \in Tests \ hist.unrun[c] :
    finished[c][t] >= request.rpt

\* A configuration in fstest-completed has a results.xml with a test case of
\* every test, from before and after the crashes (runtests.sh:19-38, called
\* at 479 and 632), also of those a check finished before it gave up.  There is
\* none for the tests that it did not finish, and nothing is said of a
\* configuration where the VM crashed between merge_xunit's two renames or while
\* update_properties_xunit was writing, or check's report was no XML.
ResultsKept ==
  \A c \in completed \ (hist.torn \cup hist.cut) : \A t \in Tests \ hist.unrun[c] :
    disk[c].results = "whole" /\ t \in disk[c].cases

\* The words that some words lead to, through lists and lists in lists: the
\* least set that has these words and the lines of every list in it.
Inside(word) ==
  IF IsList(word) THEN Members(Lines(Resolve(word)[1], Lists[Resolve(word)])) ELSE {}

AllInside == UNION {Members(Lines(path[1], Lists[path])) : path \in DOMAIN Lists}

Closed(set) == \A word \in set : Inside(word) \subseteq set

Reached(words) ==
  {w \in words \cup AllInside :
     \A set \in SUBSET (words \cup AllInside) : words \subseteq set /\ Closed(set) => w \in set}

\* The configurations that some words name.
Named(words) == {Resolve(w) : w \in {v \in Reached(words) : IsConfig(v)}}

\* When the report is written, the configurations that were run or skipped
\* are those that FSTESTCFG names, all of them and no other, whatever lists,
\* unknown words and duplicates it has and wherever the VM crashed
\* (runtests.sh:324-329, runtests_utils:45-106).
AskedIsRun ==
  At("over") => completed \cup hist.skipped = Named(Members(request.words))

\* What a completed configuration left behind is not touched again and its
\* tests are not run again: not after a crash, and not when FSTESTCFG names it
\* a second time (runtests.sh:465-471; LTM's parser does not remove duplicates).
DoneStays ==
  [][\A c \in completed : c \in completed' /\ disk'[c] = disk[c]
                          /\ finished'[c] = finished[c]]_vars

\* No two of the devices that the tests of a configuration are given are the
\* same (runtests.sh:337-422: LOGWRITES_DEV, which is left from an earlier
\* configuration when the file sets SCRATCH_DEV, and the realtime devices,
\* which take what is free), unless a pool is set up on the large device.
DevicesApart ==
  ~env.pool => \A s, u \in Slots : s # u /\ env.dev[s] # "" => env.dev[s] # env.dev[u]

\* The script comes to its report, if the VM does not crash for ever
\* (runtests.sh:324-696).
Completes == <>At("over")
=============================================================================
