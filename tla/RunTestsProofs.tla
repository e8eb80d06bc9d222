--------------------------- MODULE RunTestsProofs ---------------------------
(***************************************************************************)
(* Proofs about RunTests.tla, for any tree of configurations, command      *)
(* lines, number of tests, iterations and crashes.  Inv is inductive.      *)
(* What it adds to the properties: the list of a configuration is whole    *)
(* unless a crash cut it (ListInv); a test that the log names, other than  *)
(* in its last line, was finished in this iteration or, for a log that a   *)
(* crash left, at least once (CountInv); a test that was finished is in    *)
(* results.xml, in the report or in the file about to be renamed           *)
(* (HaveInv); and the devices left by the last configuration (DevInv).     *)
(* That what was asked for is run has an invariant of its own (AskInv).    *)
(***************************************************************************)
EXTENDS RunTests, Integers, TLAPS

Copying == {"copy", "renamed", "updating", "remove"}

\* The script is in an iteration of the configuration.
Iterating ==
  \/ job.pc \in {"iterate", "moving", "check", "testing", "fsck"}
  \/ job.pc \in Copying /\ job.ret = "fsck"

ReqInv == request.rpt \in Nat \ {0} /\ request.loop \in Nat /\ request.crashes \in Nat

JobType ==
  [pc : Labels, ret : {"", "format", "fsck"}, cfg : Files \cup {<<>>}, j : Nat,
   kept : Seq(Tests), todo : SUBSET Tests, ran : SUBSET Tests, repeats : Nat,
   new : SUBSET Tests]

HistType ==
  [crashes : Nat, torn : SUBSET Files, cut : SUBSET Files, skipped : SUBSET Files,
   unrun : [Files -> SUBSET Tests]]

Types ==
  /\ disk \in [Files -> FilesOfConfig] /\ completed \in SUBSET Files
  /\ finished \in [Files -> [Tests -> Nat]]
  /\ job \in JobType /\ hist \in HistType

JobInv ==
  /\ job.pc \notin {"next", "over"} => job.cfg \in Files
  /\ job.pc \notin {"next", "ready", "over"} => job.cfg \notin completed
  /\ job.pc \in Copying => job.ret \in {"format", "fsck"}
  /\ job.j <= request.rpt /\ (Iterating => job.j >= 1)
  /\ job.repeats <= request.loop
  /\ hist.crashes <= request.crashes
  /\ \A c \in Files, t \in Tests : finished[c][t] <= request.rpt

ListInv ==
  /\ \A c \in Files \ hist.torn :
       disk[c].listed /\ ~(c = job.cfg /\ job.pc = "listing") => disk[c].list = Tests
  /\ Iterating \/ job.pc \in {"listing", "finish"} => disk[job.cfg].listed

\* The last line of the log names one of the tests left.
TestingInv ==
  job.pc = "testing" =>
    /\ disk[job.cfg].log # <<>> /\ disk[job.cfg].log[Len(disk[job.cfg].log)] \in job.todo

\* How often every test of c was finished before this iteration.
Base(c) == IF c = job.cfg /\ Iterating THEN job.j - 1 ELSE 0

CountInv ==
  \A c \in Files \ hist.torn :
    /\ \A t \in Tests \ hist.unrun[c] : finished[c][t] >= Base(c)
    /\ \A i \in 1..Len(disk[c].log) :
         i < Len(disk[c].log) /\ disk[c].log[i] \notin hist.unrun[c] =>
           finished[c][disk[c].log[i]] >= Base(c) + 1

\* ... and in this iteration.
RoundInv ==
  job.pc \notin {"next", "over"} /\ job.cfg \notin hist.torn =>
    /\ job.pc = "check" =>
         \A i \in 1..Len(disk[job.cfg].log) :
           disk[job.cfg].log[i] \notin hist.unrun[job.cfg] =>
             finished[job.cfg][disk[job.cfg].log[i]] >= job.j
    /\ job.pc \in {"check", "testing"} =>
         \A t \in Tests \ hist.unrun[job.cfg] :
           t \notin job.todo => finished[job.cfg][t] >= job.j
    /\ job.pc = "moving" =>
         \A i \in 1..Len(job.kept) :
           job.kept[i] \notin hist.unrun[job.cfg] => finished[job.cfg][job.kept[i]] >= job.j
    /\ (job.pc = "fsck" \/ (job.pc \in Copying /\ job.ret = "fsck")) =>
         \A t \in Tests \ hist.unrun[job.cfg] : finished[job.cfg][t] >= job.j
    /\ job.pc = "finish" =>
         \A t \in Tests \ hist.unrun[job.cfg] : finished[job.cfg][t] >= request.rpt

\* The test cases of c that no crash loses.
Have(c) ==
  disk[c].cases \cup disk[c].report
    \cup (IF c = job.cfg /\ job.pc = "renamed" THEN job.new ELSE {})

HaveInv ==
  \A c \in Files \ hist.cut, t \in Tests : finished[c][t] >= 1 => t \in Have(c)

SoundInv ==
  \A c \in Files \ hist.cut :
    disk[c].sound /\ (disk[c].results = "torn" => c = job.cfg /\ job.pc = "updating")

ReportInv ==
  /\ \A c \in Files : disk[c].results # "whole" => disk[c].cases = {}
  /\ \A c \in completed : disk[c].report = {}
  /\ job.pc \in {"format", "list", "listing", "iterate", "moving", "fsck", "finish"} =>
       disk[job.cfg].report = {}
  /\ job.pc \in {"check", "testing"} => disk[job.cfg].report = job.ran
  /\ job.pc = "renamed" =>
       disk[job.cfg].results = "none" /\ disk[job.cfg].report \subseteq job.new
  /\ job.pc = "updating" => disk[job.cfg].results = "torn"
  /\ job.pc = "remove" /\ job.cfg \notin hist.cut =>
       disk[job.cfg].results = "whole" /\ disk[job.cfg].report \subseteq disk[job.cfg].cases

\* The devices: LOGWRITES_DEV is the one that outlives a configuration.
DevInv ==
  /\ env.dev \in [Slots -> Values] /\ env.pool \in BOOLEAN
  /\ env.dev["LOGWRITES_DEV"] \in {"", "SM_SCR", "LG_SCR"}
  /\ DevicesApart

Inv ==
  /\ ReqInv /\ Types /\ JobInv /\ ListInv /\ TestingInv /\ CountInv /\ RoundInv
  /\ DoneIsTested /\ HaveInv /\ SoundInv /\ ReportInv

\* What a step leaves of the files: those of other configurations, the lists
\* and logs, the reports.
Others == \A c \in Files : c # job.cfg => disk'[c] = disk[c]

SameLists ==
  \A c \in Files : /\ disk'[c].listed = disk[c].listed /\ disk'[c].list = disk[c].list
                   /\ disk'[c].log = disk[c].log

SameReports ==
  \A c \in Files : /\ disk'[c].report = disk[c].report /\ disk'[c].sound = disk[c].sound
                   /\ disk'[c].results = disk[c].results /\ disk'[c].cases = disk[c].cases

\* A step of copy_xunit_results.
CopyStep ==
  /\ job.pc \in Copying /\ job'.pc \in Copying \cup {job.ret}
  /\ job'.ret = job.ret /\ job'.cfg = job.cfg /\ job'.j = job.j /\ job'.kept = job.kept
  /\ job'.todo = job.todo /\ job'.ran = job.ran /\ job'.repeats = job.repeats


-----------------------------------------------------------------------------
(* Lemmas that several steps share *)

LEMMA FieldTypes ==
  ASSUME Types
  PROVE  /\ job.pc \in Labels /\ job.ret \in {"", "format", "fsck"} /\ job.j \in Nat
         /\ job.kept \in Seq(Tests) /\ job.todo \subseteq Tests /\ job.ran \subseteq Tests
         /\ job.repeats \in Nat /\ job.new \subseteq Tests
         /\ hist.crashes \in Nat /\ hist.torn \subseteq Files /\ hist.cut \subseteq Files
         /\ \A c \in Files : /\ disk[c].log \in Seq(Tests) /\ disk[c].list \subseteq Tests
                             /\ disk[c].cases \subseteq Tests /\ disk[c].report \subseteq Tests
         /\ \A c \in Files, t \in Tests : finished[c][t] \in Nat
<1>1. job \in JobType /\ hist \in HistType
  BY DEF Types
<1>2. /\ job.pc \in Labels /\ job.ret \in {"", "format", "fsck"} /\ job.j \in Nat
      /\ job.kept \in Seq(Tests) /\ job.repeats \in Nat
  BY <1>1, Zenon DEF JobType
<1>3. job.todo \subseteq Tests /\ job.ran \subseteq Tests /\ job.new \subseteq Tests
  BY <1>1, Zenon DEF JobType
<1>4. hist.crashes \in Nat /\ hist.torn \subseteq Files /\ hist.cut \subseteq Files
  BY <1>1 DEF HistType
<1>5. \A c \in Files : disk[c] \in FilesOfConfig
  BY DEF Types
<1>6. \A c \in Files : disk[c].log \in Seq(Tests)
  BY <1>5 DEF FilesOfConfig
<1>7. \A c \in Files : /\ disk[c].list \subseteq Tests
                       /\ disk[c].cases \subseteq Tests /\ disk[c].report \subseteq Tests
  BY <1>5 DEF FilesOfConfig
<1>8. \A c \in Files, t \in Tests : finished[c][t] \in Nat
  BY DEF Types
<1> QED
  BY <1>2, <1>3, <1>4, <1>6, <1>7, <1>8, Zenon

\* What was finished before the iteration does not grow: it goes on, it ends,
\* or the first one begins.
LEMMA BaseKept ==
  ASSUME Types, JobInv, job' \in JobType,
         Iterating' => job'.j = 1 \/ (Iterating /\ job'.j = job.j /\ job'.cfg = job.cfg)
  PROVE  \A c \in Files : Base(c) \in Int /\ Base(c)' \in Int /\ Base(c)' <= Base(c)
<1> SUFFICES ASSUME NEW c \in Files
             PROVE  Base(c) \in Int /\ Base(c)' \in Int /\ Base(c)' <= Base(c)
  OBVIOUS
<1>1. job.j \in Nat /\ (Iterating => job.j >= 1)
  BY FieldTypes, Zenon DEF JobInv
<1>2. job'.j \in Nat
  BY Zenon DEF JobType
<1>3. Base(c) \in Int /\ Base(c) >= 0
  BY <1>1 DEF Base
<1>4. CASE Iterating' /\ c = job'.cfg
  <2>1. CASE job'.j = 1
    <3>1. Base(c)' = 0
      BY <2>1 DEF Base
    <3> QED
      BY <1>3, <3>1
  <2>2. CASE Iterating /\ job'.j = job.j /\ job'.cfg = job.cfg
    <3>1. Base(c)' = job.j - 1 /\ Base(c) = job.j - 1
      BY <1>4, <2>2 DEF Base
    <3> QED
      BY <1>1, <3>1
  <2> QED
    BY <1>4, <2>1, <2>2
<1>5. CASE ~(Iterating' /\ c = job'.cfg)
  <2>1. Base(c)' = 0
    BY <1>5 DEF Base
  <2> QED
    BY <1>3, <2>1
<1> QED
  BY <1>4, <1>5

\* A step that finishes no test and adds nothing to a log.
LEMMA CountKept ==
  ASSUME Types, CountInv, finished' = finished, hist.torn \subseteq hist'.torn,
         \A c \in Files : hist.unrun[c] \subseteq hist'.unrun[c],
         \A c \in Files : disk'[c].log \in {disk[c].log, <<>>},
         JobInv, job' \in JobType,
         Iterating' => job'.j = 1 \/ (Iterating /\ job'.j = job.j /\ job'.cfg = job.cfg)
  PROVE  CountInv'
<1> SUFFICES ASSUME NEW c \in Files \ hist'.torn
             PROVE  /\ \A t \in Tests \ hist'.unrun[c] : finished[c][t] >= Base(c)'
                    /\ \A i \in 1..Len(disk'[c].log) :
                         i < Len(disk'[c].log) /\ disk'[c].log[i] \notin hist'.unrun[c] =>
                           finished[c][disk'[c].log[i]] >= Base(c)' + 1
  BY DEF CountInv
<1>1. c \in Files \ hist.torn /\ hist.unrun[c] \subseteq hist'.unrun[c]
  OBVIOUS
<1>2. disk[c].log \in Seq(Tests) /\ \A t \in Tests : finished[c][t] \in Nat
  BY FieldTypes, Zenon
<1>3. disk'[c].log \in {disk[c].log, <<>>}
  OBVIOUS
<1> DEFINE b == Base(c)
           d == Base(c)'
<1>4. /\ \A t \in Tests \ hist.unrun[c] : finished[c][t] >= b
      /\ \A i \in 1..Len(disk[c].log) :
           i < Len(disk[c].log) /\ disk[c].log[i] \notin hist.unrun[c] =>
             finished[c][disk[c].log[i]] >= b + 1
  BY DEF CountInv
<1>5. b \in Int /\ d \in Int /\ d <= b
  BY BaseKept
<1> HIDE DEF b, d
<1>6. \A t \in Tests \ hist'.unrun[c] : finished[c][t] >= d
  BY <1>1, <1>2, <1>4, <1>5
<1>7. \A i \in 1..Len(disk[c].log) :
        i < Len(disk[c].log) /\ disk[c].log[i] \notin hist'.unrun[c] =>
          finished[c][disk[c].log[i]] >= d + 1
  BY <1>1, <1>2, <1>4, <1>5
<1>8. \A i \in 1..Len(disk'[c].log) :
        i < Len(disk'[c].log) /\ disk'[c].log[i] \notin hist'.unrun[c] =>
          finished[c][disk'[c].log[i]] >= d + 1
  BY <1>3, <1>7
<1> QED
  BY <1>6, <1>8 DEF d

\* A step that finishes no test and loses no test case.
LEMMA HaveKept ==
  ASSUME HaveInv, finished' = finished, hist.cut \subseteq hist'.cut,
         \A c \in Files \ hist'.cut : Have(c) \subseteq Have(c)'
  PROVE  HaveInv'
<1> SUFFICES ASSUME NEW c \in Files \ hist'.cut, NEW t \in Tests, finished[c][t] >= 1
             PROVE  t \in Have(c)'
  BY DEF HaveInv
<1>1. t \in Have(c)
  BY DEF HaveInv
<1> QED
  BY <1>1

\* The test that check runs is one of those left.
LEMMA RunningIsLeft ==
  ASSUME Types, TestingInv, job.pc = "testing"
  PROVE  /\ Running \in job.todo /\ Running \in Tests
         /\ disk[job.cfg].log[Len(disk[job.cfg].log)] = Running
BY FieldTypes, Zenon DEF TestingInv, Running, This

\* What head -n -2 keeps of a log.
LEMMA Trimmed ==
  ASSUME NEW s \in Seq(Tests), NEW k, k = SubSeq(s, 1, Len(s) - 2)
  PROVE  /\ k \in Seq(Tests)
         /\ \A i \in 1..Len(k) : i \in 1..Len(s) /\ i < Len(s) /\ k[i] = s[i]
<1>1. CASE Len(s) <= 2
  <2>1. k = <<>>
    BY <1>1
  <2> QED
    OBVIOUS
<1>2. CASE Len(s) > 2
  <2>1. Len(s) - 2 \in 1..Len(s)
    BY <1>2
  <2>2. Len(k) = Len(s) - 2 /\ \A i \in 1..Len(k) : k[i] = s[i]
    BY <2>1
  <2> QED
    OBVIOUS
<1> QED
  OBVIOUS

\* What Count does.
LEMMA Counted ==
  ASSUME ReqInv, Types, JobInv, job.cfg \in Files, NEW x \in Tests, Count(x)
  PROVE  /\ finished' \in [Files -> [Tests -> Nat]]
         /\ \A c \in Files, t \in Tests : /\ finished'[c][t] <= request.rpt
                                          /\ finished'[c][t] >= finished[c][t]
                                          /\ finished[c][t] \in Nat
         /\ \A c \in Files : c # job.cfg => finished'[c] = finished[c]
         /\ \A t \in Tests : t # x => finished'[job.cfg][t] = finished[job.cfg][t]
         /\ finished[job.cfg][x] >= job.j - 1 => finished'[job.cfg][x] >= job.j
<1> DEFINE f == finished[job.cfg]
           v == IF f[x] < request.rpt THEN f[x] + 1 ELSE f[x]
<1>1. finished' = [finished EXCEPT ![job.cfg] = [f EXCEPT ![x] = v]]
  BY DEF Count
<1>2. finished \in [Files -> [Tests -> Nat]] /\ f \in [Tests -> Nat]
  BY DEF Types
<1>3. /\ request.rpt \in Nat /\ job.j \in Nat /\ job.j <= request.rpt
      /\ \A c \in Files, t \in Tests : finished[c][t] \in Nat /\ finished[c][t] <= request.rpt
  BY FieldTypes, Zenon DEF ReqInv, JobInv
<1>4. f[x] \in Nat /\ f[x] <= request.rpt
  BY <1>3
<1>5. v \in Nat /\ v <= request.rpt /\ v >= f[x] /\ (f[x] >= job.j - 1 => v >= job.j)
  BY <1>3
<1> DEFINE g == [f EXCEPT ![x] = v]
<1> HIDE DEF f, v
<1>6. g \in [Tests -> Nat] /\ g[x] = v /\ \A t \in Tests : t # x => g[t] = f[t]
  BY <1>2, <1>5
<1>7. finished' = [finished EXCEPT ![job.cfg] = g]
  BY <1>1
<1> HIDE DEF g
<1>8. /\ finished' \in [Files -> [Tests -> Nat]] /\ finished'[job.cfg] = g
      /\ \A c \in Files : c # job.cfg => finished'[c] = finished[c]
  BY <1>2, <1>6, <1>7
<1>9. \A c \in Files, t \in Tests : finished'[c][t] <= request.rpt /\ finished'[c][t] >= finished[c][t]
  <2> SUFFICES ASSUME NEW c \in Files, NEW t \in Tests
               PROVE  finished'[c][t] <= request.rpt /\ finished'[c][t] >= finished[c][t]
    OBVIOUS
  <2>1. CASE c # job.cfg \/ t # x
    <3>1. finished'[c][t] = finished[c][t]
      BY <1>6, <1>8, <2>1 DEF f
    <3> QED
      BY <1>3, <3>1
  <2>2. CASE c = job.cfg /\ t = x
    BY <1>5, <1>6, <1>8, <2>2 DEF f
  <2> QED
    BY <2>1, <2>2
<1>10. finished[job.cfg][x] >= job.j - 1 => finished'[job.cfg][x] >= job.j
  BY <1>5, <1>6, <1>8 DEF f
<1>11. \A t \in Tests : t # x => finished'[job.cfg][t] = finished[job.cfg][t]
  BY <1>6, <1>8 DEF f
<1> QED
  BY <1>3, <1>8, <1>9, <1>10, <1>11

-----------------------------------------------------------------------------
(* Steps that change where the script is and no file *)

LEMMA ControlKeeps ==
  ASSUME Inv, \/ SourceConfig \/ Skip \/ AlreadyRun \/ Begin \/ Report
              \/ Formatted \/ UseList \/ CheckEnds
  PROVE  Inv'
<1> USE DEF Inv
<1>1. /\ UNCHANGED <<request, disk, completed, finished>>
      /\ hist' \in HistType /\ hist'.torn = hist.torn /\ hist'.cut = hist.cut
      /\ hist'.crashes = hist.crashes /\ hist'.unrun = hist.unrun
  <2>1. CASE Skip
    BY <2>1 DEF Skip, Types, HistType, JobInv, At
  <2>2. CASE ~Skip
    BY <2>2, Zenon
    DEF SourceConfig, AlreadyRun, Begin, Report, Formatted, UseList, CheckEnds, Types
  <2> QED
    BY <2>1, <2>2
<1>2. job \in JobType /\ completed \subseteq Files /\ 1 \in Nat /\ 1 <= request.rpt
  BY DEF Types, ReqInv
<1>3. /\ \/ job.pc \in {"next", "ready", "format", "list"} /\ job'.pc \in {"next", "over"}
         \/ job.pc = "next" /\ job'.pc = "ready" /\ job'.cfg \in Files
         \/ job.pc = "ready" /\ job.cfg \notin completed /\ job'.pc = "copy" /\ job'.ret = "format"
         \/ job.pc = "format" /\ job'.pc = "list"
         \/ job.pc = "list" /\ job'.pc = "iterate" /\ job'.j = 1 /\ disk[job.cfg].listed
         \/ job.pc = "check" /\ job.todo = {} /\ job'.pc = "copy" /\ job'.ret = "fsck"
      /\ (job'.pc = "ready" \/ job'.cfg = job.cfg) /\ (job'.pc = "iterate" \/ job'.j = job.j)
      /\ job'.repeats = job.repeats
      /\ job' \in JobType
  <2>1. CASE SourceConfig
    <3>1. Resolve(Head(env.work)) \in Files /\ job.pc = "next"
      BY <2>1, Zenon DEF SourceConfig, IsConfig, At
    <3>2. job' = [job EXCEPT !.pc = "ready", !.cfg = Resolve(Head(env.work))]
      BY <2>1, Zenon DEF SourceConfig
    <3> QED
      BY <1>2, <3>1, <3>2, Zenon DEF JobType, Labels
  <2>2. CASE Skip \/ AlreadyRun \/ Report
    BY <1>2, <2>2, Zenon DEF Skip, AlreadyRun, Report, At, Goto, JobType, Labels
  <2>3. CASE Begin \/ Formatted
    BY <1>2, <2>3, Zenon DEF Begin, Formatted, At, Goto, JobType, Labels
  <2>4. CASE UseList \/ CheckEnds
    BY <1>2, <2>4, Zenon DEF UseList, CheckEnds, At, This, JobType, Labels
  <2> QED
    BY <2>1, <2>2, <2>3, <2>4
<1>4. Types'
  BY <1>1, <1>3 DEF Types
<1>5. JobInv'
  <2>1. job'.j <= request.rpt /\ (Iterating' => job'.j >= 1)
    BY <1>2, <1>3 DEF JobInv, Iterating, Copying
  <2>2. /\ job'.pc \notin {"next", "over"} => job'.cfg \in Files
        /\ job'.pc \notin {"next", "ready", "over"} => job'.cfg \notin completed
        /\ job'.pc \in Copying => job'.ret \in {"format", "fsck"}
    BY <1>3 DEF JobInv, Copying
  <2> QED
    BY <1>1, <1>3, <2>1, <2>2 DEF JobInv
<1>6. ListInv' /\ TestingInv'
  BY <1>1, <1>3 DEF ListInv, TestingInv, JobInv, Iterating, Copying
<1>7. Iterating' => job'.j = 1 \/ (Iterating /\ job'.j = job.j /\ job'.cfg = job.cfg)
  BY <1>3 DEF Iterating, Copying
<1>8. CountInv'
  BY <1>1, <1>3, <1>7, CountKept
<1>9. RoundInv'
  BY <1>1, <1>3 DEF RoundInv, Copying
<1>10. DoneIsTested'
  BY <1>1 DEF DoneIsTested
<1>11. HaveInv'
  BY <1>1, <1>3, HaveKept DEF Have
<1>12. SoundInv'
  BY <1>1, <1>3 DEF SoundInv
<1>13. ReportInv'
  BY <1>1, <1>3 DEF ReportInv
<1> QED
  BY <1>1, <1>4, <1>5, <1>6, <1>8, <1>9, <1>10, <1>11, <1>12, <1>13 DEF ReqInv

-----------------------------------------------------------------------------
(* copy_xunit_results *)

LEMMA CopyKeeps ==
  ASSUME Inv, CopyStep, SameLists, job' \in JobType, disk' \in [Files -> FilesOfConfig],
         UNCHANGED <<request, completed, finished, hist>>
  PROVE  /\ Types' /\ JobInv' /\ ListInv' /\ TestingInv' /\ CountInv' /\ RoundInv'
         /\ DoneIsTested'
<1> USE DEF Inv
<1>1. job.cfg \in Files /\ job.ret \in {"format", "fsck"} /\ job.pc \in Copying
  BY DEF CopyStep, JobInv, Copying
<1>2. Types'
  BY DEF Types
<1>3. JobInv'
  BY DEF JobInv, CopyStep, Copying, Iterating
<1>4. ListInv' /\ TestingInv'
  BY <1>1 DEF ListInv, TestingInv, CopyStep, SameLists, Copying, Iterating
<1>5. Iterating' => job'.j = 1 \/ (Iterating /\ job'.j = job.j /\ job'.cfg = job.cfg)
  BY <1>1 DEF Iterating, CopyStep, Copying
<1>6. CountInv'
  BY <1>5, CountKept DEF SameLists
<1>7. RoundInv'
  BY <1>1 DEF RoundInv, CopyStep, SameLists, Copying
<1>8. DoneIsTested'
  BY DEF DoneIsTested
<1> QED
  BY <1>2, <1>3, <1>4, <1>6, <1>7, <1>8

LEMMA CopyNoneKeeps ==
  ASSUME Inv, CopyNone
  PROVE  Inv'
<1> USE DEF Inv
<1>1. /\ job.cfg \in Files /\ job \in JobType /\ disk[job.cfg] \in FilesOfConfig
      /\ completed \subseteq Files
  BY DEF Types, JobInv, CopyNone, At
<1>1a. job.pc \in Copying
  BY DEF Copying, CopyNone, At
<1>2. job' = [pc |-> job.ret, ret |-> job.ret, cfg |-> job.cfg, j |-> job.j,
              kept |-> job.kept, todo |-> job.todo, ran |-> job.ran,
              repeats |-> job.repeats, new |-> job.new]
  BY <1>1, Zenon DEF CopyNone, Goto, This, JobType
<1>3. /\ job'.pc = job.ret /\ job'.new = job.new /\ job'.cfg = job.cfg
      /\ job'.ret = job.ret /\ CopyStep
  BY <1>1a, <1>2 DEF CopyStep, Copying
<1>7. disk' = disk
  BY DEF CopyNone
<1>8. UNCHANGED <<request, completed, finished, hist>>
  BY DEF CopyNone
<1>11. job' \in JobType
  BY <1>1, <1>2, Zenon DEF JobType, Labels, JobInv, Copying, CopyNone, At
<1>12. /\ Types' /\ JobInv' /\ ListInv' /\ TestingInv' /\ CountInv' /\ RoundInv'
       /\ DoneIsTested'
  BY <1>3, <1>7, <1>8, <1>11, CopyKeeps DEF Types, SameLists
<1>20. \A c \in Files \ hist'.cut : Have(c) \subseteq Have(c)'
  BY DEF Have, Others, SameReports, JobInv, SoundInv, ReportInv, CopyNone, At, This
<1>21. HaveInv'
  BY <1>8, <1>20, HaveKept
<1>22. SoundInv'
  BY DEF SoundInv, Others, SameReports, JobInv, CopyNone, At, This
<1>23. ReportInv'
  BY <1>3 DEF ReportInv, Others, SameReports, SoundInv, JobInv, Copying, CopyNone, At, This
<1> QED
  BY <1>8, <1>12, <1>21, <1>22, <1>23 DEF ReqInv

LEMMA MergeBackupKeeps ==
  ASSUME Inv, MergeBackup
  PROVE  Inv'
<1> DEFINE r == [disk[job.cfg] EXCEPT !.results = "none", !.cases = {}]
<1> USE DEF Inv
<1>1. /\ job.cfg \in Files /\ job \in JobType /\ disk[job.cfg] \in FilesOfConfig
      /\ completed \subseteq Files
  BY DEF Types, JobInv, MergeBackup, At
<1>1a. job.pc \in Copying
  BY DEF Copying, MergeBackup, At
<1>2. job' = [pc |-> "renamed", ret |-> job.ret, cfg |-> job.cfg, j |-> job.j,
              kept |-> job.kept, todo |-> job.todo, ran |-> job.ran,
              repeats |-> job.repeats,
              new |-> disk[job.cfg].cases \cup disk[job.cfg].report]
  BY <1>1, Zenon DEF MergeBackup, Goto, This, JobType
<1>3. /\ job'.pc = "renamed" /\ job'.new = disk[job.cfg].cases \cup disk[job.cfg].report
      /\ job'.cfg = job.cfg /\ job'.ret = job.ret /\ CopyStep
  BY <1>1a, <1>2 DEF CopyStep, Copying
<1>4. disk' = [disk EXCEPT ![job.cfg] = r]
  BY DEF MergeBackup, Put, This
<1>5. "none" \in {"none", "torn", "whole"} /\ {} \in SUBSET Tests
  BY Zenon DEF JobType, FilesOfConfig
<1>6. r \in FilesOfConfig
  BY <1>1, Zenon DEF FilesOfConfig
<1>6a. /\ r.listed = disk[job.cfg].listed /\ r.list = disk[job.cfg].list
       /\ r.log = disk[job.cfg].log /\ r.report = disk[job.cfg].report
       /\ r.sound = disk[job.cfg].sound /\ r.results = "none" /\ r.cases = {}
  BY DEF FilesOfConfig
<1>6b. disk' \in [Files -> FilesOfConfig] /\ disk'[job.cfg] = r /\ Others
  BY <1>1, <1>4, <1>6, Zenon DEF Types, Others
<1> HIDE DEF r
<1>7. /\ disk'[job.cfg].results = "none" /\ disk'[job.cfg].cases = {} /\ SameLists
      /\ \A c \in Files : /\ disk'[c].report = disk[c].report
                          /\ disk'[c].sound = disk[c].sound
  BY <1>6a, <1>6b DEF Others, SameLists, SameReports
<1>8. UNCHANGED <<request, completed, finished, hist>>
  BY DEF MergeBackup
<1>11. job' \in JobType
  <2>1. disk[job.cfg].cases \cup disk[job.cfg].report \in SUBSET Tests
    BY <1>1, FieldTypes, Zenon
  <2> QED
    BY <1>1, <1>2, <2>1, Zenon DEF JobType, Labels
<1>12. /\ Types' /\ JobInv' /\ ListInv' /\ TestingInv' /\ CountInv' /\ RoundInv'
       /\ DoneIsTested'
  BY <1>3, <1>6b, <1>7, <1>8, <1>11, CopyKeeps DEF Types, SameLists
<1>20. \A c \in Files \ hist'.cut : Have(c) \subseteq Have(c)'
  BY <1>6b DEF Have, Others, SameReports, JobInv, SoundInv, ReportInv, MergeBackup, At, This
<1>21. HaveInv'
  BY <1>8, <1>20, HaveKept
<1>22. SoundInv'
  BY <1>6b, <1>7 DEF SoundInv, Others, SameReports, JobInv, MergeBackup, At, This
<1>23. ReportInv'
  BY <1>1, <1>6b, <1>7
  DEF ReportInv, Others, SameReports, SoundInv, JobInv, Copying, MergeBackup, At, This
<1> QED
  BY <1>8, <1>12, <1>21, <1>22, <1>23 DEF ReqInv

LEMMA MergeRenameKeeps ==
  ASSUME Inv, MergeRename
  PROVE  Inv'
<1> DEFINE r == [disk[job.cfg] EXCEPT !.results = "whole", !.cases = job.new]
<1> USE DEF Inv
<1>1. /\ job.cfg \in Files /\ job \in JobType /\ disk[job.cfg] \in FilesOfConfig
      /\ completed \subseteq Files
  BY DEF Types, JobInv, MergeRename, At
<1>1a. job.pc \in Copying
  BY DEF Copying, MergeRename, At
<1>2. job' = [pc |-> "remove", ret |-> job.ret, cfg |-> job.cfg, j |-> job.j,
              kept |-> job.kept, todo |-> job.todo, ran |-> job.ran,
              repeats |-> job.repeats, new |-> {}]
  BY <1>1, Zenon DEF MergeRename, Goto, This, JobType
<1>3. /\ job'.pc = "remove" /\ job'.new = {} /\ job'.cfg = job.cfg /\ job'.ret = job.ret
      /\ CopyStep
  BY <1>1a, <1>2 DEF CopyStep, Copying
<1>4. disk' = [disk EXCEPT ![job.cfg] = r]
  BY DEF MergeRename, Put, This
<1>5. "whole" \in {"none", "torn", "whole"} /\ job.new \in SUBSET Tests
  BY <1>1, Zenon DEF JobType, FilesOfConfig
<1>6. r \in FilesOfConfig
  BY <1>1, <1>5, Zenon DEF FilesOfConfig
<1>6a. /\ r.listed = disk[job.cfg].listed /\ r.list = disk[job.cfg].list
       /\ r.log = disk[job.cfg].log /\ r.report = disk[job.cfg].report
       /\ r.sound = disk[job.cfg].sound /\ r.results = "whole" /\ r.cases = job.new
  BY DEF FilesOfConfig
<1>6b. disk' \in [Files -> FilesOfConfig] /\ disk'[job.cfg] = r /\ Others
  BY <1>1, <1>4, <1>6, Zenon DEF Types, Others
<1> HIDE DEF r
<1>7. /\ disk'[job.cfg].results = "whole" /\ disk'[job.cfg].cases = job.new /\ SameLists
      /\ \A c \in Files : /\ disk'[c].report = disk[c].report
                          /\ disk'[c].sound = disk[c].sound
  BY <1>6a, <1>6b DEF Others, SameLists, SameReports
<1>8. UNCHANGED <<request, completed, finished, hist>>
  BY DEF MergeRename
<1>11. job' \in JobType
  BY <1>1, Zenon DEF JobType, Labels, JobInv, Copying, MergeRename, At
<1>12. /\ Types' /\ JobInv' /\ ListInv' /\ TestingInv' /\ CountInv' /\ RoundInv'
       /\ DoneIsTested'
  BY <1>3, <1>6b, <1>7, <1>8, <1>11, CopyKeeps DEF Types, SameLists
<1>20. \A c \in Files \ hist'.cut : Have(c) \subseteq Have(c)'
  BY <1>6b, <1>7
  DEF Have, Others, SameReports, JobInv, SoundInv, ReportInv, MergeRename, At, This
<1>21. HaveInv'
  BY <1>8, <1>20, HaveKept
<1>22. SoundInv'
  BY <1>6b, <1>7 DEF SoundInv, Others, SameReports, JobInv, MergeRename, At, This
<1>23. ReportInv'
  BY <1>1, <1>6b, <1>7
  DEF ReportInv, Others, SameReports, SoundInv, JobInv, Copying, MergeRename, At, This
<1> QED
  BY <1>8, <1>12, <1>21, <1>22, <1>23 DEF ReqInv

LEMMA MergeFailsKeeps ==
  ASSUME Inv, MergeFails
  PROVE  Inv'
<1> USE DEF Inv
<1>1. /\ job.cfg \in Files /\ job \in JobType /\ disk[job.cfg] \in FilesOfConfig
      /\ completed \subseteq Files
  BY DEF Types, JobInv, MergeFails, At
<1>1a. job.pc \in Copying
  BY DEF Copying, MergeFails, At
<1>2. job' = [pc |-> "remove", ret |-> job.ret, cfg |-> job.cfg, j |-> job.j,
              kept |-> job.kept, todo |-> job.todo, ran |-> job.ran,
              repeats |-> job.repeats, new |-> job.new]
  BY <1>1, Zenon DEF MergeFails, Goto, This, JobType
<1>3. /\ job'.pc = "remove" /\ job'.new = job.new /\ job'.cfg = job.cfg
      /\ job'.ret = job.ret /\ CopyStep
  BY <1>1a, <1>2 DEF CopyStep, Copying
<1>7. disk' = disk
  BY DEF MergeFails
<1>8. UNCHANGED <<request, completed, finished, hist>>
  BY DEF MergeFails
<1>11. job' \in JobType
  BY <1>1, <1>2, Zenon DEF JobType, Labels, JobInv, Copying, MergeFails, At
<1>12. /\ Types' /\ JobInv' /\ ListInv' /\ TestingInv' /\ CountInv' /\ RoundInv'
       /\ DoneIsTested'
  BY <1>3, <1>7, <1>8, <1>11, CopyKeeps DEF Types, SameLists
<1>20. \A c \in Files \ hist'.cut : Have(c) \subseteq Have(c)'
  BY DEF Have, Others, SameReports, JobInv, SoundInv, ReportInv, MergeFails, At, This
<1>21. HaveInv'
  BY <1>8, <1>20, HaveKept
<1>22. SoundInv'
  BY DEF SoundInv, Others, SameReports, JobInv, MergeFails, At, This
<1>23. ReportInv'
  BY <1>3
  DEF ReportInv, Others, SameReports, SoundInv, JobInv, Copying, MergeFails, At, This
<1> QED
  BY <1>8, <1>12, <1>21, <1>22, <1>23 DEF ReqInv

LEMMA UpdateOpenKeeps ==
  ASSUME Inv, UpdateOpen
  PROVE  Inv'
<1> DEFINE r == [disk[job.cfg] EXCEPT !.results = "torn"]
<1> USE DEF Inv
<1>1. /\ job.cfg \in Files /\ job \in JobType /\ disk[job.cfg] \in FilesOfConfig
      /\ completed \subseteq Files
  BY DEF Types, JobInv, UpdateOpen, At
<1>1a. job.pc \in Copying
  BY DEF Copying, UpdateOpen, At
<1>2. job' = [pc |-> "updating", ret |-> job.ret, cfg |-> job.cfg, j |-> job.j,
              kept |-> job.kept, todo |-> job.todo, ran |-> job.ran,
              repeats |-> job.repeats, new |-> job.new]
  BY <1>1, Zenon DEF UpdateOpen, Goto, This, JobType
<1>3. /\ job'.pc = "updating" /\ job'.new = job.new /\ job'.cfg = job.cfg
      /\ job'.ret = job.ret /\ CopyStep
  BY <1>1a, <1>2 DEF CopyStep, Copying
<1>4. disk' = [disk EXCEPT ![job.cfg] = r]
  BY DEF UpdateOpen, Put, This
<1>5. "torn" \in {"none", "torn", "whole"}
  BY Zenon DEF JobType, FilesOfConfig
<1>6. r \in FilesOfConfig
  BY <1>1, Zenon DEF FilesOfConfig
<1>6a. /\ r.listed = disk[job.cfg].listed /\ r.list = disk[job.cfg].list
       /\ r.log = disk[job.cfg].log /\ r.report = disk[job.cfg].report
       /\ r.sound = disk[job.cfg].sound /\ r.results = "torn"
       /\ r.cases = disk[job.cfg].cases
  BY DEF FilesOfConfig
<1>6b. disk' \in [Files -> FilesOfConfig] /\ disk'[job.cfg] = r /\ Others
  BY <1>1, <1>4, <1>6 DEF Types, Others
<1> HIDE DEF r
<1>7. /\ disk'[job.cfg].results = "torn" /\ SameLists
      /\ \A c \in Files : /\ disk'[c].report = disk[c].report
                          /\ disk'[c].sound = disk[c].sound
                          /\ disk'[c].cases = disk[c].cases
  BY <1>6a, <1>6b DEF Others, SameLists, SameReports
<1>8. UNCHANGED <<request, completed, finished, hist>>
  BY DEF UpdateOpen
<1>11. job' \in JobType
  BY <1>1, <1>2, Zenon DEF JobType, Labels, JobInv, Copying, UpdateOpen, At
<1>12. /\ Types' /\ JobInv' /\ ListInv' /\ TestingInv' /\ CountInv' /\ RoundInv'
       /\ DoneIsTested'
  BY <1>3, <1>6b, <1>7, <1>8, <1>11, CopyKeeps DEF Types, SameLists
<1>20. \A c \in Files \ hist'.cut : Have(c) \subseteq Have(c)'
  BY <1>7 DEF Have, Others, SameReports, JobInv, SoundInv, ReportInv, UpdateOpen, At, This
<1>21. HaveInv'
  BY <1>8, <1>20, HaveKept
<1>22. SoundInv'
  BY <1>3, <1>6b, <1>7 DEF SoundInv, Others, SameReports, JobInv, UpdateOpen, At, This
<1>23. ReportInv'
  BY <1>1, <1>3, <1>6b, <1>7
  DEF ReportInv, Others, SameReports, SoundInv, JobInv, Copying, UpdateOpen, At, This
<1> QED
  BY <1>8, <1>12, <1>21, <1>22, <1>23 DEF ReqInv

LEMMA UpdateDoneKeeps ==
  ASSUME Inv, UpdateDone
  PROVE  Inv'
<1> DEFINE r == [disk[job.cfg] EXCEPT !.results = "whole", !.cases = disk[job.cfg].report]
<1> USE DEF Inv
<1>1. /\ job.cfg \in Files /\ job \in JobType /\ disk[job.cfg] \in FilesOfConfig
      /\ completed \subseteq Files
  BY DEF Types, JobInv, UpdateDone, At
<1>1a. job.pc \in Copying
  BY DEF Copying, UpdateDone, At
<1>2. job' = [pc |-> "remove", ret |-> job.ret, cfg |-> job.cfg, j |-> job.j,
              kept |-> job.kept, todo |-> job.todo, ran |-> job.ran,
              repeats |-> job.repeats, new |-> job.new]
  BY <1>1, Zenon DEF UpdateDone, Goto, This, JobType
<1>3. /\ job'.pc = "remove" /\ job'.new = job.new /\ job'.cfg = job.cfg
      /\ job'.ret = job.ret /\ CopyStep
  BY <1>1a, <1>2 DEF CopyStep, Copying
<1>4. disk' = [disk EXCEPT ![job.cfg] = r]
  BY DEF UpdateDone, Put, This
<1>5. "whole" \in {"none", "torn", "whole"} /\ disk[job.cfg].report \in SUBSET Tests
  BY <1>1, Zenon DEF JobType, FilesOfConfig
<1>6. r \in FilesOfConfig
  BY <1>1, Zenon DEF FilesOfConfig
<1>6a. /\ r.listed = disk[job.cfg].listed /\ r.list = disk[job.cfg].list
       /\ r.log = disk[job.cfg].log /\ r.report = disk[job.cfg].report
       /\ r.sound = disk[job.cfg].sound /\ r.results = "whole"
       /\ r.cases = disk[job.cfg].report
  BY DEF FilesOfConfig
<1>6b. disk' \in [Files -> FilesOfConfig] /\ disk'[job.cfg] = r /\ Others
  BY <1>1, <1>4, <1>6, Zenon DEF Types, Others
<1> HIDE DEF r
<1>7. /\ disk'[job.cfg].results = "whole" /\ disk'[job.cfg].cases = disk[job.cfg].report
      /\ SameLists
      /\ \A c \in Files : /\ disk'[c].report = disk[c].report
                          /\ disk'[c].sound = disk[c].sound
  BY <1>6a, <1>6b DEF Others, SameLists, SameReports
<1>8. UNCHANGED <<request, completed, finished, hist>>
  BY DEF UpdateDone
<1>11. job' \in JobType
  BY <1>1, <1>2, Zenon DEF JobType, Labels, JobInv, Copying, UpdateDone, At
<1>12. /\ Types' /\ JobInv' /\ ListInv' /\ TestingInv' /\ CountInv' /\ RoundInv'
       /\ DoneIsTested'
  BY <1>3, <1>6b, <1>7, <1>8, <1>11, CopyKeeps DEF Types, SameLists
<1>20. \A c \in Files \ hist'.cut : Have(c) \subseteq Have(c)'
  BY <1>6b, <1>7
  DEF Have, Others, SameReports, JobInv, SoundInv, ReportInv, UpdateDone, At, This
<1>21. HaveInv'
  BY <1>8, <1>20, HaveKept
<1>22. SoundInv'
  BY <1>6b, <1>7 DEF SoundInv, Others, SameReports, JobInv, UpdateDone, At, This
<1>23. ReportInv'
  BY <1>1, <1>3, <1>6b, <1>7
  DEF ReportInv, Others, SameReports, SoundInv, JobInv, Copying, UpdateDone, At, This
<1> QED
  BY <1>8, <1>12, <1>21, <1>22, <1>23 DEF ReqInv

LEMMA UpdateFailsKeeps ==
  ASSUME Inv, UpdateFails
  PROVE  Inv'
<1> DEFINE r == [disk[job.cfg] EXCEPT !.report = {}, !.sound = TRUE]
<1> USE DEF Inv
<1>1. /\ job.cfg \in Files /\ job \in JobType /\ disk[job.cfg] \in FilesOfConfig
      /\ completed \subseteq Files
  BY DEF Types, JobInv, UpdateFails, At
<1>1a. job.pc \in Copying
  BY DEF Copying, UpdateFails, At
<1>2. job' = [pc |-> job.ret, ret |-> job.ret, cfg |-> job.cfg, j |-> job.j,
              kept |-> job.kept, todo |-> job.todo, ran |-> job.ran,
              repeats |-> job.repeats, new |-> job.new]
  BY <1>1, Zenon DEF UpdateFails, Goto, This, JobType
<1>3. /\ job'.pc = job.ret /\ job'.new = job.new /\ job'.cfg = job.cfg
      /\ job'.ret = job.ret /\ CopyStep
  BY <1>1a, <1>2 DEF CopyStep, Copying
<1>4. disk' = [disk EXCEPT ![job.cfg] = r]
  BY DEF UpdateFails, Put, This
<1>5. {} \in SUBSET Tests /\ TRUE \in BOOLEAN
  BY Zenon DEF JobType, FilesOfConfig
<1>6. r \in FilesOfConfig
  BY <1>1, Zenon DEF FilesOfConfig
<1>6a. /\ r.listed = disk[job.cfg].listed /\ r.list = disk[job.cfg].list
       /\ r.log = disk[job.cfg].log /\ r.report = {} /\ r.sound = TRUE
       /\ r.results = disk[job.cfg].results /\ r.cases = disk[job.cfg].cases
  BY DEF FilesOfConfig
<1>6b. disk' \in [Files -> FilesOfConfig] /\ disk'[job.cfg] = r /\ Others
  BY <1>1, <1>4, <1>6, Zenon DEF Types, Others
<1> HIDE DEF r
<1>7. /\ disk'[job.cfg].report = {} /\ disk'[job.cfg].sound = TRUE /\ SameLists
      /\ \A c \in Files : /\ disk'[c].results = disk[c].results
                          /\ disk'[c].cases = disk[c].cases
  BY <1>6a, <1>6b DEF Others, SameLists, SameReports
<1>8. UNCHANGED <<request, completed, finished, hist>>
  BY DEF UpdateFails
<1>11. job' \in JobType
  BY <1>1, <1>2, Zenon DEF JobType, Labels, JobInv, Copying, UpdateFails, At
<1>12. /\ Types' /\ JobInv' /\ ListInv' /\ TestingInv' /\ CountInv' /\ RoundInv'
       /\ DoneIsTested'
  BY <1>3, <1>6b, <1>7, <1>8, <1>11, CopyKeeps DEF Types, SameLists
<1>20. \A c \in Files \ hist'.cut : Have(c) \subseteq Have(c)'
  BY <1>6b DEF Have, Others, SameReports, JobInv, SoundInv, ReportInv, UpdateFails, At, This
<1>21. HaveInv'
  BY <1>8, <1>20, HaveKept
<1>22. SoundInv'
  BY <1>6b DEF SoundInv, Others, SameReports, JobInv, UpdateFails, At, This
<1>23. ReportInv'
  BY <1>1, <1>3, <1>6b, <1>7
  DEF ReportInv, Others, SameReports, SoundInv, JobInv, Copying, UpdateFails, At, This
<1> QED
  BY <1>8, <1>12, <1>21, <1>22, <1>23 DEF ReqInv

LEMMA RemoveResultKeeps ==
  ASSUME Inv, RemoveResult
  PROVE  Inv'
<1> DEFINE r == [disk[job.cfg] EXCEPT !.report = {}, !.sound = TRUE]
<1> USE DEF Inv
<1>1. /\ job.cfg \in Files /\ job \in JobType /\ disk[job.cfg] \in FilesOfConfig
      /\ completed \subseteq Files
  BY DEF Types, JobInv, RemoveResult, At
<1>1a. job.pc \in Copying
  BY DEF Copying, RemoveResult, At
<1>2. job' = [pc |-> job.ret, ret |-> job.ret, cfg |-> job.cfg, j |-> job.j,
              kept |-> job.kept, todo |-> job.todo, ran |-> job.ran,
              repeats |-> job.repeats, new |-> job.new]
  BY <1>1, Zenon DEF RemoveResult, Goto, This, JobType
<1>3. /\ job'.pc = job.ret /\ job'.new = job.new /\ job'.cfg = job.cfg
      /\ job'.ret = job.ret /\ CopyStep
  BY <1>1a, <1>2 DEF CopyStep, Copying
<1>4. disk' = [disk EXCEPT ![job.cfg] = r]
  BY DEF RemoveResult, Put, This
<1>5. {} \in SUBSET Tests /\ TRUE \in BOOLEAN
  BY Zenon DEF JobType, FilesOfConfig
<1>6. r \in FilesOfConfig
  BY <1>1, Zenon DEF FilesOfConfig
<1>6a. /\ r.listed = disk[job.cfg].listed /\ r.list = disk[job.cfg].list
       /\ r.log = disk[job.cfg].log /\ r.report = {} /\ r.sound = TRUE
       /\ r.results = disk[job.cfg].results /\ r.cases = disk[job.cfg].cases
  BY DEF FilesOfConfig
<1>6b. disk' \in [Files -> FilesOfConfig] /\ disk'[job.cfg] = r /\ Others
  BY <1>1, <1>4, <1>6, Zenon DEF Types, Others
<1> HIDE DEF r
<1>7. /\ disk'[job.cfg].report = {} /\ disk'[job.cfg].sound = TRUE /\ SameLists
      /\ \A c \in Files : /\ disk'[c].results = disk[c].results
                          /\ disk'[c].cases = disk[c].cases
  BY <1>6a, <1>6b DEF Others, SameLists, SameReports
<1>8. UNCHANGED <<request, completed, finished, hist>>
  BY DEF RemoveResult
<1>11. job' \in JobType
  BY <1>1, <1>2, Zenon DEF JobType, Labels, JobInv, Copying, RemoveResult, At
<1>12. /\ Types' /\ JobInv' /\ ListInv' /\ TestingInv' /\ CountInv' /\ RoundInv'
       /\ DoneIsTested'
  BY <1>3, <1>6b, <1>7, <1>8, <1>11, CopyKeeps DEF Types, SameLists
<1>20. \A c \in Files \ hist'.cut : Have(c) \subseteq Have(c)'
  BY <1>6b, <1>7
  DEF Have, Others, SameReports, JobInv, SoundInv, ReportInv, RemoveResult, At, This
<1>21. HaveInv'
  BY <1>8, <1>20, HaveKept
<1>22. SoundInv'
  BY <1>6b, <1>7 DEF SoundInv, Others, SameReports, JobInv, RemoveResult, At, This
<1>23. ReportInv'
  BY <1>1, <1>3, <1>6b, <1>7
  DEF ReportInv, Others, SameReports, SoundInv, JobInv, Copying, RemoveResult, At, This
<1> QED
  BY <1>8, <1>12, <1>21, <1>22, <1>23 DEF ReqInv

-----------------------------------------------------------------------------
(* The list of tests, and the iterations *)

LEMMA ReportsKept ==
  ASSUME Inv, SameReports, UNCHANGED <<completed, finished, hist>>, job'.cfg = job.cfg,
         job.cfg \in Files, job.pc \notin Copying, job'.pc \notin Copying,
         job'.pc \in {"check", "testing"} => disk[job.cfg].report = job'.ran,
         job'.pc \notin {"check", "testing"} => disk[job.cfg].report = {}
  PROVE  HaveInv' /\ SoundInv' /\ ReportInv'
<1> USE DEF Inv
<1>1. completed \subseteq Files
  BY DEF Types
<1>2. \A c \in Files \ hist'.cut : Have(c) \subseteq Have(c)'
  BY DEF Have, SameReports, Copying
<1>3. HaveInv'
  BY <1>2, HaveKept
<1>4. SoundInv'
  BY DEF SoundInv, SameReports, Copying
<1>5. ReportInv'
  BY <1>1, ZenonT(60) DEF ReportInv, SameReports, Copying
<1> QED
  BY <1>3, <1>4, <1>5

LEMMA OpenListKeeps ==
  ASSUME Inv, OpenList
  PROVE  Inv'
<1> DEFINE r == [disk[job.cfg] EXCEPT !.listed = TRUE, !.list = {}]
<1> USE DEF Inv
<1>1. /\ job.cfg \in Files /\ job \in JobType /\ disk[job.cfg] \in FilesOfConfig
      /\ completed \subseteq Files
  BY DEF Types, JobInv, OpenList, At
<1>2. job' = [pc |-> "listing", ret |-> job.ret, cfg |-> job.cfg, j |-> job.j,
              kept |-> job.kept, todo |-> job.todo, ran |-> job.ran,
              repeats |-> job.repeats, new |-> job.new]
  BY <1>1, Zenon DEF OpenList, Goto, This, JobType
<1>3. /\ job'.pc = "listing" /\ job'.ret = job.ret /\ job'.cfg = job.cfg /\ job'.j = job.j
      /\ job'.kept = job.kept /\ job'.todo = job.todo /\ job'.ran = job.ran
      /\ job'.repeats = job.repeats /\ job'.new = job.new
  BY <1>2
<1>4. disk' = [disk EXCEPT ![job.cfg] = r]
  BY DEF OpenList, Put, This
<1>5. TRUE \in BOOLEAN /\ {} \in SUBSET Tests
  BY Zenon DEF JobType, FilesOfConfig
<1>6. r \in FilesOfConfig
  BY <1>1, Zenon DEF FilesOfConfig
<1>6a. /\ r.listed = TRUE /\ r.list = {} /\ r.log = disk[job.cfg].log
       /\ r.report = disk[job.cfg].report /\ r.sound = disk[job.cfg].sound
       /\ r.results = disk[job.cfg].results /\ r.cases = disk[job.cfg].cases
  BY DEF FilesOfConfig
<1>6b. disk' \in [Files -> FilesOfConfig] /\ disk'[job.cfg] = r /\ Others
  BY <1>1, <1>4, <1>6, Zenon DEF Types, Others
<1> HIDE DEF r
<1>7. /\ disk'[job.cfg].listed = TRUE /\ disk'[job.cfg].list = {} /\ SameReports
      /\ \A c \in Files : disk'[c].log = disk[c].log
  BY <1>6a, <1>6b DEF Others, SameLists, SameReports
<1>8. UNCHANGED <<request, completed, finished, hist>>
  BY DEF OpenList
<1>11. job' \in JobType
  BY <1>1, <1>2, Zenon DEF JobType, Labels, JobInv, Copying, OpenList, At
<1>12. Types'
  BY <1>6b, <1>8, <1>11 DEF Types
<1>13. JobInv'
  BY <1>3, Zenon DEF JobInv, ReqInv, Iterating, Copying, OpenList, At, This
<1>14. ListInv'
  BY <1>3, <1>6b, <1>7
  DEF ListInv, Others, SameLists, JobInv, Iterating, Copying, OpenList, At, This
<1>15. TestingInv'
  BY <1>3 DEF TestingInv, SameLists, Running, OpenList, At, This
<1>16. Iterating' => job'.j = 1 \/ (Iterating /\ job'.j = job.j /\ job'.cfg = job.cfg)
  BY <1>3 DEF Iterating, Copying, OpenList, At, This
<1>17. CountInv'
  BY <1>7, <1>8, <1>11, <1>16, CountKept DEF SameLists
<1>18. RoundInv'
  BY <1>3, Zenon DEF RoundInv, SameLists, Copying, JobInv, ListInv, OpenList, At, This
<1>19. DoneIsTested'
  BY <1>8 DEF DoneIsTested
<1>20. HaveInv' /\ SoundInv' /\ ReportInv'
  BY <1>1, <1>3, <1>7, ReportsKept DEF ReportInv, Copying, OpenList, At
<1> QED
  BY <1>8, <1>12, <1>13, <1>14, <1>15, <1>17, <1>18, <1>19, <1>20 DEF ReqInv

LEMMA WriteLastKeeps ==
  ASSUME Inv, NEW n \in Tests, WriteList(n), n = NumTests
  PROVE  Inv'
<1> DEFINE r == [disk[job.cfg] EXCEPT !.list = 1..n]
<1> USE DEF Inv
<1>1. /\ job.cfg \in Files /\ job \in JobType /\ disk[job.cfg] \in FilesOfConfig
      /\ completed \subseteq Files
  BY DEF Types, JobInv, WriteList, At
<1>2. job' = [pc |-> "iterate", ret |-> job.ret, cfg |-> job.cfg, j |-> 1,
              kept |-> job.kept, todo |-> job.todo, ran |-> job.ran,
              repeats |-> job.repeats, new |-> job.new]
  BY <1>1, Zenon DEF WriteList, Goto, This, JobType
<1>3. /\ job'.pc = "iterate" /\ job'.ret = job.ret /\ job'.cfg = job.cfg /\ job'.j = 1
      /\ job'.kept = job.kept /\ job'.todo = job.todo /\ job'.ran = job.ran
      /\ job'.repeats = job.repeats /\ job'.new = job.new
  BY <1>2
<1>4. disk' = [disk EXCEPT ![job.cfg] = r]
  BY DEF WriteList, Put, This
<1>5. 1..n \in SUBSET Tests
  BY DEF Tests
<1>6. r \in FilesOfConfig
  BY <1>1, <1>5, Zenon DEF FilesOfConfig
<1>6a. /\ r.listed = disk[job.cfg].listed /\ r.list = 1..n /\ r.log = disk[job.cfg].log
       /\ r.report = disk[job.cfg].report /\ r.sound = disk[job.cfg].sound
       /\ r.results = disk[job.cfg].results /\ r.cases = disk[job.cfg].cases
  BY DEF FilesOfConfig
<1>6b. disk' \in [Files -> FilesOfConfig] /\ disk'[job.cfg] = r /\ Others
  BY <1>1, <1>4, <1>6, Zenon DEF Types, Others
<1> HIDE DEF r
<1>7. /\ disk'[job.cfg].list = 1..n /\ SameReports
      /\ \A c \in Files : /\ disk'[c].listed = disk[c].listed
                          /\ disk'[c].log = disk[c].log
  BY <1>6a, <1>6b DEF Others, SameLists, SameReports
<1>8. UNCHANGED <<request, completed, finished, hist>>
  BY DEF WriteList
<1>10. 1 \in Nat /\ 1 <= request.rpt /\ 1 >= 1
  BY DEF ReqInv
<1>11. job' \in JobType
  BY <1>10, <1>1, <1>2, FieldTypes, ZenonT(60)
  DEF JobType, Labels, JobInv, Copying, WriteList, At
<1>12. Types'
  BY <1>6b, <1>8, <1>11 DEF Types
<1>13. JobInv'
  BY <1>3, <1>8, <1>10, Zenon DEF JobInv, ReqInv, Iterating, Copying, WriteList, At, This
<1>14. ListInv'
  BY <1>1, <1>6b, <1>7 DEF ListInv, Others, Tests, WriteList, At
<1>15. TestingInv'
  BY DEF TestingInv, SameLists, Running, WriteList, At, This
<1>16. Iterating' => job'.j = 1 \/ (Iterating /\ job'.j = job.j /\ job'.cfg = job.cfg)
  BY DEF Iterating, Copying, WriteList, At, This
<1>17. CountInv'
  BY <1>7, <1>8, <1>11, <1>16, CountKept DEF SameLists
<1>18. RoundInv'
  BY <1>3, Zenon DEF RoundInv, SameLists, Copying, JobInv, ListInv, WriteList, At, This
<1>19. DoneIsTested'
  BY <1>8 DEF DoneIsTested
<1>20. HaveInv' /\ SoundInv' /\ ReportInv'
  BY <1>1, <1>7, ReportsKept DEF ReportInv, Copying, WriteList, At
<1> QED
  BY <1>8, <1>12, <1>13, <1>14, <1>15, <1>17, <1>18, <1>19, <1>20 DEF ReqInv

LEMMA WriteSomeKeeps ==
  ASSUME Inv, NEW n \in Tests, WriteList(n), n # NumTests
  PROVE  Inv'
<1> DEFINE r == [disk[job.cfg] EXCEPT !.list = 1..n]
<1> USE DEF Inv
<1>1. /\ job.cfg \in Files /\ job \in JobType /\ disk[job.cfg] \in FilesOfConfig
      /\ completed \subseteq Files
  BY DEF Types, JobInv, WriteList, At
<1>2. job' = [pc |-> job.pc, ret |-> job.ret, cfg |-> job.cfg, j |-> job.j,
              kept |-> job.kept, todo |-> job.todo, ran |-> job.ran,
              repeats |-> job.repeats, new |-> job.new]
  BY <1>1, Zenon DEF WriteList, Goto, This, JobType
<1>3. /\ job'.pc = job.pc /\ job'.ret = job.ret /\ job'.cfg = job.cfg /\ job'.j = job.j
      /\ job'.kept = job.kept /\ job'.todo = job.todo /\ job'.ran = job.ran
      /\ job'.repeats = job.repeats /\ job'.new = job.new
  BY <1>2
<1>4. disk' = [disk EXCEPT ![job.cfg] = r]
  BY DEF WriteList, Put, This
<1>5. 1..n \in SUBSET Tests
  BY RunAssumption DEF Tests
<1>6. r \in FilesOfConfig
  BY <1>1, <1>5, Zenon DEF FilesOfConfig
<1>6a. /\ r.listed = disk[job.cfg].listed /\ r.list = 1..n /\ r.log = disk[job.cfg].log
       /\ r.report = disk[job.cfg].report /\ r.sound = disk[job.cfg].sound
       /\ r.results = disk[job.cfg].results /\ r.cases = disk[job.cfg].cases
  BY DEF FilesOfConfig
<1>6b. disk' \in [Files -> FilesOfConfig] /\ disk'[job.cfg] = r /\ Others
  BY <1>1, <1>4, <1>6, Zenon DEF Types, Others
<1> HIDE DEF r
<1>7. /\ disk'[job.cfg].list = 1..n /\ SameReports
      /\ \A c \in Files : /\ disk'[c].listed = disk[c].listed
                          /\ disk'[c].log = disk[c].log
  BY <1>6a, <1>6b DEF Others, SameLists, SameReports
<1>8. UNCHANGED <<request, completed, finished, hist>>
  BY DEF WriteList
<1>11. job' \in JobType
  BY <1>1, Zenon DEF JobType, Labels, JobInv, Copying, WriteList, At
<1>12. Types'
  BY <1>6b, <1>8, <1>11 DEF Types
<1>13. JobInv'
  BY Zenon DEF JobInv, ReqInv, Iterating, Copying, WriteList, At, This
<1>14. ListInv'
  BY <1>6b, <1>7
  DEF ListInv, Others, SameLists, JobInv, Iterating, Copying, WriteList, At, This
<1>15. TestingInv'
  BY DEF TestingInv, SameLists, Running, WriteList, At, This
<1>16. Iterating' => job'.j = 1 \/ (Iterating /\ job'.j = job.j /\ job'.cfg = job.cfg)
  BY DEF Iterating, Copying, WriteList, At, This
<1>17. CountInv'
  BY <1>7, <1>8, <1>11, <1>16, CountKept DEF SameLists
<1>18. RoundInv'
  BY Zenon DEF RoundInv, SameLists, Copying, JobInv, ListInv, WriteList, At, This
<1>19. DoneIsTested'
  BY <1>8 DEF DoneIsTested
<1>20. HaveInv' /\ SoundInv' /\ ReportInv'
  BY <1>1, <1>7, ReportsKept DEF ReportInv, Copying, WriteList, At
<1> QED
  BY <1>8, <1>12, <1>13, <1>14, <1>15, <1>17, <1>18, <1>19, <1>20 DEF ReqInv

LEMMA TrimKeeps ==
  ASSUME Inv, Trim
  PROVE  Inv'
<1> DEFINE r == [disk[job.cfg] EXCEPT !.logged = FALSE, !.log = <<>>]
<1> USE DEF Inv
<1>1. /\ job.cfg \in Files /\ job \in JobType /\ disk[job.cfg] \in FilesOfConfig
      /\ completed \subseteq Files
  BY DEF Types, JobInv, Trim, At
<1>1a. disk[job.cfg].log \in Seq(Tests)
  BY <1>1, FieldTypes, Zenon DEF Inv
<1>1b. SubSeq(disk[job.cfg].log, 1, Len(disk[job.cfg].log) - 2) \in Seq(Tests)
  BY <1>1a
<1>2. job' = [pc |-> "moving", ret |-> job.ret, cfg |-> job.cfg, j |-> job.j,
              kept |-> SubSeq(disk[job.cfg].log, 1, Len(disk[job.cfg].log) - 2),
              todo |-> job.todo, ran |-> job.ran, repeats |-> job.repeats,
              new |-> job.new]
  BY <1>1, Zenon DEF Trim, Goto, This, JobType
<1>3. /\ job'.pc = "moving" /\ job'.ret = job.ret /\ job'.cfg = job.cfg /\ job'.j = job.j
      /\ job'.kept = SubSeq(disk[job.cfg].log, 1, Len(disk[job.cfg].log) - 2)
      /\ job'.todo = job.todo /\ job'.ran = job.ran /\ job'.repeats = job.repeats
      /\ job'.new = job.new
  BY <1>2
<1>4. disk' = [disk EXCEPT ![job.cfg] = r]
  BY DEF Trim, Put, This
<1>5. FALSE \in BOOLEAN /\ <<>> \in Seq(Tests)
  OBVIOUS
<1>6. r \in FilesOfConfig
  BY <1>1, <1>5, Zenon DEF FilesOfConfig
<1>6a. /\ r.listed = disk[job.cfg].listed /\ r.list = disk[job.cfg].list /\ r.log = <<>>
       /\ r.report = disk[job.cfg].report /\ r.sound = disk[job.cfg].sound
       /\ r.results = disk[job.cfg].results /\ r.cases = disk[job.cfg].cases
  BY DEF FilesOfConfig
<1>6b. disk' \in [Files -> FilesOfConfig] /\ disk'[job.cfg] = r /\ Others
  BY <1>1, <1>4, <1>6, Zenon DEF Types, Others
<1> HIDE DEF r
<1>7. /\ disk'[job.cfg].log = <<>> /\ SameReports
      /\ \A c \in Files : /\ disk'[c].listed = disk[c].listed
                          /\ disk'[c].list = disk[c].list
  BY <1>6a, <1>6b DEF Others, SameLists, SameReports
<1>8. UNCHANGED <<request, completed, finished, hist>>
  BY DEF Trim
<1>10. /\ job.pc = "iterate" /\ job.cfg \in Files /\ job.j \in Nat /\ job.j >= 1
       /\ job.cfg \notin hist.torn => disk[job.cfg].list = Tests
       /\ \A t \in Tests : finished[job.cfg][t] \in Nat
  BY FieldTypes, Zenon DEF Trim, At, JobInv, ListInv, Iterating
<1>10a. \A c \in Files : disk'[c].log \in {disk[c].log, <<>>}
  BY <1>6b, <1>7 DEF Others
<1>11. job' \in JobType
  BY <1>1, <1>1b, <1>2, Zenon DEF JobType, Labels
<1>12. Types'
  BY <1>6b, <1>8, <1>11 DEF Types
<1>13. JobInv'
  BY <1>3, <1>8, Zenon DEF JobInv, ReqInv, Iterating, Copying, Trim, At, This
<1>14. ListInv'
  BY <1>7 DEF ListInv, Others, SameLists, JobInv, Iterating, Copying, Trim, At, This
<1>15. TestingInv'
  BY DEF TestingInv, SameLists, Running, Trim, At, This
<1>16. Iterating' => job'.j = 1 \/ (Iterating /\ job'.j = job.j /\ job'.cfg = job.cfg)
  BY DEF Iterating, Copying, Trim, At, This
<1>17. CountInv'
  BY <1>8, <1>11, <1>16, CountKept, <1>10a DEF SameLists
<1>18. RoundInv'
  <2> SUFFICES ASSUME job.cfg \notin hist.torn
               PROVE  \A i \in 1..Len(job'.kept) :
                        job'.kept[i] \notin hist.unrun[job.cfg] =>
                          finished[job.cfg][job'.kept[i]] >= job.j
    BY <1>3, <1>8 DEF RoundInv, SameLists, Copying
  <2> DEFINE s == disk[job.cfg].log
  <2>1. \A i \in 1..Len(s) : i < Len(s) /\ s[i] \notin hist.unrun[job.cfg] =>
          finished[job.cfg][s[i]] >= (job.j - 1) + 1
    BY <1>10 DEF CountInv, Base, Iterating
  <2>2. \A i \in 1..Len(job'.kept) :
           i \in 1..Len(s) /\ i < Len(s) /\ job'.kept[i] = s[i]
    BY <1>3, Trimmed, SMT, Z3
  <2> HIDE DEF s
  <2>3. (job.j - 1) + 1 = job.j
    BY <1>10
  <2> QED
    BY <2>1, <2>2, <2>3
<1>19. DoneIsTested'
  BY <1>8 DEF DoneIsTested
<1>20. HaveInv' /\ SoundInv' /\ ReportInv'
  BY <1>1, <1>7, ReportsKept DEF ReportInv, Copying, Trim, At
<1> QED
  BY <1>8, <1>12, <1>13, <1>14, <1>15, <1>17, <1>18, <1>19, <1>20 DEF ReqInv

LEMMA LogTestKeeps ==
  ASSUME Inv, NEW x \in Tests, LogTest(x)
  PROVE  Inv'
<1> DEFINE r == [disk[job.cfg] EXCEPT !.log = Append(disk[job.cfg].log, x)]
<1> USE DEF Inv
<1>1. /\ job.cfg \in Files /\ job \in JobType /\ disk[job.cfg] \in FilesOfConfig
      /\ completed \subseteq Files
  BY DEF Types, JobInv, LogTest, At
<1>2. job' = [pc |-> "testing", ret |-> job.ret, cfg |-> job.cfg, j |-> job.j,
              kept |-> job.kept, todo |-> job.todo, ran |-> job.ran,
              repeats |-> job.repeats, new |-> job.new]
  BY <1>1, Zenon DEF LogTest, Goto, This, JobType
<1>3. /\ job'.pc = "testing" /\ job'.ret = job.ret /\ job'.cfg = job.cfg /\ job'.j = job.j
      /\ job'.kept = job.kept /\ job'.todo = job.todo /\ job'.ran = job.ran
      /\ job'.repeats = job.repeats /\ job'.new = job.new
  BY <1>2
<1>0. x \in job.todo /\ disk[job.cfg].log \in Seq(Tests)
  BY <1>1, FieldTypes, Zenon DEF LogTest
<1>4. disk' = [disk EXCEPT ![job.cfg] = r]
  BY DEF LogTest, Put, This
<1>5. Append(disk[job.cfg].log, x) \in Seq(Tests)
  BY <1>0
<1>6. r \in FilesOfConfig
  BY <1>1, <1>5, Zenon DEF FilesOfConfig
<1>6a. /\ r.listed = disk[job.cfg].listed /\ r.list = disk[job.cfg].list
       /\ r.log = Append(disk[job.cfg].log, x) /\ r.report = disk[job.cfg].report
       /\ r.sound = disk[job.cfg].sound /\ r.results = disk[job.cfg].results
       /\ r.cases = disk[job.cfg].cases
  BY DEF FilesOfConfig
<1>6b. disk' \in [Files -> FilesOfConfig] /\ disk'[job.cfg] = r /\ Others
  BY <1>1, <1>4, <1>6, Zenon DEF Types, Others
<1> HIDE DEF r
<1>7. /\ disk'[job.cfg].log = Append(disk[job.cfg].log, x) /\ SameReports
      /\ \A c \in Files : /\ disk'[c].listed = disk[c].listed
                          /\ disk'[c].list = disk[c].list
  BY <1>6a, <1>6b DEF Others, SameLists, SameReports
<1>8. UNCHANGED <<request, completed, finished, hist>>
  BY DEF LogTest
<1>10. job.todo # {} /\ job.pc = "check" /\ disk[job.cfg].log \in Seq(Tests)
  BY <1>1, FieldTypes, Zenon DEF LogTest, At
<1>11. job' \in JobType
  BY <1>1, <1>2, Zenon DEF JobType, Labels, JobInv, Copying, LogTest, At
<1>12. Types'
  BY <1>6b, <1>8, <1>11 DEF Types
<1>13. JobInv'
  BY <1>3, Zenon DEF JobInv, ReqInv, Iterating, Copying, LogTest, At, This
<1>14. ListInv'
  BY <1>1, <1>3, <1>7, <1>8, <1>10 DEF ListInv, Iterating
<1>15. TestingInv'
  <2> DEFINE s == disk[job.cfg].log
  <2>2. s \in Seq(Tests)
    BY <1>0
  <2> HIDE DEF s
  <2>3. Append(s, x) # <<>> /\ Append(s, x)[Len(Append(s, x))] = x
    OBVIOUS
  <2>4. disk'[job'.cfg].log = Append(s, x) /\ job'.todo = job.todo
    BY <1>3, <1>7 DEF s
  <2> QED
    BY <1>0, <2>3, <2>4, SMT, Z3 DEF TestingInv
<1>17. CountInv'
  <2> SUFFICES ASSUME NEW c \in Files \ hist.torn
               PROVE  /\ \A t \in Tests \ hist.unrun[c] : finished[c][t] >= Base(c)'
                      /\ \A i \in 1..Len(disk'[c].log) :
                           i < Len(disk'[c].log) /\ disk'[c].log[i] \notin hist.unrun[c] =>
                             finished[c][disk'[c].log[i]] >= Base(c)' + 1
    BY <1>8 DEF CountInv, Others, SameLists
  <2>1. Base(c)' = Base(c)
    BY <1>3, <1>10 DEF Base, Iterating
  <2>2. CASE c # job.cfg
    BY <1>6b, <2>1, <2>2 DEF CountInv, Others, SameLists
  <2>3. CASE c = job.cfg
    <3>1. Base(c) = job.j - 1 /\ job.j \in Nat
      BY <1>10, <2>3, FieldTypes, Zenon DEF Base, Iterating
    <3> DEFINE s == disk[job.cfg].log
               u == disk'[job.cfg].log
    <3>2. s \in Seq(Tests) /\ u = Append(s, x)
      BY <1>7, <1>10
    <3>3. \A i \in 1..Len(s) :
            s[i] \notin hist.unrun[job.cfg] => finished[job.cfg][s[i]] >= job.j
      BY <1>10, <2>3 DEF RoundInv
    <3> HIDE DEF s, u
    <3>4. \A i \in 1..Len(u) : i < Len(u) => i \in 1..Len(s) /\ u[i] = s[i]
      BY <3>2
    <3>5. \A i \in 1..Len(u) : i < Len(u) /\ u[i] \notin hist.unrun[job.cfg] =>
            finished[job.cfg][u[i]] >= (job.j - 1) + 1
      BY <3>1, <3>3, <3>4
    <3>6. \A t \in Tests \ hist.unrun[c] : finished[c][t] >= Base(c)
      BY DEF CountInv, Others, SameLists
    <3> QED
      BY <2>1, <2>3, <3>1, <3>5, <3>6 DEF u
  <2> QED
    BY <2>2, <2>3
<1>18. RoundInv'
  BY <1>3, Zenon DEF RoundInv, SameLists, Copying, JobInv, ListInv, LogTest, At, This
<1>19. DoneIsTested'
  BY <1>8 DEF DoneIsTested
<1>20. HaveInv' /\ SoundInv' /\ ReportInv'
  BY <1>1, <1>3, <1>7, ReportsKept DEF ReportInv, Copying, LogTest, At
<1> QED
  BY <1>8, <1>12, <1>13, <1>14, <1>15, <1>17, <1>18, <1>19, <1>20 DEF ReqInv

LEMMA NextIterationKeeps ==
  ASSUME Inv, EndIteration, job.j < request.rpt
  PROVE  Inv'
<1> DEFINE r == [disk[job.cfg] EXCEPT !.logged = FALSE, !.log = <<>>]
<1> USE DEF Inv
<1>1. /\ job.cfg \in Files /\ job \in JobType /\ disk[job.cfg] \in FilesOfConfig
      /\ completed \subseteq Files
  BY DEF Types, JobInv, EndIteration, At
<1>2. job' = [pc |-> "iterate", ret |-> job.ret, cfg |-> job.cfg, j |-> job.j + 1,
              kept |-> job.kept, todo |-> job.todo, ran |-> job.ran,
              repeats |-> job.repeats, new |-> job.new]
  BY <1>1, Zenon DEF EndIteration, Goto, This, JobType
<1>3. /\ job'.pc = "iterate" /\ job'.ret = job.ret /\ job'.cfg = job.cfg
      /\ job'.j = job.j + 1 /\ job'.kept = job.kept /\ job'.todo = job.todo
      /\ job'.ran = job.ran /\ job'.repeats = job.repeats /\ job'.new = job.new
  BY <1>2
<1>4. disk' = [disk EXCEPT ![job.cfg] = r]
  BY DEF EndIteration, Put, This
<1>5. FALSE \in BOOLEAN /\ <<>> \in Seq(Tests)
  OBVIOUS
<1>6. r \in FilesOfConfig
  BY <1>1, <1>5, Zenon DEF FilesOfConfig
<1>6a. /\ r.listed = disk[job.cfg].listed /\ r.list = disk[job.cfg].list /\ r.log = <<>>
       /\ r.report = disk[job.cfg].report /\ r.sound = disk[job.cfg].sound
       /\ r.results = disk[job.cfg].results /\ r.cases = disk[job.cfg].cases
  BY DEF FilesOfConfig
<1>6b. disk' \in [Files -> FilesOfConfig] /\ disk'[job.cfg] = r /\ Others
  BY <1>1, <1>4, <1>6, Zenon DEF Types, Others
<1> HIDE DEF r
<1>7. /\ disk'[job.cfg].log = <<>> /\ SameReports
      /\ \A c \in Files : /\ disk'[c].listed = disk[c].listed
                          /\ disk'[c].list = disk[c].list
  BY <1>6a, <1>6b DEF Others, SameLists, SameReports
<1>8. UNCHANGED <<request, completed, finished, hist>>
  BY DEF EndIteration
<1>10. /\ job.pc = "fsck" /\ job.j \in Nat /\ job.j >= 1 /\ job.j <= request.rpt
       /\ request.rpt \in Nat /\ job.j + 1 \in Nat
       /\ job.cfg \notin hist.torn =>
            \A t \in Tests \ hist.unrun[job.cfg] : finished[job.cfg][t] >= job.j
  <2>1. job.pc = "fsck"
    BY DEF EndIteration, At
  <2>2. job.j \in Nat /\ job.j >= 1 /\ job.j <= request.rpt
    BY <2>1, FieldTypes, Zenon DEF JobInv, Iterating
  <2>3. request.rpt \in Nat
    BY DEF ReqInv
  <2>4. job.cfg \notin hist.torn =>
          \A t \in Tests \ hist.unrun[job.cfg] : finished[job.cfg][t] >= job.j
    BY <2>1 DEF RoundInv
  <2>5. job.j + 1 \in Nat
    BY <2>2
  <2> QED
    BY <2>1, <2>2, <2>3, <2>4
<1>11. job' \in JobType
  BY <1>1, <1>2, <1>10, Zenon DEF JobType, Labels
<1>12. Types'
  BY <1>6b, <1>8, <1>11 DEF Types
<1>13. JobInv'
  <2>1. job.j + 1 <= request.rpt /\ job.j + 1 >= 1
    BY <1>10
  <2> QED
    BY <1>3, <1>8, <1>10 DEF JobInv, Iterating, Copying
<1>14. ListInv'
  BY <1>7 DEF ListInv, Others, SameLists, JobInv, Iterating, Copying, EndIteration, At, This
<1>15. TestingInv'
  BY DEF TestingInv, SameLists, Running, EndIteration, At, This
<1>17. CountInv'
  <2> SUFFICES ASSUME NEW c \in Files \ hist.torn
               PROVE  /\ \A t \in Tests \ hist.unrun[c] : finished[c][t] >= Base(c)'
                      /\ \A i \in 1..Len(disk'[c].log) :
                           i < Len(disk'[c].log) /\ disk'[c].log[i] \notin hist.unrun[c] =>
                             finished[c][disk'[c].log[i]] >= Base(c)' + 1
    BY <1>8 DEF CountInv, Others, SameLists
  <2>1. CASE c # job.cfg
    <3>1. Base(c)' = 0 /\ Base(c) = 0
      BY <1>3, <2>1 DEF Base
    <3> QED
      BY <1>6b, <2>1, <3>1 DEF CountInv, Others, SameLists
  <2>2. CASE c = job.cfg
    <3>1. Base(c)' = job.j
      BY <1>3, <1>10, <2>2 DEF Base, Iterating
    <3>2. disk'[c].log = <<>>
      BY <1>7, <2>2
    <3> QED
      BY <1>10, <2>2, <3>1, <3>2
  <2> QED
    BY <2>1, <2>2
<1>18. RoundInv'
  BY <1>3, Zenon DEF RoundInv, SameLists, Copying, JobInv, ListInv, EndIteration, At, This
<1>19. DoneIsTested'
  BY <1>8 DEF DoneIsTested
<1>20. HaveInv' /\ SoundInv' /\ ReportInv'
  BY <1>1, <1>7, ReportsKept DEF ReportInv, Copying, EndIteration, At
<1> QED
  BY <1>8, <1>12, <1>13, <1>14, <1>15, <1>17, <1>18, <1>19, <1>20 DEF ReqInv

LEMMA LastIterationKeeps ==
  ASSUME Inv, EndIteration, ~(job.j < request.rpt)
  PROVE  Inv'
<1> DEFINE r == [disk[job.cfg] EXCEPT !.logged = FALSE, !.log = <<>>]
<1> USE DEF Inv
<1>1. /\ job.cfg \in Files /\ job \in JobType /\ disk[job.cfg] \in FilesOfConfig
      /\ completed \subseteq Files
  BY DEF Types, JobInv, EndIteration, At
<1>2. job' = [pc |-> "finish", ret |-> job.ret, cfg |-> job.cfg, j |-> job.j,
              kept |-> job.kept, todo |-> job.todo, ran |-> job.ran,
              repeats |-> job.repeats, new |-> job.new]
  BY <1>1, Zenon DEF EndIteration, Goto, This, JobType
<1>3. /\ job'.pc = "finish" /\ job'.ret = job.ret /\ job'.cfg = job.cfg /\ job'.j = job.j
      /\ job'.kept = job.kept /\ job'.todo = job.todo /\ job'.ran = job.ran
      /\ job'.repeats = job.repeats /\ job'.new = job.new
  BY <1>2
<1>4. disk' = [disk EXCEPT ![job.cfg] = r]
  BY DEF EndIteration, Put, This
<1>5. FALSE \in BOOLEAN /\ <<>> \in Seq(Tests)
  OBVIOUS
<1>6. r \in FilesOfConfig
  BY <1>1, <1>5, Zenon DEF FilesOfConfig
<1>6a. /\ r.listed = disk[job.cfg].listed /\ r.list = disk[job.cfg].list /\ r.log = <<>>
       /\ r.report = disk[job.cfg].report /\ r.sound = disk[job.cfg].sound
       /\ r.results = disk[job.cfg].results /\ r.cases = disk[job.cfg].cases
  BY DEF FilesOfConfig
<1>6b. disk' \in [Files -> FilesOfConfig] /\ disk'[job.cfg] = r /\ Others
  BY <1>1, <1>4, <1>6, Zenon DEF Types, Others
<1> HIDE DEF r
<1>7. /\ disk'[job.cfg].log = <<>> /\ SameReports
      /\ \A c \in Files : /\ disk'[c].listed = disk[c].listed
                          /\ disk'[c].list = disk[c].list
  BY <1>6a, <1>6b DEF Others, SameLists, SameReports
<1>8. UNCHANGED <<request, completed, finished, hist>>
  BY DEF EndIteration
<1>10. /\ job.pc = "fsck" /\ job.j \in Nat /\ job.j >= 1 /\ job.j <= request.rpt
       /\ request.rpt \in Nat /\ job.j + 1 \in Nat
       /\ job.cfg \notin hist.torn =>
            \A t \in Tests \ hist.unrun[job.cfg] : finished[job.cfg][t] >= job.j
  <2>1. job.pc = "fsck"
    BY DEF EndIteration, At
  <2>2. job.j \in Nat /\ job.j >= 1 /\ job.j <= request.rpt
    BY <2>1, FieldTypes, Zenon DEF JobInv, Iterating
  <2>3. request.rpt \in Nat
    BY DEF ReqInv
  <2>4. job.cfg \notin hist.torn =>
          \A t \in Tests \ hist.unrun[job.cfg] : finished[job.cfg][t] >= job.j
    BY <2>1 DEF RoundInv
  <2>5. job.j + 1 \in Nat
    BY <2>2
  <2> QED
    BY <2>1, <2>2, <2>3, <2>4
<1>10a. \A c \in Files : disk'[c].log \in {disk[c].log, <<>>}
  BY <1>6b, <1>7 DEF Others
<1>11. job' \in JobType
  BY <1>10, <1>1, <1>2, FieldTypes, ZenonT(60)
  DEF JobType, Labels, JobInv, Copying, EndIteration, At
<1>12. Types'
  BY <1>6b, <1>8, <1>11 DEF Types
<1>13. JobInv'
  BY <1>3, <1>8, Zenon DEF JobInv, ReqInv, Iterating, Copying, EndIteration, At, This
<1>14. ListInv'
  BY <1>7 DEF ListInv, Others, SameLists, JobInv, Iterating, Copying, EndIteration, At, This
<1>15. TestingInv'
  BY DEF TestingInv, SameLists, Running, EndIteration, At, This
<1>16. Iterating' => job'.j = 1 \/ (Iterating /\ job'.j = job.j /\ job'.cfg = job.cfg)
  BY DEF Iterating, Copying, EndIteration, At, This
<1>17. CountInv'
  BY <1>8, <1>11, <1>16, CountKept, <1>10a DEF SameLists
<1>18. RoundInv'
  <2>1. job.j = request.rpt
    BY <1>10
  <2> QED
    BY <1>3, <1>8, <1>10, SMT, Z3 DEF RoundInv, Copying
<1>19. DoneIsTested'
  BY <1>8 DEF DoneIsTested
<1>20. HaveInv' /\ SoundInv' /\ ReportInv'
  BY <1>1, <1>7, ReportsKept DEF ReportInv, Copying, EndIteration, At
<1> QED
  BY <1>8, <1>12, <1>13, <1>14, <1>15, <1>17, <1>18, <1>19, <1>20 DEF ReqInv

LEMMA RemainingType ==
  ASSUME job \in JobType, disk[job.cfg].list \subseteq Tests, NEW k, job' = Remaining(k)
  PROVE  job' \in JobType
<1> DEFINE left == disk[job.cfg].list \ {k[i] : i \in DOMAIN k}
           label == IF left = {} THEN "fsck" ELSE "check"
<1>1. job' = [job EXCEPT !.pc = label, !.todo = left, !.ran = {}, !.kept = <<>>]
  BY DEF Remaining, This
<1>2. <<>> \in Seq(Tests) /\ {} \in SUBSET Tests /\ left \in SUBSET Tests
  OBVIOUS
<1>3. label \in Labels
  BY DEF Labels
<1> HIDE DEF left, label
<1> QED
  BY <1>1, <1>2, <1>3, Zenon DEF JobType

\* FirstRun and Move, once the log holds k.
LEMMA RemainingKeeps ==
  ASSUME Inv, NEW k \in Seq(Tests), job.pc \in {"iterate", "moving"},
         job.cfg \notin hist.torn =>
           \A i \in 1..Len(k) :
             k[i] \notin hist.unrun[job.cfg] => finished[job.cfg][k[i]] >= job.j,
         Put([This EXCEPT !.logged = TRUE, !.log = k]), job' = Remaining(k),
         UNCHANGED <<request, completed, finished, hist>>
  PROVE  Inv'
<1> DEFINE r == [disk[job.cfg] EXCEPT !.logged = TRUE, !.log = k]
           left == disk[job.cfg].list \ {k[i] : i \in DOMAIN k}
           pc == IF left = {} THEN "fsck" ELSE "check"
<1> USE DEF Inv
<1>1. /\ job.cfg \in Files /\ job \in JobType /\ disk[job.cfg] \in FilesOfConfig
      /\ completed \subseteq Files
  BY DEF Types, JobInv
<1>1a. job.j \in Nat /\ job.j >= 1
  BY FieldTypes, Zenon DEF JobInv, Iterating
<1>2. job' = [pc |-> pc, ret |-> job.ret, cfg |-> job.cfg, j |-> job.j, kept |-> <<>>,
              todo |-> left, ran |-> {}, repeats |-> job.repeats, new |-> job.new]
  BY <1>1, Zenon DEF Remaining, This, JobType
<1>3. /\ (left = {} /\ job'.pc = "fsck") \/ (left # {} /\ job'.pc = "check")
      /\ job'.ret = job.ret /\ job'.cfg = job.cfg /\ job'.j = job.j /\ job'.kept = <<>>
      /\ job'.todo = left /\ job'.ran = {} /\ job'.repeats = job.repeats
  BY <1>2
<1>4. disk' = [disk EXCEPT ![job.cfg] = r]
  BY DEF Put, This
<1>5. r \in FilesOfConfig
  BY <1>1, Zenon DEF FilesOfConfig
<1>6. /\ r.listed = disk[job.cfg].listed /\ r.list = disk[job.cfg].list /\ r.log = k
      /\ r.report = disk[job.cfg].report /\ r.sound = disk[job.cfg].sound
      /\ r.results = disk[job.cfg].results /\ r.cases = disk[job.cfg].cases
  BY DEF FilesOfConfig
<1>7. disk' \in [Files -> FilesOfConfig] /\ disk'[job.cfg] = r /\ Others
  BY <1>1, <1>4, <1>5, Zenon DEF Types, Others
<1> HIDE DEF r
<1>8. /\ disk'[job.cfg].log = k /\ SameReports
      /\ \A c \in Files : disk'[c].listed = disk[c].listed /\ disk'[c].list = disk[c].list
  BY <1>6, <1>7 DEF Others, SameReports
<1>9. job' \in JobType
  BY <1>1, FieldTypes, RemainingType, Zenon
<1>10. \A t \in {k[i] : i \in DOMAIN k} : \E i \in 1..Len(k) : t = k[i]
  OBVIOUS
<1>11. job.cfg \notin hist.torn =>
         \A t \in Tests \ hist.unrun[job.cfg] : t \notin left => finished[job.cfg][t] >= job.j
  BY <1>1 DEF ListInv, Iterating
<1> HIDE DEF left
<1>12. Types' /\ JobInv'
  BY <1>3, <1>7, <1>9 DEF Types, JobInv, Iterating, Copying
<1>13. ListInv' /\ TestingInv'
  BY <1>1, <1>3, <1>8 DEF ListInv, TestingInv, Iterating
<1>14. CountInv'
  <2> SUFFICES ASSUME NEW c \in Files \ hist.torn
               PROVE  /\ \A t \in Tests \ hist.unrun[c] : finished[c][t] >= Base(c)'
                      /\ \A i \in 1..Len(disk'[c].log) :
                           i < Len(disk'[c].log) /\ disk'[c].log[i] \notin hist.unrun[c] =>
                             finished[c][disk'[c].log[i]] >= Base(c)' + 1
    BY DEF CountInv
  <2>1. Base(c)' = Base(c)
    BY <1>3 DEF Base, Iterating
  <2>2. CASE c # job.cfg
    BY <1>7, <2>1, <2>2 DEF CountInv, Others
  <2>3. CASE c = job.cfg
    <3>1. Base(c) = job.j - 1 /\ (job.j - 1) + 1 = job.j
      BY <1>1a, <2>3 DEF Base, Iterating
    <3> QED
      BY <1>8, <2>1, <2>3, <3>1 DEF CountInv
  <2> QED
    BY <2>2, <2>3
<1>15. RoundInv'
  BY <1>3, <1>8, <1>11 DEF RoundInv, Copying
<1>16. DoneIsTested'
  BY DEF DoneIsTested
<1>17. disk[job.cfg].report = {}
  BY SMT DEF ReportInv, JobInv
<1>18. HaveInv' /\ SoundInv' /\ ReportInv'
  BY <1>1, <1>3, <1>8, <1>17, ReportsKept DEF Copying
<1> QED
  BY <1>12, <1>13, <1>14, <1>15, <1>16, <1>18 DEF ReqInv

LEMMA FirstRunKeeps ==
  ASSUME Inv, FirstRun
  PROVE  Inv'
<1> USE DEF Inv
<1>1. job.pc = "iterate" /\ <<>> \in Seq(Tests) /\ \A i \in 1..Len(<<>>) : FALSE
  BY DEF FirstRun, At
<1> QED
  BY <1>1, RemainingKeeps, Zenon DEF FirstRun

LEMMA MoveKeeps ==
  ASSUME Inv, Move
  PROVE  Inv'
<1> USE DEF Inv
<1>1. job.pc = "moving" /\ job.kept \in Seq(Tests)
  BY FieldTypes, Zenon DEF Move, At
<1>2. job.cfg \notin hist.torn =>
        \A i \in 1..Len(job.kept) :
          job.kept[i] \notin hist.unrun[job.cfg] => finished[job.cfg][job.kept[i]] >= job.j
  BY <1>1 DEF RoundInv
<1> QED
  BY <1>1, <1>2, RemainingKeeps, Zenon DEF Move

-----------------------------------------------------------------------------
(* The other steps *)

LEMMA TestEndsKeeps ==
  ASSUME Inv, TestEnds
  PROVE  Inv'
<1> DEFINE r == [disk[job.cfg] EXCEPT !.report = job.ran \cup {Running}]
<1> USE DEF Inv
<1>1. /\ job.cfg \in Files /\ job \in JobType /\ disk[job.cfg] \in FilesOfConfig
      /\ completed \subseteq Files
  BY DEF Types, JobInv, TestEnds, At
<1>2. job' = [pc |-> "check", ret |-> job.ret, cfg |-> job.cfg, j |-> job.j,
              kept |-> job.kept, todo |-> job.todo \ {Running},
              ran |-> job.ran \cup {Running}, repeats |-> 0, new |-> job.new]
  BY <1>1, Zenon DEF TestEnds, Goto, This, JobType
<1>3. /\ job'.pc = "check" /\ job'.ret = job.ret /\ job'.cfg = job.cfg /\ job'.j = job.j
      /\ job'.kept = job.kept /\ job'.todo = job.todo \ {Running}
      /\ job'.ran = job.ran \cup {Running} /\ job'.repeats = 0 /\ job'.new = job.new
  BY <1>2
<1>0. Running \in job.todo /\ Running \in Tests /\ disk[job.cfg].log \in Seq(Tests)
  BY <1>1, RunningIsLeft, FieldTypes, Zenon DEF TestEnds, At, TestingInv
<1>0a. /\ finished' \in [Files -> [Tests -> Nat]]
       /\ \A c \in Files, t \in Tests : /\ finished'[c][t] <= request.rpt
                                        /\ finished'[c][t] >= finished[c][t]
                                        /\ finished[c][t] \in Nat
       /\ \A c \in Files : c # job.cfg => finished'[c] = finished[c]
       /\ \A t \in Tests : t # Running => finished'[job.cfg][t] = finished[job.cfg][t]
       /\ finished[job.cfg][Running] >= job.j - 1 => finished'[job.cfg][Running] >= job.j
  BY <1>0, <1>1, Counted DEF TestEnds
<1>4. disk' = [disk EXCEPT ![job.cfg] = r]
  BY DEF TestEnds, Put, This
<1>5. job.ran \cup {Running} \in SUBSET Tests
  BY <1>0, FieldTypes, Zenon
<1>6. r \in FilesOfConfig
  BY <1>1, <1>5, Zenon DEF FilesOfConfig
<1>6a. /\ r.listed = disk[job.cfg].listed /\ r.list = disk[job.cfg].list
       /\ r.log = disk[job.cfg].log /\ r.report = job.ran \cup {Running}
       /\ r.sound = disk[job.cfg].sound /\ r.results = disk[job.cfg].results
       /\ r.cases = disk[job.cfg].cases
  BY DEF FilesOfConfig
<1>6b. disk' \in [Files -> FilesOfConfig] /\ disk'[job.cfg] = r /\ Others
  BY <1>1, <1>4, <1>6, Zenon DEF Types, Others
<1> HIDE DEF r
<1>7. /\ disk'[job.cfg].report = job.ran \cup {Running} /\ SameLists
      /\ \A c \in Files : /\ disk'[c].sound = disk[c].sound
                          /\ disk'[c].results = disk[c].results
                          /\ disk'[c].cases = disk[c].cases
  BY <1>6a, <1>6b DEF Others, SameLists, SameReports
<1>8. UNCHANGED <<request, completed, hist>>
  BY DEF TestEnds
<1>10. /\ job.pc = "testing" /\ job.j \in Nat /\ job.j >= 1 /\ job.j <= request.rpt
       /\ disk[job.cfg].log[Len(disk[job.cfg].log)] = Running /\ disk[job.cfg].log # <<>>
       /\ disk[job.cfg].report = job.ran /\ job.cfg \notin completed
  BY FieldTypes, RunningIsLeft, Zenon
  DEF TestEnds, At, JobInv, Iterating, TestingInv, ReportInv
<1>10a. job.cfg \notin hist.torn =>
          \A i \in 1..Len(disk[job.cfg].log) :
            disk[job.cfg].log[i] \notin hist.unrun[job.cfg] =>
              finished'[job.cfg][disk[job.cfg].log[i]] >= job.j
  <2> SUFFICES ASSUME job.cfg \notin hist.torn, NEW i \in 1..Len(disk[job.cfg].log),
                      disk[job.cfg].log[i] \notin hist.unrun[job.cfg]
               PROVE  finished'[job.cfg][disk[job.cfg].log[i]] >= job.j
    OBVIOUS
  <2> DEFINE s == disk[job.cfg].log
  <2>1. /\ \A t \in Tests \ hist.unrun[job.cfg] : finished[job.cfg][t] >= job.j - 1
        /\ s[i] \notin hist.unrun[job.cfg]
        /\ i < Len(s) => finished[job.cfg][s[i]] >= (job.j - 1) + 1
    BY <1>1, <1>10 DEF CountInv, Base, Iterating
  <2>2. s \in Seq(Tests) /\ i \in 1..Len(s) /\ s[Len(s)] = Running
    BY <1>0, <1>10, Zenon
  <2> HIDE DEF s
  <2>2a. s[i] \in Tests
    BY <2>2
  <2>3. finished'[job.cfg][s[i]] \in Nat /\ finished[job.cfg][s[i]] \in Nat
    BY <1>0a, <1>1, <2>2a
  <2>4. finished'[job.cfg][s[i]] >= finished[job.cfg][s[i]]
    BY <1>0a, <1>1, <2>2a, <2>3
  <2>5. i < Len(s) => finished[job.cfg][s[i]] >= job.j
    BY <1>10, <2>1
  <2>5a. i < Len(s) => finished'[job.cfg][s[i]] >= job.j
    BY <1>10, <2>3, <2>4, <2>5
  <2>6. i = Len(s) => finished'[job.cfg][s[i]] >= job.j
    BY <1>0a, <2>1, <2>2
  <2> QED
    BY <2>5a, <2>6 DEF s
<1>11. job' \in JobType
  <2>1. job.todo \ {Running} \in SUBSET Tests /\ job.ran \cup {Running} \in SUBSET Tests
    BY <1>0, FieldTypes, Zenon
  <2> QED
    BY <1>1, <1>2, <2>1, Zenon DEF JobType, Labels
<1>12. Types'
  BY <1>0a, <1>6b, <1>8, <1>11 DEF Types
<1>13. JobInv'
  <2>1. 0 <= request.loop
    BY DEF ReqInv
  <2> QED
    BY <1>0a, <1>3, <1>8, <1>10, <2>1 DEF JobInv, Iterating, Copying
<1>14. ListInv'
  BY <1>7 DEF ListInv, Others, SameLists, JobInv, Iterating, Copying, TestEnds, At, This
<1>15. TestingInv'
  BY <1>3, Zenon DEF TestingInv, SameLists, Running, TestEnds, At, This
<1>17. CountInv'
  <2> SUFFICES ASSUME NEW c \in Files \ hist.torn
               PROVE  /\ \A t \in Tests \ hist.unrun[c] : finished'[c][t] >= Base(c)'
                      /\ \A i \in 1..Len(disk'[c].log) :
                           i < Len(disk'[c].log) /\ disk'[c].log[i] \notin hist.unrun[c] =>
                             finished'[c][disk'[c].log[i]] >= Base(c)' + 1
    BY <1>8 DEF CountInv, Others, SameLists
  <2>1. Base(c)' = Base(c) /\ Base(c) \in Int
    BY <1>3, <1>10 DEF Base, Iterating
  <2>2. CASE c # job.cfg
    BY <1>0a, <1>6b, <2>1, <2>2 DEF CountInv, Others, SameLists
  <2>3. CASE c = job.cfg
    <3>1. Base(c) = job.j - 1
      BY <1>10, <2>3 DEF Base, Iterating
    <3>2. \A t \in Tests \ hist.unrun[c] : finished[c][t] >= Base(c)
      BY DEF CountInv, Others, SameLists
    <3>3. \A t \in Tests \ hist.unrun[c] : finished'[c][t] >= Base(c)
      <4> SUFFICES ASSUME NEW t \in Tests \ hist.unrun[c]
                   PROVE  finished'[c][t] >= Base(c)
        OBVIOUS
      <4>1. finished'[c][t] >= finished[c][t] /\ finished'[c][t] \in Nat /\ finished[c][t] \in Nat
        BY <1>0a
      <4>2. finished[c][t] >= Base(c)
        BY <3>2
      <4> QED
        BY <2>1, <4>1, <4>2
    <3>4. \A i \in 1..Len(disk'[c].log) : i < Len(disk'[c].log) =>
            i \in 1..Len(disk[job.cfg].log) /\ disk'[c].log[i] = disk[job.cfg].log[i]
      BY <1>7, <2>3 DEF SameLists
    <3>5. \A i \in 1..Len(disk'[c].log) :
            i < Len(disk'[c].log) /\ disk'[c].log[i] \notin hist.unrun[c] =>
              finished'[c][disk'[c].log[i]] >= (job.j - 1) + 1
      <4>1. (job.j - 1) + 1 = job.j
        BY <1>10
      <4> QED
        BY <1>10a, <2>3, <3>4, <4>1
    <3> QED
      BY <2>1, <3>1, <3>3, <3>5
  <2> QED
    BY <2>2, <2>3
<1>18. RoundInv'
  <2> SUFFICES ASSUME job.cfg \notin hist.torn
               PROVE  /\ \A i \in 1..Len(disk[job.cfg].log) :
                           disk[job.cfg].log[i] \notin hist.unrun[job.cfg] =>
                             finished'[job.cfg][disk[job.cfg].log[i]] >= job.j
                      /\ \A t \in Tests \ hist.unrun[job.cfg] :
                           t \notin job.todo \ {Running} => finished'[job.cfg][t] >= job.j
    <3>1. /\ job'.pc = "check" /\ job'.cfg = job.cfg /\ job'.j = job.j /\ hist' = hist
          /\ job'.todo = job.todo \ {Running} /\ disk'[job.cfg].log = disk[job.cfg].log
      BY <1>1, <1>3, <1>7, <1>8, Zenon DEF SameLists
    <3> QED
      BY <3>1, Zenon DEF RoundInv, Copying
  <2>1. \A t \in Tests \ hist.unrun[job.cfg] :
          t \notin job.todo => finished[job.cfg][t] >= job.j
    BY <1>10 DEF RoundInv
  <2>2. Running \notin hist.unrun[job.cfg] => finished[job.cfg][Running] >= job.j - 1
    BY <1>0, <1>1, <1>10 DEF CountInv, Base, Iterating
  <2>3. Running \notin hist.unrun[job.cfg] => finished'[job.cfg][Running] >= job.j
    BY <1>0a, <2>2
  <2>4. \A t \in Tests \ hist.unrun[job.cfg] :
          t \notin job.todo \ {Running} => finished'[job.cfg][t] >= job.j
    BY <1>0a, <2>1, <2>3
  <2> QED
    BY <1>10a, <2>4
<1>19. DoneIsTested'
  <2>1. \A c \in completed : finished'[c] = finished[c]
    BY <1>0a, <1>1, <1>10, Zenon
  <2> QED
    BY <1>8, <2>1, Zenon DEF DoneIsTested
<1>21. HaveInv'
  <2> SUFFICES ASSUME NEW c \in Files \ hist.cut, NEW t \in Tests, finished'[c][t] >= 1
               PROVE  t \in Have(c)'
    BY <1>8 DEF HaveInv
  <2>1. CASE c = job.cfg /\ t = Running
    BY <1>7, <2>1 DEF Have
  <2>2. CASE ~(c = job.cfg /\ t = Running)
    <3>1. finished[c][t] >= 1
      BY <1>0a, <2>2
    <3>2. t \in Have(c)
      BY <3>1 DEF HaveInv
    <3> QED
      BY <1>6b, <1>7, <1>10, <3>2 DEF Have, Others, SameReports
  <2> QED
    BY <2>1, <2>2
<1>22. SoundInv'
  BY <1>7 DEF SoundInv, Others, SameReports, JobInv, TestEnds, At, This
<1>23. ReportInv'
  BY <1>1, <1>6b, <1>7
  DEF ReportInv, Others, SameReports, SoundInv, JobInv, Copying, TestEnds, At, This
<1> QED
  BY <1>8, <1>12, <1>13, <1>14, <1>15, <1>17, <1>18, <1>19, <1>21, <1>22, <1>23 DEF ReqInv

LEMMA TestAgainKeeps ==
  ASSUME Inv, TestAgain
  PROVE  Inv'
<1> DEFINE r == [disk[job.cfg] EXCEPT !.report = job.ran \cup {Running},
                                      !.log = Append(disk[job.cfg].log, Running)]
<1> USE DEF Inv
<1>1. /\ job.cfg \in Files /\ job \in JobType /\ disk[job.cfg] \in FilesOfConfig
      /\ completed \subseteq Files
  BY DEF Types, JobInv, TestAgain, At
<1>2. job' = [pc |-> job.pc, ret |-> job.ret, cfg |-> job.cfg, j |-> job.j,
              kept |-> job.kept, todo |-> job.todo, ran |-> job.ran \cup {Running},
              repeats |-> job.repeats + 1, new |-> job.new]
  BY <1>1, Zenon DEF TestAgain, Goto, This, JobType
<1>3. /\ job'.pc = job.pc /\ job'.ret = job.ret /\ job'.cfg = job.cfg /\ job'.j = job.j
      /\ job'.kept = job.kept /\ job'.todo = job.todo /\ job'.ran = job.ran \cup {Running}
      /\ job'.repeats = job.repeats + 1 /\ job'.new = job.new
  BY <1>2
<1>0. Running \in job.todo /\ Running \in Tests /\ disk[job.cfg].log \in Seq(Tests)
  BY <1>1, RunningIsLeft, FieldTypes, Zenon DEF TestAgain, At, TestingInv
<1>0a. /\ finished' \in [Files -> [Tests -> Nat]]
       /\ \A c \in Files, t \in Tests : /\ finished'[c][t] <= request.rpt
                                        /\ finished'[c][t] >= finished[c][t]
                                        /\ finished[c][t] \in Nat
       /\ \A c \in Files : c # job.cfg => finished'[c] = finished[c]
       /\ \A t \in Tests : t # Running => finished'[job.cfg][t] = finished[job.cfg][t]
       /\ finished[job.cfg][Running] >= job.j - 1 => finished'[job.cfg][Running] >= job.j
  BY <1>0, <1>1, Counted DEF TestAgain
<1>4. disk' = [disk EXCEPT ![job.cfg] = r]
  BY DEF TestAgain, Put, This
<1>5. job.ran \cup {Running} \in SUBSET Tests /\
      Append(disk[job.cfg].log, Running) \in Seq(Tests)
  <2>1. job.ran \cup {Running} \in SUBSET Tests
    BY <1>0, FieldTypes, Zenon
  <2>2. Append(disk[job.cfg].log, Running) \in Seq(Tests)
    BY <1>0
  <2> QED
    BY <2>1, <2>2
<1>6. r \in FilesOfConfig
  BY <1>1, <1>5, Zenon DEF FilesOfConfig
<1>6a. /\ r.listed = disk[job.cfg].listed /\ r.list = disk[job.cfg].list
       /\ r.log = Append(disk[job.cfg].log, Running) /\ r.report = job.ran \cup {Running}
       /\ r.sound = disk[job.cfg].sound /\ r.results = disk[job.cfg].results
       /\ r.cases = disk[job.cfg].cases
  BY DEF FilesOfConfig
<1>6b. disk' \in [Files -> FilesOfConfig] /\ disk'[job.cfg] = r /\ Others
  BY <1>1, <1>4, <1>6, Zenon DEF Types, Others
<1> HIDE DEF r
<1>7. /\ disk'[job.cfg].log = Append(disk[job.cfg].log, Running)
      /\ disk'[job.cfg].report = job.ran \cup {Running}
      /\ \A c \in Files : /\ disk'[c].listed = disk[c].listed
                          /\ disk'[c].list = disk[c].list
                          /\ disk'[c].sound = disk[c].sound
                          /\ disk'[c].results = disk[c].results
                          /\ disk'[c].cases = disk[c].cases
  BY <1>6a, <1>6b, Zenon DEF Others, SameLists, SameReports
<1>8. UNCHANGED <<request, completed, hist>>
  BY DEF TestAgain
<1>10. /\ job.pc = "testing" /\ job.j \in Nat /\ job.j >= 1 /\ job.j <= request.rpt
       /\ disk[job.cfg].log[Len(disk[job.cfg].log)] = Running /\ disk[job.cfg].log # <<>>
       /\ disk[job.cfg].report = job.ran /\ job.cfg \notin completed
  BY FieldTypes, RunningIsLeft, Zenon
  DEF TestAgain, At, JobInv, Iterating, TestingInv, ReportInv
<1>10a. job.cfg \notin hist.torn =>
          \A i \in 1..Len(disk[job.cfg].log) :
            disk[job.cfg].log[i] \notin hist.unrun[job.cfg] =>
              finished'[job.cfg][disk[job.cfg].log[i]] >= job.j
  <2> SUFFICES ASSUME job.cfg \notin hist.torn, NEW i \in 1..Len(disk[job.cfg].log),
                      disk[job.cfg].log[i] \notin hist.unrun[job.cfg]
               PROVE  finished'[job.cfg][disk[job.cfg].log[i]] >= job.j
    OBVIOUS
  <2> DEFINE s == disk[job.cfg].log
  <2>1. /\ \A t \in Tests \ hist.unrun[job.cfg] : finished[job.cfg][t] >= job.j - 1
        /\ s[i] \notin hist.unrun[job.cfg]
        /\ i < Len(s) => finished[job.cfg][s[i]] >= (job.j - 1) + 1
    BY <1>1, <1>10 DEF CountInv, Base, Iterating
  <2>2. s \in Seq(Tests) /\ i \in 1..Len(s) /\ s[Len(s)] = Running
    BY <1>0, <1>10, Zenon
  <2> HIDE DEF s
  <2>2a. s[i] \in Tests
    BY <2>2
  <2>3. finished'[job.cfg][s[i]] \in Nat /\ finished[job.cfg][s[i]] \in Nat
    BY <1>0a, <1>1, <2>2a
  <2>4. finished'[job.cfg][s[i]] >= finished[job.cfg][s[i]]
    BY <1>0a, <1>1, <2>2a, <2>3
  <2>5. i < Len(s) => finished[job.cfg][s[i]] >= job.j
    BY <1>10, <2>1
  <2>5a. i < Len(s) => finished'[job.cfg][s[i]] >= job.j
    BY <1>10, <2>3, <2>4, <2>5
  <2>6. i = Len(s) => finished'[job.cfg][s[i]] >= job.j
    BY <1>0a, <2>1, <2>2
  <2> QED
    BY <2>2, <2>5a, <2>6, SMT, Z3 DEF s
<1>11. job' \in JobType
  <2>1. job.repeats + 1 \in Nat
    <3>1. job.repeats \in Nat
      BY FieldTypes, Zenon
    <3> QED
      BY <3>1
  <2>2. job.ran \cup {Running} \in SUBSET Tests
    BY <1>0, FieldTypes, Zenon
  <2> QED
    BY <1>1, <1>2, <2>1, <2>2, Zenon DEF JobType, Labels
<1>12. Types'
  BY <1>0a, <1>6b, <1>8, <1>11 DEF Types
<1>13. JobInv'
  <2>1. job.repeats + 1 <= request.loop
    <3>1. job.repeats < request.loop
      BY DEF TestAgain
    <3>2. job.repeats \in Nat /\ request.loop \in Nat
      BY FieldTypes, Zenon DEF ReqInv
    <3> QED
      BY <3>1, <3>2
  <2> QED
    BY <1>0a, <1>3, <1>8, <2>1 DEF JobInv, Iterating, Copying
<1>14. ListInv'
  BY <1>6b, <1>7
  DEF ListInv, Others, SameLists, JobInv, Iterating, Copying, TestAgain, At, This
<1>15. TestingInv'
  <2> DEFINE s == disk[job.cfg].log
             x == Running
  <2>2. s \in Seq(Tests) /\ x \in Tests /\ x \in job.todo
    BY <1>0
  <2>4. disk'[job'.cfg].log = Append(s, x) /\ job'.todo = job.todo
    BY <1>3, <1>7
  <2> HIDE DEF s, x
  <2>3. Append(s, x) # <<>> /\ Append(s, x)[Len(Append(s, x))] = x
    OBVIOUS
  <2> QED
    BY <2>2, <2>4 DEF TestingInv
<1>17. CountInv'
  <2> SUFFICES ASSUME NEW c \in Files \ hist.torn
               PROVE  /\ \A t \in Tests \ hist.unrun[c] : finished'[c][t] >= Base(c)'
                      /\ \A i \in 1..Len(disk'[c].log) :
                           i < Len(disk'[c].log) /\ disk'[c].log[i] \notin hist.unrun[c] =>
                             finished'[c][disk'[c].log[i]] >= Base(c)' + 1
    BY <1>8 DEF CountInv, Others, SameLists
  <2>1. Base(c)' = Base(c) /\ Base(c) \in Int
    BY <1>3, <1>10, SMT, Z3 DEF Base, Iterating
  <2>2. CASE c # job.cfg
    BY <1>0a, <1>6b, <2>1, <2>2, Zenon DEF CountInv, Others, SameLists
  <2>3. CASE c = job.cfg
    <3>1. Base(c) = job.j - 1
      BY <1>10, <2>3 DEF Base, Iterating
    <3>2. \A t \in Tests \ hist.unrun[c] : finished[c][t] >= Base(c)
      BY DEF CountInv, Others, SameLists
    <3>3. \A t \in Tests \ hist.unrun[c] : finished'[c][t] >= Base(c)
      <4> SUFFICES ASSUME NEW t \in Tests \ hist.unrun[c]
                   PROVE  finished'[c][t] >= Base(c)
        OBVIOUS
      <4>1. finished'[c][t] >= finished[c][t] /\ finished'[c][t] \in Nat /\ finished[c][t] \in Nat
        BY <1>0a
      <4>2. finished[c][t] >= Base(c)
        BY <3>2
      <4> QED
        BY <2>1, <4>1, <4>2
    <3>4. \A i \in 1..Len(disk'[c].log) : i < Len(disk'[c].log) =>
            i \in 1..Len(disk[job.cfg].log) /\ disk'[c].log[i] = disk[job.cfg].log[i]
      <4> DEFINE s == disk[job.cfg].log
                 u == disk'[c].log
      <4>1. s \in Seq(Tests) /\ u = Append(s, Running)
        BY <1>0, <1>7, <2>3
      <4> HIDE DEF s, u
      <4>2. \A i \in 1..Len(u) : i < Len(u) => i \in 1..Len(s) /\ u[i] = s[i]
        BY <4>1
      <4> QED
        BY <4>2 DEF s, u
    <3>5. \A i \in 1..Len(disk'[c].log) :
            i < Len(disk'[c].log) /\ disk'[c].log[i] \notin hist.unrun[c] =>
              finished'[c][disk'[c].log[i]] >= (job.j - 1) + 1
      <4>1. (job.j - 1) + 1 = job.j
        BY <1>10
      <4> QED
        BY <1>10a, <2>3, <3>4, <4>1, Zenon
    <3> QED
      BY <2>1, <3>1, <3>3, <3>5
  <2> QED
    BY <2>2, <2>3
<1>18. RoundInv'
  <2> SUFFICES ASSUME job.cfg \notin hist.torn
               PROVE  \A t \in Tests \ hist.unrun[job.cfg] :
                        t \notin job.todo => finished'[job.cfg][t] >= job.j
    BY <1>3, <1>8, <1>10, Zenon DEF RoundInv, Copying
  <2>1. \A t \in Tests \ hist.unrun[job.cfg] :
          t \notin job.todo => finished[job.cfg][t] >= job.j
    BY <1>10 DEF RoundInv
  <2> QED
    BY <1>0, <1>0a, <2>1, Zenon
<1>19. DoneIsTested'
  <2>1. \A c \in completed : finished'[c] = finished[c]
    BY <1>0a, <1>1, <1>10, Zenon
  <2> QED
    BY <1>8, <2>1, Zenon DEF DoneIsTested
<1>21. HaveInv'
  <2> SUFFICES ASSUME NEW c \in Files \ hist.cut, NEW t \in Tests, finished'[c][t] >= 1
               PROVE  t \in Have(c)'
    BY <1>8 DEF HaveInv
  <2>1. CASE c = job.cfg /\ t = Running
    BY <1>7, <2>1, Zenon DEF Have
  <2>2. CASE ~(c = job.cfg /\ t = Running)
    <3>1. finished[c][t] >= 1
      BY <1>0a, <2>2
    <3>2. t \in Have(c)
      BY <3>1 DEF HaveInv
    <3> QED
      BY <1>6b, <1>7, <1>10, <3>2 DEF Have, Others, SameReports
  <2> QED
    BY <2>1, <2>2
<1>22. SoundInv'
  BY <1>3, <1>7 DEF SoundInv, Others, SameReports, JobInv, TestAgain, At, This
<1>23. ReportInv'
  BY <1>1, <1>3, <1>6b, <1>7, <1>8, <1>10
  DEF ReportInv, Others, SameReports, SoundInv, JobInv, Copying, TestAgain, At, This
<1> QED
  BY <1>8, <1>12, <1>13, <1>14, <1>15, <1>17, <1>18, <1>19, <1>21, <1>22, <1>23 DEF ReqInv

LEMMA UnreadableKeeps ==
  ASSUME Inv, Unreadable
  PROVE  Inv'
<1> DEFINE r == [disk[job.cfg] EXCEPT !.sound = FALSE]
<1> USE DEF Inv
<1>1. /\ job.cfg \in Files /\ job \in JobType /\ disk[job.cfg] \in FilesOfConfig
      /\ completed \subseteq Files
  BY DEF Types, JobInv, Unreadable, At
<1>2. job' = [pc |-> job.pc, ret |-> job.ret, cfg |-> job.cfg, j |-> job.j,
              kept |-> job.kept, todo |-> job.todo, ran |-> job.ran,
              repeats |-> job.repeats, new |-> job.new]
  BY <1>1, Zenon DEF Unreadable, Goto, This, JobType
<1>3. /\ job'.pc = job.pc /\ job'.ret = job.ret /\ job'.cfg = job.cfg /\ job'.j = job.j
      /\ job'.kept = job.kept /\ job'.todo = job.todo /\ job'.ran = job.ran
      /\ job'.repeats = job.repeats /\ job'.new = job.new
  BY <1>2
<1>4. disk' = [disk EXCEPT ![job.cfg] = r]
  BY DEF Unreadable, Put, This
<1>5. FALSE \in BOOLEAN
  BY Zenon DEF JobType, FilesOfConfig
<1>6. r \in FilesOfConfig
  BY <1>1, Zenon DEF FilesOfConfig
<1>6a. /\ r.listed = disk[job.cfg].listed /\ r.list = disk[job.cfg].list
       /\ r.log = disk[job.cfg].log /\ r.report = disk[job.cfg].report /\ r.sound = FALSE
       /\ r.results = disk[job.cfg].results /\ r.cases = disk[job.cfg].cases
  BY DEF FilesOfConfig
<1>6b. disk' \in [Files -> FilesOfConfig] /\ disk'[job.cfg] = r /\ Others
  BY <1>1, <1>4, <1>6, Zenon DEF Types, Others
<1> HIDE DEF r
<1>7. /\ disk'[job.cfg].sound = FALSE /\ SameLists
      /\ \A c \in Files : /\ disk'[c].report = disk[c].report
                          /\ disk'[c].results = disk[c].results
                          /\ disk'[c].cases = disk[c].cases
  BY <1>6a, <1>6b DEF Others, SameLists, SameReports
<1>8. UNCHANGED <<request, completed, finished>>
  BY DEF Unreadable
<1>8a. hist' = [crashes |-> hist.crashes, torn |-> hist.torn,
                cut |-> hist.cut \cup {job.cfg}, skipped |-> hist.skipped,
                unrun |-> hist.unrun]
  BY Zenon DEF Types, HistType, Unreadable, At
<1>8b. /\ hist'.crashes = hist.crashes /\ hist'.torn = hist.torn
       /\ hist'.cut = hist.cut \cup {job.cfg} /\ hist'.skipped = hist.skipped
       /\ hist'.unrun = hist.unrun
  BY <1>8a
<1>8c. hist' \in HistType
  BY <1>1, <1>8a DEF Types, HistType
<1>11. job' \in JobType
  BY <1>1, Zenon DEF JobType, Labels, JobInv, Copying, Unreadable, At
<1>12. Types'
  BY <1>6b, <1>8, <1>8c, <1>11 DEF Types
<1>13. JobInv'
  BY <1>8b, Zenon DEF JobInv, ReqInv, Iterating, Copying, Unreadable, At, This
<1>14. ListInv'
  BY <1>7 DEF ListInv, Others, SameLists, JobInv, Iterating, Copying, Unreadable, At, This
<1>15. TestingInv'
  BY <1>1, <1>7 DEF TestingInv, SameLists, Running, Unreadable, At, This
<1>16. Iterating' => job'.j = 1 \/ (Iterating /\ job'.j = job.j /\ job'.cfg = job.cfg)
  BY DEF Iterating, Copying, Unreadable, At, This
<1>17. CountInv'
  BY <1>7, <1>8, <1>8b, <1>11, <1>16, CountKept DEF SameLists
<1>18. RoundInv'
  BY <1>1, <1>3, <1>6b, <1>7, <1>8, <1>8b, <1>8c, FieldTypes, ZenonT(60)
  DEF RoundInv, SameLists, Copying, JobInv, ListInv, Unreadable, At, This
<1>19. DoneIsTested'
  BY <1>8, <1>8b DEF DoneIsTested
<1>20. \A c \in Files \ hist'.cut : Have(c) \subseteq Have(c)'
  BY <1>6b DEF Have, Others, SameReports, JobInv, SoundInv, ReportInv, Unreadable, At, This
<1>21. HaveInv'
  BY <1>8, <1>8b, <1>20, HaveKept
<1>22. SoundInv'
  BY <1>6b DEF SoundInv, Others, SameReports, JobInv, Unreadable, At, This
<1>23. ReportInv'
  BY <1>1, <1>7
  DEF ReportInv, Others, SameReports, SoundInv, JobInv, Copying, Unreadable, At, This
<1> QED
  BY <1>8, <1>12, <1>13, <1>14, <1>15, <1>17, <1>18, <1>19, <1>21, <1>22, <1>23 DEF ReqInv

\* check gives up: nothing is finished, and what is left is not counted on.
LEMMA CheckGivesUpKeeps ==
  ASSUME Inv, CheckGivesUp
  PROVE  Inv'
<1> USE DEF Inv
<1>1. /\ job.cfg \in Files /\ job \in JobType /\ job.pc \in {"check", "testing"}
      /\ hist \in HistType
  BY DEF Types, JobInv, CheckGivesUp, At
<1>2. job' = [pc |-> "copy", ret |-> "fsck", cfg |-> job.cfg, j |-> job.j,
              kept |-> job.kept, todo |-> job.todo, ran |-> {}, repeats |-> 0,
              new |-> job.new]
  BY <1>1, Zenon DEF CheckGivesUp, JobType
<1>3. /\ job'.pc = "copy" /\ job'.ret = "fsck" /\ job'.cfg = job.cfg /\ job'.j = job.j
      /\ job'.repeats = 0
  BY <1>2
<1>4. UNCHANGED <<request, disk, completed, finished>>
  BY DEF CheckGivesUp
<1> DEFINE given == [hist.unrun EXCEPT ![job.cfg] = @ \cup job.todo]
<1>5. hist' = [crashes |-> hist.crashes, torn |-> hist.torn, cut |-> hist.cut,
               skipped |-> hist.skipped, unrun |-> given]
  BY <1>1, Zenon DEF CheckGivesUp, HistType
<1>6. hist.unrun \in [Files -> SUBSET Tests] /\ job.todo \subseteq Tests
  BY <1>1, FieldTypes, Zenon DEF HistType
<1>7. /\ given \in [Files -> SUBSET Tests]
      /\ given[job.cfg] = hist.unrun[job.cfg] \cup job.todo
      /\ \A c \in Files : hist.unrun[c] \subseteq given[c]
  BY <1>1, <1>6
<1> HIDE DEF given
<1>8. /\ hist'.crashes = hist.crashes /\ hist'.torn = hist.torn /\ hist'.cut = hist.cut
      /\ hist'.unrun = given
  BY <1>5
<1>9. hist' \in HistType
  BY <1>1, <1>5, <1>7, Zenon DEF HistType
<1>10. job' \in JobType
  <2>1. 0 \in Nat /\ {} \in SUBSET Tests
    OBVIOUS
  <2> QED
    BY <1>1, <1>2, <2>1, Zenon DEF JobType, Labels
<1>11. Types'
  BY <1>4, <1>9, <1>10 DEF Types
<1>12. JobInv'
  <2>1. 0 <= request.loop
    BY DEF ReqInv
  <2> QED
    BY <1>1, <1>3, <1>4, <1>8, <2>1 DEF JobInv, Iterating, Copying
<1>13. ListInv' /\ TestingInv'
  BY <1>1, <1>3, <1>4, <1>8 DEF ListInv, TestingInv, Iterating, Copying
<1>14. Iterating' => job'.j = 1 \/ (Iterating /\ job'.j = job.j /\ job'.cfg = job.cfg)
  BY <1>1, <1>3 DEF Iterating
<1>15. CountInv'
  BY <1>4, <1>7, <1>8, <1>10, <1>14, CountKept
<1>16. RoundInv'
  <2> SUFFICES ASSUME job.cfg \notin hist.torn
               PROVE  \A t \in Tests \ given[job.cfg] : finished[job.cfg][t] >= job.j
    BY <1>3, <1>4, <1>8 DEF RoundInv
  <2> QED
    BY <1>1, <1>7 DEF RoundInv
<1>17. DoneIsTested'
  BY <1>4, <1>7, <1>8 DEF DoneIsTested, Types
<1>18. HaveInv'
  BY <1>1, <1>3, <1>4, <1>8, HaveKept DEF Have
<1>19. SoundInv'
  BY <1>1, <1>3, <1>4, <1>8 DEF SoundInv
<1>20. ReportInv'
  BY <1>3, <1>4, <1>8 DEF ReportInv
<1> QED
  BY <1>4, <1>11, <1>12, <1>13, <1>15, <1>16, <1>17, <1>18, <1>19, <1>20 DEF ReqInv

LEMMA FinishKeeps ==
  ASSUME Inv, Finish
  PROVE  Inv'
<1> USE DEF Inv
<1>1. /\ job.cfg \in Files /\ job \in JobType /\ disk[job.cfg] \in FilesOfConfig
      /\ completed \subseteq Files
  BY DEF Types, JobInv, Finish, At
<1>2. job' = [pc |-> "next", ret |-> job.ret, cfg |-> job.cfg, j |-> 0, kept |-> job.kept,
              todo |-> job.todo, ran |-> job.ran, repeats |-> job.repeats,
              new |-> job.new]
  BY <1>1, Zenon DEF Finish, Goto, This, JobType
<1>3. /\ job'.pc = "next" /\ job'.ret = job.ret /\ job'.cfg = job.cfg /\ job'.j = 0
      /\ job'.kept = job.kept /\ job'.todo = job.todo /\ job'.ran = job.ran
      /\ job'.repeats = job.repeats /\ job'.new = job.new
  BY <1>2
<1>7. disk' = disk
  BY DEF Finish
<1>8. UNCHANGED <<request, finished, hist>>
  BY DEF Finish
<1>8d. completed' = completed \cup {job.cfg}
  BY DEF Finish
<1>10. 0 \in Nat /\ 0 <= request.rpt /\ 0 <= request.loop
  BY DEF ReqInv
<1>11. job' \in JobType
  BY <1>1, Zenon DEF JobType, Labels, JobInv, Copying, Finish, At
<1>12. Types'
  BY <1>1, <1>7, <1>8, <1>8d, <1>11 DEF Types
<1>13. JobInv'
  BY <1>3, <1>10, Zenon DEF JobInv, ReqInv, Iterating, Copying, Finish, At, This
<1>14. ListInv'
  BY DEF ListInv, Others, SameLists, JobInv, Iterating, Copying, Finish, At, This
<1>15. TestingInv'
  BY DEF TestingInv, SameLists, Running, Finish, At, This
<1>16. Iterating' => job'.j = 1 \/ (Iterating /\ job'.j = job.j /\ job'.cfg = job.cfg)
  BY DEF Iterating, Copying, Finish, At, This
<1>17. CountInv'
  BY <1>7, <1>8, <1>11, <1>16, CountKept DEF SameLists
<1>18. RoundInv'
  BY <1>3, Zenon DEF RoundInv, SameLists, Copying, JobInv, ListInv, Finish, At, This
<1>19. DoneIsTested'
  BY DEF DoneIsTested, RoundInv, Finish, At
<1>20. \A c \in Files \ hist'.cut : Have(c) \subseteq Have(c)'
  BY DEF Have, Others, SameReports, JobInv, SoundInv, ReportInv, Finish, At, This
<1>21. HaveInv'
  BY <1>8, <1>20, HaveKept
<1>22. SoundInv'
  BY DEF SoundInv, Others, SameReports, JobInv, Finish, At, This
<1>23. ReportInv'
  BY DEF ReportInv, Others, SameReports, SoundInv, JobInv, Copying, Finish, At, This
<1> QED
  BY <1>8, <1>12, <1>13, <1>14, <1>15, <1>17, <1>18, <1>19, <1>21, <1>22, <1>23 DEF ReqInv

LEMMA CrashKeeps ==
  ASSUME Inv, Crash
  PROVE  Inv'
<1> USE DEF Inv
<1>1. job \in JobType /\ completed \subseteq Files
  BY DEF Types
<1>2. job' = [pc |-> "next", ret |-> "", cfg |-> <<>>, j |-> 0, kept |-> <<>>,
              todo |-> {}, ran |-> {}, repeats |-> 0, new |-> {}]
  BY Zenon DEF Crash, Goto, This, JobType, BootJob
<1>3. /\ job'.pc = "next" /\ job'.ret = "" /\ job'.cfg = <<>> /\ job'.j = 0
      /\ job'.kept = <<>> /\ job'.todo = {} /\ job'.ran = {} /\ job'.repeats = 0
      /\ job'.new = {}
  BY <1>2, Zenon
<1>7. disk' = disk
  BY DEF Crash
<1>8. UNCHANGED <<request, completed, finished>>
  BY DEF Crash
<1>8a. hist' = [crashes |-> hist.crashes + 1,
                torn |-> (IF job.pc = "listing" THEN hist.torn \cup {job.cfg} ELSE hist.torn),
                cut |-> (IF job.pc \in {"renamed", "updating"} THEN hist.cut \cup {job.cfg} ELSE hist.cut),
                skipped |-> hist.skipped, unrun |-> hist.unrun]
  BY Zenon DEF Types, HistType, Crash, At
<1>8b. /\ hist'.crashes = hist.crashes + 1
       /\ hist'.torn = (IF job.pc = "listing" THEN hist.torn \cup {job.cfg} ELSE hist.torn)
       /\ hist'.cut = (IF job.pc \in {"renamed", "updating"} THEN hist.cut \cup {job.cfg} ELSE hist.cut)
       /\ hist'.skipped = hist.skipped /\ hist'.unrun = hist.unrun
  BY <1>8a
<1>8f. /\ hist.crashes + 1 \in Nat /\ hist.crashes + 1 <= request.crashes
       /\ job.pc \in {"listing", "renamed", "updating"} => job.cfg \in Files
       /\ hist.torn \subseteq Files /\ hist.cut \subseteq Files
  <2>1. hist.crashes < request.crashes
    BY DEF Crash
  <2>2. hist.crashes \in Nat /\ hist.torn \subseteq Files /\ hist.cut \subseteq Files
    BY FieldTypes, Zenon
  <2>3. request.crashes \in Nat
    BY DEF ReqInv
  <2>4. job.pc \in {"listing", "renamed", "updating"} => job.cfg \in Files
    BY DEF JobInv
  <2> QED
    BY <2>1, <2>2, <2>3, <2>4
<1>8e. /\ hist.crashes + 1 \in Nat /\ hist.crashes + 1 <= request.crashes
       /\ hist.torn \subseteq hist'.torn /\ hist.cut \subseteq hist'.cut
       /\ hist'.torn \in SUBSET Files /\ hist'.cut \in SUBSET Files
       /\ job.pc = "listing" => job.cfg \in hist'.torn
       /\ job.pc \in {"renamed", "updating"} => job.cfg \in hist'.cut
  BY <1>8b, <1>8f
<1>8c. hist' \in HistType
  BY <1>8a, <1>8e DEF Types, HistType
<1>10. <<>> \in Seq(Tests) /\ 0 \in Nat /\ 0 <= request.rpt /\ 0 <= request.loop
  BY DEF ReqInv
<1>11. job' \in JobType
  BY <1>2, <1>10, Zenon DEF JobType, Labels
<1>12. Types'
  BY <1>7, <1>8, <1>8c, <1>11 DEF Types
<1>13. JobInv'
  BY <1>8b, <1>8e, <1>10, Zenon
  DEF JobInv, ReqInv, Iterating, Copying, Crash, At, This, BootJob
<1>14. ListInv'
  BY <1>1, <1>3, <1>7, <1>8, <1>8b, <1>8e, <1>8c, <1>10, ZenonT(60)
  DEF ListInv, Others, SameLists, JobInv, Iterating, Copying, Crash, At, This, BootJob
<1>15. TestingInv'
  BY Zenon DEF TestingInv, SameLists, Running, Crash, At, This, BootJob
<1>16. Iterating' => job'.j = 1 \/ (Iterating /\ job'.j = job.j /\ job'.cfg = job.cfg)
  BY Zenon DEF Iterating, Copying, Crash, At, This, BootJob
<1>17. CountInv'
  BY <1>7, <1>8, <1>8b, <1>11, <1>16, CountKept DEF SameLists
<1>18. RoundInv'
  BY Zenon DEF RoundInv, SameLists, Copying, JobInv, ListInv, Crash, At, This, BootJob
<1>19. DoneIsTested'
  BY <1>8, <1>8b, Zenon DEF DoneIsTested
<1>20. \A c \in Files \ hist'.cut : Have(c) \subseteq Have(c)'
  BY <1>8e, Zenon
  DEF Have, Others, SameReports, JobInv, SoundInv, ReportInv, Crash, At, This, BootJob
<1>21. HaveInv'
  BY <1>8, <1>8b, <1>20, HaveKept
<1>22. SoundInv'
  BY <1>3, <1>7, <1>8e, Zenon DEF SoundInv
<1>23. ReportInv'
  BY <1>1, <1>3, <1>7, <1>8, <1>8b, <1>8e, <1>8c, <1>10, ZenonT(60)
  DEF ReportInv, Others, SameReports, SoundInv, JobInv, Copying, Crash, At, This, BootJob
<1> QED
  BY <1>8, <1>12, <1>13, <1>14, <1>15, <1>17, <1>18, <1>19, <1>21, <1>22, <1>23 DEF ReqInv

-----------------------------------------------------------------------------
(* The invariant *)

\* A step that changes env at most.
LEMMA SameKeeps ==
  ASSUME Inv, UNCHANGED <<request, disk, completed, job, finished, hist>>
  PROVE  Inv'
<1>1. ReqInv' /\ Types' /\ JobInv'
  BY DEF Inv, ReqInv, Types, JobInv, Iterating
<1>2. ListInv' /\ TestingInv'
  BY DEF Inv, ListInv, TestingInv, Iterating, Running
<1>3. CountInv' /\ RoundInv' /\ DoneIsTested'
  BY ZenonT(60) DEF Inv, CountInv, RoundInv, DoneIsTested, Base, Iterating
<1>4. HaveInv' /\ SoundInv' /\ ReportInv'
  BY Zenon DEF Inv, HaveInv, SoundInv, ReportInv, Have
<1> QED
  BY <1>1, <1>2, <1>3, <1>4 DEF Inv

LEMMA Initially ==
  ASSUME Init
  PROVE  Inv
<1>1. ReqInv
  BY RunAssumption DEF Init, ReqInv
<1>2. /\ job.pc = "next" /\ job.ret = "" /\ job.cfg = <<>> /\ job.j = 0 /\ job.kept = <<>>
      /\ job.todo = {} /\ job.ran = {} /\ job.repeats = 0 /\ job.new = {}
      /\ completed = {} /\ hist.crashes = 0 /\ hist.torn = {} /\ hist.cut = {}
  BY Zenon DEF Init, BootJob
<1>3. \A c \in Files : disk[c] = NoFiles /\ \A t \in Tests : finished[c][t] = 0
  BY DEF Init
<1>4. \A c \in Files : /\ ~disk[c].listed /\ disk[c].sound
                       /\ disk[c].log = <<>> /\ disk[c].report = {}
                       /\ disk[c].results = "none" /\ disk[c].cases = {}
  BY <1>3 DEF NoFiles
<1>5. Types
  <2>1. job \in JobType
    <3>1. <<>> \in Seq(Tests) /\ 0 \in Nat
      OBVIOUS
    <3> QED
      BY <3>1, Zenon DEF Init, BootJob, JobType, Labels
  <2>2. hist \in HistType
    BY DEF Init, HistType
  <2>3. NoFiles \in FilesOfConfig
    <3>1. <<>> \in Seq(Tests)
      OBVIOUS
    <3> QED
      BY DEF NoFiles, FilesOfConfig
  <2>4. disk \in [Files -> FilesOfConfig]
    BY <2>3 DEF Init
  <2>5. finished \in [Files -> [Tests -> Nat]]
    BY DEF Init
  <2> QED
    BY <1>2, <2>1, <2>2, <2>4, <2>5, Zenon DEF Types
<1>6. JobInv
  <2>1. 0 <= request.rpt /\ 0 <= request.loop /\ 0 <= request.crashes
    BY <1>1 DEF ReqInv
  <2> QED
    BY <1>2, <1>3, <2>1, Zenon DEF JobInv, Iterating, Copying
<1>7. ListInv /\ TestingInv /\ RoundInv /\ DoneIsTested
  BY <1>2, <1>4, Zenon DEF ListInv, TestingInv, RoundInv, DoneIsTested, Iterating, Copying
<1>8. CountInv
  <2>1. \A c \in Files : Base(c) = 0 /\ disk[c].log = <<>>
    BY <1>2, <1>4, Zenon DEF Base, Iterating, Copying
  <2> QED
    BY <1>3, <2>1 DEF CountInv
<1>9. HaveInv
  BY <1>3 DEF HaveInv
<1>10. SoundInv
  BY <1>4 DEF SoundInv
<1>11. ReportInv
  BY <1>2, <1>4, Zenon DEF ReportInv
<1> QED
  BY <1>1, <1>5, <1>6, <1>7, <1>8, <1>9, <1>10, <1>11 DEF Inv

LEMMA StepKeeps ==
  ASSUME Inv, [Next]_vars
  PROVE  Inv'
<1>1. CASE UNCHANGED vars
  BY <1>1, SameKeeps DEF vars
<1>2. CASE Unknown \/ ExpandList
  <2>1. UNCHANGED <<request, disk, completed, job, finished, hist>>
    BY <1>2, Zenon DEF Unknown, ExpandList
  <2> QED
    BY <2>1, SameKeeps
<1>3. CASE \/ SourceConfig \/ Skip \/ AlreadyRun \/ Begin \/ Report
           \/ Formatted \/ UseList \/ CheckEnds
  BY <1>3, ControlKeeps
<1>4. CASE CopyXunitResults
  BY <1>4, CopyNoneKeeps, MergeBackupKeeps, MergeRenameKeeps, MergeFailsKeeps,
     UpdateOpenKeeps, UpdateDoneKeeps, UpdateFailsKeeps, RemoveResultKeeps DEF
     CopyXunitResults
<1>5. CASE OpenList \/ Trim \/ Finish
  BY <1>5, OpenListKeeps, TrimKeeps, FinishKeeps
<1>6. CASE \E n \in Tests : WriteList(n)
  BY <1>6, WriteLastKeeps, WriteSomeKeeps
<1>7. CASE FirstRun \/ Move \/ EndIteration
  BY <1>7, FirstRunKeeps, MoveKeeps, NextIterationKeeps, LastIterationKeeps
<1>8. CASE (\E t \in Tests : LogTest(t)) \/ TestEnds \/ TestAgain
  BY <1>8, LogTestKeeps, TestEndsKeeps, TestAgainKeeps
<1>9. CASE Unreadable \/ CheckGivesUp \/ Crash
  BY <1>9, UnreadableKeeps, CheckGivesUpKeeps, CrashKeeps
<1> QED
  BY <1>1, <1>2, <1>3, <1>4, <1>5, <1>6, <1>7, <1>8, <1>9
  DEF Next, Script, NextConfig, Iterate, Check

\* The invariant holds however often the VM crashes.
THEOREM Invariance == Spec => []Inv
<1>1. Init => Inv
  BY Initially
<1>2. Inv /\ [Next]_vars => Inv'
  BY StepKeeps
<1> QED
  BY <1>1, <1>2, PTL DEF Spec

-----------------------------------------------------------------------------
(* The theorems about crashes and restarts *)

\* However often the VM crashes, a configuration in fstest-completed has had
\* every test run to the end RPT_COUNT times (runtests.sh:609-643), but for
\* the crash that cuts tests-to-run short and the tests that a check had left
\* when it gave up.
THEOREM TestedBeforeDone == Spec => []DoneIsTested
<1>1. Inv => DoneIsTested
  BY DEF Inv
<1> QED
  BY <1>1, Invariance, PTL

\* ... and has the test cases of all of these in its results.xml (runtests.sh:
\* 19-38), but for the crashes inside merge_xunit and update_properties_xunit
\* and a report that is no XML.
THEOREM ResultsAreKept == Spec => []ResultsKept
<1>1. ASSUME Inv
      PROVE  ResultsKept
  <2> SUFFICES ASSUME NEW c \in completed \ (hist.torn \cup hist.cut),
                      NEW t \in Tests \ hist.unrun[c]
               PROVE  disk[c].results = "whole" /\ t \in disk[c].cases
    BY DEF ResultsKept
  <2>1. /\ ReqInv /\ Types /\ JobInv /\ DoneIsTested /\ HaveInv /\ ReportInv
    BY <1>1 DEF Inv
  <2>2. c \in Files /\ request.rpt \in Nat \ {0}
    BY <2>1 DEF Types, ReqInv
  <2>3. finished[c][t] \in Nat
    BY <2>1, <2>2, FieldTypes, Zenon
  <2>4. finished[c][t] >= request.rpt
    BY <2>1 DEF DoneIsTested
  <2>5. finished[c][t] >= 1
    BY <2>2, <2>3, <2>4
  <2>6. Have(c) = disk[c].cases
    BY <2>1 DEF Have, ReportInv, JobInv
  <2>7. t \in disk[c].cases
    BY <2>1, <2>2, <2>5, <2>6 DEF HaveInv
  <2>8. disk[c].results = "whole"
    BY <2>1, <2>2, <2>7 DEF ReportInv
  <2> QED
    BY <2>7, <2>8
<1> QED
  BY <1>1, Invariance, PTL

\* No step touches the files of a configuration in fstest-completed, or runs
\* a test of it again (runtests.sh:464-471).
THEOREM DoneIsLeftAlone == Spec => DoneStays
<1>1. ASSUME Inv, [Next]_vars
      PROVE  [\A c \in completed : c \in completed' /\ disk'[c] = disk[c]
                                   /\ finished'[c] = finished[c]]_vars
  <2> SUFFICES ASSUME Next, NEW c \in completed
               PROVE  c \in completed' /\ disk'[c] = disk[c] /\ finished'[c] = finished[c]
    BY <1>1
  <2>1. c \in Files /\ disk \in [Files -> FilesOfConfig] /\ finished \in [Files -> [Tests -> Nat]]
    BY <1>1 DEF Inv, Types
  <2>2. job.pc \notin {"next", "ready", "over"} => c # job.cfg
    BY <1>1 DEF Inv, JobInv
  <2>3. \A r : c # job.cfg /\ Put(r) => disk'[c] = disk[c]
    BY DEF Put
  <2>4. \A t : c # job.cfg /\ Count(t) => finished'[c] = finished[c]
    BY DEF Count
  <2>5. CASE NextConfig
    BY <2>5, Zenon
    DEF NextConfig, Unknown, ExpandList, SourceConfig, Skip, AlreadyRun, Begin, Report
  <2>6. CASE CopyXunitResults
    BY <2>2, <2>3, <2>6 DEF CopyXunitResults, CopyNone, MergeBackup, MergeRename,
       MergeFails, UpdateOpen, UpdateDone, UpdateFails, RemoveResult, At
  <2>7. CASE Iterate
    BY <2>2, <2>3, <2>7, Zenon DEF Iterate, Formatted, UseList, OpenList, WriteList,
       FirstRun, Trim, Move, EndIteration, Finish, At
  <2>8. CASE Check
    BY <2>2, <2>3, <2>4, <2>8, Zenon DEF Check, LogTest, TestEnds, TestAgain, CheckEnds, At
  <2>9. CASE Unreadable \/ CheckGivesUp \/ Crash
    BY <2>2, <2>3, <2>9 DEF Unreadable, CheckGivesUp, Crash, At
  <2> QED
    BY <2>5, <2>6, <2>7, <2>8, <2>9 DEF Next, Script
<1> QED
  BY <1>1, Invariance, PTL DEF Spec, DoneStays

-----------------------------------------------------------------------------
(* The devices *)

LEMMA FreeIsFree ==
  ASSUME NEW used, \E d \in {"SM_TST", "LG_TST", "PRI_TST"} : d \notin used
  PROVE  /\ FirstFree(used) \in {"SM_SCR", "LG_SCR", "SM_TST", "LG_TST", "PRI_TST"}
         /\ FirstFree(used) \notin used
<1> DEFINE order == <<"SM_SCR", "LG_SCR", "SM_TST", "LG_TST", "PRI_TST">>
           free == {i \in DOMAIN order : order[i] \notin used}
<1>1. DOMAIN order = 1..5 /\ free \subseteq 1..5
  OBVIOUS
<1>2. free # {}
  <2>1. order[3] = "SM_TST" /\ order[4] = "LG_TST" /\ order[5] = "PRI_TST"
    OBVIOUS
  <2> QED
    OBVIOUS
<1>3. 1 \in free \/ 2 \in free \/ 3 \in free \/ 4 \in free \/ 5 \in free
  <2> HIDE DEF free
  <2>1. PICK k \in free : TRUE
    BY <1>2
  <2>2. k = 1 \/ k = 2 \/ k = 3 \/ k = 4 \/ k = 5
    BY <1>1
  <2> QED
    BY <2>2
<1>6. \E i \in free : \A k \in free : i <= k
  <2> HIDE DEF free
  <2>1. \A k \in free : k = 1 \/ k = 2 \/ k = 3 \/ k = 4 \/ k = 5
    BY <1>1
  <2> QED
    BY <1>3, <2>1
<1> DEFINE first == CHOOSE j \in free : \A k \in free : j <= k
<1>7. first \in free
  <2> HIDE DEF free
  <2> QED
    BY <1>6
<1>8. FirstFree(used) = order[first]
  BY <1>2, Zenon DEF FirstFree
<1> HIDE DEF first
<1>9. first \in 1..5 /\ order[first] \notin used
  BY <1>7
<1> QED
  BY <1>8, <1>9

\* The devices a configuration is given: the values, and that they differ.
LEMMA AssignIsApart ==
  ASSUME env.dev["LOGWRITES_DEV"] \in {"", "SM_SCR", "LG_SCR"}, NEW c \in Files
  PROVE  /\ Assign(env.dev, c) \in [Slots -> Values]
         /\ Assign(env.dev, c)["LOGWRITES_DEV"] \in {"", "SM_SCR", "LG_SCR"}
         /\ \A s, u \in Slots : s # u /\ Assign(env.dev, c)[s] # "" =>
              Assign(env.dev, c)[s] # Assign(env.dev, c)[u]
<1> DEFINE T == TestDev(c)
           S == ScratchDev(c)
           L == LogwritesDev(env.dev, c)
           log(d) == IF Sets[c].log THEN d ELSE ""
           used == InUse(T, S, L, {log("TINY_SCR"), log("TINY_TST")})
           F == FirstFree(used)
           G == FirstFree(used \cup {F})
           rt(d) == IF Sets[c].rt THEN d ELSE ""
           a == Assign(env.dev, c)
           Chain == {"SM_SCR", "LG_SCR", "SM_TST", "LG_TST", "PRI_TST"}
<1>1. /\ T \in {"own_test", "LG_TST", "PRI_TST", "SM_TST"}
      /\ S \in {"own_scratch", "LG_SCR", "SM_SCR"}
      /\ L \in {"", "SM_SCR", "LG_SCR"} /\ S # L
  BY Zenon DEF TestDev, ScratchDev, LogwritesDev
<1>2. /\ log("TINY_SCR") \in {"TINY_SCR", ""} /\ log("TINY_TST") \in {"TINY_TST", ""}
      /\ used = {T, S, L, log("TINY_SCR"), log("TINY_TST")}
  BY Zenon DEF InUse
<1>3. /\ a \in [Slots -> {a[s] : s \in Slots}]
      /\ a["TEST_DEV"] = T /\ a["SCRATCH_DEV"] = S /\ a["LOGWRITES_DEV"] = L
      /\ a["SCRATCH_LOGDEV"] = log("TINY_SCR") /\ a["TEST_LOGDEV"] = log("TINY_TST")
      /\ a["SCRATCH_RTDEV"] = rt(F) /\ a["TEST_RTDEV"] = rt(G)
  BY Zenon DEF Assign, Slots
<1> DEFINE ls == log("TINY_SCR")
           lt == log("TINY_TST")
           rs == rt(F)
           re == rt(G)
<1>4. ls \in {"TINY_SCR", ""} /\ lt \in {"TINY_TST", ""} /\ used = {T, S, L, ls, lt}
  BY <1>2, Zenon
<1>5. rs \in {F, ""} /\ re \in {G, ""}
  BY Zenon
<1> HIDE DEF T, S, L, ls, lt, rs, re, used, F, G, a
<1>6. F \in Chain /\ F \notin used
  <2>1. \E d \in {"SM_TST", "LG_TST", "PRI_TST"} : d \notin used
    BY <1>1, <1>4, Zenon
  <2> QED
    BY <2>1, FreeIsFree, Zenon DEF F
<1>7. G \in Chain /\ G \notin used /\ G # F
  <2>1. \E d \in {"SM_TST", "LG_TST", "PRI_TST"} : d \notin used \cup {F}
    BY <1>1, <1>4, Zenon
  <2>2. G \in Chain /\ G \notin used \cup {F}
    BY <2>1, FreeIsFree, Zenon DEF G
  <2> QED
    BY <2>2, Zenon
<1>8. /\ a["TEST_DEV"] = T /\ a["SCRATCH_DEV"] = S /\ a["LOGWRITES_DEV"] = L
      /\ a["SCRATCH_LOGDEV"] = ls /\ a["TEST_LOGDEV"] = lt
      /\ a["SCRATCH_RTDEV"] = rs /\ a["TEST_RTDEV"] = re
  BY <1>3, Zenon DEF ls, lt, rs, re
<1>9. \A s, u \in Slots : s # u /\ a[s] # "" => a[s] # a[u]
  <2>1. /\ T # S /\ T # L /\ T # ls /\ T # lt /\ T # rs /\ T # re
    BY <1>1, <1>4, <1>5, <1>6, <1>7, Zenon
  <2>2. /\ S # L /\ S # ls /\ S # lt /\ S # rs /\ S # re
    BY <1>1, <1>4, <1>5, <1>6, <1>7, Zenon
  <2>3. L # "" => L # ls /\ L # lt /\ L # rs /\ L # re
    BY <1>1, <1>4, <1>5, <1>6, <1>7, Zenon
  <2>4. /\ ls # "" => ls # L /\ ls # lt /\ ls # rs /\ ls # re
        /\ lt # "" => lt # L /\ lt # ls /\ lt # rs /\ lt # re
    BY <1>1, <1>4, <1>5, <1>6, <1>7, Zenon
  <2>5. /\ rs # "" => rs # L /\ rs # ls /\ rs # lt /\ rs # re
        /\ re # "" => re # L /\ re # ls /\ re # lt /\ re # rs
    BY <1>4, <1>5, <1>6, <1>7, Zenon
  <2> QED
    BY <1>8, <2>1, <2>2, <2>3, <2>4, <2>5, Zenon DEF Slots
<1>10. \A s \in Slots : a[s] \in Values
  BY <1>1, <1>4, <1>5, <1>6, <1>7, <1>8, Zenon DEF Slots, Values, Devices
<1>11. a \in [Slots -> Values]
  BY <1>3, <1>10, Zenon
<1> QED
  BY <1>1, <1>8, <1>9, <1>11, Zenon DEF a

LEMMA DevicesKeep ==
  ASSUME DevInv, [Next]_vars
  PROVE  DevInv'
<1>1. CASE env' = env
  BY <1>1, Zenon DEF DevInv, DevicesApart
<1>2. ASSUME NEW words, SetWork(words)
      PROVE  DevInv'
  BY <1>2, Zenon DEF SetWork, DevInv, DevicesApart
<1>3. CASE SourceConfig
  <2> DEFINE c == Resolve(Head(env.work))
             a == Assign(env.dev, c)
             pool == env.pool \/ Sets[c].pool
  <2>1. c \in Files
    BY <1>3, Zenon DEF SourceConfig, IsConfig
  <2>2. /\ env'.pool = pool
        /\ env'.dev = IF pool THEN [a EXCEPT !["SCRATCH_DEV"] = ""] ELSE a
    BY <1>3, Zenon DEF SourceConfig
  <2>3. /\ a \in [Slots -> Values] /\ a["LOGWRITES_DEV"] \in {"", "SM_SCR", "LG_SCR"}
        /\ \A s, u \in Slots : s # u /\ a[s] # "" => a[s] # a[u]
    <3>1. env.dev["LOGWRITES_DEV"] \in {"", "SM_SCR", "LG_SCR"}
      BY Zenon DEF DevInv
    <3> HIDE DEF c
    <3> QED
      BY <2>1, <3>1, AssignIsApart, Zenon
  <2>4. pool \in BOOLEAN
    OBVIOUS
  <2> HIDE DEF a, c, pool
  <2>5. CASE pool
    <3>1. env'.dev = [a EXCEPT !["SCRATCH_DEV"] = ""] /\ env'.pool
      BY <2>2, <2>5, Zenon
    <3>2. "" \in Values /\ "SCRATCH_DEV" \in Slots /\ "LOGWRITES_DEV" \in Slots
      BY DEF Values, Slots
    <3>3. env'.dev \in [Slots -> Values] /\ env'.dev["LOGWRITES_DEV"] = a["LOGWRITES_DEV"]
      BY <2>3, <3>1, <3>2, Zenon
    <3> QED
      BY <2>2, <2>3, <2>4, <3>3, Zenon DEF DevInv, DevicesApart
  <2>6. CASE ~pool
    <3>1. env'.dev = a
      BY <2>2, <2>6
    <3> QED
      BY <2>2, <2>3, <2>4, <3>1, Zenon DEF DevInv, DevicesApart
  <2> QED
    BY <2>5, <2>6
<1>4. CASE Crash
  <2>1. env'.dev = NoDevices /\ env'.pool = FALSE
    BY <1>4 DEF Crash, BootEnv
  <2>2. NoDevices \in [Slots -> Values] /\ \A s \in Slots : NoDevices[s] = ""
    BY DEF NoDevices, Values
  <2> QED
    BY <2>1, <2>2, Zenon DEF DevInv, DevicesApart, Slots
<1>5. \/ env' = env \/ SourceConfig \/ Crash \/ \E words : SetWork(words)
  <2>1. CASE UNCHANGED vars
    BY <2>1 DEF vars
  <2>2. CASE Unknown \/ ExpandList
    BY <2>2, Zenon DEF Unknown, ExpandList
  <2>3. CASE Skip \/ AlreadyRun \/ Begin \/ Report
    BY <2>3, Zenon DEF Skip, AlreadyRun, Begin, Report
  <2>4. CASE CopyXunitResults
    BY <2>4, Zenon DEF CopyXunitResults, CopyNone, MergeBackup, MergeRename, MergeFails,
       UpdateOpen, UpdateDone, UpdateFails, RemoveResult
  <2>5. CASE Iterate
    BY <2>5, Zenon DEF Iterate, Formatted, UseList, OpenList, WriteList, FirstRun, Trim,
       Move, EndIteration, Finish
  <2>6. CASE Check \/ Unreadable \/ CheckGivesUp
    BY <2>6, Zenon DEF Check, LogTest, TestEnds, TestAgain, CheckEnds, Unreadable, CheckGivesUp
  <2> QED
    BY <2>1, <2>2, <2>3, <2>4, <2>5, <2>6 DEF Next, Script, NextConfig
<1> QED
  BY <1>1, <1>2, <1>3, <1>4, <1>5

LEMMA DevInvariance == Spec => []DevInv
<1>1. Init => DevInv
  <2> SUFFICES ASSUME Init PROVE DevInv
    OBVIOUS
  <2>1. env.dev = NoDevices /\ env.pool = FALSE
    BY DEF Init, BootEnv
  <2>2. NoDevices \in [Slots -> Values] /\ \A s \in Slots : NoDevices[s] = ""
    BY DEF NoDevices, Values
  <2> QED
    BY <2>1, <2>2, Zenon DEF DevInv, DevicesApart, Slots
<1>2. DevInv /\ [Next]_vars => DevInv'
  BY DevicesKeep
<1> QED
  BY <1>1, <1>2, PTL DEF Spec

\* The devices the tests of a configuration are given are different ones,
\* whatever the configuration before it left in LOGWRITES_DEV (runtests.sh:
\* 337-422), as long as no scratch pool is set up.
THEOREM DevicesAreApart == Spec => []DevicesApart
<1>1. DevInv => DevicesApart
  BY Zenon DEF DevInv
<1> QED
  BY <1>1, DevInvariance, PTL

\* Every variable keeps its type, whatever the tree and the command line.
THEOREM TypeCorrect == Spec => []TypeOK
<1>1. ASSUME Inv, DevInv
      PROVE  TypeOK
  <2>1. ReqInv /\ Types /\ JobInv
    BY <1>1 DEF Inv
  <2>0. request.rpt \in Nat /\ request.loop \in Nat /\ request.crashes \in Nat
    BY <2>1 DEF ReqInv
  <2>2. /\ job \in JobType /\ hist \in HistType /\ disk \in [Files -> FilesOfConfig]
        /\ completed \subseteq Files /\ finished \in [Files -> [Tests -> Nat]]
    BY <2>1 DEF Types
  <2>3. finished \in [Files -> [Tests -> 0..request.rpt]]
    <3>0. /\ \A c \in Files, t \in Tests : finished[c][t] \in Nat
          /\ \A c \in Files, t \in Tests : finished[c][t] <= request.rpt
      BY <2>1, FieldTypes, Zenon DEF JobInv
    <3>1. \A c \in Files, t \in Tests : finished[c][t] \in 0..request.rpt
      BY <3>0
    <3>2. \A c \in Files : finished[c] \in [Tests -> 0..request.rpt]
      BY <2>2, <3>1
    <3> QED
      BY <2>2, <3>2
  <2>4. job.j \in 0..request.rpt /\ job.repeats \in 0..request.loop
    <3>1. job.j \in Nat /\ job.repeats \in Nat
      BY <2>1, FieldTypes, Zenon
    <3>2. job.j <= request.rpt /\ job.repeats <= request.loop
      BY <2>1 DEF JobInv
    <3> QED
      BY <3>1, <3>2
  <2>5. hist.crashes \in 0..request.crashes
    <3>1. hist.crashes \in Nat /\ hist.crashes <= request.crashes
      BY <2>1, FieldTypes, Zenon DEF JobInv
    <3> QED
      BY <3>1
  <2>6. /\ job.cfg \in Files \cup {<<>>} /\ hist.skipped \subseteq Files
        /\ hist.unrun \in [Files -> SUBSET Tests]
    BY <2>2, Zenon DEF JobType, HistType
  <2>7. ~At("next") /\ ~At("over") => job.cfg \in Files
    BY <2>1 DEF JobInv, At
  <2>8. env.dev \in [Slots -> Values] /\ env.pool \in BOOLEAN
    BY <1>1, Zenon DEF DevInv
  <2> QED
    BY <2>1, <2>2, <2>3, <2>4, <2>5, <2>6, <2>7, <2>8, FieldTypes, Zenon DEF TypeOK
<1> QED
  BY <1>1, Invariance, DevInvariance, PTL

-----------------------------------------------------------------------------
(* What was asked for is what is run *)

LEMMA InsideIsIn == \A w : Inside(w) \subseteq AllInside
BY DEF Inside, AllInside, IsList

\* Reached is the least closed set.
LEMMA ReachedIsClosed ==
  ASSUME NEW words
  PROVE  words \subseteq Reached(words) /\ Closed(Reached(words))
<1>1. words \subseteq Reached(words)
  BY DEF Reached
<1>2. ASSUME NEW w \in Reached(words), NEW v \in Inside(w)
      PROVE  v \in Reached(words)
  <2>1. v \in words \cup AllInside
    BY <1>2, InsideIsIn
  <2>2. ASSUME NEW set \in SUBSET (words \cup AllInside), words \subseteq set, Closed(set)
        PROVE  v \in set
    <3>1. w \in set
      BY <2>2 DEF Reached
    <3> QED
      BY <3>1, <2>2, <1>2 DEF Closed
  <2> QED
    BY <2>1, <2>2 DEF Reached
<1> QED
  BY <1>1, <1>2 DEF Closed

LEMMA ReachedIsLeast ==
  ASSUME NEW words, NEW set, words \subseteq set, Closed(set)
  PROVE  Reached(words) \subseteq set
<1> DEFINE part == set \cap (words \cup AllInside)
<1>1. Closed(part)
  BY InsideIsIn DEF Closed
<1>2. part \in SUBSET (words \cup AllInside) /\ words \subseteq part
  OBVIOUS
<1>3. \A w \in Reached(words) : w \in part
  <2> HIDE DEF part
  <2> QED
    BY <1>1, <1>2 DEF Reached
<1> QED
  BY <1>3

LEMMA NoneNamed == Named({}) = {}
<1>1. Reached({}) \subseteq {}
  BY ReachedIsLeast DEF Closed
<1> QED
  BY <1>1 DEF Named

\* A list names what its lines name.
LEMMA ListNames ==
  ASSUME NEW w, NEW rest, IsList(w)
  PROVE  Named({w} \cup rest) = Named(Inside(w) \cup rest)
<1> DEFINE A == Reached({w} \cup rest)
           B == Reached(Inside(w) \cup rest)
<1>1. {w} \cup rest \subseteq A /\ Closed(A)
  BY ReachedIsClosed
<1>2. Inside(w) \cup rest \subseteq B /\ Closed(B)
  BY ReachedIsClosed
<1>3. B \subseteq A
  <2>1. Inside(w) \cup rest \subseteq A
    BY <1>1, Zenon DEF Closed
  <2> QED
    BY <2>1, <1>1, ReachedIsLeast
<1>4. A \subseteq B \cup {w}
  <2>1. Closed(B \cup {w})
    BY <1>2, Zenon DEF Closed
  <2>2. {w} \cup rest \subseteq B \cup {w}
    BY <1>2
  <2> QED
    BY <2>1, <2>2, ReachedIsLeast
<1>5. ~IsConfig(w)
  BY DEF IsConfig
<1> HIDE DEF A, B
<1>6. {v \in A : IsConfig(v)} = {v \in B : IsConfig(v)}
  BY <1>3, <1>4, <1>5
<1> QED
  BY <1>6 DEF Named, A, B

\* Any other word names itself, or nothing.
LEMMA WordNames ==
  ASSUME NEW w, NEW rest, ~IsList(w)
  PROVE  Named({w} \cup rest) = Named(rest) \cup {Resolve(v) : v \in {u \in {w} : IsConfig(u)}}
<1> DEFINE A == Reached({w} \cup rest)
           B == Reached(rest)
<1>1. {w} \cup rest \subseteq A /\ Closed(A)
  BY ReachedIsClosed
<1>2. rest \subseteq B /\ Closed(B)
  BY ReachedIsClosed
<1>3. B \subseteq A
  BY <1>1, ReachedIsLeast
<1>4. A \subseteq B \cup {w}
  <2>1. Closed(B \cup {w})
    BY <1>2 DEF Closed, Inside
  <2>2. {w} \cup rest \subseteq B \cup {w}
    BY <1>2
  <2> QED
    BY <2>1, <2>2, ReachedIsLeast
<1>5. A = B \cup {w}
  BY <1>1, <1>3, <1>4
<1> HIDE DEF A, B
<1> QED
  BY <1>5 DEF Named, A, B

LEMMA HeadAndTail ==
  ASSUME NEW seq \in Seq(Word), seq # <<>>
  PROVE  /\ Members(seq) = {Head(seq)} \cup Members(Tail(seq))
         /\ Tail(seq) \in Seq(Word)
<1>1. DOMAIN seq = 1..Len(seq) /\ Len(seq) \in Nat /\ Len(seq) > 0 /\ Tail(seq) \in Seq(Word)
  OBVIOUS
<1>2. DOMAIN Tail(seq) = 1..(Len(seq) - 1) /\ Head(seq) = seq[1]
  OBVIOUS
<1>3. \A i \in 1..(Len(seq) - 1) : Tail(seq)[i] = seq[i + 1]
  OBVIOUS
<1>4. \A i \in DOMAIN seq : seq[i] \in {Head(seq)} \cup Members(Tail(seq))
  <2> TAKE i \in DOMAIN seq
  <2>1. CASE i = 1
    BY <2>1, <1>2
  <2>2. CASE i # 1
    <3>1. i - 1 \in 1..(Len(seq) - 1) /\ (i - 1) + 1 = i
      BY <2>2, <1>1
    <3> QED
      BY <3>1, <1>2, <1>3 DEF Members
  <2> QED
    BY <2>1, <2>2
<1>5. \A i \in DOMAIN Tail(seq) : Tail(seq)[i] \in Members(seq)
  <2> TAKE i \in DOMAIN Tail(seq)
  <2>1. i + 1 \in DOMAIN seq /\ Tail(seq)[i] = seq[i + 1]
    BY <1>1, <1>2, <1>3
  <2> QED
    BY <2>1 DEF Members
<1>6. Head(seq) \in Members(seq)
  BY <1>1, <1>2 DEF Members
<1> QED
  BY <1>1, <1>4, <1>5, <1>6 DEF Members

\* The words of two sequences put together.
LEMMA Together ==
  ASSUME NEW s \in Seq(Word), NEW u \in Seq(Word)
  PROVE  Members(s \o u) = Members(s) \cup Members(u) /\ s \o u \in Seq(Word)
<1>1. /\ Len(s) \in Nat /\ Len(u) \in Nat /\ DOMAIN s = 1..Len(s) /\ DOMAIN u = 1..Len(u)
      /\ DOMAIN (s \o u) = 1..(Len(s) + Len(u)) /\ s \o u \in Seq(Word)
  OBVIOUS
<1>2. /\ \A i \in 1..Len(s) : (s \o u)[i] = s[i]
      /\ \A i \in 1..Len(u) : (s \o u)[Len(s) + i] = u[i]
  OBVIOUS
<1>3. \A i \in DOMAIN (s \o u) : (s \o u)[i] \in Members(s) \cup Members(u)
  <2> TAKE i \in DOMAIN (s \o u)
  <2>1. CASE i <= Len(s)
    BY <2>1, <1>1, <1>2 DEF Members
  <2>2. CASE i > Len(s)
    <3>1. i - Len(s) \in 1..Len(u) /\ Len(s) + (i - Len(s)) = i
      BY <2>2, <1>1
    <3> QED
      BY <3>1, <1>1, <1>2 DEF Members
  <2> QED
    BY <2>1, <2>2, <1>1
<1>4. \A i \in DOMAIN s : s[i] \in Members(s \o u)
  <2>1. \A i \in DOMAIN s : i \in DOMAIN (s \o u) /\ (s \o u)[i] = s[i]
    BY <1>1, <1>2
  <2> QED
    BY <2>1 DEF Members
<1>5. \A i \in DOMAIN u : u[i] \in Members(s \o u)
  <2>1. \A i \in DOMAIN u : Len(s) + i \in DOMAIN (s \o u) /\ (s \o u)[Len(s) + i] = u[i]
    BY <1>1, <1>2
  <2> QED
    BY <2>1, Zenon DEF Members
<1>6. Members(s) \subseteq Members(s \o u) /\ Members(u) \subseteq Members(s \o u)
  BY <1>4, <1>5, Zenon DEF Members
<1>7. Members(s \o u) \subseteq Members(s) \cup Members(u)
  <2>1. \A w \in Members(s \o u) : \E i \in DOMAIN (s \o u) : w = (s \o u)[i]
    BY Zenon DEF Members
  <2> QED
    BY <2>1, <1>3
<1> QED
  BY <1>1, <1>6, <1>7

\* The configuration the script is in.
Current == IF job.pc \in {"next", "over"} THEN {} ELSE {job.cfg}

\* What FSTESTCFG named at the boot has been run or skipped, is being run, or is
\* named by what is left of it.
AskInv ==
  /\ request.words \in Seq(Word) /\ env.work \in Seq(Word)
  /\ Named(Members(request.words)) =
       completed \cup hist.skipped \cup Current \cup Named(Members(env.work))
  /\ job.pc = "over" => env.work = <<>>

\* A step inside a configuration.
LEMMA InsideKeeps ==
  ASSUME AskInv, UNCHANGED <<request, env, completed>>, hist'.skipped = hist.skipped,
         job'.cfg = job.cfg, job.pc \notin {"next", "over"}, job'.pc \notin {"next", "over"}
  PROVE  AskInv'
<1>1. Current' = Current
  BY DEF Current
<1> QED
  BY <1>1 DEF AskInv

\* The end of a configuration.
LEMMA EndKeeps ==
  ASSUME AskInv, UNCHANGED <<request, env>>, job.pc \notin {"next", "over"}, job'.pc = "next",
         completed' \cup hist'.skipped = completed \cup hist.skipped \cup {job.cfg}
  PROVE  AskInv'
<1>1. Current = {job.cfg} /\ Current' = {}
  BY DEF Current
<1> QED
  BY <1>1 DEF AskInv

LEMMA NextWordKeeps ==
  ASSUME Inv, AskInv, Unknown \/ ExpandList \/ SourceConfig
  PROVE  AskInv'
<1> DEFINE w == Head(env.work)
           rest == Members(Tail(env.work))
<1>1. /\ job.pc = "next" /\ env.work # <<>>
      /\ UNCHANGED <<request, completed, hist>>
  BY Zenon DEF Unknown, ExpandList, SourceConfig, At
<1>2. Members(env.work) = {w} \cup rest /\ Tail(env.work) \in Seq(Word)
  BY <1>1, HeadAndTail DEF AskInv
<1>3. Current = {}
  BY <1>1 DEF Current
<1> HIDE DEF w, rest
<1>4. CASE Unknown
  <2>1. ~IsList(w) /\ ~IsConfig(w) /\ env'.work = Tail(env.work) /\ job' = job
    BY <1>4 DEF Unknown, SetWork, w
  <2>2. Named({w} \cup rest) = Named(rest)
    BY <2>1, WordNames
  <2>3. Members(env.work)' = rest
    BY <2>1 DEF rest, Members
  <2>4. Current' = {}
    BY <1>1, <2>1 DEF Current
  <2> QED
    BY <1>1, <1>2, <1>3, <2>1, <2>2, <2>3, <2>4, Zenon DEF AskInv
<1>5. CASE ExpandList
  <2> DEFINE lines == Lines(Resolve(w)[1], Lists[Resolve(w)])
  <2>1. IsList(w) /\ env'.work = lines \o Tail(env.work) /\ job' = job
    BY <1>5, Zenon DEF ExpandList, SetWork, w
  <2>2. lines \in Seq(Word) /\ Inside(w) = Members(lines)
    BY <2>1, ListAssumption DEF IsList, Inside
  <2> HIDE DEF lines
  <2>3. env'.work \in Seq(Word) /\ Members(env.work)' = Inside(w) \cup rest
    <3>1. Members(lines \o Tail(env.work)) = Members(lines) \cup rest
      BY <1>2, <2>2, Together, Zenon DEF rest
    <3>2. lines \o Tail(env.work) \in Seq(Word)
      BY <1>2, <2>2, Together
    <3> QED
      BY <2>1, <2>2, <3>1, <3>2, Zenon DEF Members
  <2>4. Named({w} \cup rest) = Named(Inside(w) \cup rest)
    BY <2>1, ListNames, Zenon
  <2>5. Current' = {}
    BY <1>1, <2>1 DEF Current
  <2> QED
    BY <1>1, <1>2, <1>3, <2>1, <2>3, <2>4, <2>5, Zenon DEF AskInv
<1>6. CASE SourceConfig
  <2>1. /\ ~IsList(w) /\ IsConfig(w) /\ env'.work = Tail(env.work)
        /\ job'.pc = "ready" /\ job'.cfg = Resolve(w)
    BY <1>6, Zenon DEF SourceConfig, IsConfig, w, Inv, Types, JobType
  <2>2. Named({w} \cup rest) = Named(rest) \cup {Resolve(w)}
    BY <2>1, WordNames
  <2>3. Members(env.work)' = rest
    BY <2>1 DEF rest, Members
  <2>4. Current' = {Resolve(w)}
    BY <2>1 DEF Current
  <2> QED
    BY <1>1, <1>2, <1>3, <2>1, <2>2, <2>3, <2>4, Zenon DEF AskInv
<1> QED
  BY <1>4, <1>5, <1>6

LEMMA AskStep ==
  ASSUME Inv, AskInv, [Next]_vars
  PROVE  AskInv'
<1>1. job \in JobType /\ hist \in HistType /\ (job.pc \in Copying => job.ret \in {"format", "fsck"})
  BY DEF Inv, Types, JobInv
<1>2. CASE UNCHANGED vars
  BY <1>2 DEF vars, AskInv, Current
<1>3. CASE Unknown \/ ExpandList \/ SourceConfig
  BY <1>3, NextWordKeeps
<1>4. CASE Skip \/ AlreadyRun \/ Finish
  <2>1. UNCHANGED <<request, env>> /\ job.pc \notin {"next", "over"} /\ job'.pc = "next"
    BY <1>1, <1>4, Zenon DEF Skip, AlreadyRun, Finish, At, Goto, JobType
  <2>2. completed' \cup hist'.skipped = completed \cup hist.skipped \cup {job.cfg}
    BY <1>1, <1>4 DEF Skip, AlreadyRun, Finish, HistType
  <2> QED
    BY <2>1, <2>2, EndKeeps
<1>5. CASE Begin \/ CopyXunitResults \/ Formatted \/ UseList
  <2>1. UNCHANGED <<request, env, completed, hist>>
    BY <1>5, Zenon DEF Begin, Formatted, UseList, CopyXunitResults, CopyNone, MergeBackup,
       MergeRename, MergeFails, UpdateOpen, UpdateDone, UpdateFails, RemoveResult
  <2>2. /\ job'.cfg = job.cfg /\ job.pc \notin {"next", "over"}
        /\ job'.pc \notin {"next", "over"}
    BY <1>1, <1>5, Zenon DEF JobType, Copying, At, Goto, Begin, Formatted, UseList,
       CopyXunitResults, CopyNone, MergeBackup, MergeRename, MergeFails, UpdateOpen,
       UpdateDone, UpdateFails, RemoveResult
  <2> QED
    BY <2>1, <2>2, InsideKeeps
<1>6. CASE OpenList \/ (\E n \in Tests : WriteList(n)) \/ FirstRun \/ Trim \/ Move \/ EndIteration
  <2>1. UNCHANGED <<request, env, completed, hist>>
    BY <1>6, Zenon DEF OpenList, WriteList, FirstRun, Trim, Move, EndIteration
  <2>2. /\ job'.cfg = job.cfg /\ job.pc \notin {"next", "over"}
        /\ job'.pc \notin {"next", "over"}
    BY <1>1, <1>6, Zenon DEF JobType, At, Goto, OpenList, WriteList, FirstRun, Trim, Move,
       EndIteration, Remaining
  <2> QED
    BY <2>1, <2>2, InsideKeeps
<1>7. CASE Check \/ Unreadable \/ CheckGivesUp
  <2>1. UNCHANGED <<request, env, completed>> /\ hist'.skipped = hist.skipped
    BY <1>1, <1>7, Zenon DEF Check, LogTest, TestEnds, TestAgain, CheckEnds, Unreadable,
       CheckGivesUp, HistType
  <2>2. /\ job'.cfg = job.cfg /\ job.pc \notin {"next", "over"}
        /\ job'.pc \notin {"next", "over"}
    BY <1>1, <1>7, Zenon DEF JobType, At, Goto, Check, LogTest, TestEnds, TestAgain, CheckEnds,
       Unreadable, CheckGivesUp
  <2> QED
    BY <2>1, <2>2, InsideKeeps
<1>8. CASE Report
  <2>1. /\ job.pc = "next" /\ job'.pc = "over" /\ env.work = <<>>
        /\ UNCHANGED <<request, env, completed, hist>>
    BY <1>1, <1>8, Zenon DEF Report, At, Goto, JobType
  <2> QED
    BY <2>1, Zenon DEF AskInv, Current
<1>9. CASE Crash
  <2>1. /\ job'.pc = "next" /\ env'.work = request.words /\ hist'.skipped = hist.skipped
        /\ UNCHANGED <<request, completed>>
    BY <1>1, <1>9, Zenon DEF Crash, BootEnv, BootJob, HistType
  <2>2. Current' = {} /\ Members(env.work)' = Members(request.words)
    BY <2>1 DEF Current, Members
  <2> QED
    BY <2>1, <2>2 DEF AskInv
<1> QED
  BY <1>2, <1>3, <1>4, <1>5, <1>6, <1>7, <1>8, <1>9
  DEF Next, Script, NextConfig, Iterate

\* What runtests.sh has run or skipped when it reports is what FSTESTCFG named at
\* the boot, through lists in lists, with unknown words and duplicates, and
\* wherever the VM crashed (runtests.sh:324-329).
THEOREM AskedIsWhatRuns == Spec => []AskedIsRun
<1>1. Init => AskInv
  <2> SUFFICES ASSUME Init PROVE AskInv
    OBVIOUS
  <2>1. request.words \in Seq(Word) /\ env.work = request.words /\ job.pc = "next"
    BY RunAssumption, Zenon DEF Init, BootEnv, BootJob
  <2>2. completed = {} /\ hist.skipped = {}
    BY DEF Init
  <2> QED
    BY <2>1, <2>2 DEF AskInv, Current
<1>2. Inv /\ AskInv /\ [Next]_vars => AskInv'
  BY AskStep
<1>3. AskInv => AskedIsRun
  <2>1. Members(<<>>) = {}
    BY DEF Members
  <2> QED
    BY <2>1, NoneNamed, Zenon DEF AskInv, AskedIsRun, At, Current
<1> QED
  BY <1>1, <1>2, <1>3, Invariance, PTL DEF Spec
=============================================================================
