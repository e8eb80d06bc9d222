----------------------------- MODULE KCSProofs ------------------------------
(***************************************************************************)
(* Proofs about KCS.tla for any number of handlers and bisections.         *)
(***************************************************************************)
EXTENDS KCS, FiniteSetTheorems, TLAPS

\* Where only a bisection brings a handler, and where only a build does.
BisectOnly ==
  {"check", "clone", "register", "start", "lookup", "step", "finish", "build",
   "reply", "lock", "delete", "done"}

\* What a handler works on fits to where it is.
TaskOK ==
  \A h \in Handlers :
    /\ task[h].kind = "bisect" <=> task[h].id # Nobody
    /\ pc[h] \in BisectOnly => task[h].kind = "bisect"
    /\ pc[h] = "repoLock" => task[h].kind = "build"

Busy(h, b) == task[h].id = b /\ pc[h] # "idle"

Works(h, b) == task[h].id = b /\ pc[h] \notin {"idle", "reply", "lock", "delete", "done"}

\* There is one permission to work on a bisection: LTM has it or a handler.
OneTurn ==
  \A b \in Bisections :
    /\ \A g, h \in Handlers : Works(g, b) /\ Works(h, b) => g = h
    /\ ltm[b] # "asked" => \A h \in Handlers : ~Works(h, b)

Untouched(b) == pc[b] = "none" /\ ~bisector[b].registered

\* While a bisection is set up nobody else knows of it.
SetUpAlone ==
  \A b \in Bisections :
    /\ ltm[b] = "new" => Untouched(b) /\ \A h \in Handlers : ~Busy(h, b)
    /\ \A h \in Handlers : Busy(h, b) /\ pc[h] \in {"check", "clone", "register"} =>
         /\ \A g \in Handlers : Busy(g, b) => g = h
         /\ pc[h] \in {"check", "clone"} => Untouched(b)

Alive(b) == bisector[b].repo /\ bisector[b].done = "open" /\ pc[b] \in {"select", "lock", "delete"}

\* A bisection that is or will be registered is alive; only its monitor can
\* have started to clean it up before.
AliveOK ==
  \A b \in Bisections :
    /\ bisector[b].registered => Alive(b)
    /\ \A h \in Handlers : Busy(h, b) /\ pc[h] = "register" => Alive(b) \/ pc[b] = "done"

\* Whoever is at the end of Clean has removed the bisection from the map.
CleanedOK ==
  /\ \A h \in Handlers : pc[h] = "done" => ~bisector[task[h].id].registered
  /\ \A b \in Bisections : pc[b] = "done" => ~bisector[b].registered

\* NotStranded, with a handler that has more to do than to wait for a reply.
GoesOn ==
  \A b \in Bisections :
    bisector[b].registered =>
      \/ ltm[b] \in {"testing", "lost", "refused"}
      \/ \E h \in Handlers : Busy(h, b) /\ pc[h] # "reply"

Inv ==
  /\ TypeOK /\ TaskOK /\ LocksMatch /\ OneTurn /\ SetUpAlone
  /\ AliveOK /\ CleanedOK /\ GoesOn

-----------------------------------------------------------------------------
(* Every step keeps the invariant.                                         *)

\* A goroutine with a bisection to work on has one.
LEMMA MineType ==
  ASSUME Inv, NEW p \in Handlers \cup Bisections,
         p \in Handlers => pc[p] \in BisectOnly \/ task[p].kind = "bisect"
  PROVE  Mine(p) \in Bisections
  BY KCSAssumption DEF Inv, TypeOK, TaskOK, TaskRecord, Mine

\* What is known of a bisection that is not in the map, and of one just made.
LEMMA RecordTypes ==
  /\ \A v \in BOOLEAN : [NoBisector EXCEPT !.repo = v] \in BisectorRecord
  /\ [NoBisector EXCEPT !.repo = TRUE, !.active = TRUE, !.done = "open"] \in BisectorRecord
<1>1. NoBisector \in BisectorRecord
  BY KCSAssumption DEF NoBisector, BisectorRecord
<1>2. ASSUME NEW r \in BisectorRecord, NEW v \in BOOLEAN
      PROVE  /\ [r EXCEPT !.repo = v] \in BisectorRecord
             /\ [r EXCEPT !.active = v] \in BisectorRecord
             /\ [r EXCEPT !.done = "open"] \in BisectorRecord
  BY DEF BisectorRecord
<1>3. \A v \in BOOLEAN : [NoBisector EXCEPT !.repo = v] \in BisectorRecord
  BY <1>1, <1>2, Zenon
<1>4. [NoBisector EXCEPT !.repo = TRUE, !.active = TRUE, !.done = "open"] \in BisectorRecord
  <2>1. [[NoBisector EXCEPT !.repo = TRUE] EXCEPT !.active = TRUE] \in BisectorRecord
    BY <1>2, <1>3, Zenon
  <2>2. [[[NoBisector EXCEPT !.repo = TRUE] EXCEPT !.active = TRUE] EXCEPT !.done = "open"]
          \in BisectorRecord
    BY <1>2, <2>1, Zenon
  <2> QED
    BY <2>2
<1> QED
  BY <1>3, <1>4

\* At the start and after a restart nothing is going on.
LEMMA InitInv == Init => Inv
<1> SUFFICES ASSUME Init PROVE Inv
  OBVIOUS
<1> USE KCSAssumption DEF Init, NoTask, NoBisector
<1>1. TypeOK
  BY DEF TypeOK, Procs, Locks, HandlerPC, MonitorPC, TrackerPC, TaskRecord, BisectorRecord
<1>2. TaskOK
  BY DEF TaskOK, BisectOnly, Procs
<1>3. LocksMatch
  BY DEF LocksMatch, Holds, Procs, Locks
<1>4. OneTurn /\ SetUpAlone
  BY DEF OneTurn, SetUpAlone, Works, Busy, Untouched, Procs
<1>5. AliveOK /\ CleanedOK /\ GoesOn
  BY DEF AliveOK, CleanedOK, GoesOn, Busy, Procs
<1> QED
  BY <1>1, <1>2, <1>3, <1>4, <1>5, SMTT(60) DEF Inv

\* The process dies: only LTM and the disk remember anything.
LEMMA CrashInv == Inv /\ Crash => Inv'
<1> SUFFICES ASSUME Inv, Crash PROVE Inv'
  OBVIOUS
<1> USE KCSAssumption
<1>1. TypeOK'
  <2>1. bisector' \in [Bisections -> BisectorRecord]
    <3>1. \A v \in BOOLEAN : [NoBisector EXCEPT !.repo = v] \in BisectorRecord
      BY RecordTypes
    <3>2. \A b \in Bisections : bisector[b].repo \in BOOLEAN
      BY DEF Inv, TypeOK, BisectorRecord
    <3> QED
      BY <3>1, <3>2, Zenon DEF Crash
  <2> QED
    BY <2>1 DEF Crash, NoTask, Inv, TypeOK, Procs, Locks, HandlerPC, MonitorPC,
       TrackerPC, TaskRecord
<1>2. TaskOK'
  BY DEF Crash, NoTask, NoBisector, TaskOK, BisectOnly, Procs
<1>3. LocksMatch'
  BY DEF Crash, NoTask, NoBisector, LocksMatch, Holds, Procs, Locks
<1>4. OneTurn' /\ SetUpAlone'
  BY DEF Crash, NoTask, NoBisector, OneTurn, SetUpAlone, Works, Busy, Untouched, Procs
<1>5. AliveOK' /\ CleanedOK' /\ GoesOn'
  BY DEF Crash, NoTask, NoBisector, AliveOK, CleanedOK, GoesOn, Busy, Procs
<1> QED
  BY <1>1, <1>2, <1>3, <1>4, <1>5, SMTT(60) DEF Inv


\* runCompile starts a goroutine for a new bisection.
LEMMA TakeStartInv ==
  ASSUME Inv, NEW h \in Handlers, NEW b \in Bisections, TakeStart(h, b)
  PROVE  Inv'
<1> USE KCSAssumption
<1>1. TypeOK'
  BY DEF Inv, TakeStart, Take, Goto, TypeOK, TaskOK, Procs, Locks, HandlerPC,
     MonitorPC, TrackerPC, TaskRecord, BisectorRecord, BisectOnly
<1>2. TaskOK'
  BY SMTT(60) DEF Inv, TakeStart, Take, Goto, TypeOK, TaskOK, Procs, BisectOnly
<1>3. LocksMatch'
  BY SMTT(60) DEF Inv, TakeStart, Take, Goto, TypeOK, LocksMatch, Holds, Procs
<1>4. OneTurn'
  BY SMTT(60) DEF Inv, TakeStart, Take, Goto, TypeOK, OneTurn, Works, Procs
<1>5. SetUpAlone'
  BY SMTT(60) DEF Inv, TakeStart, Take, Goto, TypeOK, SetUpAlone, Busy, Untouched, Procs
<1>6. AliveOK'
  BY SMTT(60) DEF Inv, TakeStart, Take, Goto, TypeOK, AliveOK, Alive, Busy, Procs
<1>7. CleanedOK'
  BY SMTT(60) DEF Inv, TakeStart, Take, Goto, TypeOK, CleanedOK, Procs
<1>8. GoesOn'
  BY SMTT(60) DEF Inv, TakeStart, Take, Goto, TypeOK, GoesOn, Busy, Procs
<1> QED
  BY <1>1, <1>2, <1>3, <1>4, <1>5, <1>6, <1>7, <1>8, SMTT(60) DEF Inv

\* runCompile starts a goroutine for the report of a test.
LEMMA TakeStepInv ==
  ASSUME Inv, NEW h \in Handlers, NEW b \in Bisections, TakeStep(h, b)
  PROVE  Inv'
<1> USE KCSAssumption
<1>1. TypeOK'
  BY SMTT(60) DEF Inv, TakeStep, Take, Goto, TypeOK, TaskOK, Procs, Locks, HandlerPC,
     MonitorPC, TrackerPC, TaskRecord, BisectorRecord, BisectOnly
<1>2. TaskOK'
  BY SMTT(60) DEF Inv, TakeStep, Take, Goto, TypeOK, TaskOK, Procs, BisectOnly
<1>3. LocksMatch'
  BY SMTT(60) DEF Inv, TakeStep, Take, Goto, TypeOK, LocksMatch, Holds, Procs
<1>4. OneTurn'
  BY SMTT(60) DEF Inv, TakeStep, Take, Goto, TypeOK, OneTurn, Works, Procs
<1>5. SetUpAlone'
  <2>1. /\ \A g \in Handlers : pc'[g] = IF g = h THEN "lookup" ELSE pc[g]
        /\ \A c \in Bisections : pc'[c] = pc[c]
        /\ \A g \in Handlers : g # h => task'[g] = task[g]
        /\ task'[h].id = b /\ bisector' = bisector
        /\ \A c \in Bisections : ltm'[c] = "new" <=> ltm[c] = "new"
    BY SMTT(60) DEF Inv, TypeOK, TakeStep, Take, Goto, Procs
  <2>2. \A c \in Bisections : Untouched(c)' <=> Untouched(c)
    BY <2>1, SMTT(60) DEF Untouched
  <2>3. \A g \in Handlers, c \in Bisections : Busy(g, c)' <=> Busy(g, c) \/ (g = h /\ c = b)
    BY <2>1, SMTT(60) DEF TakeStep, Take, Busy
  <2>4. \A g \in Handlers : ~(Busy(g, b) /\ pc[g] \in {"check", "clone", "register"})
    BY DEF Inv, OneTurn, Works, Busy, TakeStep
  <2>5. ltm[b] # "new"
    BY SMTT(60) DEF TakeStep
  <2> QED
    BY <2>1, <2>2, <2>3, <2>4, <2>5, SMTT(60) DEF Inv, SetUpAlone
<1>6. AliveOK'
  BY SMTT(60) DEF Inv, TakeStep, Take, Goto, TypeOK, AliveOK, Alive, Busy, Procs
<1>7. CleanedOK'
  BY SMTT(60) DEF Inv, TakeStep, Take, Goto, TypeOK, CleanedOK, Procs
<1>8. GoesOn'
  BY DEF Inv, TakeStep, Take, Goto, TypeOK, GoesOn, Busy, Procs
<1> QED
  BY <1>1, <1>2, <1>3, <1>4, <1>5, <1>6, <1>7, <1>8 DEF Inv

\* runCompile starts a goroutine for a build.
LEMMA TakeBuildInv ==
  ASSUME Inv, NEW h \in Handlers, TakeBuild(h)
  PROVE  Inv'
<1> USE KCSAssumption
<1>1. TypeOK'
  BY SMTT(60) DEF Inv, TakeBuild, Take, Goto, TypeOK, TaskOK, Procs, Locks, HandlerPC,
     MonitorPC, TrackerPC, TaskRecord, BisectorRecord, BisectOnly
<1>2. TaskOK'
  BY SMTT(60) DEF Inv, TakeBuild, Take, Goto, TypeOK, TaskOK, Procs, BisectOnly
<1>3. LocksMatch'
  BY SMTT(60) DEF Inv, TakeBuild, Take, Goto, TypeOK, LocksMatch, Holds, Procs
<1>4. OneTurn'
  BY SMTT(60) DEF Inv, TakeBuild, Take, Goto, TypeOK, OneTurn, Works, Procs
<1>5. SetUpAlone'
  BY SMTT(60) DEF Inv, TakeBuild, Take, Goto, TypeOK, SetUpAlone, Busy, Untouched, Procs
<1>6. AliveOK'
  BY SMTT(60) DEF Inv, TakeBuild, Take, Goto, TypeOK, AliveOK, Alive, Busy, Procs
<1>7. CleanedOK'
  BY DEF Inv, TakeBuild, Take, Goto, TypeOK, CleanedOK, Procs
<1>8. GoesOn'
  BY DEF Inv, TakeBuild, Take, Goto, TypeOK, GoesOn, Busy, Procs
<1> QED
  BY <1>1, <1>2, <1>3, <1>4, <1>5, <1>6, <1>7, <1>8, SMTT(60) DEF Inv

\* LTM gives up reporting.
LEMMA ReportLostInv ==
  ASSUME Inv, NEW b \in Bisections, ReportLost(b)
  PROVE  Inv'
<1> USE KCSAssumption
<1>1. TypeOK'
  BY SMTT(60) DEF Inv, ReportLost, TypeOK, Procs, HandlerPC
<1>2. TaskOK'
  BY SMTT(60) DEF Inv, ReportLost, TypeOK, TaskOK, Procs, BisectOnly
<1>3. LocksMatch'
  BY SMTT(60) DEF Inv, ReportLost, TypeOK, LocksMatch, Holds, Procs
<1>4. OneTurn'
  BY SMTT(60) DEF Inv, ReportLost, TypeOK, OneTurn, Works, Procs
<1>5. SetUpAlone'
  BY SMTT(60) DEF Inv, ReportLost, TypeOK, SetUpAlone, Busy, Untouched, Procs
<1>6. AliveOK'
  BY SMTT(60) DEF Inv, ReportLost, TypeOK, AliveOK, Alive, Busy, Procs
<1>7. CleanedOK'
  BY DEF Inv, ReportLost, TypeOK, CleanedOK, Procs
<1>8. GoesOn'
  BY SMTT(60) DEF Inv, ReportLost, TypeOK, GoesOn, Busy, Procs
<1> QED
  BY <1>1, <1>2, <1>3, <1>4, <1>5, <1>6, <1>7, <1>8, SMTT(60) DEF Inv

\* RunBisect looks for an old bisection of the same name.
LEMMA ExistsInv ==
  ASSUME Inv, NEW h \in Handlers, Exists(h)
  PROVE  Inv'
<1> USE KCSAssumption
<1>1. TypeOK'
  BY SMTT(60) DEF Inv, Exists, Goto, Mine, TypeOK, Procs, HandlerPC
<1>2. TaskOK'
  BY SMTT(60) DEF Inv, Exists, Goto, Mine, TypeOK, TaskOK, Procs, BisectOnly
<1>3. LocksMatch'
  BY SMTT(60) DEF Inv, Exists, Goto, Mine, TypeOK, LocksMatch, Holds, Procs
<1>4. OneTurn'
  BY SMTT(60) DEF Inv, Exists, Goto, Mine, TypeOK, OneTurn, Works, Procs
<1>5. SetUpAlone'
  BY SMTT(60) DEF Inv, Exists, Goto, Mine, TypeOK, SetUpAlone, Busy, Untouched, Procs
<1>6. AliveOK'
  BY SMTT(60) DEF Inv, Exists, Goto, Mine, TypeOK, AliveOK, Alive, Busy, Procs
<1>7. CleanedOK'
  BY SMTT(60) DEF Inv, Exists, Goto, Mine, TypeOK, CleanedOK, Procs
<1>8. GoesOn'
  <2>1. Mine(h) \in Bisections /\ Busy(h, Mine(h)) /\ pc[h] = "check"
    BY MineType, SMTT(60) DEF Exists, Busy, BisectOnly, Mine
  <2>2. ~bisector[Mine(h)].registered
    BY <2>1 DEF Inv, SetUpAlone, Untouched
  <2>3. \A b \in Bisections, g \in Handlers : Busy(g, b) /\ b # Mine(h) => g # h
    BY SMTT(60) DEF Busy, Mine
  <2>4. /\ bisector' = bisector /\ ltm' = ltm /\ task' = task
        /\ \A g \in Handlers : g # h => pc'[g] = pc[g]
    BY SMTT(60) DEF Inv, TypeOK, Exists, Goto, Procs
  <2> QED
    BY <2>2, <2>3, <2>4, SMTT(60) DEF Inv, GoesOn, Busy
<1> QED
  BY <1>1, <1>2, <1>3, <1>4, <1>5, <1>6, <1>7, <1>8 DEF Inv

\* The bisection and its monitor are made.
LEMMA NewGitBisectorInv ==
  ASSUME Inv, NEW h \in Handlers, NewGitBisector(h)
  PROVE  Inv'
<1> USE KCSAssumption
<1>1. TypeOK'
  <2>1. Mine(h) \in Bisections
    BY MineType, SMTT(60) DEF NewGitBisector, BisectOnly
  <2>2. bisector' \in [Bisections -> BisectorRecord]
    <3>1. [NoBisector EXCEPT !.repo = TRUE, !.active = TRUE, !.done = "open"] \in BisectorRecord
      BY RecordTypes, SMTT(60)
    <3> QED
      BY <2>1, <3>1 DEF Inv, TypeOK, NewGitBisector
  <2>4. pc' \in [Procs -> HandlerPC \cup MonitorPC \cup TrackerPC]
        /\ (\A g \in Handlers : pc'[g] \in HandlerPC)
        /\ (\A b \in Bisections : pc'[b] \in MonitorPC) /\ pc'[Tracker] \in TrackerPC
    BY <2>1, SMTT(60) DEF Inv, TypeOK, Procs, HandlerPC, MonitorPC, NewGitBisector
  <2> QED
    BY <2>2, <2>4, ZenonT(60) DEF Inv, TypeOK, NewGitBisector
<1>2. TaskOK'
  BY SMTT(60) DEF Inv, NewGitBisector, NoBisector, Mine, TypeOK, TaskOK, Procs, BisectOnly
<1>3. LocksMatch'
  <2>1. Mine(h) \in Bisections /\ Busy(h, Mine(h)) /\ pc[h] = "clone"
    BY MineType, SMTT(60) DEF NewGitBisector, Busy, BisectOnly, Mine
  <2>2. pc[Mine(h)] = "none"
    BY <2>1 DEF Inv, SetUpAlone, Untouched
  <2>3. pc' = [pc EXCEPT ![h] = "register", ![Mine(h)] = "select"]
        /\ task' = task /\ locks' = locks
    BY SMTT(60) DEF NewGitBisector
  <2>4. \A p \in Handlers \cup Bisections : Holds(p)' = Holds(p)
    BY <2>1, <2>2, <2>3 DEF Inv, TypeOK, Holds, Procs
  <2> QED
    BY <2>3, <2>4, SMTT(60) DEF Inv, LocksMatch
<1>4. OneTurn'
  <2>1. Mine(h) \in Bisections /\ Busy(h, Mine(h)) /\ pc[h] = "clone"
    BY MineType DEF NewGitBisector, Busy, BisectOnly, Mine
  <2>2. \A g \in Handlers : pc'[g] = IF g = h THEN "register" ELSE pc[g]
    BY <2>1 DEF Inv, TypeOK, NewGitBisector, Procs
  <2>3. \A g \in Handlers, b \in Bisections : Works(g, b)' => Works(g, b)
    BY <2>1, <2>2, SMTT(60) DEF NewGitBisector, Works
  <2> QED
    BY <2>3, SMTT(60) DEF Inv, OneTurn, NewGitBisector
<1>5. SetUpAlone'
  <2>1. Mine(h) \in Bisections /\ Busy(h, Mine(h)) /\ pc[h] = "clone"
    BY MineType DEF NewGitBisector, Busy, BisectOnly, Mine
  <2>2. \A g \in Handlers : pc'[g] = IF g = h THEN "register" ELSE pc[g]
    BY <2>1 DEF Inv, TypeOK, NewGitBisector, Procs
  <2>3. \A g \in Handlers, b \in Bisections : Busy(g, b)' <=> Busy(g, b)
    <3>1. task' = task
      BY DEF NewGitBisector
    <3> QED
      BY <2>1, <2>2, <3>1 DEF Busy
  <2>4. \A b \in Bisections : b # Mine(h) => (Untouched(b)' <=> Untouched(b))
    BY <2>1 DEF Inv, TypeOK, NewGitBisector, Untouched, Procs
  <2>5. ltm' = ltm /\ ltm[Mine(h)] # "new"
    BY <2>1 DEF Inv, SetUpAlone, NewGitBisector
  <2>6. \A g \in Handlers : Busy(g, Mine(h)) => g = h
    BY <2>1, SMTT(60) DEF Inv, SetUpAlone
  <2> QED
    BY <2>1, <2>2, <2>3, <2>4, <2>5, <2>6, SMTT(60) DEF Inv, SetUpAlone
<1>6. AliveOK'
  BY SMTT(60) DEF Inv, NewGitBisector, NoBisector, Mine, TypeOK, AliveOK, Alive, Busy,
     Procs
<1>7. CleanedOK'
  BY SMTT(60) DEF Inv, NewGitBisector, NoBisector, Mine, TypeOK, CleanedOK, Procs
<1>8. GoesOn'
  BY SMTT(60) DEF Inv, NewGitBisector, NoBisector, Mine, TypeOK, GoesOn, Busy, Procs
<1> QED
  BY <1>1, <1>2, <1>3, <1>4, <1>5, <1>6, <1>7, <1>8 DEF Inv

\* The bisection cannot be made.
LEMMA NewGitBisectorPanicsInv ==
  ASSUME Inv, NEW h \in Handlers, NewGitBisectorPanics(h)
  PROVE  Inv'
<1> USE KCSAssumption
<1>1. TypeOK'
  BY SMTT(60) DEF Inv, NewGitBisectorPanics, Goto, TypeOK, Procs, HandlerPC
<1>2. TaskOK'
  BY SMTT(60) DEF Inv, NewGitBisectorPanics, Goto, TypeOK, TaskOK, Procs, BisectOnly
<1>3. LocksMatch'
  BY SMTT(60) DEF Inv, NewGitBisectorPanics, Goto, TypeOK, LocksMatch, Holds, Procs
<1>4. OneTurn'
  BY SMTT(60) DEF Inv, NewGitBisectorPanics, Goto, TypeOK, OneTurn, Works, Procs
<1>5. SetUpAlone'
  BY SMTT(60) DEF Inv, NewGitBisectorPanics, Goto, TypeOK, SetUpAlone, Busy, Untouched,
     Procs
<1>6. AliveOK'
  BY SMTT(60) DEF Inv, NewGitBisectorPanics, Goto, TypeOK, AliveOK, Alive, Busy, Procs
<1>7. CleanedOK'
  BY SMTT(60) DEF Inv, NewGitBisectorPanics, Goto, TypeOK, CleanedOK, Procs
<1>8. GoesOn'
  <2>1. Mine(h) \in Bisections /\ Busy(h, Mine(h)) /\ pc[h] = "clone"
    BY MineType, SMTT(60) DEF NewGitBisectorPanics, Busy, BisectOnly, Mine
  <2>2. ~bisector[Mine(h)].registered
    BY <2>1, SMTT(60) DEF Inv, SetUpAlone, Untouched
  <2>3. \A b \in Bisections, g \in Handlers : Busy(g, b) /\ b # Mine(h) => g # h
    BY DEF Busy, Mine
  <2>4. /\ bisector' = bisector /\ ltm' = ltm /\ task' = task
        /\ \A g \in Handlers : g # h => pc'[g] = pc[g]
    BY SMTT(60) DEF Inv, TypeOK, NewGitBisectorPanics, Goto, Procs
  <2> QED
    BY <2>2, <2>3, <2>4 DEF Inv, GoesOn, Busy
<1> QED
  BY <1>1, <1>2, <1>3, <1>4, <1>5, <1>6, <1>7, <1>8 DEF Inv

\* The bisection is entered in bisectorMap.
LEMMA RegisterInv ==
  ASSUME Inv, NEW h \in Handlers, Register(h)
  PROVE  Inv'
<1> USE KCSAssumption
<1>1. TypeOK'
  <2>1. Mine(h) \in Bisections
    BY MineType DEF Register, BisectOnly
  <2>2. bisector' \in [Bisections -> BisectorRecord]
    BY <2>1, ZenonT(120) DEF Inv, TypeOK, Register, BisectorRecord
  <2>4. pc' \in [Procs -> HandlerPC \cup MonitorPC \cup TrackerPC]
        /\ (\A g \in Handlers : pc'[g] \in HandlerPC)
        /\ (\A b \in Bisections : pc'[b] \in MonitorPC) /\ pc'[Tracker] \in TrackerPC
    BY <2>1 DEF Inv, TypeOK, Procs, HandlerPC, Register, Goto
  <2> QED
    BY <2>2, <2>4 DEF Inv, TypeOK, Register, Goto
<1>2. TaskOK'
  BY DEF Inv, Register, Free, Goto, Mine, TypeOK, TaskOK, Procs, BisectOnly
<1>3. LocksMatch'
  BY DEF Inv, Register, Free, Goto, Mine, TypeOK, LocksMatch, Holds, Procs
<1>4. OneTurn'
  BY SMTT(60) DEF Inv, Register, Free, Goto, Mine, TypeOK, OneTurn, Works, Procs
<1>5. SetUpAlone'
  BY DEF Inv, Register, Free, Goto, Mine, TypeOK, SetUpAlone, Busy, Untouched, Procs
<1>6. AliveOK'
  <2>1. Mine(h) \in Bisections /\ Busy(h, Mine(h)) /\ pc[h] = "register"
    BY MineType DEF Register, Busy, BisectOnly, Mine
  <2>2. pc[Mine(h)] \notin {"delete", "done"}
    BY <2>1 DEF Inv, TypeOK, LocksMatch, Holds, Register, Free, Locks
  <2>3. Alive(Mine(h))
    BY <2>1, <2>2 DEF Inv, AliveOK
  <2>4. pc' = [pc EXCEPT ![h] = "start"] /\ task' = task
        /\ bisector' = [bisector EXCEPT ![Mine(h)].registered = TRUE]
    BY DEF Register, Goto
  <2>5. \A b \in Bisections : Alive(b) => Alive(b)'
    BY <2>1, <2>4 DEF Inv, TypeOK, Procs, Alive, BisectorRecord
  <2>6. \A b \in Bisections : bisector'[b].registered => bisector[b].registered \/ b = Mine(h)
    BY <2>1, <2>4 DEF Inv, TypeOK, BisectorRecord
  <2>7. \A g \in Handlers, b \in Bisections :
          /\ Busy(g, b)' /\ pc'[g] = "register" => Busy(g, b) /\ pc[g] = "register"
          /\ pc[b] = "done" => pc'[b] = "done"
    BY <2>1, <2>4 DEF Inv, TypeOK, Procs, Busy
  <2> QED
    BY <2>3, <2>5, <2>6, <2>7 DEF Inv, AliveOK
<1>7. CleanedOK'
  <2>1. \A p \in Handlers \cup Bisections : pc[p] # "done"
    BY DEF Inv, TypeOK, LocksMatch, Holds, Register, Free, Locks
  <2> QED
    BY <2>1 DEF Inv, TypeOK, CleanedOK, Register, Goto, Procs
<1>8. GoesOn'
  BY DEF Inv, Register, Free, Goto, Mine, TypeOK, GoesOn, Busy, Procs
<1> QED
  BY <1>1, <1>2, <1>3, <1>4, <1>5, <1>6, <1>7, <1>8 DEF Inv

\* git bisect start.
LEMMA StartInv ==
  ASSUME Inv, NEW h \in Handlers, Start(h)
  PROVE  Inv'
<1> USE KCSAssumption
<1>1. TypeOK'
  <2>1. Mine(h) \in Bisections
    BY MineType DEF Start, BisectOnly
  <2>2. bisector' \in [Bisections -> BisectorRecord]
    <3> DEFINE f == [bisector EXCEPT ![Mine(h)].active = TRUE]
    <3>1. f \in [Bisections -> BisectorRecord]
      BY <2>1, ZenonT(120) DEF Inv, TypeOK, BisectorRecord
    <3>2. PICK n \in 0..MaxSteps : bisector' = [f EXCEPT ![Mine(h)].left = n]
      BY Zenon DEF Start
    <3> HIDE DEF f
    <3> QED
      BY <2>1, <3>1, <3>2, SMTT(60) DEF BisectorRecord
  <2>4. pc' \in [Procs -> HandlerPC \cup MonitorPC \cup TrackerPC]
        /\ (\A g \in Handlers : pc'[g] \in HandlerPC)
        /\ (\A b \in Bisections : pc'[b] \in MonitorPC) /\ pc'[Tracker] \in TrackerPC
    BY <2>1 DEF Inv, TypeOK, Procs, HandlerPC, Start, Goto
  <2> QED
    BY <2>2, <2>4 DEF Inv, TypeOK, Start, Goto
<1>2. TaskOK'
  BY DEF Inv, Start, Goto, Mine, TypeOK, TaskOK, Procs, BisectOnly
<1>3. LocksMatch'
  BY DEF Inv, Start, Goto, Mine, TypeOK, LocksMatch, Holds, Procs
<1>4. OneTurn'
  BY DEF Inv, Start, Goto, Mine, TypeOK, OneTurn, Works, Procs
<1>5. SetUpAlone'
  BY DEF Inv, Start, Goto, Mine, TypeOK, SetUpAlone, Busy, Untouched, Procs
<1>6. AliveOK'
  BY SMTT(60) DEF Inv, Start, Goto, Mine, TypeOK, AliveOK, Alive, Busy, Procs
<1>7. CleanedOK'
  BY SMTT(60) DEF Inv, Start, Goto, Mine, TypeOK, TaskOK, BisectOnly, CleanedOK, Procs,
     TaskRecord, BisectorRecord
<1>8. GoesOn'
  BY SMTT(60) DEF Inv, Start, Goto, Mine, TypeOK, GoesOn, Busy, Procs
<1> QED
  BY <1>1, <1>2, <1>3, <1>4, <1>5, <1>6, <1>7, <1>8 DEF Inv

\* RunBisect looks the bisection of a report up.
LEMMA LookupInv ==
  ASSUME Inv, NEW h \in Handlers, Lookup(h)
  PROVE  Inv'
<1> USE KCSAssumption
<1>1. TypeOK'
  BY SMTT(60) DEF Inv, Lookup, Free, Goto, Mine, TypeOK, Procs, HandlerPC
<1>2. TaskOK'
  BY SMTT(60) DEF Inv, Lookup, Free, Goto, Mine, TypeOK, TaskOK, Procs, BisectOnly
<1>3. LocksMatch'
  BY SMTT(60) DEF Inv, Lookup, Free, Goto, Mine, TypeOK, LocksMatch, Holds, Procs
<1>4. OneTurn'
  BY SMTT(60) DEF Inv, Lookup, Free, Goto, Mine, TypeOK, OneTurn, Works, Procs
<1>5. SetUpAlone'
  BY SMTT(60), Z3T(60) DEF Inv, Lookup, Free, Goto, Mine, TypeOK, SetUpAlone, Busy, Untouched,
     Procs
<1>6. AliveOK'
  BY SMTT(60), Z3T(60) DEF Inv, Lookup, Free, Goto, Mine, TypeOK, AliveOK, Alive, Busy, Procs
<1>7. CleanedOK'
  BY SMTT(60) DEF Inv, Lookup, Free, Goto, Mine, TypeOK, CleanedOK, Procs
<1>8. GoesOn'
  BY SMTT(60) DEF Inv, Lookup, Free, Goto, Mine, TypeOK, TaskOK, GoesOn, Busy, CleanedOK,
     AliveOK, Alive, Procs, TaskRecord, BisectorRecord
<1> QED
  BY <1>1, <1>2, <1>3, <1>4, <1>5, <1>6, <1>7, <1>8 DEF Inv

\* RunBisect panics over a report, before Exit is deferred.
LEMMA LookupPanicsInv ==
  ASSUME Inv, NEW h \in Handlers, LookupPanics(h)
  PROVE  Inv'
<1> USE KCSAssumption
<1>1. TypeOK'
  <2>1. (ltm \in [Bisections -> {"new", "asked", "testing", "lost", "refused"}])'
    <3>1. ltm' = ltm \/ ltm' = [ltm EXCEPT ![Mine(h)] = "refused"]
      BY DEF LookupPanics
    <3>2. ltm \in [Bisections -> {"new", "asked", "testing", "lost", "refused"}]
      BY DEF Inv, TypeOK
    <3> QED
      BY <3>1, <3>2
  <2>2. /\ pc' = [pc EXCEPT ![h] = "idle"]
        /\ UNCHANGED <<task, bisector, locks>>
    BY DEF LookupPanics, Goto
  <2> QED
    BY <2>1, <2>2, SMTT(60) DEF Inv, TypeOK, Procs, HandlerPC
<1>2. TaskOK'
  BY SMTT(60) DEF Inv, LookupPanics, Free, Goto, Mine, TypeOK, TaskOK, Procs, BisectOnly
<1>3. LocksMatch'
  BY SMTT(60) DEF Inv, LookupPanics, Free, Goto, Mine, TypeOK, LocksMatch, Holds, Procs
<1>4. OneTurn'
  BY SMTT(60) DEF Inv, LookupPanics, Free, Goto, Mine, TypeOK, OneTurn, Works, Procs
<1>5. SetUpAlone'
  BY SMTT(60), Z3T(60) DEF Inv, LookupPanics, Free, Goto, Mine, TypeOK, SetUpAlone, Busy, Untouched,
     Procs
<1>6. AliveOK'
  BY SMTT(60), Z3T(60) DEF Inv, LookupPanics, Free, Goto, Mine, TypeOK, AliveOK, Alive, Busy, Procs
<1>7. CleanedOK'
  BY SMTT(60) DEF Inv, LookupPanics, Free, Goto, Mine, TypeOK, CleanedOK, Procs
<1>8. GoesOn'
  BY SMTT(60) DEF Inv, LookupPanics, Free, Goto, Mine, TypeOK, TaskOK, GoesOn, Busy, CleanedOK,
     AliveOK, Alive, Procs, TaskRecord, BisectorRecord
<1> QED
  BY <1>1, <1>2, <1>3, <1>4, <1>5, <1>6, <1>7, <1>8 DEF Inv

\* git bisect good, bad or skip.
LEMMA StepInv ==
  ASSUME Inv, NEW h \in Handlers, Step(h)
  PROVE  Inv'
<1> USE KCSAssumption
<1>1. TypeOK'
  <2>1. Mine(h) \in Bisections
    BY MineType, SMTT(60) DEF Step, BisectOnly
  <2>2. bisector' \in [Bisections -> BisectorRecord]
    <3> DEFINE f == [bisector EXCEPT ![Mine(h)].active = TRUE]
    <3>1. f \in [Bisections -> BisectorRecord]
      BY <2>1, ZenonT(40) DEF Inv, TypeOK, BisectorRecord
    <3>2. PICK n \in 0..MaxSteps : bisector' = [f EXCEPT ![Mine(h)].left = n]
      BY Zenon DEF Step
    <3> HIDE DEF f
    <3> QED
      BY <2>1, <3>1, <3>2 DEF BisectorRecord
  <2>4. pc' \in [Procs -> HandlerPC \cup MonitorPC \cup TrackerPC]
        /\ (\A g \in Handlers : pc'[g] \in HandlerPC)
        /\ (\A b \in Bisections : pc'[b] \in MonitorPC) /\ pc'[Tracker] \in TrackerPC
    BY <2>1, SMTT(60) DEF Inv, TypeOK, Procs, HandlerPC, Step, Goto
  <2> QED
    BY <2>2, <2>4 DEF Inv, TypeOK, Step, Goto
<1>2. TaskOK'
  BY SMTT(60) DEF Inv, Step, Goto, Mine, TypeOK, TaskOK, Procs, BisectOnly
<1>3. LocksMatch'
  BY SMTT(60) DEF Inv, Step, Goto, Mine, TypeOK, LocksMatch, Holds, Procs
<1>4. OneTurn'
  BY SMTT(60) DEF Inv, Step, Goto, Mine, TypeOK, OneTurn, Works, Procs
<1>5. SetUpAlone'
  BY SMTT(60) DEF Inv, Step, Goto, Mine, TypeOK, SetUpAlone, Busy, Untouched, Procs
<1>6. AliveOK'
  BY SMTT(60), Z3T(60) DEF Inv, Step, Goto, Mine, TypeOK, AliveOK, Alive, Busy, Procs
<1>7. CleanedOK'
  BY SMTT(60), Z3T(60) DEF Inv, Step, Goto, Mine, TypeOK, TaskOK, BisectOnly, CleanedOK, Procs,
     TaskRecord, BisectorRecord
<1>8. GoesOn'
  BY SMTT(60) DEF Inv, Step, Goto, Mine, TypeOK, GoesOn, Busy, Procs
<1> QED
  BY <1>1, <1>2, <1>3, <1>4, <1>5, <1>6, <1>7, <1>8 DEF Inv

\* A git command fails and RunBisect panics.
LEMMA GitFailsInv ==
  ASSUME Inv, NEW h \in Handlers, GitFails(h)
  PROVE  Inv'
<1> USE KCSAssumption
<1>1. TypeOK'
  <2>1. Mine(h) \in Bisections
    BY MineType DEF GitFails, BisectOnly
  <2>2. bisector' \in [Bisections -> BisectorRecord]
    BY <2>1, ZenonT(120) DEF Inv, TypeOK, GitFails, BisectorRecord
  <2>3. task' \in [Handlers -> TaskRecord]
    BY ZenonT(120) DEF Inv, TypeOK, GitFails, Unwind, Goto, TaskRecord
  <2>4. pc' \in [Procs -> HandlerPC \cup MonitorPC \cup TrackerPC]
        /\ (\A g \in Handlers : pc'[g] \in HandlerPC)
        /\ (\A b \in Bisections : pc'[b] \in MonitorPC) /\ pc'[Tracker] \in TrackerPC
    BY <2>1 DEF Inv, TypeOK, Procs, HandlerPC, GitFails, Unwind, Goto
  <2> QED
    BY <2>2, <2>3, <2>4 DEF Inv, TypeOK, GitFails, Unwind, Goto
<1>2. TaskOK'
  BY DEF Inv, GitFails, Unwind, Goto, Mine, TypeOK, TaskOK, Procs, BisectOnly
<1>3. LocksMatch'
  BY DEF Inv, GitFails, Unwind, Goto, Mine, TypeOK, LocksMatch, Holds, Procs
<1>4. OneTurn'
  BY DEF Inv, GitFails, Unwind, Goto, Mine, TypeOK, OneTurn, Works, Procs
<1>5. SetUpAlone'
  BY DEF Inv, GitFails, Unwind, Goto, Mine, TypeOK, SetUpAlone, Busy, Untouched, Procs
<1>6. AliveOK'
  BY DEF Inv, GitFails, Unwind, Goto, Mine, TypeOK, AliveOK, Alive, Busy, Procs
<1>7. CleanedOK'
  BY DEF Inv, GitFails, Unwind, Goto, Mine, TypeOK, CleanedOK, Procs
<1>8. GoesOn'
  BY SMTT(60) DEF Inv, GitFails, Unwind, Goto, Mine, TypeOK, GoesOn, Busy, Procs
<1> QED
  BY <1>1, <1>2, <1>3, <1>4, <1>5, <1>6, <1>7, <1>8 DEF Inv

\* RunBisect goes on or cleans up.
LEMMA FinishInv ==
  ASSUME Inv, NEW h \in Handlers, Finish(h)
  PROVE  Inv'
<1> USE KCSAssumption
<1>1. TypeOK'
  BY SMTT(60) DEF Inv, Finish, Goto, Mine, TypeOK, Procs, HandlerPC
<1>2. TaskOK'
  BY SMTT(60) DEF Inv, Finish, Goto, Mine, TypeOK, TaskOK, Procs, BisectOnly
<1>3. LocksMatch'
  BY SMTT(60) DEF Inv, Finish, Goto, Mine, TypeOK, LocksMatch, Holds, Procs
<1>4. OneTurn'
  BY SMTT(60) DEF Inv, Finish, Goto, Mine, TypeOK, OneTurn, Works, Procs
<1>5. SetUpAlone'
  BY SMTT(60) DEF Inv, Finish, Goto, Mine, TypeOK, SetUpAlone, Busy, Untouched, Procs
<1>6. AliveOK'
  BY SMTT(60) DEF Inv, Finish, Goto, Mine, TypeOK, AliveOK, Alive, Busy, Procs
<1>7. CleanedOK'
  BY SMTT(60) DEF Inv, Finish, Goto, Mine, TypeOK, CleanedOK, Procs
<1>8. GoesOn'
  BY SMTT(60) DEF Inv, Finish, Goto, Mine, TypeOK, GoesOn, Busy, Procs
<1> QED
  BY <1>1, <1>2, <1>3, <1>4, <1>5, <1>6, <1>7, <1>8 DEF Inv

\* Clean takes bisectorLock.
LEMMA CleanLockInv ==
  ASSUME Inv, NEW p \in Handlers \cup Bisections, CleanLock(p)
  PROVE  Inv'
<1> USE KCSAssumption
<1>1. TypeOK'
  BY ZenonT(60) DEF Inv, CleanLock, Free, Goto, TypeOK, TaskOK, BisectOnly, Procs,
     HandlerPC,
     MonitorPC
<1>2. TaskOK'
  BY SMTT(60) DEF Inv, CleanLock, Free, Goto, TypeOK, TaskOK, Procs, BisectOnly
<1>3. LocksMatch'
  BY SMTT(60) DEF Inv, CleanLock, Free, Goto, TypeOK, LocksMatch, Holds, Procs
<1>4. OneTurn'
  BY SMTT(60) DEF Inv, CleanLock, Free, Goto, TypeOK, OneTurn, Works, Procs
<1>5. SetUpAlone'
  BY SMTT(60) DEF Inv, CleanLock, Free, Goto, TypeOK, SetUpAlone, Busy, Untouched, Procs
<1>6. AliveOK'
  BY SMTT(60) DEF Inv, CleanLock, Free, Goto, TypeOK, AliveOK, Alive, Busy, Procs
<1>7. CleanedOK'
  BY DEF Inv, CleanLock, Free, Goto, TypeOK, CleanedOK, Procs
<1>8. GoesOn'
  BY SMTT(60) DEF Inv, CleanLock, Free, Goto, TypeOK, GoesOn, Busy, Procs
<1> QED
  BY <1>1, <1>2, <1>3, <1>4, <1>5, <1>6, <1>7, <1>8, SMTT(60) DEF Inv

\* Clean removes repository and entry.
LEMMA CleanDeleteInv ==
  ASSUME Inv, NEW p \in Handlers \cup Bisections, CleanDelete(p)
  PROVE  Inv'
<1> USE KCSAssumption
<1>1. TypeOK'
  <2>1. Mine(p) \in Bisections
    BY MineType DEF CleanDelete, BisectOnly, Mine
  <2>2. bisector' \in [Bisections -> BisectorRecord]
    <3> DEFINE f == [bisector EXCEPT ![Mine(p)].repo = FALSE]
    <3>1. f \in [Bisections -> BisectorRecord]
      BY <2>1, ZenonT(120) DEF Inv, TypeOK, BisectorRecord
    <3>2. bisector' = [f EXCEPT ![Mine(p)].registered = FALSE]
      BY DEF CleanDelete
    <3> HIDE DEF f
    <3> QED
      BY <2>1, <3>1, <3>2, ZenonT(120) DEF BisectorRecord
  <2>4. pc' \in [Procs -> HandlerPC \cup MonitorPC \cup TrackerPC]
        /\ (\A g \in Handlers : pc'[g] \in HandlerPC)
        /\ (\A b \in Bisections : pc'[b] \in MonitorPC) /\ pc'[Tracker] \in TrackerPC
    BY <2>1 DEF Inv, TypeOK, Procs, HandlerPC, MonitorPC, CleanDelete, Goto
  <2> QED
    BY <2>2, <2>4, SMTT(60) DEF Inv, TypeOK, CleanDelete, Goto
<1>2. TaskOK'
  BY DEF Inv, CleanDelete, Free, Goto, Mine, TypeOK, TaskOK, Procs, BisectOnly
<1>3. LocksMatch'
  BY SMTT(60) DEF Inv, CleanDelete, Free, Goto, Mine, TypeOK, LocksMatch, Holds, Procs
<1>4. OneTurn'
  BY SMTT(60) DEF Inv, CleanDelete, Free, Goto, Mine, TypeOK, OneTurn, Works, Procs
<1>5. SetUpAlone'
  BY SMTT(60) DEF Inv, CleanDelete, Free, Goto, Mine, TypeOK, SetUpAlone, Busy, Untouched,
     Procs
<1>6. AliveOK'
  BY SMTT(60) DEF Inv, CleanDelete, Free, Goto, Mine, TypeOK, TaskOK, AliveOK, Alive,
     SetUpAlone, Busy, Untouched, CleanedOK, LocksMatch, Holds, Procs, TaskRecord,
     BisectorRecord
<1>7. CleanedOK'
  BY SMTT(60) DEF Inv, CleanDelete, Free, Goto, Mine, TypeOK, TaskOK, BisectOnly,
     CleanedOK,
     Procs, TaskRecord, BisectorRecord
<1>8. GoesOn'
  BY SMTT(60) DEF Inv, CleanDelete, Free, Goto, Mine, TypeOK, GoesOn, Busy, Procs
<1> QED
  BY <1>1, <1>2, <1>3, <1>4, <1>5, <1>6, <1>7, <1>8 DEF Inv

\* Clean stops the monitor.
LEMMA CleanDoneInv ==
  ASSUME Inv, NEW p \in Handlers \cup Bisections, CleanDone(p)
  PROVE  Inv'
<1> USE KCSAssumption
<1>1. TypeOK'
  BY SMTT(60) DEF Inv, CleanDone, Released, Mine, TypeOK, TaskOK, Procs, Locks, HandlerPC,
     MonitorPC, TrackerPC, TaskRecord, BisectorRecord, BisectOnly
<1>2. TaskOK'
  BY DEF Inv, CleanDone, Released, Mine, TypeOK, TaskOK, Procs, BisectOnly
<1>3. LocksMatch'
  BY DEF Inv, CleanDone, Released, Mine, TypeOK, LocksMatch, Holds, Procs
<1>4. OneTurn'
  BY SMTT(60) DEF Inv, CleanDone, Released, Mine, TypeOK, OneTurn, Works, Procs
<1>5. SetUpAlone'
  BY SMTT(60) DEF Inv, CleanDone, Released, Mine, TypeOK, SetUpAlone, Busy, Untouched,
     Procs
<1>6. AliveOK'
  <2>1. Mine(p) \in Bisections /\ ~bisector[Mine(p)].registered /\ pc[Mine(p)] = "select"
    BY MineType DEF Inv, CleanedOK, CleanDone, Mine, BisectOnly
  <2>2. /\ pc' = [pc EXCEPT ![p] = "idle", ![Mine(p)] = "stopped"] /\ task' = task
        /\ bisector' = [bisector EXCEPT ![Mine(p)].done = "closed"]
    BY DEF CleanDone
  <2>3. p # Mine(p)
    BY <2>1 DEF CleanDone
  <2>4. p \in Handlers
    BY <2>3 DEF Mine
  <2>5. \A b \in Bisections : b # Mine(p) => /\ bisector'[b] = bisector[b] /\ pc'[b] = pc[b]
    BY <2>1, <2>2, <2>4 DEF Inv, TypeOK, Procs
  <2>6. bisector'[Mine(p)].registered = bisector[Mine(p)].registered
    BY <2>1, <2>2, SMTT(60) DEF Inv, TypeOK, BisectorRecord
  <2>7. \A g \in Handlers : pc'[g] = "register" => pc[g] = "register" /\ task[g].id # Mine(p)
    <3>1. Busy(p, Mine(p)) /\ pc[p] = "done"
      BY <2>4, SMTT(60) DEF CleanDone, Busy, Mine
    <3> QED
      BY <2>1, <2>2, <2>4, <3>1, SMTT(60) DEF Inv, TypeOK, Procs, SetUpAlone, Busy
  <2>8. \A b \in Bisections : b # Mine(p) => (Alive(b)' <=> Alive(b))
    BY <2>5 DEF Alive
  <2>9. \A g \in Handlers, b \in Bisections :
          Busy(g, b)' /\ pc'[g] = "register" => Busy(g, b) /\ pc[g] = "register" /\ b # Mine(p)
    BY <2>2, <2>7, SMTT(60) DEF Busy
  <2> QED
    BY <2>1, <2>5, <2>6, <2>8, <2>9, SMTT(60) DEF Inv, AliveOK
<1>7. CleanedOK'
  BY SMTT(60) DEF Inv, CleanDone, Released, Mine, TypeOK, CleanedOK, Procs
<1>8. GoesOn'
  BY SMTT(60) DEF Inv, CleanDone, Released, Mine, TypeOK, TaskOK, BisectOnly, GoesOn,
     Busy,
     CleanedOK, Procs
<1> QED
  BY <1>1, <1>2, <1>3, <1>4, <1>5, <1>6, <1>7, <1>8 DEF Inv

\* Clean finds the channel closed.
LEMMA CleanPanicsInv ==
  ASSUME Inv, NEW h \in Handlers, CleanPanics(h)
  PROVE  Inv'
<1> USE KCSAssumption
<1>1. TypeOK'
  <2>1. task' \in [Handlers -> TaskRecord]
    BY ZenonT(120) DEF Inv, TypeOK, CleanPanics, TaskRecord
  <2>2. locks' \in [Locks -> Handlers \cup Bisections \cup {Nobody}]
    BY DEF Inv, TypeOK, CleanPanics, Released
  <2> QED
    BY <2>1, <2>2 DEF Inv, TypeOK, CleanPanics, Goto, Procs, HandlerPC
<1>2. TaskOK'
  BY DEF Inv, CleanPanics, Released, Goto, Mine, TypeOK, TaskOK, Procs, BisectOnly
<1>3. LocksMatch'
  BY DEF Inv, CleanPanics, Released, Goto, Mine, TypeOK, LocksMatch, Holds, Procs
<1>4. OneTurn'
  BY DEF Inv, CleanPanics, Released, Goto, Mine, TypeOK, OneTurn, Works, Procs
<1>5. SetUpAlone'
  BY DEF Inv, CleanPanics, Released, Goto, Mine, TypeOK, SetUpAlone, Busy, Untouched,
     Procs
<1>6. AliveOK'
  BY DEF Inv, CleanPanics, Released, Goto, Mine, TypeOK, AliveOK, Alive, Busy, Procs
<1>7. CleanedOK'
  BY DEF Inv, CleanPanics, Released, Goto, Mine, TypeOK, CleanedOK, Procs
<1>8. GoesOn'
  BY DEF Inv, CleanPanics, Released, Goto, Mine, TypeOK, TaskOK, BisectOnly, GoesOn,
     Busy, CleanedOK, Procs
<1> QED
  BY <1>1, <1>2, <1>3, <1>4, <1>5, <1>6, <1>7, <1>8 DEF Inv

\* Time passes.
LEMMA ExpireInv ==
  ASSUME Inv, NEW b \in Bisections, Expire(b)
  PROVE  Inv'
<1> USE KCSAssumption
<1>1. TypeOK'
  <2>1. bisector' \in [Bisections -> BisectorRecord]
    BY ZenonT(120) DEF Inv, TypeOK, Expire, BisectorRecord
  <2> QED
    BY <2>1 DEF Inv, TypeOK, Expire
<1>2. TaskOK'
  BY DEF Inv, Expire, TypeOK, TaskOK, Procs, BisectOnly
<1>3. LocksMatch'
  BY DEF Inv, Expire, TypeOK, LocksMatch, Holds, Procs
<1>4. OneTurn'
  BY DEF Inv, Expire, TypeOK, OneTurn, Works, Procs
<1>5. SetUpAlone'
  BY DEF Inv, Expire, TypeOK, SetUpAlone, Busy, Untouched, Procs
<1>6. AliveOK'
  BY DEF Inv, Expire, TypeOK, AliveOK, Alive, Busy, Procs
<1>7. CleanedOK'
  BY DEF Inv, Expire, TypeOK, CleanedOK, Procs
<1>8. GoesOn'
  BY DEF Inv, Expire, TypeOK, GoesOn, Busy, Procs
<1> QED
  BY <1>1, <1>2, <1>3, <1>4, <1>5, <1>6, <1>7, <1>8 DEF Inv

\* The monitor finds its bisection expired.
LEMMA CheckActiveInv ==
  ASSUME Inv, NEW b \in Bisections, CheckActive(b)
  PROVE  Inv'
<1> USE KCSAssumption
<1>1. TypeOK'
  BY DEF Inv, CheckActive, Goto, TypeOK, TaskOK, BisectOnly, Procs, HandlerPC,
     MonitorPC
<1>2. TaskOK'
  BY DEF Inv, CheckActive, Goto, TypeOK, TaskOK, Procs, BisectOnly
<1>3. LocksMatch'
  BY DEF Inv, CheckActive, Goto, TypeOK, LocksMatch, Holds, Procs
<1>4. OneTurn'
  BY DEF Inv, CheckActive, Goto, TypeOK, OneTurn, Works, Procs
<1>5. SetUpAlone'
  BY SMTT(60) DEF Inv, CheckActive, Goto, TypeOK, SetUpAlone, Busy, Untouched, Procs
<1>6. AliveOK'
  BY SMTT(60) DEF Inv, CheckActive, Goto, TypeOK, AliveOK, Alive, Busy, Procs
<1>7. CleanedOK'
  BY SMTT(60) DEF Inv, CheckActive, Goto, TypeOK, CleanedOK, Procs
<1>8. GoesOn'
  BY SMTT(60) DEF Inv, CheckActive, Goto, TypeOK, GoesOn, Busy, Procs
<1> QED
  BY <1>1, <1>2, <1>3, <1>4, <1>5, <1>6, <1>7, <1>8 DEF Inv

\* A bisection wants its HEAD built.
LEMMA BuildInv ==
  ASSUME Inv, NEW h \in Handlers, Build(h)
  PROVE  Inv'
<1> USE KCSAssumption
<1>1. TypeOK'
  <2>1. Mine(h) \in Bisections
    BY MineType DEF Build, BisectOnly
  <2>2. bisector' \in [Bisections -> BisectorRecord]
    BY <2>1, ZenonT(120) DEF Inv, TypeOK, Build, BisectorRecord
  <2>4. pc' \in [Procs -> HandlerPC \cup MonitorPC \cup TrackerPC]
        /\ (\A g \in Handlers : pc'[g] \in HandlerPC)
        /\ (\A b \in Bisections : pc'[b] \in MonitorPC) /\ pc'[Tracker] \in TrackerPC
    BY <2>1 DEF Inv, TypeOK, Procs, HandlerPC, Build, Goto
  <2> QED
    BY <2>2, <2>4 DEF Inv, TypeOK, Build, Goto
<1>2. TaskOK'
  BY DEF Inv, Build, Goto, Mine, TypeOK, TaskOK, Procs, BisectOnly
<1>3. LocksMatch'
  BY DEF Inv, Build, Goto, Mine, TypeOK, TaskOK, LocksMatch, Holds, Procs, BisectOnly
<1>4. OneTurn'
  BY SMTT(60) DEF Inv, Build, Goto, Mine, TypeOK, OneTurn, Works, Procs
<1>5. SetUpAlone'
  BY DEF Inv, Build, Goto, Mine, TypeOK, SetUpAlone, Busy, Untouched, Procs
<1>6. AliveOK'
  BY DEF Inv, Build, Goto, Mine, TypeOK, AliveOK, Alive, Busy, Procs
<1>7. CleanedOK'
  BY DEF Inv, Build, Goto, Mine, TypeOK, CleanedOK, Procs
<1>8. GoesOn'
  BY DEF Inv, Build, Goto, Mine, TypeOK, GoesOn, Busy, Procs
<1> QED
  BY <1>1, <1>2, <1>3, <1>4, <1>5, <1>6, <1>7, <1>8 DEF Inv

\* There is no HEAD to build.
LEMMA BuildPanicsInv ==
  ASSUME Inv, NEW h \in Handlers, BuildPanics(h)
  PROVE  Inv'
<1> USE KCSAssumption
<1>1. TypeOK'
  <2>1. Mine(h) \in Bisections
    BY MineType DEF BuildPanics, BisectOnly
  <2>2. bisector' \in [Bisections -> BisectorRecord]
    BY <2>1, ZenonT(120) DEF Inv, TypeOK, BuildPanics, BisectorRecord
  <2>3. task' \in [Handlers -> TaskRecord]
    BY ZenonT(120) DEF Inv, TypeOK, BuildPanics, Unwind, Goto, TaskRecord
  <2>4. pc' \in [Procs -> HandlerPC \cup MonitorPC \cup TrackerPC]
        /\ (\A g \in Handlers : pc'[g] \in HandlerPC)
        /\ (\A b \in Bisections : pc'[b] \in MonitorPC) /\ pc'[Tracker] \in TrackerPC
    BY <2>1 DEF Inv, TypeOK, Procs, HandlerPC, BuildPanics, Unwind, Goto
  <2> QED
    BY <2>2, <2>3, <2>4 DEF Inv, TypeOK, BuildPanics, Unwind, Goto
<1>2. TaskOK'
  BY DEF Inv, BuildPanics, Unwind, Goto, Mine, TypeOK, TaskOK, Procs, BisectOnly
<1>3. LocksMatch'
  BY DEF Inv, BuildPanics, Unwind, Goto, Mine, TypeOK, LocksMatch, Holds, Procs
<1>4. OneTurn'
  BY DEF Inv, BuildPanics, Unwind, Goto, Mine, TypeOK, OneTurn, Works, Procs
<1>5. SetUpAlone'
  BY SMTT(60) DEF Inv, BuildPanics, Unwind, Goto, Mine, TypeOK, SetUpAlone, Busy,
     Untouched,
     Procs
<1>6. AliveOK'
  BY SMTT(60) DEF Inv, BuildPanics, Unwind, Goto, Mine, TypeOK, AliveOK, Alive, Busy,
     Procs
<1>7. CleanedOK'
  BY DEF Inv, BuildPanics, Unwind, Goto, Mine, TypeOK, CleanedOK, Procs
<1>8. GoesOn'
  BY SMTT(60) DEF Inv, BuildPanics, Unwind, Goto, Mine, TypeOK, GoesOn, Busy, Procs
<1> QED
  BY <1>1, <1>2, <1>3, <1>4, <1>5, <1>6, <1>7, <1>8 DEF Inv

\* StartBuild takes repoLock.
LEMMA RepoLockInv ==
  ASSUME Inv, NEW h \in Handlers, RepoLock(h)
  PROVE  Inv'
<1> USE KCSAssumption
<1>1. TypeOK'
  BY ZenonT(60) DEF Inv, RepoLock, Free, Goto, TypeOK, Procs, HandlerPC
<1>2. TaskOK'
  BY SMTT(60) DEF Inv, RepoLock, Free, Goto, TypeOK, TaskOK, Procs, BisectOnly
<1>3. LocksMatch'
  BY SMTT(60) DEF Inv, RepoLock, Free, Goto, TypeOK, TaskOK, LocksMatch, Holds, Procs,
     BisectOnly
<1>4. OneTurn'
  BY SMTT(60) DEF Inv, RepoLock, Free, Goto, TypeOK, OneTurn, Works, Procs
<1>5. SetUpAlone'
  BY SMTT(60) DEF Inv, RepoLock, Free, Goto, TypeOK, SetUpAlone, Busy, Untouched, Procs
<1>6. AliveOK'
  BY SMTT(60) DEF Inv, RepoLock, Free, Goto, TypeOK, AliveOK, Alive, Busy, Procs
<1>7. CleanedOK'
  BY SMTT(60) DEF Inv, RepoLock, Free, Goto, TypeOK, CleanedOK, Procs
<1>8. GoesOn'
  BY SMTT(60) DEF Inv, RepoLock, Free, Goto, TypeOK, GoesOn, Busy, Procs
<1> QED
  BY <1>1, <1>2, <1>3, <1>4, <1>5, <1>6, <1>7, <1>8 DEF Inv

\* StartBuild ends early.
LEMMA CheckoutFailsInv ==
  ASSUME Inv, NEW h \in Handlers, CheckoutFails(h)
  PROVE  Inv'
<1> USE KCSAssumption
<1>1. TypeOK'
  BY SMTT(60) DEF Inv, CheckoutFails, Goto, TypeOK, Procs, HandlerPC
<1>2. TaskOK'
  BY SMTT(60) DEF Inv, CheckoutFails, Goto, TypeOK, TaskOK, Procs, BisectOnly
<1>3. LocksMatch'
  BY SMTT(60) DEF Inv, CheckoutFails, Goto, TypeOK, LocksMatch, Holds, Procs
<1>4. OneTurn'
  BY SMTT(60) DEF Inv, CheckoutFails, Goto, TypeOK, OneTurn, Works, Procs
<1>5. SetUpAlone'
  BY SMTT(60) DEF Inv, CheckoutFails, Goto, TypeOK, SetUpAlone, Busy, Untouched, Procs
<1>6. AliveOK'
  BY SMTT(60) DEF Inv, CheckoutFails, Goto, TypeOK, AliveOK, Alive, Busy, Procs
<1>7. CleanedOK'
  BY SMTT(60) DEF Inv, CheckoutFails, Goto, TypeOK, CleanedOK, Procs
<1>8. GoesOn'
  BY SMTT(60) DEF Inv, CheckoutFails, Goto, TypeOK, TaskOK, BisectOnly, GoesOn, Busy,
     CleanedOK, Procs
<1> QED
  BY <1>1, <1>2, <1>3, <1>4, <1>5, <1>6, <1>7, <1>8 DEF Inv

\* RunBuild takes buildLock.
LEMMA BuildLockInv ==
  ASSUME Inv, NEW h \in Handlers, BuildLock(h)
  PROVE  Inv'
<1> USE KCSAssumption
<1>1. TypeOK'
  BY ZenonT(60) DEF Inv, BuildLock, Free, Goto, TypeOK, Procs, HandlerPC
<1>2. TaskOK'
  BY SMTT(60) DEF Inv, BuildLock, Free, Goto, TypeOK, TaskOK, Procs, BisectOnly
<1>3. LocksMatch'
  BY SMTT(60) DEF Inv, BuildLock, Free, Goto, TypeOK, LocksMatch, Holds, Procs
<1>4. OneTurn'
  BY SMTT(60) DEF Inv, BuildLock, Free, Goto, TypeOK, OneTurn, Works, Procs
<1>5. SetUpAlone'
  BY SMTT(60) DEF Inv, BuildLock, Free, Goto, TypeOK, SetUpAlone, Busy, Untouched, Procs
<1>6. AliveOK'
  BY SMTT(60) DEF Inv, BuildLock, Free, Goto, TypeOK, AliveOK, Alive, Busy, Procs
<1>7. CleanedOK'
  BY SMTT(60) DEF Inv, BuildLock, Free, Goto, TypeOK, CleanedOK, Procs
<1>8. GoesOn'
  BY SMTT(60) DEF Inv, BuildLock, Free, Goto, TypeOK, GoesOn, Busy, Procs
<1> QED
  BY <1>1, <1>2, <1>3, <1>4, <1>5, <1>6, <1>7, <1>8 DEF Inv

\* RunBuild resets the tracker's timer.
LEMMA SignalInv ==
  ASSUME Inv, NEW h \in Handlers, Signal(h)
  PROVE  Inv'
<1> USE KCSAssumption
<1>1. TypeOK'
  BY SMTT(60) DEF Inv, Signal, Goto, TypeOK, Procs, HandlerPC
<1>2. TaskOK'
  BY SMTT(60) DEF Inv, Signal, Goto, TypeOK, TaskOK, Procs, BisectOnly
<1>3. LocksMatch'
  BY SMTT(60) DEF Inv, Signal, Goto, TypeOK, LocksMatch, Holds, Procs
<1>4. OneTurn'
  BY SMTT(60) DEF Inv, Signal, Goto, TypeOK, OneTurn, Works, Procs
<1>5. SetUpAlone'
  BY SMTT(60) DEF Inv, Signal, Goto, TypeOK, SetUpAlone, Busy, Untouched, Procs
<1>6. AliveOK'
  BY SMTT(60) DEF Inv, Signal, Goto, TypeOK, AliveOK, Alive, Busy, Procs
<1>7. CleanedOK'
  BY SMTT(60) DEF Inv, Signal, Goto, TypeOK, CleanedOK, Procs
<1>8. GoesOn'
  BY SMTT(60) DEF Inv, Signal, Goto, TypeOK, GoesOn, Busy, Procs
<1> QED
  BY <1>1, <1>2, <1>3, <1>4, <1>5, <1>6, <1>7, <1>8 DEF Inv

\* BuildUpload takes the lock of the repository.
LEMMA CompileInv ==
  ASSUME Inv, NEW h \in Handlers, Compile(h)
  PROVE  Inv'
<1> USE KCSAssumption
<1>1. TypeOK'
  BY ZenonT(60) DEF Inv, Compile, Free, Goto, Mine, TypeOK, Procs, HandlerPC
<1>2. TaskOK'
  BY SMTT(60) DEF Inv, Compile, Free, Goto, Mine, TypeOK, TaskOK, Procs, BisectOnly
<1>3. LocksMatch'
  BY SMTT(60) DEF Inv, Compile, Free, Goto, Mine, TypeOK, LocksMatch, Holds, Procs
<1>4. OneTurn'
  BY SMTT(60) DEF Inv, Compile, Free, Goto, Mine, TypeOK, OneTurn, Works, Procs
<1>5. SetUpAlone'
  BY SMTT(60) DEF Inv, Compile, Free, Goto, Mine, TypeOK, SetUpAlone, Busy, Untouched,
     Procs
<1>6. AliveOK'
  BY SMTT(60) DEF Inv, Compile, Free, Goto, Mine, TypeOK, AliveOK, Alive, Busy, Procs
<1>7. CleanedOK'
  BY SMTT(60) DEF Inv, Compile, Free, Goto, Mine, TypeOK, CleanedOK, Procs
<1>8. GoesOn'
  BY SMTT(60) DEF Inv, Compile, Free, Goto, Mine, TypeOK, GoesOn, Busy, Procs
<1> QED
  BY <1>1, <1>2, <1>3, <1>4, <1>5, <1>6, <1>7, <1>8 DEF Inv

\* A kernel is built.
LEMMA BuiltInv ==
  ASSUME Inv, NEW h \in Handlers, Built(h)
  PROVE  Inv'
<1> USE KCSAssumption
<1>1. TypeOK'
  BY ZenonT(60) DEF Inv, Built, Released, Goto, TypeOK, Procs, HandlerPC
<1>2. TaskOK'
  BY SMTT(60) DEF Inv, Built, Released, Goto, TypeOK, TaskOK, Procs, BisectOnly
<1>3. LocksMatch'
  BY SMTT(60) DEF Inv, Built, Released, Goto, TypeOK, LocksMatch, Holds, Procs
<1>4. OneTurn'
  BY SMTT(60) DEF Inv, Built, Released, Goto, TypeOK, OneTurn, Works, Procs
<1>5. SetUpAlone'
  BY SMTT(60) DEF Inv, Built, Released, Goto, TypeOK, SetUpAlone, Busy, Untouched, Procs
<1>6. AliveOK'
  BY SMTT(60) DEF Inv, Built, Released, Goto, TypeOK, AliveOK, Alive, Busy, Procs
<1>7. CleanedOK'
  BY SMTT(60) DEF Inv, Built, Released, Goto, TypeOK, CleanedOK, Procs
<1>8. GoesOn'
  BY SMTT(60) DEF Inv, Built, Released, Goto, TypeOK, GoesOn, Busy, Procs
<1> QED
  BY <1>1, <1>2, <1>3, <1>4, <1>5, <1>6, <1>7, <1>8 DEF Inv

\* A kernel is not built.
LEMMA BuildFailsInv ==
  ASSUME Inv, NEW h \in Handlers, BuildFails(h)
  PROVE  Inv'
<1> USE KCSAssumption
<1>1. TypeOK'
  BY SMTT(60) DEF Inv, BuildFails, Released, Goto, TypeOK, Procs, HandlerPC
<1>2. TaskOK'
  BY SMTT(60) DEF Inv, BuildFails, Released, Goto, TypeOK, TaskOK, Procs, BisectOnly
<1>3. LocksMatch'
  BY SMTT(60) DEF Inv, BuildFails, Released, Goto, TypeOK, LocksMatch, Holds, Procs
<1>4. OneTurn'
  BY SMTT(60) DEF Inv, BuildFails, Released, Goto, TypeOK, OneTurn, Works, Procs
<1>5. SetUpAlone'
  BY SMTT(60) DEF Inv, BuildFails, Released, Goto, TypeOK, SetUpAlone, Busy, Untouched,
     Procs
<1>6. AliveOK'
  BY SMTT(60) DEF Inv, BuildFails, Released, Goto, TypeOK, AliveOK, Alive, Busy, Procs
<1>7. CleanedOK'
  BY SMTT(60) DEF Inv, BuildFails, Released, Goto, TypeOK, CleanedOK, Procs
<1>8. GoesOn'
  BY SMTT(60) DEF Inv, BuildFails, Released, Goto, TypeOK, TaskOK, BisectOnly, GoesOn,
     Busy,
     CleanedOK, Procs
<1> QED
  BY <1>1, <1>2, <1>3, <1>4, <1>5, <1>6, <1>7, <1>8 DEF Inv

\* StartBuild hands the kernel to LTM.
LEMMA SendBuildInv ==
  ASSUME Inv, NEW h \in Handlers, SendBuild(h)
  PROVE  Inv'
<1> USE KCSAssumption
<1>1. TypeOK'
  BY SMTT(60) DEF Inv, SendBuild, Released, Goto, TypeOK, Procs, HandlerPC
<1>2. TaskOK'
  BY SMTT(60) DEF Inv, SendBuild, Released, Goto, TypeOK, TaskOK, Procs, BisectOnly
<1>3. LocksMatch'
  BY SMTT(60) DEF Inv, SendBuild, Released, Goto, TypeOK, LocksMatch, Holds, Procs
<1>4. OneTurn'
  BY SMTT(60) DEF Inv, SendBuild, Released, Goto, TypeOK, OneTurn, Works, Procs
<1>5. SetUpAlone'
  BY SMTT(60) DEF Inv, SendBuild, Released, Goto, TypeOK, SetUpAlone, Busy, Untouched,
     Procs
<1>6. AliveOK'
  BY SMTT(60) DEF Inv, SendBuild, Released, Goto, TypeOK, AliveOK, Alive, Busy, Procs
<1>7. CleanedOK'
  BY SMTT(60) DEF Inv, SendBuild, Released, Goto, TypeOK, CleanedOK, Procs
<1>8. GoesOn'
  BY SMTT(60) DEF Inv, SendBuild, Released, Goto, TypeOK, TaskOK, BisectOnly, GoesOn,
     Busy,
     CleanedOK, Procs
<1> QED
  BY <1>1, <1>2, <1>3, <1>4, <1>5, <1>6, <1>7, <1>8 DEF Inv

\* LTM takes the test of a bisection.
LEMMA SendTestInv ==
  ASSUME Inv, NEW h \in Handlers, SendTest(h)
  PROVE  Inv'
<1> USE KCSAssumption
<1>1. TypeOK'
  BY ZenonT(60) DEF Inv, SendTest, Goto, Mine, TypeOK, Procs, HandlerPC
<1>2. TaskOK'
  BY SMTT(60) DEF Inv, SendTest, Goto, Mine, TypeOK, TaskOK, Procs, BisectOnly
<1>3. LocksMatch'
  BY SMTT(60) DEF Inv, SendTest, Goto, Mine, TypeOK, LocksMatch, Holds, Procs
<1>4. OneTurn'
  BY SMTT(60) DEF Inv, SendTest, Goto, Mine, TypeOK, OneTurn, Works, Procs
<1>5. SetUpAlone'
  BY SMTT(60) DEF Inv, SendTest, Goto, Mine, TypeOK, SetUpAlone, Busy, Untouched, Procs
<1>6. AliveOK'
  BY SMTT(60) DEF Inv, SendTest, Goto, Mine, TypeOK, AliveOK, Alive, Busy, Procs
<1>7. CleanedOK'
  BY SMTT(60) DEF Inv, SendTest, Goto, Mine, TypeOK, CleanedOK, Procs
<1>8. GoesOn'
  BY SMTT(60) DEF Inv, SendTest, Goto, Mine, TypeOK, GoesOn, Busy, Procs
<1> QED
  BY <1>1, <1>2, <1>3, <1>4, <1>5, <1>6, <1>7, <1>8 DEF Inv

\* LTM answers.
LEMMA RepliedInv ==
  ASSUME Inv, NEW h \in Handlers, Replied(h)
  PROVE  Inv'
<1> USE KCSAssumption
<1>1. TypeOK'
  BY SMTT(60) DEF Inv, Replied, Goto, TypeOK, Procs, HandlerPC
<1>2. TaskOK'
  BY SMTT(60) DEF Inv, Replied, Goto, TypeOK, TaskOK, Procs, BisectOnly
<1>3. LocksMatch'
  BY SMTT(60) DEF Inv, Replied, Goto, TypeOK, LocksMatch, Holds, Procs
<1>4. OneTurn'
  BY SMTT(60) DEF Inv, Replied, Goto, TypeOK, OneTurn, Works, Procs
<1>5. SetUpAlone'
  BY SMTT(60) DEF Inv, Replied, Goto, TypeOK, SetUpAlone, Busy, Untouched, Procs
<1>6. AliveOK'
  BY SMTT(60) DEF Inv, Replied, Goto, TypeOK, AliveOK, Alive, Busy, Procs
<1>7. CleanedOK'
  BY SMTT(60) DEF Inv, Replied, Goto, TypeOK, CleanedOK, Procs
<1>8. GoesOn'
  BY SMTT(60) DEF Inv, Replied, Goto, TypeOK, GoesOn, Busy, Procs
<1> QED
  BY <1>1, <1>2, <1>3, <1>4, <1>5, <1>6, <1>7, <1>8 DEF Inv

\* LTM does not answer and RunBisect panics.
LEMMA SendFailsInv ==
  ASSUME Inv, NEW h \in Handlers, SendFails(h)
  PROVE  Inv'
<1> USE KCSAssumption
<1>1. TypeOK'
  <2>1. task' \in [Handlers -> TaskRecord]
    BY ZenonT(120) DEF Inv, TypeOK, SendFails, Unwind, TaskRecord
  <2> QED
    BY <2>1 DEF Inv, TypeOK, SendFails, Unwind, Goto, Procs, HandlerPC
<1>2. TaskOK'
  BY DEF Inv, SendFails, Unwind, Goto, TypeOK, TaskOK, Procs, BisectOnly
<1>3. LocksMatch'
  BY DEF Inv, SendFails, Unwind, Goto, TypeOK, LocksMatch, Holds, Procs
<1>4. OneTurn'
  BY DEF Inv, SendFails, Unwind, Goto, TypeOK, OneTurn, Works, Procs
<1>5. SetUpAlone'
  BY DEF Inv, SendFails, Unwind, Goto, TypeOK, SetUpAlone, Busy, Untouched, Procs
<1>6. AliveOK'
  BY DEF Inv, SendFails, Unwind, Goto, TypeOK, AliveOK, Alive, Busy, Procs
<1>7. CleanedOK'
  BY DEF Inv, SendFails, Unwind, Goto, TypeOK, CleanedOK, Procs
<1>8. GoesOn'
  BY DEF Inv, SendFails, Unwind, Goto, TypeOK, GoesOn, Busy, Procs
<1> QED
  BY <1>1, <1>2, <1>3, <1>4, <1>5, <1>6, <1>7, <1>8 DEF Inv

\* The tracker's hour is over.
LEMMA TimerFiresInv ==
  ASSUME Inv, TimerFires
  PROVE  Inv'
<1> USE KCSAssumption
<1>1. TypeOK'
  BY SMTT(60) DEF Inv, TimerFires, Goto, TypeOK, TaskOK, BisectOnly, Procs, Locks,
     HandlerPC,
     MonitorPC, TrackerPC
<1>2. TaskOK'
  BY SMTT(60) DEF Inv, TimerFires, Goto, TypeOK, TaskOK, Procs, BisectOnly
<1>3. LocksMatch'
  BY SMTT(60) DEF Inv, TimerFires, Goto, TypeOK, LocksMatch, Holds, Procs
<1>4. OneTurn'
  BY SMTT(60) DEF Inv, TimerFires, Goto, TypeOK, OneTurn, Works, Procs
<1>5. SetUpAlone'
  BY SMTT(60) DEF Inv, TimerFires, Goto, TypeOK, SetUpAlone, Busy, Untouched, Procs
<1>6. AliveOK'
  BY SMTT(60) DEF Inv, TimerFires, Goto, TypeOK, AliveOK, Alive, Busy, Procs
<1>7. CleanedOK'
  BY SMTT(60) DEF Inv, TimerFires, Goto, TypeOK, CleanedOK, Procs
<1>8. GoesOn'
  BY SMTT(60) DEF Inv, TimerFires, Goto, TypeOK, GoesOn, Busy, Procs
<1> QED
  BY <1>1, <1>2, <1>3, <1>4, <1>5, <1>6, <1>7, <1>8, SMTT(60) DEF Inv

\* The tracker counts bisections.
LEMMA BisectorStatusInv ==
  ASSUME Inv, BisectorStatus
  PROVE  Inv'
<1> USE KCSAssumption
<1>1. TypeOK'
  BY SMTT(60) DEF Inv, BisectorStatus, Free, Goto, TypeOK, TaskOK, BisectOnly, Procs,
     Locks,
     HandlerPC, MonitorPC, TrackerPC
<1>2. TaskOK'
  BY SMTT(60) DEF Inv, BisectorStatus, Free, Goto, TypeOK, TaskOK, Procs, BisectOnly
<1>3. LocksMatch'
  BY SMTT(60) DEF Inv, BisectorStatus, Free, Goto, TypeOK, LocksMatch, Holds, Procs
<1>4. OneTurn'
  BY SMTT(60) DEF Inv, BisectorStatus, Free, Goto, TypeOK, OneTurn, Works, Procs
<1>5. SetUpAlone'
  BY SMTT(60) DEF Inv, BisectorStatus, Free, Goto, TypeOK, SetUpAlone, Busy, Untouched,
     Procs
<1>6. AliveOK'
  BY SMTT(60) DEF Inv, BisectorStatus, Free, Goto, TypeOK, AliveOK, Alive, Busy, Procs
<1>7. CleanedOK'
  BY SMTT(60) DEF Inv, BisectorStatus, Free, Goto, TypeOK, CleanedOK, Procs
<1>8. GoesOn'
  BY SMTT(60) DEF Inv, BisectorStatus, Free, Goto, TypeOK, GoesOn, Busy, Procs
<1> QED
  BY <1>1, <1>2, <1>3, <1>4, <1>5, <1>6, <1>7, <1>8 DEF Inv

\* The tracker closes the web server.
LEMMA ShutdownInv ==
  ASSUME Inv, Shutdown
  PROVE  Inv'
<1> USE KCSAssumption
<1>1. TypeOK'
  BY SMTT(60) DEF Inv, Shutdown, Goto, TypeOK, TaskOK, BisectOnly, Procs, Locks,
     HandlerPC,
     MonitorPC, TrackerPC
<1>2. TaskOK'
  BY SMTT(60) DEF Inv, Shutdown, Goto, TypeOK, TaskOK, Procs, BisectOnly
<1>3. LocksMatch'
  BY SMTT(60) DEF Inv, Shutdown, Goto, TypeOK, LocksMatch, Holds, Procs
<1>4. OneTurn'
  BY SMTT(60) DEF Inv, Shutdown, Goto, TypeOK, OneTurn, Works, Procs
<1>5. SetUpAlone'
  BY SMTT(60), Z3T(60) DEF Inv, Shutdown, Goto, TypeOK, SetUpAlone, Busy, Untouched, Procs
<1>6. AliveOK'
  BY SMTT(60) DEF Inv, Shutdown, Goto, TypeOK, AliveOK, Alive, Busy, Procs
<1>7. CleanedOK'
  BY SMTT(60) DEF Inv, Shutdown, Goto, TypeOK, CleanedOK, Procs
<1>8. GoesOn'
  BY SMTT(60) DEF Inv, Shutdown, Goto, TypeOK, GoesOn, Busy, Procs
<1> QED
  BY <1>1, <1>2, <1>3, <1>4, <1>5, <1>6, <1>7, <1>8 DEF Inv

\* The tracker deletes the VM.
LEMMA DeleteInstanceInv ==
  ASSUME Inv, DeleteInstance
  PROVE  Inv'
<1> USE KCSAssumption
<1>1. TypeOK'
  BY SMTT(60) DEF Inv, DeleteInstance, Goto, TypeOK, TaskOK, BisectOnly, Procs, Locks,
     HandlerPC, MonitorPC, TrackerPC
<1>2. TaskOK'
  BY SMTT(60) DEF Inv, DeleteInstance, Goto, TypeOK, TaskOK, Procs, BisectOnly
<1>3. LocksMatch'
  BY SMTT(60) DEF Inv, DeleteInstance, Goto, TypeOK, LocksMatch, Holds, Procs
<1>4. OneTurn'
  BY SMTT(60) DEF Inv, DeleteInstance, Goto, TypeOK, OneTurn, Works, Procs
<1>5. SetUpAlone'
  BY SMTT(60) DEF Inv, DeleteInstance, Goto, TypeOK, SetUpAlone, Busy, Untouched, Procs
<1>6. AliveOK'
  BY SMTT(60) DEF Inv, DeleteInstance, Goto, TypeOK, AliveOK, Alive, Busy, Procs
<1>7. CleanedOK'
  BY SMTT(60) DEF Inv, DeleteInstance, Goto, TypeOK, CleanedOK, Procs
<1>8. GoesOn'
  BY DEF Inv, DeleteInstance, Goto, TypeOK, GoesOn, Busy, Procs
<1> QED
  BY <1>1, <1>2, <1>3, <1>4, <1>5, <1>6, <1>7, <1>8 DEF Inv

\* Every step of the server keeps the invariant.
LEMMA NextInv == Inv /\ [Next]_vars => Inv'
<1> SUFFICES ASSUME Inv, [Next]_vars PROVE Inv'
  BY SMTT(120)
<1>1. CASE UNCHANGED vars
  <2>1. UNCHANGED <<pc, task, bisector, locks, ltm>>
    BY <1>1 DEF vars
  <2>2. TypeOK' /\ TaskOK' /\ LocksMatch'
    BY <2>1 DEF Inv, TypeOK, TaskOK, LocksMatch, Holds
  <2>3. OneTurn' /\ SetUpAlone'
    BY <2>1 DEF Inv, OneTurn, Works, SetUpAlone, Busy, Untouched
  <2>4. AliveOK' /\ CleanedOK' /\ GoesOn'
    BY <2>1 DEF Inv, AliveOK, Alive, Busy, CleanedOK, GoesOn
  <2> QED
    BY <2>2, <2>3, <2>4 DEF Inv
<1>2. ASSUME NEW h \in Handlers, Receive(h) PROVE Inv'
  BY <1>2, TakeStartInv, TakeStepInv, TakeBuildInv DEF Receive
<1>3. ASSUME NEW p \in Handlers \cup Bisections, Clean(p) PROVE Inv'
  BY <1>3, CleanLockInv, CleanDeleteInv, CleanDoneInv, SMTT(60) DEF Clean
<1>4. ASSUME NEW h \in Handlers, Handle(h) PROVE Inv'
  BY <1>3, <1>4, SMTT(120), CrashInv, ExistsInv, NewGitBisectorInv,
     NewGitBisectorPanicsInv,
     RegisterInv,
     StartInv, LookupInv, LookupPanicsInv, StepInv, GitFailsInv, FinishInv, CleanPanicsInv, BuildInv,
     BuildPanicsInv, RepoLockInv, CheckoutFailsInv, BuildLockInv, SignalInv, CompileInv,
     BuiltInv, BuildFailsInv, SendBuildInv, SendTestInv, RepliedInv, SendFailsInv
     DEF Handle, MapRace
<1>5. ASSUME NEW b \in Bisections, Monitor(b) \/ Expire(b) \/ ReportLost(b) PROVE Inv'
  BY <1>3, <1>5, CheckActiveInv, ExpireInv, ReportLostInv, SMTT(60) DEF Monitor
<1>6. CASE Track
  BY <1>6, CrashInv, TimerFiresInv, BisectorStatusInv, ShutdownInv, DeleteInstanceInv
     DEF Track, ShutdownPanics
<1> QED
  BY <1>1, <1>2, <1>4, <1>5, <1>6 DEF Next

-----------------------------------------------------------------------------
(* The theorems.                                                           *)

\* The invariant holds in every reachable state of the compile server.
THEOREM Invariance == Spec => []Inv
  BY InitInv, NextInv, PTL DEF Spec

\* Every goroutine of the server is where it can be, and what it shares is well typed.
THEOREM TypeCorrect == Spec => []TypeOK
  BY Invariance, PTL DEF Inv

\* No lock is leaked on any path of any goroutine, and none is held by two.
THEOREM LocksAreReleased == Spec => []LocksMatch
  BY Invariance, PTL DEF Inv

\* A bisection in bisectorMap has its repository and its monitor.
THEOREM RegisteredAreWhole == Spec => []RegisteredIsWhole
<1>1. Inv => RegisteredIsWhole
  BY SMTT(60) DEF Inv, AliveOK, Alive, RegisteredIsWhole
<1> QED
  BY <1>1, Invariance, PTL

\* No two requests work on a bisection at a time, and none while LTM tests for it,
\* although no lock protects the fields of a GitBisector.
THEOREM WorksAlone == Spec => []OneWorker
<1>1. Inv => OneWorker
  <2> SUFFICES ASSUME Inv, NEW b \in Bisections
               PROVE  /\ Cardinality(Workers(b)) <= 1
                      /\ ltm[b] = "testing" => Workers(b) = {}
    BY DEF OneWorker
  <2>1. \A h \in Workers(b) : h \in Handlers /\ Works(h, b)
    BY DEF Workers, Works
  <2>2. \A g, h \in Workers(b) : g = h
    BY <2>1 DEF Inv, OneTurn
  <2>3. ltm[b] = "testing" => Workers(b) = {}
    BY <2>1 DEF Inv, OneTurn
  <2>4. CASE Workers(b) = {}
    BY <2>3, <2>4, FS_EmptySet, SMTT(60)
  <2>5. CASE Workers(b) # {}
    <3>1. PICK h : Workers(b) = {h}
      BY <2>2, <2>5, SMTT(60)
    <3> QED
      BY <2>3, <3>1, FS_Singleton
  <2> QED
    BY <2>4, <2>5
<1> QED
  BY <1>1, Invariance, PTL

\* A bisection in bisectorMap is worked on or tested, after any panic behind the
\* deferred Exit; the exceptions are a report of LTM that was lost and one that
\* RunBisect panicked over before it.
THEOREM NoneStranded == Spec => []NotStranded
<1>1. Inv => NotStranded
  BY DEF Inv, GoesOn, Busy, NotStranded
<1> QED
  BY <1>1, Invariance, PTL
=============================================================================
