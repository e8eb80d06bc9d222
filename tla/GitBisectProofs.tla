-------------------------- MODULE GitBisectProofs ---------------------------
(***************************************************************************)
(* GitBisect.tla for every number of commits: a bisection that was not     *)
(* misled finds the first bad commit, no commit is built twice, what was   *)
(* learned is kept, and the search is the countdown of Bisection.tla.      *)
(***************************************************************************)
EXTENDS GitBisect, FiniteSetTheorems, WellFoundedInduction, TLAPS

\* c may still be the next HEAD.
Inside(g, c) == g.good < c /\ c < g.bad /\ c \notin g.skipped

\* The ends of the search: the first bad commit is between them, unless misled.
Search(g) ==
  /\ g.goods # {} /\ \A c \in g.goods : c < first
  /\ g.good < g.bad
  /\ ~misled => g.good < first /\ first <= g.bad

\* HEAD is a candidate from the moment git checked it out until Step, and the
\* result Step gets is true of it, unless misled.
HeadInv ==
  /\ bisector.pc \in {"finish", "build", "test", "step"} /\ ~bisector.finished =>
       Inside(git, git.head)
  /\ bisector.finished => bisector.pc \in {"finish", "done"} /\ IsFirstBad(git)
  /\ bisector.pc = "start" => ~misled
  /\ bisector.pc = "step" /\ ~misled => ~Wrong(git.head, bisector.result)

\* What was built is no candidate any more, except HEAD before Step.
HistoryInv ==
  /\ bisector.pc = "start" => bisector.testHistory = <<>>
  /\ EachCommitOnce
  /\ \A i \in DOMAIN bisector.testHistory :
       Inside(git, bisector.testHistory[i]) =>
         /\ bisector.testHistory[i] = git.head
         /\ bisector.pc \in {"test", "step", "failed"}

\* The inductive invariant.
Inv == TypeOK /\ Search(git) /\ HeadInv /\ HistoryInv

-----------------------------------------------------------------------------
(* The invariant is inductive.                                             *)

\* Several good commits have a newest one.
LEMMA NewestIsOne ==
  ASSUME NEW S \in SUBSET Commits, S # {} PROVE Newest(S) \in S
<1> DEFINE D == {Last - c : c \in S}
<1>1. D \subseteq Nat /\ D # {}
  BY GitBisectAssumption DEF Commits
<1>2. PICK d \in D : \A e \in D : ~(<<e, d>> \in OpToRel(<, Nat))
  BY <1>1, NatLessThanWellFounded, WFMin
<1>3. PICK m \in S : d = Last - m
  OBVIOUS
<1>4. ASSUME NEW c \in S PROVE c <= m
  <2>1. ~(Last - c < Last - m)
    BY <1>1, <1>2, <1>3 DEF OpToRel
  <2>2. QED
    BY <2>1, GitBisectAssumption DEF Commits
<1>5. QED
  BY <1>4 DEF Newest

\* The user's commits fit the bug.
LEMMA InitInv == Init => Inv
<1> SUFFICES ASSUME Init PROVE Inv
  OBVIOUS
<1>1. PICK goods \in (SUBSET (0..(first - 1))) \ {{}} :
        git = [goods |-> goods, good |-> 0, bad |-> Last, skipped |-> {}, head |-> Last]
  BY DEF Init
<1>2. first \in 1..Last /\ misled = FALSE
  BY DEF Init
<1>3. goods \subseteq Commits /\ 0 \in Commits /\ Last \in Commits
  BY <1>2, GitBisectAssumption DEF Commits
<1>4. git \in GitRecord
  BY <1>1, <1>3 DEF GitRecord
<1>5. bisector \in BisectorRecord
  BY DEF Init, BisectorRecord, ResultType
<1>6. Search(git)
  BY <1>1, <1>2, GitBisectAssumption DEF Search
<1>7. HeadInv /\ HistoryInv
  BY DEF Init, HeadInv, HistoryInv, EachCommitOnce
<1>8. QED
  BY <1>2, <1>4, <1>5, <1>6, <1>7 DEF Inv, TypeOK

\* git goes on from what it learned: with the end, with a candidate as HEAD, or
\* with an error.
LEMMA ProceedInv ==
  ASSUME Inv, bisector.pc \in {"start", "step"},
         NEW g \in GitRecord, Search(g), g.goods = git.goods,
         \A i \in DOMAIN bisector.testHistory : ~Inside(g, bisector.testHistory[i]),
         Proceed(g), UNCHANGED <<first, misled>>
  PROVE  Inv'
<1>1. bisector \in BisectorRecord /\ ~bisector.finished
  BY DEF Inv, TypeOK, HeadInv
<1>2. CASE IsFirstBad(g) /\ git' = g /\
           bisector' = [bisector EXCEPT !.pc = "finish", !.finished = TRUE]
  <2>1. bisector' \in BisectorRecord
    BY <1>1, <1>2, Zenon DEF BisectorRecord
  <2>2. TypeOK' /\ Search(git)'
    BY <1>2, <2>1 DEF Inv, TypeOK, Search
  <2>3. /\ bisector'.pc = "finish" /\ bisector'.finished
        /\ bisector'.testHistory = bisector.testHistory
    BY <1>1, <1>2 DEF BisectorRecord
  <2>4. HeadInv'
    BY <1>2, <2>3 DEF HeadInv, IsFirstBad
  <2>5. HistoryInv'
    BY <1>2, <2>3 DEF Inv, HistoryInv, EachCommitOnce, Inside
  <2>6. QED
    BY <2>2, <2>4, <2>5 DEF Inv
<1>3. ASSUME NEW c \in Candidates(g), git' = [g EXCEPT !.head = c],
             bisector' = [bisector EXCEPT !.pc = "finish"]
      PROVE  Inv'
  <2>1. bisector' \in BisectorRecord
    BY <1>1, <1>3, Zenon DEF BisectorRecord
  <2>2. c \in Commits /\ Inside(g, c)
    BY DEF Candidates, Inside
  <2>3. git' \in GitRecord
    BY <1>3, <2>2, Zenon DEF GitRecord
  <2>4. /\ git'.goods = g.goods /\ git'.good = g.good /\ git'.bad = g.bad
        /\ git'.skipped = g.skipped /\ git'.head = c
    BY <1>3 DEF GitRecord
  <2>5. TypeOK' /\ Search(git)'
    BY <2>1, <2>3, <2>4 DEF Inv, TypeOK, Search
  <2>6. /\ bisector'.pc = "finish" /\ ~bisector'.finished
        /\ bisector'.testHistory = bisector.testHistory
    BY <1>1, <1>3 DEF BisectorRecord
  <2>7. HeadInv'
    BY <2>2, <2>4, <2>6 DEF HeadInv, Inside
  <2>8. HistoryInv'
    BY <2>4, <2>6 DEF Inv, HistoryInv, EachCommitOnce, Inside
  <2>9. QED
    BY <2>5, <2>7, <2>8 DEF Inv
<1>4. CASE OnlySkipped(g) /\ git' = g /\ Panics
  <2>1. bisector' \in BisectorRecord
    BY <1>1, <1>4, Zenon DEF Panics, BisectorRecord
  <2>2. TypeOK' /\ Search(git)'
    BY <1>4, <2>1 DEF Inv, TypeOK, Search
  <2>3. /\ bisector'.pc = "failed" /\ ~bisector'.finished
        /\ bisector'.testHistory = bisector.testHistory
    BY <1>1, <1>4 DEF Panics, BisectorRecord
  <2>4. HeadInv'
    BY <2>3 DEF HeadInv
  <2>5. HistoryInv'
    BY <1>4, <2>3 DEF Inv, HistoryInv, EachCommitOnce, Inside
  <2>6. QED
    BY <2>2, <2>4, <2>5 DEF Inv
<1>5. QED
  BY <1>2, <1>3, <1>4 DEF Proceed

\* Start: the newest good commit is older than the bug.
LEMMA BisectStartInv == Inv /\ BisectStart => Inv'
<1> SUFFICES ASSUME Inv, BisectStart PROVE Inv'
  OBVIOUS
<1> DEFINE m == Newest(git.goods)
<1> DEFINE g == [git EXCEPT !.good = m]
<1>1. /\ git \in GitRecord /\ git.goods \in SUBSET Commits /\ git.goods # {}
      /\ first \in 1..Last /\ git.bad \in Commits
  BY DEF Inv, TypeOK, GitRecord, Search
<1>2. m \in git.goods /\ m \in Commits
  BY <1>1, NewestIsOne
<1>3. Proceed(g) /\ UNCHANGED <<first, misled>> /\ bisector.pc = "start"
  BY DEF BisectStart
<1> HIDE DEF m
<1>4. g \in GitRecord
  BY <1>1, <1>2, Zenon DEF GitRecord
<1>5. g.goods = git.goods /\ g.good = m /\ g.bad = git.bad
  BY <1>1 DEF GitRecord
<1>6. bisector.testHistory = <<>>
  BY <1>3 DEF Inv, HistoryInv
<1>7. m < first /\ first <= git.bad
  BY <1>2, <1>3 DEF Inv, Search, HeadInv
<1>8. Search(g)
  BY <1>1, <1>2, <1>5, <1>7 DEF Inv, Search, Commits
<1> HIDE DEF g
<1>9. QED
  BY <1>3, <1>4, <1>5, <1>6, <1>8, ProceedInv

\* HEAD is decided or skipped: it is no candidate of what git learned, and
\* nothing that was none before has become one.
LEMMA LearnedFacts ==
  ASSUME Inv, bisector.pc = "step", bisector.result # "Default",
         NEW g, g = Learned(bisector.result)
  PROVE  /\ g \in GitRecord /\ g.goods = git.goods /\ g.head = git.head
         /\ Search(g) /\ ~Inside(g, git.head)
         /\ \A c \in Commits : Inside(g, c) => Inside(git, c)
<1>1. /\ git \in GitRecord /\ git.head \in Commits /\ git.good \in Commits
      /\ git.bad \in Commits /\ git.skipped \in SUBSET Commits /\ first \in 1..Last
      /\ bisector.result \in ResultType
  BY DEF Inv, TypeOK, GitRecord, BisectorRecord
<1>2. /\ git.good < git.head /\ git.head < git.bad
      /\ ~misled => ~Wrong(git.head, bisector.result)
  BY DEF Inv, HeadInv, Inside
<1>3. CASE bisector.result = "Pass"
  <2>1. g = [git EXCEPT !.good = git.head]
    BY <1>3 DEF Learned
  <2>2. g \in GitRecord
    BY <1>1, <2>1, Zenon DEF GitRecord
  <2>3. /\ g.goods = git.goods /\ g.good = git.head /\ g.bad = git.bad
        /\ g.skipped = git.skipped /\ g.head = git.head
    BY <1>1, <2>1 DEF GitRecord
  <2>4. ~misled => git.head < first
    BY <1>1, <1>2, <1>3 DEF Wrong, Commits
  <2>5. Search(g)
    BY <1>2, <2>3, <2>4 DEF Inv, Search
  <2>6. QED
    BY <1>1, <1>2, <2>2, <2>3, <2>5 DEF Inside, Commits
<1>4. CASE bisector.result \in {"Fail", "Hang", "Crash"}
  <2>1. g = [git EXCEPT !.bad = git.head]
    BY <1>4 DEF Learned
  <2>2. g \in GitRecord
    BY <1>1, <2>1, Zenon DEF GitRecord
  <2>3. /\ g.goods = git.goods /\ g.good = git.good /\ g.bad = git.head
        /\ g.skipped = git.skipped /\ g.head = git.head
    BY <1>1, <2>1 DEF GitRecord
  <2>4. ~misled => first <= git.head
    BY <1>1, <1>2, <1>4 DEF Wrong, Commits
  <2>5. Search(g)
    BY <1>2, <2>3, <2>4 DEF Inv, Search
  <2>6. QED
    BY <1>1, <1>2, <2>2, <2>3, <2>5 DEF Inside, Commits
<1>5. CASE bisector.result = "Error"
  <2>1. g = [git EXCEPT !.skipped = git.skipped \cup {git.head}]
    BY <1>5 DEF Learned
  <2>2. git.skipped \cup {git.head} \in SUBSET Commits
    BY <1>1
  <2>3. g \in GitRecord
    BY <1>1, <2>1, <2>2, Zenon DEF GitRecord
  <2>4. /\ g.goods = git.goods /\ g.good = git.good /\ g.bad = git.bad
        /\ g.skipped = git.skipped \cup {git.head} /\ g.head = git.head
    BY <1>1, <2>1 DEF GitRecord
  <2>5. Search(g)
    BY <2>4 DEF Inv, Search
  <2>6. QED
    BY <2>3, <2>4, <2>5 DEF Inside
<1>6. QED
  BY <1>1, <1>3, <1>4, <1>5 DEF ResultType

\* Step: git goes on from what the result told it.
LEMMA BisectStepInv == Inv /\ BisectStep => Inv'
<1> SUFFICES ASSUME Inv, BisectStep PROVE Inv'
  OBVIOUS
<1> DEFINE g == Learned(bisector.result)
<1>1. /\ Proceed(g) /\ UNCHANGED <<first, misled>> /\ bisector.pc = "step"
      /\ bisector.result # "Default"
  BY DEF BisectStep
<1>2. /\ g \in GitRecord /\ g.goods = git.goods /\ Search(g) /\ ~Inside(g, git.head)
      /\ \A c \in Commits : Inside(g, c) => Inside(git, c)
  BY <1>1, LearnedFacts
<1> HIDE DEF g
<1>3. ASSUME NEW i \in DOMAIN bisector.testHistory
      PROVE  ~Inside(g, bisector.testHistory[i])
  <2>1. bisector.testHistory \in Seq(Commits)
    BY DEF Inv, TypeOK, BisectorRecord
  <2>2. bisector.testHistory[i] \in Commits
    BY <2>1
  <2>3. QED
    BY <1>2, <2>2 DEF Inv, HistoryInv
<1>4. QED
  BY <1>1, <1>2, <1>3, ProceedInv

\* A step that leaves git alone and does not build.
LEMMA QuietInv ==
  ASSUME Inv, UNCHANGED <<first, git>>, misled' \in BOOLEAN, misled => misled',
         bisector' \in BisectorRecord, HeadInv',
         bisector'.testHistory = bisector.testHistory, bisector'.pc # "start",
         bisector.pc \in {"test", "step", "failed"} =>
           bisector'.pc \in {"test", "step", "failed"}
  PROVE  Inv'
<1>1. TypeOK'
  BY DEF Inv, TypeOK
<1>2. Search(git)'
  BY DEF Inv, Search
<1>3. HistoryInv'
  BY DEF Inv, HistoryInv, EachCommitOnce, Inside
<1>4. QED
  BY <1>1, <1>2, <1>3 DEF Inv

\* HEAD, a candidate, is built: it was not built before.
LEMMA BuildInv ==
  ASSUME Inv, bisector.pc = "build", UNCHANGED <<first, git, misled>>,
         NEW q \in {"test", "step", "failed"}, NEW r \in ResultType,
         r \in {"Error", bisector.result}, q = "step" => r = "Error",
         bisector' = [[Recorded EXCEPT !.pc = q] EXCEPT !.result = r]
  PROVE  Inv'
<1> DEFINE h == Append(bisector.testHistory, git.head)
<1>1. /\ bisector \in BisectorRecord /\ bisector.testHistory \in Seq(Commits)
      /\ git.head \in Commits
  BY DEF Inv, TypeOK, BisectorRecord, GitRecord
<1>2. h \in Seq(Commits)
  BY <1>1
<1>3. Recorded \in BisectorRecord
  BY <1>1, <1>2, Zenon DEF Recorded, BisectorRecord
<1>4. Recorded.testHistory = h /\ Recorded.finished = bisector.finished
  BY <1>1 DEF Recorded, BisectorRecord
<1>5. [Recorded EXCEPT !.pc = q] \in BisectorRecord
  BY <1>3, Zenon DEF BisectorRecord
<1>6. bisector' \in BisectorRecord
  BY <1>5, Zenon DEF BisectorRecord
<1>7. /\ bisector'.pc = q /\ bisector'.result = r
      /\ bisector'.finished = bisector.finished /\ bisector'.testHistory = h
  BY <1>3, <1>4 DEF BisectorRecord
<1>8. ~bisector.finished /\ Inside(git, git.head)
  BY DEF Inv, HeadInv
<1>9. TypeOK' /\ Search(git)'
  BY <1>6 DEF Inv, TypeOK, Search
<1>10. HeadInv'
  BY <1>7, <1>8 DEF HeadInv, Inside, Wrong
<1>11. ASSUME NEW i \in DOMAIN bisector.testHistory
       PROVE  bisector.testHistory[i] # git.head /\ ~Inside(git, bisector.testHistory[i])
  BY <1>8 DEF Inv, HistoryInv
<1>12. ASSUME NEW i \in DOMAIN h
       PROVE  \/ i \in DOMAIN bisector.testHistory /\ h[i] = bisector.testHistory[i]
              \/ i = Len(bisector.testHistory) + 1 /\ h[i] = git.head
  BY <1>1
<1> HIDE DEF h
<1>13. EachCommitOnce'
  BY <1>7, <1>11, <1>12 DEF Inv, HistoryInv, EachCommitOnce
<1>14. HistoryInv'
  BY <1>7, <1>11, <1>12, <1>13 DEF HistoryInv, Inside
<1>15. QED
  BY <1>9, <1>10, <1>14 DEF Inv

\* Every step preserves the invariant.
LEMMA NextInv == Inv /\ [Next]_vars => Inv'
<1> SUFFICES ASSUME Inv, [Next]_vars PROVE Inv'
  OBVIOUS
<1>1. bisector \in BisectorRecord /\ misled \in BOOLEAN
  BY DEF Inv, TypeOK
<1>2. CASE GitFails \/ BisectStepDefault
  <2>1. bisector' \in BisectorRecord
    BY <1>1, <1>2, Zenon DEF GitFails, BisectStepDefault, Panics, BisectorRecord
  <2>2. /\ bisector'.pc = "failed" /\ bisector'.finished = bisector.finished
        /\ bisector'.testHistory = bisector.testHistory
        /\ bisector.pc \in {"start", "step", "build"}
    BY <1>1, <1>2 DEF GitFails, BisectStepDefault, Panics, BisectorRecord
  <2>3. UNCHANGED <<first, git, misled>>
    BY <1>2 DEF GitFails, BisectStepDefault
  <2>4. HeadInv'
    BY <2>2, <2>3 DEF Inv, HeadInv
  <2>5. QED
    BY <1>1, <2>1, <2>2, <2>3, <2>4, QuietInv
<1>3. CASE Finish
  <2>1. bisector' \in BisectorRecord
    BY <1>1, <1>3, Zenon DEF Finish, BisectorRecord
  <2>2. /\ bisector'.pc = IF bisector.finished THEN "done" ELSE "build"
        /\ bisector'.finished = bisector.finished
        /\ bisector'.testHistory = bisector.testHistory /\ bisector.pc = "finish"
    BY <1>1, <1>3 DEF Finish, BisectorRecord
  <2>3. UNCHANGED <<first, git, misled>>
    BY <1>3 DEF Finish
  <2>4. HeadInv'
    BY <2>2, <2>3 DEF Inv, HeadInv, Inside, IsFirstBad
  <2>5. QED
    BY <1>1, <2>1, <2>2, <2>3, <2>4, QuietInv
<1>4. CASE TestEnds
  <2>1. PICK r \in ResultType : /\ bisector' = [bisector EXCEPT !.pc = "step", !.result = r]
                                /\ misled' = (misled \/ Wrong(git.head, r))
    BY <1>4 DEF TestEnds
  <2>2. bisector' \in BisectorRecord
    BY <1>1, <2>1, Zenon DEF BisectorRecord
  <2>3. /\ bisector'.pc = "step" /\ bisector'.finished = bisector.finished
        /\ bisector'.result = r /\ bisector'.testHistory = bisector.testHistory
    BY <1>1, <2>1 DEF BisectorRecord
  <2>4. bisector.pc = "test" /\ UNCHANGED <<first, git>>
    BY <1>4 DEF TestEnds
  <2>5. misled' \in BOOLEAN /\ (misled => misled')
    BY <1>1, <2>1
  <2>6. HeadInv'
    <3>1. ~bisector.finished /\ Inside(git, git.head)
      BY <2>4 DEF Inv, HeadInv
    <3>2. ~bisector'.finished /\ Inside(git, git.head)'
      BY <2>3, <2>4, <3>1 DEF Inside
    <3>3. ~misled' => ~Wrong(git.head, r)
      BY <2>1, Zenon
    <3>4. Wrong(git.head, bisector.result)' <=> Wrong(git.head, r)
      BY <2>3, <2>4 DEF Wrong
    <3>5. QED
      BY <2>3, <3>2, <3>3, <3>4, Zenon DEF HeadInv
  <2>7. QED
    BY <2>2, <2>3, <2>4, <2>5, <2>6, QuietInv, ZenonT(30)
<1>5. CASE BuildFails
  <2>1. bisector' = [[Recorded EXCEPT !.pc = "step"] EXCEPT !.result = "Error"]
    BY <1>5 DEF BuildFails
  <2>2. QED
    BY <1>5, <2>1, BuildInv DEF BuildFails, ResultType
<1>6. CASE Build \/ StartTestFails
  <2>1. PICK q \in {"test", "failed"} : bisector' = [Recorded EXCEPT !.pc = q]
    BY <1>6 DEF Build, StartTestFails
  <2>2. bisector.pc = "build" /\ UNCHANGED <<first, git, misled>>
    BY <1>6 DEF Build, StartTestFails
  <2>3. bisector.result \in ResultType /\ [Recorded EXCEPT !.pc = q].result = bisector.result
    BY <1>1 DEF Recorded, BisectorRecord
  <2>4. [[Recorded EXCEPT !.pc = q] EXCEPT !.result = bisector.result] = [Recorded EXCEPT !.pc = q]
    BY <1>1, <2>3 DEF Recorded, BisectorRecord
  <2>5. QED
    BY <2>1, <2>2, <2>3, <2>4, BuildInv
<1>7. CASE UNCHANGED vars
  BY <1>7 DEF vars, Inv, TypeOK, Search, HeadInv, HistoryInv, EachCommitOnce, Inside,
     IsFirstBad, Wrong
<1>8. QED
  BY <1>2, <1>3, <1>4, <1>5, <1>6, <1>7, BisectStartInv, BisectStepInv
  DEF Next, RunBisect

-----------------------------------------------------------------------------
(* The results.                                                            *)

\* The invariant holds throughout RunBisect.
THEOREM Invariance == Spec => []Inv
<1>1. QED
  BY InitInv, NextInv, PTL DEF Spec

\* TypeOK, for every number of commits.
THEOREM TypeCorrect == Spec => []TypeOK
<1>1. Inv => TypeOK
  BY DEF Inv
<1>2. QED
  BY <1>1, Invariance, PTL

\* A bisection that was not misled reports the commit that introduced the bug.
THEOREM FindsTheBug == Spec => []FoundIsFirstBad
<1>1. Inv => FoundIsFirstBad
  BY DEF Inv, TypeOK, GitRecord, Commits, Search, HeadInv, IsFirstBad, FoundIsFirstBad
<1>2. QED
  BY <1>1, Invariance, PTL

\* No commit is built, and no test ID used, twice.
THEOREM BuildsOnce == Spec => []EachCommitOnce
<1>1. Inv => EachCommitOnce
  BY DEF Inv, HistoryInv
<1>2. QED
  BY <1>1, Invariance, PTL

\* Every step of the search leaves fewer commits to look at.
THEOREM SearchNarrows == Spec => Narrows
<1>1. Inv /\ [Next]_vars =>
        [git.head # git'.head /\ bisector.pc = "step" =>
           /\ Candidates(git') \subseteq Candidates(git)
           /\ Candidates(git') # Candidates(git)]_vars
  <2> SUFFICES ASSUME Inv, [Next]_vars, git.head # git'.head, bisector.pc = "step"
               PROVE  /\ Candidates(git') \subseteq Candidates(git)
                      /\ Candidates(git') # Candidates(git)
    OBVIOUS
  <2>1. BisectStep
    BY DEF Next, RunBisect, BisectStart, GitFails, Finish, BuildFails, Build,
       StartTestFails, TestEnds, BisectStepDefault, vars
  <2> DEFINE g == Learned(bisector.result)
  <2>2. /\ g \in GitRecord /\ g.head = git.head /\ ~Inside(g, git.head)
        /\ \A c \in Commits : Inside(g, c) => Inside(git, c)
    BY <2>1, LearnedFacts DEF BisectStep
  <2>3. Proceed(g)
    BY <2>1 DEF BisectStep
  <2> HIDE DEF g
  <2>4. git'.good = g.good /\ git'.bad = g.bad /\ git'.skipped = g.skipped
    BY <2>2, <2>3 DEF Proceed, GitRecord
  <2>5. Inside(git, git.head) /\ git.head \in Commits
    BY DEF Inv, TypeOK, GitRecord, HeadInv
  <2>6. git.head \in Candidates(git) /\ git.head \notin Candidates(git')
    BY <2>2, <2>4, <2>5 DEF Candidates, Inside
  <2>7. Candidates(git') \subseteq Candidates(git)
    BY <2>2, <2>4 DEF Candidates, Inside
  <2>8. QED
    BY <2>6, <2>7
<1>2. QED
  BY <1>1, Invariance, PTL DEF Spec, Narrows

-----------------------------------------------------------------------------
(* The search is a countdown.                                              *)

\* There are finitely many candidates, the ends not among them.
LEMMA CandidatesFinite ==
  ASSUME NEW g \in GitRecord
  PROVE  /\ IsFiniteSet(Candidates(g))
         /\ Cardinality(Candidates(g)) \in 0..(Last - 1)
<1>1. Last \in Nat /\ Last >= 1 /\ g.good \in 0..Last /\ g.bad \in 0..Last
  BY GitBisectAssumption DEF GitRecord, Commits
<1>2. Candidates(g) \in SUBSET (1..(Last - 1))
  BY <1>1 DEF Candidates, Commits
<1>3. IsFiniteSet(1..(Last - 1)) /\ Cardinality(1..(Last - 1)) = Last - 1
  <2> DEFINE n == Last - 1
  <2>1. n \in Int /\ n >= 0 /\ 1 \in Int
    BY <1>1
  <2> HIDE DEF n
  <2>2. IsFiniteSet(1..n) /\ Cardinality(1..n) = IF 1 > n THEN 0 ELSE n - 1 + 1
    BY <2>1, FS_Interval
  <2>3. Cardinality(1..n) = n
    BY <2>1, <2>2
  <2>4. QED
    BY <2>2, <2>3 DEF n
<1>4. /\ IsFiniteSet(Candidates(g))
      /\ Cardinality(Candidates(g)) <= Last - 1
  <2> DEFINE C == Candidates(g)
             S == 1..(Last - 1)
  <2> HIDE DEF C, S
  <2>1. C \in SUBSET S /\ IsFiniteSet(S) /\ Cardinality(S) = Last - 1
    BY <1>2, <1>3 DEF C, S
  <2>2. IsFiniteSet(C) /\ Cardinality(C) <= Cardinality(S)
    BY <2>1, FS_Subset
  <2>3. QED
    BY <2>1, <2>2 DEF C
<1>5. Cardinality(Candidates(g)) \in Nat
  BY <1>4, FS_CardinalityType
<1>6. QED
  BY <1>1, <1>4, <1>5

\* As long as HEAD is a candidate, something is left.
LEMMA HeadIsLeft ==
  ASSUME Inv, bisector.pc \in {"finish", "build", "test", "step"}, ~bisector.finished
  PROVE  Left = Cardinality(Candidates(git)) /\ Left \in 1..(Last - 1)
<1>1. git \in GitRecord /\ git.head \in Candidates(git)
  BY DEF Inv, TypeOK, GitRecord, HeadInv, Inside, Candidates
<1>2. Left = Cardinality(Candidates(git))
  BY DEF Left
<1>3. Cardinality(Candidates(git)) # 0
  BY <1>1, CandidatesFinite, FS_EmptySet
<1>4. QED
  BY <1>1, <1>2, <1>3, CandidatesFinite, GitBisectAssumption

\* What git proceeds to from g has at most as many commits left.
LEMMA ProceedCounts ==
  ASSUME Inv, ~bisector.finished, NEW g \in GitRecord, Proceed(g)
  PROVE  /\ bisector'.testHistory = bisector.testHistory
         /\ \/ bisector'.pc = "finish" /\ Left' \in 0..Cardinality(Candidates(g))
            \/ bisector'.pc = "failed" /\ Left' = 0
<1>1. bisector \in BisectorRecord
  BY DEF Inv, TypeOK
<1>2. Cardinality(Candidates(g)) \in Nat
  BY CandidatesFinite, GitBisectAssumption
<1>3. CASE IsFirstBad(g) /\ git' = g /\
           bisector' = [bisector EXCEPT !.pc = "finish", !.finished = TRUE]
  <2>1. /\ bisector'.pc = "finish" /\ bisector'.finished
        /\ bisector'.testHistory = bisector.testHistory
    BY <1>1, <1>3 DEF BisectorRecord
  <2>2. Left' = 0
    BY <2>1 DEF Left
  <2>3. QED
    BY <1>2, <2>1, <2>2
<1>4. ASSUME NEW c \in Candidates(g), git' = [g EXCEPT !.head = c],
             bisector' = [bisector EXCEPT !.pc = "finish"]
      PROVE  /\ bisector'.testHistory = bisector.testHistory /\ bisector'.pc = "finish"
             /\ Left' = Cardinality(Candidates(g))
  <2>1. /\ bisector'.pc = "finish" /\ ~bisector'.finished
        /\ bisector'.testHistory = bisector.testHistory
    BY <1>1, <1>4 DEF BisectorRecord
  <2>2. git'.good = g.good /\ git'.bad = g.bad /\ git'.skipped = g.skipped
    BY <1>4 DEF GitRecord
  <2>3. Candidates(git)' = Candidates(g)
    BY <2>2 DEF Candidates
  <2>4. Left' = Cardinality(Candidates(g))
    BY <2>1, <2>3 DEF Left
  <2>5. QED
    BY <2>1, <2>4
<1>5. CASE OnlySkipped(g) /\ git' = g /\ Panics
  <2>1. bisector'.pc = "failed" /\ bisector'.testHistory = bisector.testHistory
    BY <1>1, <1>5 DEF Panics, BisectorRecord
  <2>2. QED
    BY <2>1 DEF Left
<1>6. QED
  BY <1>2, <1>3, <1>4, <1>5 DEF Proceed

\* The request is mapped to the start of the countdown.
LEMMA CountInit == Init => Count!BisectionInit
BY DEF Init, Left, Count!BisectionInit

\* Every step of RunBisect is a step of the countdown.
LEMMA CountStep ==
  Inv /\ [Next]_vars => [Count!BisectionNext]_(Count!bisectionVars)
<1> SUFFICES ASSUME Inv, [Next]_vars PROVE [Count!BisectionNext]_(Count!bisectionVars)
  OBVIOUS
<1> DEFINE built == Len(bisector.testHistory)
<1>1. bisector \in BisectorRecord /\ git \in GitRecord
  BY DEF Inv, TypeOK
<1>2. CASE BisectStart
  <2> DEFINE g == [git EXCEPT !.good = Newest(git.goods)]
  <2>1. bisector.pc = "start" /\ ~bisector.finished /\ Proceed(g)
    BY <1>2 DEF BisectStart, Inv, HeadInv
  <2>2. git.goods \in SUBSET Commits /\ git.goods # {}
    BY <1>1 DEF Inv, Search, GitRecord
  <2>3. Newest(git.goods) \in Commits
    BY <2>2, NewestIsOne
  <2>4. g \in GitRecord
    BY <1>1, <2>3, Zenon DEF GitRecord
  <2> HIDE DEF g
  <2>5. Left = 0
    BY <2>1 DEF Left
  <2>6. 0..Cardinality(Candidates(g)) \subseteq 0..(Last - 1)
    BY <2>4, CandidatesFinite, GitBisectAssumption
  <2>7. QED
    BY <2>1, <2>4, <2>5, <2>6, ProceedCounts DEF Count!Begin, Count!Abort, Count!BisectionNext
<1>3. CASE BisectStep
  <2> DEFINE g == Learned(bisector.result)
  <2>1. /\ bisector.pc = "step" /\ ~bisector.finished /\ bisector.result # "Default"
        /\ Proceed(g)
    BY <1>3 DEF BisectStep, Inv, HeadInv
  <2>2. /\ g \in GitRecord /\ ~Inside(g, git.head)
        /\ \A c \in Commits : Inside(g, c) => Inside(git, c)
    BY <2>1, LearnedFacts
  <2> HIDE DEF g
  <2>3. git.head \in Commits /\ Inside(git, git.head)
    BY <1>1, <2>1 DEF Inv, HeadInv, GitRecord
  <2>4. Candidates(g) \in SUBSET Candidates(git) /\ Candidates(g) # Candidates(git)
    BY <2>2, <2>3 DEF Candidates, Inside
  <2>5. Cardinality(Candidates(g)) < Cardinality(Candidates(git))
    <3>1. /\ Cardinality(Candidates(g)) <= Cardinality(Candidates(git))
          /\ Cardinality(Candidates(g)) # Cardinality(Candidates(git))
      BY <1>1, <2>4, CandidatesFinite, FS_Subset
    <3>2. /\ Cardinality(Candidates(g)) \in 0..(Last - 1)
          /\ Cardinality(Candidates(git)) \in 0..(Last - 1)
      BY <1>1, <2>2, CandidatesFinite
    <3>3. QED
      BY <3>1, <3>2, GitBisectAssumption
  <2>6. Left = Cardinality(Candidates(git)) /\ Left \in Nat
    BY <2>1, HeadIsLeft, GitBisectAssumption
  <2>7. Cardinality(Candidates(g)) \in Nat
    BY <2>2, CandidatesFinite, GitBisectAssumption
  <2>8. 0..Cardinality(Candidates(g)) \subseteq 0..(Left - 1)
    BY <2>5, <2>6, <2>7
  <2>9. QED
    BY <2>1, <2>2, <2>8, ProceedCounts DEF Count!Tell, Count!Abort, Count!BisectionNext
<1>4. CASE GitFails \/ BisectStepDefault
  <2>1. /\ bisector'.pc = "failed" /\ bisector'.testHistory = bisector.testHistory
        /\ bisector.pc \in {"start", "step", "build"}
    BY <1>1, <1>4 DEF GitFails, BisectStepDefault, Panics, BisectorRecord
  <2>2. Left' = 0
    BY <2>1 DEF Left
  <2>3. QED
    BY <2>1, <2>2 DEF Count!Abort, Count!BisectionNext
<1>5. CASE Finish
  <2>1. /\ bisector.pc = "finish" /\ git' = git
        /\ bisector'.pc = IF bisector.finished THEN "done" ELSE "build"
        /\ bisector'.finished = bisector.finished
        /\ bisector'.testHistory = bisector.testHistory
    BY <1>1, <1>5 DEF Finish, BisectorRecord
  <2>2. Left' = Left
    BY <2>1 DEF Left, Candidates
  <2>3. bisector.finished <=> Left = 0
    BY <2>1, HeadIsLeft, GitBisectAssumption DEF Left
  <2>4. QED
    BY <2>1, <2>2, <2>3 DEF Count!Decide, Count!BisectionNext
<1>6. CASE BuildFails \/ Build \/ StartTestFails
  <2>1. /\ bisector.pc = "build" /\ ~bisector.finished /\ git' = git
        /\ bisector'.pc \in {"step", "test", "failed"}
        /\ bisector'.finished = bisector.finished
        /\ bisector'.testHistory = Append(bisector.testHistory, git.head)
    BY <1>1, <1>6
    DEF BuildFails, Build, StartTestFails, Recorded, BisectorRecord, Inv, HeadInv
  <2>2. built' = built + 1
    BY <1>1, <2>1 DEF BisectorRecord
  <2>3. Left \in 1..(Last - 1)
    BY <2>1, HeadIsLeft
  <2>4. CASE bisector'.pc = "failed"
    BY <2>1, <2>2, <2>4 DEF Left, Count!Abort, Count!BisectionNext
  <2>5. CASE bisector'.pc \in {"step", "test"}
    <3>1. Left' = Left
      BY <2>1, <2>5 DEF Left, Candidates
    <3>2. QED
      BY <2>1, <2>2, <2>3, <2>5, <3>1 DEF Count!BuildOne, Count!BisectionNext
  <2>6. QED
    BY <2>1, <2>4, <2>5
<1>7. CASE TestEnds
  <2>1. /\ bisector.pc = "test" /\ git' = git /\ bisector'.pc = "step"
        /\ bisector'.finished = bisector.finished
        /\ bisector'.testHistory = bisector.testHistory
    BY <1>1, <1>7 DEF TestEnds, BisectorRecord
  <2>2. Left' = Left
    BY <2>1 DEF Left, Candidates
  <2>3. QED
    BY <2>1, <2>2 DEF Count!Report, Count!BisectionNext
<1>8. CASE UNCHANGED vars
  BY <1>8 DEF vars, Left, Candidates, Count!bisectionVars
<1>9. QED
  BY <1>2, <1>3, <1>4, <1>5, <1>6, <1>7, <1>8 DEF Next, RunBisect

\* A git bisection is the countdown that KCS.tla counts: GitBisect implements
\* Bisection.
THEOREM SearchCountsDown == Spec => CountsDown
BY CountInit, CountStep, Invariance, PTL DEF Spec, CountsDown, Count!BisectionSpec

\* The built kernels and the commits that are left: Step takes away the commit
\* whose kernel was counted.
Budget ==
  /\ bisector.pc = "start" => bisector.testHistory = <<>>
  /\ Len(bisector.testHistory) + Left <=
       Last - 1 + (IF bisector.pc \in {"test", "step"} THEN 1 ELSE 0)
  /\ BuildsBounded

\* A step of the countdown keeps to the budget.
LEMMA BudgetStep ==
  ASSUME Inv, Inv', Budget, [Count!BisectionNext]_(Count!bisectionVars)
  PROVE  Budget'
<1> DEFINE n == Len(bisector.testHistory)
<1>1. n \in Nat /\ n' \in Nat /\ Last \in Nat /\ Last >= 1
  BY GitBisectAssumption DEF Inv, TypeOK, BisectorRecord
<1>2. Left \in Nat /\ Left' \in Nat
  <2>1. Inv => Left \in Nat
    BY CandidatesFinite, GitBisectAssumption DEF Left, Inv, TypeOK
  <2>2. Inv' => Left' \in Nat
    BY CandidatesFinite, GitBisectAssumption DEF Left, Inv, TypeOK
  <2>3. QED
    BY <2>1, <2>2
<1>3. bisector'.pc = "start" => bisector'.testHistory = <<>>
  BY DEF Inv, HistoryInv
<1>4. bisector.pc = "start" => n = 0
  BY DEF Budget
<1>5. /\ n + Left <= Last - 1 + (IF bisector.pc \in {"test", "step"} THEN 1 ELSE 0)
      /\ n < Last
  BY DEF Budget, BuildsBounded
<1> HIDE DEF n
<1> SUFFICES /\ n' + Left' <=
                  Last - 1 + (IF bisector'.pc \in {"test", "step"} THEN 1 ELSE 0)
             /\ n' < Last
  BY <1>3 DEF Budget, BuildsBounded, n
<1>6. CASE Count!Begin
  BY <1>1, <1>2, <1>4, <1>6 DEF Count!Begin, n
<1>7. CASE Count!Tell
  BY <1>1, <1>2, <1>5, <1>7 DEF Count!Tell, n
<1>8. CASE Count!Decide
  BY <1>1, <1>2, <1>5, <1>8 DEF Count!Decide, n
<1>9. CASE Count!BuildOne
  BY <1>1, <1>2, <1>5, <1>9 DEF Count!BuildOne, n
<1>10. CASE Count!Report
  BY <1>1, <1>2, <1>5, <1>10 DEF Count!Report, n
<1>11. CASE Count!Abort
  <2>1. bisector.pc = "build" => Left > 0
    BY HeadIsLeft, GitBisectAssumption DEF Inv, HeadInv
  <2>2. QED
    BY <1>1, <1>2, <1>5, <1>11, <2>1 DEF Count!Abort, n
<1>12. CASE UNCHANGED Count!bisectionVars
  BY <1>1, <1>2, <1>5, <1>12 DEF Count!bisectionVars, n
<1>13. QED
  BY <1>6, <1>7, <1>8, <1>9, <1>10, <1>11, <1>12 DEF Count!BisectionNext

\* At most Last - 1 kernels are built, one for every commit between the first
\* and the last.
THEOREM FewBuilds == Spec => []BuildsBounded
<1>1. Init => Budget
  BY GitBisectAssumption DEF Init, Budget, BuildsBounded, Left
<1>2. Inv /\ Inv' /\ Budget /\ [Next]_vars => Budget'
  BY CountStep, BudgetStep
<1>3. Budget => BuildsBounded
  BY DEF Budget
<1>4. QED
  BY <1>1, <1>2, <1>3, Invariance, PTL DEF Spec
=============================================================================
