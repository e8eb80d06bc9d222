----------------------------- MODULE GitBisect ------------------------------
(***************************************************************************)
(* One git bisection, from the request to the report: what GitBisector     *)
(* (kcs/bisect.go) and Repository (util/git/git.go) tell git, the kernels  *)
(* built and the results LTM reports for them.  KCS.tla has what several   *)
(* bisections and requests do to each other, and there a bisection is only *)
(* a number of steps; here are the steps, and that they are counted right  *)
(* (Bisection.tla).                                                        *)
(*                                                                         *)
(* The commits are a line, the bad one is the last.  git bisect itself is  *)
(* external: it knows the newest good and the oldest bad commit, and the   *)
(* skipped ones, and checks out any other commit in between.               *)
(***************************************************************************)
EXTENDS Naturals, Sequences, FiniteSets, ResultTypes

CONSTANT Last   \* bound: the number of commits after the first

ASSUME GitBisectAssumption == Last \in Nat \ {0}

VARIABLES
  first,        \* the commit that introduced the bug
  git,          \* the state of git bisect in the repository
  bisector,     \* GitBisector
  misled        \* a result for a bad commit was a pass, or the other way round

vars == <<first, git, bisector, misled>>

Commits == 0..Last

\* goods: goodCommits of the request.
GitRecord ==
  [goods : SUBSET Commits, good : Commits, bad : Commits, skipped : SUBSET Commits,
   head : Commits]

\* result: what the request or the last build hands to Step.
BisectorRecord ==
  [pc : {"start", "finish", "build", "test", "step", "done", "failed"},
   finished : BOOLEAN, result : ResultType,
   testHistory : Seq(Commits)]

\* The user knows commits without the bug, and one with it.
Init ==
  /\ first \in 1..Last
  /\ \E goods \in (SUBSET (0..(first - 1))) \ {{}} :
       git = [goods |-> goods, good |-> 0, bad |-> Last, skipped |-> {}, head |-> Last]
  /\ bisector = [pc |-> "start", finished |-> FALSE, result |-> "Default",
                 testHistory |-> <<>>]
  /\ misled = FALSE

-----------------------------------------------------------------------------
(* git bisect: what it does once it was told about a commit.               *)

\* The commits git may check out next.
Candidates(g) == {c \in Commits : g.good < c /\ c < g.bad} \ g.skipped

\* The output contains "is the first bad commit".
IsFirstBad(g) == g.bad = g.good + 1

\* "There are only 'skip'ped commits left to test": git exits with an error.
OnlySkipped(g) == ~IsFirstBad(g) /\ Candidates(g) = {}

Panics == bisector' = [bisector EXCEPT !.pc = "failed"]

\* git, having learned g, ends the search, checks out a commit, or fails.
Proceed(g) ==
  \/ /\ IsFirstBad(g)
     /\ git' = g
     /\ bisector' = [bisector EXCEPT !.pc = "finish", !.finished = TRUE]
  \/ /\ ~IsFirstBad(g)
     /\ \E c \in Candidates(g) : git' = [g EXCEPT !.head = c]
     /\ bisector' = [bisector EXCEPT !.pc = "finish"]
  \/ OnlySkipped(g) /\ git' = g /\ Panics

-----------------------------------------------------------------------------
(* RunBisect.                                                              *)

\* What several good commits tell on a line of commits.
Newest(goods) == CHOOSE c \in goods : \A d \in goods : d <= c

BisectStart ==
  /\ bisector.pc = "start"
  /\ Proceed([git EXCEPT !.good = Newest(git.goods)])
  /\ UNCHANGED <<first, misled>>

\* A revision is unknown, or the file system fails git or GetCommit.
GitFails ==
  /\ bisector.pc \in {"start", "step", "build"}
  /\ Panics
  /\ UNCHANGED <<first, git, misled>>

\* Mutant: the handler of the last step returns without a report.
FinishUnreported ==
  /\ bisector.pc = "finish"
  /\ ~bisector.finished
  /\ bisector' = [bisector EXCEPT !.pc = "build"]
  /\ UNCHANGED <<first, git, misled>>

\* Finish reports and cleans up once the search has ended.
Finish ==
  /\ bisector.pc = "finish"
  /\ bisector' = [bisector EXCEPT !.pc = IF bisector.finished THEN "done" ELSE "build"]
  /\ UNCHANGED <<first, git, misled>>

Recorded == [bisector EXCEPT !.testHistory = Append(@, git.head)]

\* Mutant: a kernel that does not build is built once more before it is skipped.
BuildFailsRetried ==
  /\ bisector.pc = "build"
  /\ bisector' = [Recorded EXCEPT !.testHistory = Append(@, git.head), !.pc = "step",
                                  !.result = "Error"]
  /\ UNCHANGED <<first, git, misled>>

\* A kernel that does not build: the loop in RunBisect goes on with Error.
BuildFails ==
  /\ bisector.pc = "build"
  /\ bisector' = [Recorded EXCEPT !.pc = "step", !.result = "Error"]
  /\ UNCHANGED <<first, git, misled>>

\* The kernel is built and uploaded, and LTM asked to test it.
Build ==
  /\ bisector.pc = "build"
  /\ bisector' = [Recorded EXCEPT !.pc = "test"]
  /\ UNCHANGED <<first, git, misled>>

\* LTM cannot be reached.
StartTestFails ==
  /\ bisector.pc = "build"
  /\ bisector' = [Recorded EXCEPT !.pc = "failed"]
  /\ UNCHANGED <<first, git, misled>>

\* LTM reports on HEAD. A test may well get the kernel wrong.
Wrong(c, r) ==
  \/ r = "Pass" /\ c >= first
  \/ r \in {"Fail", "Hang", "Crash"} /\ c < first

TestEnds ==
  /\ bisector.pc = "test"
  /\ \E r \in ResultType :
       /\ bisector' = [bisector EXCEPT !.pc = "step", !.result = r]
       /\ misled' = (misled \/ Wrong(git.head, r))
  /\ UNCHANGED <<first, git>>

\* Mutant: a test error counts as a failed test.
LearnedErrorBad(r) ==
  CASE r = "Pass" -> [git EXCEPT !.good = git.head]
    [] r \in {"Fail", "Hang", "Crash", "Error"} -> [git EXCEPT !.bad = git.head]
    [] OTHER -> git

\* Mutant: a commit is skipped for this step only.
LearnedSkipOnce(r) ==
  CASE r = "Pass" -> [git EXCEPT !.good = git.head]
    [] r \in {"Fail", "Hang", "Crash"} -> [git EXCEPT !.bad = git.head]
    [] OTHER -> [git EXCEPT !.skipped = {git.head}]

\* good, bad or skip.
Learned(r) ==
  CASE r = "Pass" -> [git EXCEPT !.good = git.head]
    [] r \in {"Fail", "Hang", "Crash"} -> [git EXCEPT !.bad = git.head]
    [] r = "Error" -> [git EXCEPT !.skipped = @ \cup {git.head}]

BisectStep ==
  /\ bisector.pc = "step"
  /\ bisector.result # "Default"
  /\ Proceed(Learned(bisector.result))
  /\ UNCHANGED <<first, misled>>

\* "unexpect test result value": LTM had no verdict.
BisectStepDefault ==
  /\ bisector.pc = "step"
  /\ bisector.result = "Default"
  /\ Panics
  /\ UNCHANGED <<first, git, misled>>

RunBisect ==
  \/ BisectStart \/ GitFails \/ Finish \/ BuildFails \/ Build \/ StartTestFails
  \/ BisectStep \/ BisectStepDefault

Next == RunBisect \/ TestEnds

Spec == Init /\ [][Next]_vars

\* A handler goes on until it returns; LTM tests and reports (Sharder.tla:
\* Completes). A report that gets lost is in KCS.tla.
FairSpec == Spec /\ WF_vars(Next)

-----------------------------------------------------------------------------
(* Properties.                                                             *)

TypeOK ==
  /\ first \in 1..Last
  /\ git \in GitRecord
  /\ bisector \in BisectorRecord
  /\ misled \in BOOLEAN

\* The commit a bisection reports is the one that introduced the bug, whatever
\* was skipped on the way, as long as no test told the opposite of the truth.
FoundIsFirstBad == bisector.finished /\ ~misled => git.bad = first

\* No commit is built and tested twice: the test ID, and with it the kernel and
\* the results in the bucket, are named after the commit (bisect.go:351).
EachCommitOnce ==
  \A i, j \in DOMAIN bisector.testHistory :
    bisector.testHistory[i] = bisector.testHistory[j] => i = j

\* What was learned stays: a step of the search leaves fewer commits to look
\* at, never others.
Narrows ==
  [][git.head # git'.head /\ bisector.pc = "step" =>
       /\ Candidates(git') \subseteq Candidates(git)
       /\ Candidates(git') # Candidates(git)]_vars

\* The commits git has still to be told about.
Left ==
  IF bisector.finished \/ bisector.pc \in {"start", "failed"} THEN 0
  ELSE Cardinality(Candidates(git))

Count == INSTANCE Bisection WITH
  MaxSteps <- Last - 1, stage <- bisector.pc, left <- Left,
  built <- Len(bisector.testHistory)

\* The search is the countdown KCS.tla and the server take it for: every result,
\* a skip included, leaves fewer commits, a kernel is built only while some are
\* left, and the report comes exactly when none is.
CountsDown == Count!BisectionSpec

\* No more kernels are built than there are commits between the first and the
\* last, however many are skipped and however wrong the tests are.
BuildsBounded == Len(bisector.testHistory) < Last

\* A bisection ends, with a report or with the mail about its failure.
Ends == <>(bisector.pc \in {"done", "failed"})
=============================================================================
