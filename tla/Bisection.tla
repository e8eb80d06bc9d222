----------------------------- MODULE Bisection ------------------------------
(***************************************************************************)
(* What a bisection is to the server that runs it: so many commits git has *)
(* still to be told about.  Every result that is told leaves fewer, a      *)
(* kernel is built for a commit that is left and for no other, and the     *)
(* bisection ends when none is left.  KCS.tla counts a bisection in this   *)
(* way; GitBisect.tla, which has the search, implements it.                *)
(***************************************************************************)
EXTENDS Naturals

CONSTANT
  MaxSteps      \* commits a bisection may have to look at

VARIABLES
  stage,        \* where RunBisect is
  left,         \* commits git has still to be told about
  built         \* kernels built so far

bisectionVars == <<stage, left, built>>

BisectionInit == stage = "start" /\ left = 0 /\ built = 0

\* Start: git bisect start, bad and good.
Begin ==
  /\ stage = "start"
  /\ stage' = "finish"
  /\ left' \in 0..MaxSteps
  /\ UNCHANGED built

\* Step: git bisect good, bad or skip.
Tell ==
  /\ stage = "step"
  /\ stage' = "finish"
  /\ left' \in 0..(left - 1)
  /\ UNCHANGED built

\* Finish: the report if nothing is left, else another kernel.
Decide ==
  /\ stage = "finish"
  /\ stage' = IF left = 0 THEN "done" ELSE "build"
  /\ UNCHANGED <<left, built>>

\* Build: the kernel is tested, or does not build.
BuildOne ==
  /\ stage = "build"
  /\ left > 0
  /\ stage' \in {"test", "step"}
  /\ built' = built + 1
  /\ UNCHANGED left

\* LTM reports.
Report ==
  /\ stage = "test"
  /\ stage' = "step"
  /\ UNCHANGED <<left, built>>

\* Start, Step, Build or StartTest panics, and the bisection is cleaned up.
Abort ==
  /\ stage \in {"start", "step", "build"}
  /\ stage' = "failed"
  /\ left' = 0
  /\ built' \in {built} \cup (IF stage = "build" THEN {built + 1} ELSE {})

BisectionNext == Begin \/ Tell \/ Decide \/ BuildOne \/ Report \/ Abort

BisectionSpec == BisectionInit /\ [][BisectionNext]_bisectionVars
=============================================================================
