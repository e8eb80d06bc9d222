---------------------------- MODULE MCGitBisect -----------------------------
(* GitBisect.tla for TLC: every first bad commit and every set of good ones. *)
EXTENDS GitBisect
=============================================================================
