---------------------------- MODULE ResultTypes ----------------------------
(***************************************************************************)
(* The verdicts that LTM and KCS exchange (util/server/server.go).         *)
(***************************************************************************)

\* server.ResultType. "Default" is its zero value: no verdict (yet).
ResultType == {"Default", "Pass", "Fail", "Hang", "Crash", "Error"}
=============================================================================
