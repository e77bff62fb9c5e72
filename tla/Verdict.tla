------------------------------ MODULE Verdict ------------------------------
(***************************************************************************)
(* What a compliance test promises the test bench: it reports one verdict, *)
(* "passed" only if nothing has failed up to then, and it does report.     *)
(* What fails after the report no longer matters.                          *)
(***************************************************************************)
VARIABLES
  failed,    \* a check or an assertion of the test has failed
  verdict    \* "none" until it is reported, then "passed" or "failed"

vars == <<failed, verdict>>

Init == failed = FALSE /\ verdict = "none"

Fail == failed' = TRUE /\ UNCHANGED verdict

\* A failing check may report at once.
Report ==
  /\ verdict = "none"
  /\ failed' \in {failed, TRUE}
  /\ verdict' = IF failed' THEN "failed" ELSE "passed"

Next == Fail \/ Report

Spec == Init /\ [][Next]_vars /\ WF_vars(Report)
=============================================================================
