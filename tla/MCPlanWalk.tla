----------------------------- MODULE MCPlanWalk -----------------------------
(* A plan for TLC: fetch tools, build, review until approved, then try to  *)
(* announce, which goes back to the review when it fails.                  *)
EXTENDS PlanWalk, TLC

CONSTANT HookedReview  \* whether the review has hooks too

PlanRoute ==
    << << >>, "failure" :> 3, "revise" :> 2 @@ "approve" :> 4, "failure" :> 3 >>
PlanVisits == <<0, 0, 2, 2>>
PlanAttempts == <<1, 2, 1, 1>>
PlanVerdicts == <<{}, {}, {"revise", "approve"}, {}>>
PlanHooks == {2, Job} \cup IF HookedReview THEN {3} ELSE {}
=============================================================================
