---------------------------- MODULE MCPlanQuota ----------------------------
(* PlanQuota for TLC. The maximum of tasks is 1 and then 2, so that with   *)
(* two requests at a time WithinMargin allows three of the four there are; *)
(* users have a maximum of 1 and a conflict over each of two addresses.    *)
EXTENDS PlanQuota, TLC

CONSTANTS free, pro

MCPlans == {free, pro}
MCMaxUsers == (free :> 1) @@ (pro :> 1)
MCMaxTasks == (free :> 1) @@ (pro :> 2)
Symmetry == Permutations(Users) \cup Permutations(Tasks) \cup Permutations(Procs)
=============================================================================
