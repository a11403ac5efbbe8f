--------------------------- MODULE MCPlanExecution ---------------------------
(* The instance: the first stage may write one chunk after its reader has  *)
(* been given up; the second has a timeout and finds a run.log of an       *)
(* earlier invocation.                                                     *)
EXTENDS PlanExecution

TwoThenOne == <<2, 1>>
SecondAppends == <<0, 1>>
=============================================================================
