-------------------------- MODULE MCPlanCompletion --------------------------
(***************************************************************************)
(* Instances of PlanCompletion: a required and an optional task slot.      *)
(***************************************************************************)
EXTENDS PlanCompletion

CONSTANTS r1, o1
=============================================================================
