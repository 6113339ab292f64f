----------------------------- MODULE MCPlanSearch -----------------------------
(* Instances of PlanSearch for TLC: two locations behind one slot, so that a
   search waits for another one. *)
EXTENDS PlanSearch

CONSTANTS x, y, o
===============================================================================
