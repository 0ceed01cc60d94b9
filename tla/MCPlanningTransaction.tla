------------------------ MODULE MCPlanningTransaction ------------------------
(* PlanningTransaction for TLC: two commands at once.                      *)
EXTENDS PlanningTransaction, TLC

ProcessSymmetry == Permutations(Process)
=============================================================================
