--------------------------- MODULE MCProjectCycle ---------------------------
(* ProjectCycle for TLC: two features, the second of which depends on    *)
(* the first, and two engines.                                             *)
EXTENDS ProjectCycle, TLC

ProcessSymmetry == Permutations(Process)

MCDependencies == [f \in Feature |-> IF f = 2 THEN {1} ELSE {}]
=============================================================================
