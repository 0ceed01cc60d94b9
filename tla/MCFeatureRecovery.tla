-------------------------- MODULE MCFeatureRecovery --------------------------
(* FeatureRecovery for TLC: two commands at once.                          *)
EXTENDS FeatureRecovery, TLC

ProcessSymmetry == Permutations(Process)
=============================================================================
