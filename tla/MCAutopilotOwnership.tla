------------------------ MODULE MCAutopilotOwnership ------------------------
(* AutopilotOwnership for TLC. *)
EXTENDS AutopilotOwnership, TLC

CONSTANTS a, b, c

TwoRuns == {a, b}
ThreeRuns == {a, b, c}

\* No action or property names a run.
Symmetry == Permutations(Run)
=============================================================================
