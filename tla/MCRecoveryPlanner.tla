------------------------- MODULE MCRecoveryPlanner -------------------------
(* RecoveryPlanner for TLC. *)
EXTENDS RecoveryPlanner, TLC

CONSTANTS p1, p2, t1, t2, r1, r2, r3

OneProcess == {p1}
TwoProcesses == {p1, p2}
OneWork == {t1}
TwoWork == {t1, t2}
TwoRecoveries == {r1, r2}
ThreeRecoveries == {r1, r2, r3}

\* Recovery ids are interchangeable, and so are the processes.
Symmetry == Permutations(Recovery) \cup Permutations(Process)
=============================================================================
