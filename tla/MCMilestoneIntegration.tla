----------------------- MODULE MCMilestoneIntegration -----------------------
(* MilestoneIntegration for TLC. *)
EXTENDS MilestoneIntegration, TLC

CONSTANTS engine, delivery, f1, f2

BothCommands == {engine, delivery}
TwoFeatures == {f1, f2}
ThreeTransactions == 1..3

\* f2 needs f1
Chain == [f \in TwoFeatures |-> IF f = f2 THEN {f1} ELSE {}]

\* Where a death and an outsider come together, two transactions are looked at.
Explored == crashes + drift < 2 \/ fact[3] = NoFact
=============================================================================
