SPECIFICATION Spec
CONSTANTS
  Process = {p1, p2}
  MaxEdition = 2
  MaxTransactions = 2
  MaxDrifts = 1
  MaxDeaths = 1
  NoProcess = NoProcess
SYMMETRY ProcessSymmetry
INVARIANTS
  TypeOK
  RecoveredDiffIsRetained
  RecoveredOnce
  FileFollowsCommit
  ReadyIsBound
  LegacyCommittedOnce
CHECK_DEADLOCK FALSE
