SPECIFICATION Spec
CONSTANTS
  Process = {p1, p2}
  MaxVersion = 2
  MaxTransactions = 4
  MaxDrifts = 1
  MaxDeaths = 1
  Caller = "command"
  NoProcess = NoProcess
SYMMETRY ProcessSymmetry
INVARIANTS
  TypeOK
  RetainedBytesPreserved
  GateResolvedByCommit
  RepairSessionsBounded
  FailurePreservesDiff
  
CHECK_DEADLOCK FALSE
