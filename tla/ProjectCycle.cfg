SPECIFICATION Spec
CONSTANTS
  Feature = {1, 2}
  Dependencies <- MCDependencies
  Process = {p1, p2}
  MaxSequence = 10
  MaxDeaths = 1
  MaxCommits = 3
  NoProcess = NoProcess
SYMMETRY ProcessSymmetry
INVARIANTS
  TypeOK
  SessionOnItsBase
  GateOnlyWhenComplete
  BoundCacheAgrees
CHECK_DEADLOCK FALSE
