CONSTANTS
  engine = engine
  delivery = delivery
  f1 = f1
  f2 = f2
  Process <- BothCommands
  Delivery = {delivery}
  Feature <- TwoFeatures
  Dependencies <- Chain
  Queued = {f1}
  Ranged = {}
  Txn <- ThreeTransactions
  MaxVersion = 1
  MaxCrashes = 1
  MaxDrift = 1
  NoTxn = 0
  NoProcess = NoProcess
  NoFeature = NoFeature
SPECIFICATION Spec
INVARIANTS TypeOK IntegratedOnce DependenciesFirst ClassIsOnMilestone PassedMeansCompleted
CONSTRAINT Explored
CHECK_DEADLOCK FALSE
