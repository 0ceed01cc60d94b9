SPECIFICATION FairSpec
CONSTANTS
  Process = {p1}
  MaxVersion = 1
  MaxTransactions = 3
  MaxDrifts = 0
  MaxDeaths = 0
  Caller = "autopilot"
  NoProcess = NoProcess
PROPERTIES
  RetainedResultIsRecovered
CHECK_DEADLOCK FALSE
