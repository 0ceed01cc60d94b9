CONSTANTS
  a = a
  b = b
  c = c
  Run <- TwoRuns
  MaxBeats = 2
  MaxRequests = 2
  MaxCrashes = 1
  NoFile = NoFile
  NoRun = NoRun
SPECIFICATION FairSpec
INVARIANTS TypeOK NoRecordLeft
PROPERTY StopHonoured
CHECK_DEADLOCK FALSE
