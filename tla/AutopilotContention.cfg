CONSTANTS
  a = a
  b = b
  c = c
  Run <- ThreeRuns
  MaxBeats = 1
  MaxRequests = 0
  MaxCrashes = 1
  NoFile = NoFile
  NoRun = NoRun
SPECIFICATION Spec
SYMMETRY Symmetry
INVARIANT OneProjectLoop
CHECK_DEADLOCK FALSE
