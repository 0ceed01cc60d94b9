CONSTANTS
  p1 = p1
  p2 = p2
  t1 = t1
  t2 = t2
  r1 = r1
  r2 = r2
  r3 = r3
  Process <- OneProcess
  Work <- OneWork
  MustChange = {t1}
  Recovery <- ThreeRecoveries
  MaxCrashes = 2
  MaxDrift = 0
  Outside = Outside
  NoProcess = NoProcess
  NoTxn = NoTxn
  NoLease = NoLease
  NoDiff = NoDiff
  NoPlan = NoPlan
  Caller = "direct"
SPECIFICATION FairPlannerSpec
PROPERTY CleanInterruptionIsRecovered
CHECK_DEADLOCK FALSE
