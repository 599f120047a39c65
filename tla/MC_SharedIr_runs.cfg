SPECIFICATION Spec
CONSTANTS
  r1 = r1
  r2 = r2
  t1 = t1
  t2 = t2
  b1 = b1
  b2 = b2
  None = None
  Runs <- TwoRuns
  Targets <- TwoTargets
  TargetOf <- OnTwoTargets
  Bodies <- TwoBodies
  Configs <- UnforcedRuns
  MaxAttempts = 1
  MaxActs = 3
INVARIANTS OneStandingIr WaitIsForAWorker
PROPERTY NoChainIsOverturned
CHECK_DEADLOCK FALSE
SYMMETRY Symmetry
