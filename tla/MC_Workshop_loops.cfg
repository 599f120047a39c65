SPECIFICATION FairSpec
CONSTANTS
  Kinds <- BothKinds
  Transports <- AllTransports
  MaxRepair = 2
  MaxRetries = 2
  RetryBudget = 2
  Schedule <- Scaled
  MaxReset = 3
  Margin = 1
  Resets <- Reported
  LeafCap = 2
  LineageTime = 2
  CallCap = 1
  MaxPrepare = 1
INVARIANTS PassStandsOnFinished PassStandsOnWholeReads NoLaunchAfterTheEnd ProducerSeesWhatItRepairs
PROPERTY SubstepEnds
