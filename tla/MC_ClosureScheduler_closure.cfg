SPECIFICATION FairSpec
CONSTANTS
  base = base
  left = left
  right = right
  Members <- Fork
  Deps <- ForkDeps
  Rank <- ForkRank
  Jobs = 2
  Foreign <- AnyClaimed
  MaxInterrupts = 2
  MaxDisturbances = 1
INVARIANTS ReturnedMeansReaped SuccessMeansReady
PROPERTY DriverReturns
