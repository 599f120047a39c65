SPECIFICATION Spec
CONSTANTS
  i1 = i1
  s1 = s1
  b1 = b1
  Irs <- OneIr
  Sources <- OneSource
  Binaries <- OneBinary
  MaxAttempts = 1
  C2Threshold = 2
  MaxRuns = 2
  Grades <- SomeGrades
  Configs <- Policies
INVARIANT DecisionLands
PROPERTIES PassStandsOnChain DiscardIsHonoured CondemnedIsNotAdopted EveryRunEnds
