SPECIFICATION FairEndpointSpec
CONSTANTS
  Handlers = {h1, h2}
  None = None
  WrapperCalls = 2
  MaxCalls = 3
  RunsPerCall = 2
  MaxJoins = 1
INVARIANTS QuietSnapshot NothingRunsOn
PROPERTIES EndReachesTheLeaf StopReturns
