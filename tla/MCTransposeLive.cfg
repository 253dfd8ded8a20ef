\* Three ranks, one of which owns nothing in the input layout; fair calls.
CONSTANTS
  Grid <- ThreeRanks
  Shape <- Slab
  InputD <- FirstAxis
  OutputD <- SecondAxis
  Rank <- MCRank
  SendsTo <- MCSendsTo
  ReceivesFrom <- MCReceivesFrom
  Operation = {"new", "views", "views_callback", "alltoallv_views"}
  Fault = {"preflight", "reserve", "error", "panic"}
  MaxCalls = 1
SPECIFICATION FairSpec
INVARIANTS FailureAttributed
PROPERTIES AllCallsReturn
