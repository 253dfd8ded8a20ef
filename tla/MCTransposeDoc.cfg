\* A failed reservation is reported as a callback result that could not be agreed.
CONSTANTS
  Grid <- TwoRanks
  Shape <- Slab
  InputD <- FirstAxis
  OutputD <- SecondAxis
  Rank <- MCRank
  SendsTo <- MCSendsTo
  ReceivesFrom <- MCReceivesFrom
  Operation = {"views", "views_callback"}
  Fault = {"reserve", "error", "panic"}
  MaxCalls = 1
SPECIFICATION Spec
INVARIANTS PreconditionErrorIsAboutCallback
