\* Two calls out of place with a callback and in place; ranks that call different
\* operations or plans, or fail to reserve, to write or in the callback.
CONSTANTS
  Grid <- TwoRanks
  Shape <- Slab
  InputD <- FirstAxis
  OutputD <- SecondAxis
  Rank <- MCRank
  SendsTo <- MCSendsTo
  ReceivesFrom <- MCReceivesFrom
  Operation = {"views_callback", "alltoallv_in_place"}
  Fault = {"descriptor", "reserve", "writer", "error"}
  MaxCalls = 2
SPECIFICATION Spec
INVARIANTS CollectivesMatch QuiescentReturn
PROPERTIES ImplementsAtomicCall DeliveredData
