\* A 2 x 2 grid in place: data moves on lines of two, outcomes are agreed by
\* all four; callbacks fail or panic anywhere.
CONSTANTS
  Grid <- FourRanks
  Shape <- Cube
  InputD <- FirstSecond
  OutputD <- FirstThird
  Rank <- MCRank
  SendsTo <- MCSendsTo
  ReceivesFrom <- MCReceivesFrom
  Operation = {"in_place", "in_place_callback"}
  Fault = {"error", "panic"}
  MaxCalls = 1
SPECIFICATION Spec
INVARIANTS OutcomesAgree
PROPERTIES WritesOnlyAfterAgreement StateFollowsOutcome
