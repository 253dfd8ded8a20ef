\* Two calls, out of place or in place and of collections, with one failure or
\* panic.
CONSTANTS
  Rank = {p, q}
  p = p
  q = q
  Plans <- AllPlans
  Kinds <- KindsOf
  Members <- MembersOf
  MaxCalls = 2
  MaxFaults = 1
SPECIFICATION Spec
INVARIANTS OutcomesAgree DestinationsTell InvalidSpectrumRejected StateTellsTheData
PROPERTIES WritesAfterStart FailureInPlacePoisons
