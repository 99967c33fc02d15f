\* One call on its own, with enough outputs for several rounds per client.
CONSTANTS
  Calls = {r1}
  NumRpcs = 2
  NumOuts = 7
  a1 = a1
  a2 = a2
  Addresses <- MCAddresses
  Owner <- MCOwner
  Counts <- MCCounts
  KeyLoaded = TRUE
SPECIFICATION MCFairSpec
INVARIANTS
  TypeOK
  NoOutputTwice
  LeftoverBound
  NeverOverReports
  AtMostOneAfterStop
PROPERTY ReturnsUnanswered
CHECK_DEADLOCK FALSE
