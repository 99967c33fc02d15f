\* One call of any kind.
CONSTANTS
  Calls = {r1}
  NumOuts = 4
  Owner <- MCOwner
  Amount <- MCAmount
  Modulus = 64
  MaxAmount = 12
  OneAmount = 1
  FeeIn = 1
  FeeOut = 1
  FeeTx = 1
  a1 = a1
  a2 = a2
  a3 = a3
  Addresses = {a1, a2, a3}
  Orders <- MCOrders
  From = a1
  Batch = 2
  PreFees = 6
  Counts <- MCCounts
  Amounts <- MCAmounts
  Wired = TRUE
SPECIFICATION MCFairSpec
INVARIANTS
  RefusedMeansNothingSent
  PaidOnce
  ReportFollowsAnswers
PROPERTIES
  EveryCallEnds
CHECK_DEADLOCK FALSE
