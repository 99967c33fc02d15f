\* Two calls of any kind at the same time.
CONSTANTS
  Calls = {r1, r2}
  NumOuts = 3
  Owner <- MCTwoOwner
  Amount <- MCTwoAmount
  Modulus = 64
  MaxAmount = 12
  OneAmount = 1
  FeeIn = 1
  FeeOut = 1
  FeeTx = 1
  a1 = a1
  a2 = a2
  a3 = a3
  Addresses = {a1, a2, a3}
  Orders <- MCOrders
  From = a1
  Batch = 2
  PreFees = 6
  Counts = {2, 3}
  Amounts = {1, 3, 63}
  Wired = TRUE
SPECIFICATION MCSpec
SYMMETRY MCSymmetry
INVARIANTS
  TypeOK
  NoValueCreated
  OwnSpendsNotReused
PROPERTIES
  OnlySpentAreMarked
CHECK_DEADLOCK FALSE
