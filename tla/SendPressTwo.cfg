\* Two calls at the same time over the same outputs.
CONSTANTS
  Calls = {r1, r2}
  NumRpcs = 2
  NumOuts = 4
  a1 = a1
  a2 = a2
  Addresses <- MCAddresses
  Owner <- MCOwner
  Counts <- MCFewCounts
  KeyLoaded = TRUE
SPECIFICATION MCSpec
SYMMETRY MCSymmetry
INVARIANT
  OnlyCallsConflict
CHECK_DEADLOCK FALSE
