\* Two calls at the same time, any number of crashes, three addresses.
CONSTANTS
  Calls = {r1, r2}
  NoCall = NoCall
  Addresses = {a1, a2, a3}
  Counts <- MCCounts
SPECIFICATION FairSpec
INVARIANTS
  TypeOK
  ServedIsOnDisk
PROPERTIES
  ImplementsRegistry
  EveryAddEnds
CHECK_DEADLOCK FALSE
