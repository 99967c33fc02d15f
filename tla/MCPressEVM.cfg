\* Three nodes so that goroutines can overtake one another.
CONSTANTS
  NumClients = 3
  NumAccounts = 2
  Counts <- MCCounts
  TpsValues = {0, 10}
  NoJob = NoJob
  MaxTaken = 0
SPECIFICATION MCSpec
INVARIANTS
  TypeOK
  PutNeverBlocks
  SentAtMostOnce
  AllAttempted
  LastOneReturns
PROPERTIES
  StuckIsForever
  ImplementsDealer
CHECK_DEADLOCK FALSE
