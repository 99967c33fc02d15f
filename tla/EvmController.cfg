\* Two nodes, three accounts, two requests of any kind.
CONSTANTS
  NumClients = 2
  NumAccounts = 3
  Reqs = {r1, r2}
  NoReq = NoReq
  CountFields <- MCCountFields
  TpsFields = {0, 10, BadNumber}
  BadNumber = BadNumber
  NoJob = NoJob
SPECIFICATION Spec
INVARIANTS
  TypeOK
  OneOperation
  OnlyFunderConflicts
  MeerAfterToken
  ShareLeavesNoGap
PROPERTIES
  CallsAreSerial
  TakenNonceFundsNobody
  StuckHoldsMutex
CHECK_DEADLOCK FALSE
