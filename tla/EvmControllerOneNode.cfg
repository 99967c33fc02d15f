\* Liveness of the shipped configuration, one node, with something to send.
CONSTANTS
  NumClients = 1
  NumAccounts = 2
  Reqs = {r1, r2}
  NoReq = NoReq
  CountFields <- MCPositiveFields
  TpsFields = {0, 10, BadNumber}
  BadNumber = BadNumber
  NoJob = NoJob
SPECIFICATION FairSpec
PROPERTY EveryoneAnswered
CHECK_DEADLOCK FALSE
