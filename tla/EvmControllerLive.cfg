\* Liveness with two nodes: the press may get stuck.
CONSTANTS
  NumClients = 2
  NumAccounts = 2
  Reqs = {r1, r2}
  NoReq = NoReq
  CountFields <- MCCountFields
  TpsFields = {0, 10, BadNumber}
  BadNumber = BadNumber
  NoJob = NoJob
SPECIFICATION FairSpec
PROPERTY AnsweredOrStuck
CHECK_DEADLOCK FALSE
