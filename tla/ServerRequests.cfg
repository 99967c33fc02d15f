\* One request of any kind.
CONSTANTS
  Reqs = {r1}
  Requests <- MCRequests
  Half = 128
  Missing = Missing
  Bad = Bad
  AuthOn = TRUE
SPECIFICATION Spec
INVARIANTS
  TypeOK
  RunsAsAsked
CHECK_DEADLOCK FALSE
