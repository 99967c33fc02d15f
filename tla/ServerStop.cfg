\* Three requests at the same time and an interrupt at any moment.
CONSTANTS
  Reqs = {r1, r2, r3}
  Requests <- MCFewRequests
  Half = 128
  Missing = Missing
  Bad = Bad
  AuthOn = FALSE
SPECIFICATION FairSpec
PROPERTIES
  InterruptEnds
  DeafIsForever
CHECK_DEADLOCK FALSE
