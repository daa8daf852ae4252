SPECIFICATION FairSpec
CONSTANTS
  t1 = t1
  t2 = t2
  t3 = t3
  NoTask = NoTask
  Task = {t1, t2, t3}
  MAX_CONCURRENT_ACTIONS = 2
  SL_MAX_SOCKETS = 1
  MaxCalls = 1
  Request <- SameActionRequests
PROPERTIES
  CallReturns
  ImplementsArbiter
CHECK_DEADLOCK FALSE
