SPECIFICATION FairSpec
CONSTANTS
  t1 = t1
  t2 = t2
  NoTask = NoTask
  Task = {t1, t2}
  MAX_CONCURRENT_ACTIONS = 2
  SL_MAX_SOCKETS = 1
  MaxCalls = 1
  Request <- SharedSocketRequests
PROPERTIES
  Served
CHECK_DEADLOCK FALSE
