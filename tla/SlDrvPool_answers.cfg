SPECIFICATION Spec
CONSTANTS
  t1 = t1
  t2 = t2
  t3 = t3
  NoTask = NoTask
  Task = {t1, t2, t3}
  MAX_CONCURRENT_ACTIONS = 2
  SL_MAX_SOCKETS = 2
  MaxCalls = 2
  Request <- AnswerRequests
SYMMETRY Symmetry
INVARIANTS
  Exclusive
  PoolPartition
  NoStaleSignal
  AnswerIsForCaller
  NoWildHandler
  HandlerHasCaller
  RecvFindsItsObject
CHECK_DEADLOCK FALSE
