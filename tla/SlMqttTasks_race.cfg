SPECIFICATION TasksSpec
CONSTANTS
  RX_FIRST = FALSE
  MAX_PUBREL_INFLT = 2
  MAX_MQP = 2
  NULL = NULL
  PROTO_V31 = FALSE
  Requests <- MixedRequests
  CleanChoices = {FALSE}
  KEEP_ALIVE = TRUE
  blocking_send = TRUE
  ServerQos = {2}
  ServerInflight = 1
  MaxMessages = 2
  MaxConnects = 2
  MaxDrops = 1
INVARIANTS PacketsNotShared
CHECK_DEADLOCK FALSE
