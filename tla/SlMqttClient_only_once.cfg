SPECIFICATION Spec
CONSTANTS
  MAX_PUBREL_INFLT = 4
  MAX_MQP = 2
  NULL = NULL
  PROTO_V31 = FALSE
  Requests = {}
  CleanChoices = {FALSE}
  KEEP_ALIVE = FALSE
  blocking_send = TRUE
  ServerQos = {2}
  ServerInflight = 2
  MaxMessages = 2
  MaxConnects = 3
  MaxDrops = 2
INVARIANTS ClientGetsOnce
CHECK_DEADLOCK FALSE
