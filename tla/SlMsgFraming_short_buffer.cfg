SPECIFICATION FairSpec
CONSTANTS
  Message <- ShortBufferMessages
  Command = {}
  MaxLen = 5
  SL_ASYNC_MAX_PAYLOAD_LEN = 8
  U16 = 65536
PROPERTIES ReadEnds
CHECK_DEADLOCK FALSE
