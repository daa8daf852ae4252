SPECIFICATION TransferSpec
CONSTANTS
  Message <- FittingMessages
  Command <- Commands
  MaxLen = 13
  SL_ASYNC_MAX_PAYLOAD_LEN = 8
  U16 = 64
  MAX_NVMEM_CHUNK_SIZE = 4
  MaxPayload = 6
  Lengths = {0, 1, 9, 12}
  Offsets = {0, 7}
  FileSizes = {6, 20}
INVARIANTS InStep BufferFilled TransferExact
PROPERTIES ReadEnds
