SPECIFICATION Spec
CONSTANTS
  CrcOK <- MCCrcOK
  QCOM_HDR = 1
  DRL_HDR = 2
  FlashDetected = TRUE
  NUMBER_OF_PACKETS = 2
  MAX_PACKET_SIZE = 3
  LENGTH_SPAN = 5
  CRC_CHUNK = 2
  TX_POLL = 2
  WRITE_POLLS = TRUE
  REPLY_LENGTH <- MCReplyLength
  Byte <- MCByte
  NULL = NULL
  MAX_CALLS = 2
INVARIANTS TypeOK PoolIntact
PROPERTY ImplementsQueue
