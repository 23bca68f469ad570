SPECIFICATION LinkSpec
CONSTANTS
  CrcOK <- MCCrcOK
  QCOM_HDR = 9
  DRL_HDR = 10
  FlashDetected = TRUE
  NUMBER_OF_PACKETS = 3
  MAX_PACKET_SIZE = 3
  LENGTH_SPAN = 8
  CRC_CHUNK = 2
  TX_POLL = 2
  WRITE_POLLS = FALSE
  REPLY_LENGTH <- MCReplyLength
  Byte <- MCByte
  NULL = NULL
  MAX_CALLS = 2
  WINDOW = 1
  Request <- MCRequest
PROPERTY GateOpensForOwnHost
