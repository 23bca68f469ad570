SPECIFICATION LineSpec
CONSTANTS
  CrcOK <- MCCrcOK
  QCOM_HDR = 9
  DRL_HDR = 10
  FlashDetected = FALSE
  NUMBER_OF_PACKETS = 3
  MAX_PACKET_SIZE = 4
  LENGTH_SPAN = 8
  CRC_CHUNK = 2
  TX_POLL = 2
  WRITE_POLLS = TRUE
  REPLY_LENGTH <- MCReplyLength
  Byte <- MCByte
  NULL = NULL
  MAX_CALLS = 2
  Request <- MCRequest
  Noise <- MCNoise
  MAX_NOISE = 6
  MAX_FRAMES = 2
PROPERTIES FrameSurvivesNoise TooLongDiscarded
CHECK_DEADLOCK FALSE
