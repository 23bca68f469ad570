SPECIFICATION Spec
CONSTANTS
  PACKET = 4
  TX_SIZE = 16
  FrameLengths <- MCFrameLengths
  Codings <- MCCodings
  Coding0 <- MCCoding0
  SERIAL_AT = 2
  MAX_SENT = 2
  MAX_WRITTEN = 16
  MAX_SETUPS = 1
CHECK_DEADLOCK FALSE
INVARIANT TwoFlagsFlush
