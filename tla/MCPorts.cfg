SPECIFICATION PortsSpec
CONSTANTS
  TX_SIZE = 3
  RX_SIZE = 4
  PACKET = 2
  FrameLengths <- MCFrameLengths
  Codings = {8, 9}
  Coding0 = 8
  MAX_SENT = 5
  MAX_WRITTEN = 5
  MAX_SETUPS = 2
  RX_FIFO = 2
  TX_FIFO = 2
  TX_LEVEL = 2
  READ_MAX = 2
  MAX_LINE = 3
  X0_SENT = 3
  X0_WRITTEN = 4
  X0_SETUPS = 1
INVARIANTS UsbReceives TakenInOrder CodingKept UartReceives UartSends
PROPERTIES AllHanded PortServed
