SPECIFICATION StartupSpec
CONSTANTS
  DEVICES = 3
  MAX_NAME = 254
  BUF_WORDS = 511
  Probes <- MCProbes
  Boards <- MCWithCfi
  NameLength <- MCNameLength
INVARIANT CfiTableAccepted
