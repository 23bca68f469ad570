SPECIFICATION Spec
CONSTANTS
  RUN_MAX = 15
  MAX_SIZE = 1024
  REPLY_BUFFER_SIZE = 2048
  Sizes <- MCFull
  Sources <- MCSinglesAndPairs
INVARIANT ReplyFits
