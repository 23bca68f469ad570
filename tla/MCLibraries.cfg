SPECIFICATION LibrariesSpec
CONSTANTS
  RUN_MAX = 3
  MAX_SIZE = 7
  REPLY_BUFFER_SIZE = 34
  Sizes <- MCSizes
  Sources <- MCSources
  MINMATCH = 3
  WILDCOPYLENGTH = 4
  LASTLITERALS = 4
  MASK = 2
  BYTE = 3
  TRIGGER = 2
  MARGIN = 2
  Lz4Blocks <- MCLz4Blocks
  Lz4Hashes <- MCLz4Hashes
  LzoBlocks <- MCLzoBlocks
  LzoHashes <- MCLzoHashes
  CHUNK = 4
  Payloads <- MCPayloads
  Patterns <- MCPatterns
  h1 = h1
  h2 = h2
  h3 = h3
  ALIGN = 4
  META = 2
  TOP = 32
  LOAD = 4
  MainList <- MCMainList
  Handles <- MCHandles
  RegionLists <- MCRegionLists
  HeapSizes <- MCHeapSizes
  Items <- MCItems
  Calls <- MCCalls
SYMMETRY HandleSymmetry
INVARIANTS
  RoundTrip OutputBound OnlyARunBehind
  Lz4RoundTrip LzoRoundTrip LzStaysInside
  IsRemainder AcceptsOnlyIntact
  HeapSound ContentsKept FormatBounded FollowsPrintf
