SPECIFICATION StackSpec
CONSTANTS
  Memories <- MCMemories
  Requests <- MCRequests
  Statuses = {TRUE, FALSE}
  NandBoards <- MCNandBoards
  NandAsked <- MCNandAsked
  OneNandBoards <- MCOneNandBoards
  OneNandAsked <- MCOneNandAsked
INVARIANTS TypeOK RawBufHolds ProbeDescribes PageFetched LeftQuiet OwnPage
PROPERTY AnswersTruthfully
\* A memory whose probe failed is not read.
CHECK_DEADLOCK FALSE
