SPECIFICATION FairSpec
CONSTANTS
  TokenCount = 4
  MaxChunk = 15
INVARIANT ClientFollowsServer
INVARIANT ReplyMissesOnlyCut
PROPERTY StreamCompletes
CHECK_DEADLOCK FALSE
