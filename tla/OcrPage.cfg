SPECIFICATION FairSpec
CONSTANTS
  Docs = {d1, d2}
  Texts = {1, 2}
  MaxPolls = 2
  Reader = 0
  InfoDocs = {d1}
  Clients = {0, 1, 2}
  Ttl = 2
  DbFaults = TRUE
  MaxAttempts = 2
  MaxHistory = 2
  NoDoc = NoDoc
INVARIANT TypeOK
INVARIANT PublishedIsServed
INVARIANT HistoryIsPublished
INVARIANT HistoryIsComplete
PROPERTY InfoCatchesUp
PROPERTY UploadEnds
CHECK_DEADLOCK FALSE
