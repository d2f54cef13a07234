SPECIFICATION Spec
CONSTANTS
  Docs = {d1, d2}
  NoDoc = NoDoc
  Known = {d1}
  MaxSessions = 3
  MaxRetries = 1
  MaxSends = 2
PROPERTY HistoryIsKept
CHECK_DEADLOCK FALSE
