SPECIFICATION Spec
CONSTANTS
  Convs = {c1}
  Reqs = {q1, q2, q3}
  None = None
  Kinds = {"chat", "stream", "delete"}
  HistoryLimit = 3
  ApiKeys = {TRUE, FALSE}
  DbFaults = TRUE
  MaxCrashes = 1
SYMMETRY Symmetry
INVARIANT TypeOK
INVARIANT AnsweredChatIsRecorded
INVARIANT NoReplyWithoutQuestion
INVARIANT ContextIsKept
INVARIANT DeletedLeavesNothing
CHECK_DEADLOCK FALSE
