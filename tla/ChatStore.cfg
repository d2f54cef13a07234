SPECIFICATION Spec
CONSTANTS
  Docs = {d1, d2}
  NoDoc = NoDoc
  Known = {d1}
  MaxSessions = 2
  MaxRetries = 1
  MaxSends = 2
INVARIANT TypeOK
INVARIANT RepliesAreInPlace
INVARIANT StoredSessionsAgree
INVARIANT ReloadRestoresScreen
CHECK_DEADLOCK FALSE
