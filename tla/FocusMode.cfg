SPECIFICATION FairSpec
CONSTANTS
  MaxSessions = 2
  Faults = TRUE
INVARIANT TypeOK
INVARIANT OpenSessionsAreShown
INVARIANT ScreenAgrees
PROPERTY EndedStaysEnded
PROPERTY OffEndsSessions
CHECK_DEADLOCK FALSE
