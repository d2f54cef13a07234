SPECIFICATION FairSpec
CONSTANTS
  Docs = {d1}
  Procs = {p1, p2}
  None = None
  UseOcrQueue = TRUE
  MaxAttempts = 3
  MaxStalled = 2
  MaxCrashes = 2
  Faults = {"add"}
INVARIANT ExclusiveRun
INVARIANT OutcomesAgree
PROPERTY ImplementsLifecycle
PROPERTY EveryUploadAnswered
PROPERTY AcceptedSettles
CHECK_DEADLOCK FALSE
