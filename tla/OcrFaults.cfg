SPECIFICATION Spec
CONSTANTS
  Docs = {d1}
  Procs = {p1, p2}
  None = None
  UseOcrQueue = TRUE
  MaxAttempts = 2
  MaxStalled = 1
  MaxCrashes = 1
  Faults = {"db", "add", "added", "stall"}
SYMMETRY Symmetry
INVARIANT TypeOK
INVARIANT CompletedHasArtifacts
INVARIANT NoDanglingReference
INVARIANT VisionCallBudget
INVARIANT StrandedIsReported
CHECK_DEADLOCK FALSE
