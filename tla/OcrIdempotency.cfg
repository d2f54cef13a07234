SPECIFICATION Spec
CONSTANTS
  Docs = {d1}
  Procs = {p1, p2}
  None = None
  UseOcrQueue = TRUE
  MaxAttempts = 3
  MaxStalled = 1
  MaxCrashes = 0
  Faults = {"stall"}
SYMMETRY Symmetry
PROPERTY CompletedIsStable
CHECK_DEADLOCK FALSE
