SPECIFICATION Spec
CONSTANTS
  Null = Null
  Reqs = {q1}
  TickSeconds = 60
  MaxTime = 120
  ActiveTimes = {60}
  DbFaults = FALSE
SYMMETRY Symmetry
PROPERTY ScoreReflectsSession
CHECK_DEADLOCK FALSE
