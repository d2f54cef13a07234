SPECIFICATION Spec
CONSTANTS
  Null = Null
  Reqs = {q1, q2, q3}
  TickSeconds = 60
  MaxTime = 120
  ActiveTimes = {0, 60}
  DbFaults = TRUE
SYMMETRY Symmetry
INVARIANT TypeOK
INVARIANT CountersMatchRows
INVARIANT EndRecordedTogether
CHECK_DEADLOCK FALSE
