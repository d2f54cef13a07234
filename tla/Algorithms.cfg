SPECIFICATION Spec
CONSTANTS
  Null = Null
  Durations = {0, 59, 60, 61, 100}
  ActivePercent = {0, 1, 69, 70, 100}
  MaxDistractions = 21
  MaxPauses = 5
  MaxTabSwitches = 30
  TabBatch = 3
  Take = 4
  MaxSessions = 6
  MaxGap = 3
  Scores = {0, 60}
  MaxPages = 12
  MaxBlank = 3
INVARIANT ScoreInRange
INVARIANT StreaksMissOnlyOldDays
INVARIANT PageNumbersRightUpToNine
PROPERTY WorseNeverScoresHigher
CHECK_DEADLOCK FALSE
