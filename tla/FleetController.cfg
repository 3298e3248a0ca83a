SPECIFICATION Spec
CONSTANTS
  Screens = {s1, s2}
  MaxQuestions = 2
  MaxRequests = 2
  MaxRuns = 2
  MaxStack = 4
INVARIANTS TurnsInOrder RunningIsAlive ApprovedIsShown
PROPERTIES BusyEnds
CHECK_DEADLOCK FALSE
