SPECIFICATION Spec
CONSTANTS
  None = None
  MaxSize = 7
  BusyThreshold = 3
  DayLength = 4
  Answers <- MCAnswers
CHECK_DEADLOCK FALSE
INVARIANT IdleNeedsWindow
