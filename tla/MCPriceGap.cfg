SPECIFICATION GapSpec
CONSTANTS
  None = None
  printing1 = printing1
  Printing = {printing1}
  Chart = {}
  Calls <- TwoCalls
  Doubtful = {}
  StartBefore = 0
  StartAfter = 1
  CloseBefore = 1
  MaxDays = 7
  BatchSize = 2
  MaxPoints = 5
  ChartDays = 5
  RefreshDays = 1
  Overlap = 1
  LastDay = 7
INVARIANT NothingNewInRange
CHECK_DEADLOCK FALSE
