SPECIFICATION LiveSpec
CONSTANTS
  Players = {p1, p2}
  None = None
  Leavers = {p1, p2}
  Stranded = {p1}
  MaxAccepts = 1
  MaxRequeues = 0
CHECK_DEADLOCK FALSE
PROPERTIES SomebodyGetsAMatch GoneIsStopped GoneLeavesMatches
