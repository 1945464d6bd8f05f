SPECIFICATION Spec
CONSTANTS
  Players = {p1, p2, p3}
  None = None
  Leavers = {p1, p2}
  Stranded = {}
  MaxAccepts = 1
  MaxRequeues = 0
CHECK_DEADLOCK FALSE
SYMMETRY Sym
INVARIANTS TypeOK AcceptedByBoth NoTwoInQueue NobodyForgotten TwoDifferentPlayers
