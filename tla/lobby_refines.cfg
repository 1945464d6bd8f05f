SPECIFICATION Spec
CONSTANTS
  Players = {p1, p2, p3}
  None = None
  Leavers = {}
  Stranded = {}
  MaxAccepts = 1
  MaxRequeues = 1
CHECK_DEADLOCK FALSE
PROPERTY ImplementsLobby
