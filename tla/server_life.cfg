SPECIFICATION FairSpec
CONSTANTS
  Conns = {c1, c2}
  NoConn = NoConn
CHECK_DEADLOCK FALSE
INVARIANTS TypeOK ReadsLive AllClosed
PROPERTY StopEnds
