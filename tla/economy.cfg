SPECIFICATION LiveSpec
CONSTANTS
  Handlers = {h1, h2}
  Cards = {c1}
  Sessions = {s1}
  NoSession = NoSession
  Bundle = 3
  MaxCopies = 1
  Start = 3
  Starters = {}
  PackSize = 2
  PackCost = 3
  Refund = 1
  Reward = 1
  MaxRewards = 1
  MaxSpent = 1
INVARIANTS TypeOK NoMinting AckedIsCredited
PROPERTY PaidIsCredited
