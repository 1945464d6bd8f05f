SPECIFICATION Spec
CONSTANTS
  Handlers = {h1, h2}
  Cards = {c1}
  Sessions = {s1}
  NoSession = NoSession
  Bundle = 3
  MaxCopies = 1
  Start = 3
  Starters = {c1}
  PackSize = 2
  PackCost = 3
  Refund = 1
  Reward = 1
  MaxRewards = 0
  MaxSpent = 1
INVARIANT CreditStands
