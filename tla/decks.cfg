SPECIFICATION Spec
CONSTANTS
  Users = {u1, u2}
  Player = u1
  Handlers = {h1, h2}
  Callers = {"client", "nobody"}
  MaxCard = 3
  DeckSize = 2
  MaxCopies = 1
  Starters = {1, 2}
  NoRow = NoRow
  MaxFaults = 1
INVARIANTS TypeOK DeckIsFull FillsAsDocumented QueuedHasDeck OwnedUnlessBlind
PROPERTY FilledAtStart
SYMMETRY HandlerSymmetry
