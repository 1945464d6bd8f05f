SPECIFICATION Spec
CONSTANTS
  Users = {u1, u2}
  Handlers = {h1}
  Workers = {w1, w2}
  Callers = {w1, w2, "nobody"}
  Clients = {c1, c2}
  Emails = {e1}
  Sessions = {s1, s2}
  NoEmail = NoEmail
  NoUser = NoUser
  NoSession = NoSession
  Nobody = Nobody
  MaxCard = 1
  DeckSize = 1
  MaxCopies = 1
  Starters = {1}
  NoRow = NoRow
  MaxFaults = 1
INVARIANTS TypeOK AccountsAreWhole OneSession RefusalIsTrue
SYMMETRY AccountSymmetry
