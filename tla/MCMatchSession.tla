--------------------------- MODULE MCMatchSession ---------------------------
(* Instances of MatchSession: which cards exist, and which decks meet.      *)
EXTENDS MatchSession, CardTable

Only(ids) == [c \in ids |-> CardOf(c)]
Meet(a, b) == [p \in Players |-> IF p = 0 THEN a ELSE b]

\* Creatures with and without keywords, spells that change numbers and grant
\* keywords, and cards that act on hands, health, mana and a whole side.
RulesCatalog ==
  Only({2, 9, 11, 14, 15, 16, 18, 23, 28, 31, 32, 36, 39, 40, 44, 45})
RulesMatchups == {
  Meet(<<9, 16, 2>>, <<2, 14, 16>>),
  Meet(<<40, 18, 31>>, <<45, 39, 44>>),
  Meet(<<16, 32, 44>>, <<39, 40, 31>>),
  Meet(<<14, 15, 39>>, <<16, 44, 16>>),
  Meet(<<28, 36, 9>>, <<23, 11, 2>>)}

\* Two players who may also surrender or go away, with two messages in flight: a spell
\* that ends the match and a creature, so that a batch holds something behind what
\* decides it, and a card that is sent for twice.
QuitCatalog == Only({23, 44})
QuitMatchups == {Meet(<<44, 23>>, <<44>>), Meet(<<44, 23>>, <<23>>)}
=============================================================================
