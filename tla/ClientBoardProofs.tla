-------------------------- MODULE ClientBoardProofs --------------------------
(***************************************************************************)
(* Theorems about ClientBoard, for any decks, openings and lanes and any   *)
(* number of lines: the types, with no card shown at two places            *)
(* (TypeCorrect); that a snapshot leaves nothing false on the screen       *)
(* (NothingFalseShown); that a client which has caught up shows the        *)
(* server's table (MirrorsServer); and that a snapshot makes it show what  *)
(* it says, as long as nothing was overtaken (SnapshotsCorrect).           *)
(*                                                                         *)
(* Mirrors says nothing of a client with lines to come; the invariant      *)
(* does: the lines on the way are a path from some table to the server's   *)
(* (Behind), each line legal where it stands, and the first table of the   *)
(* path is what the client will show when the updates it holds are out and *)
(* the creatures that are to die are gone (Mirroring).                     *)
(***************************************************************************)
EXTENDS ClientBoard, FiniteSetTheorems, SequenceTheorems, WellFoundedInduction, TLAPS

\* The order of the numbers is well founded.
LEMMA NatLess == \E R : IsWellFoundedOn(R, Nat) /\ \A x, y \in Nat : x < y => <<x, y>> \in R
<1>1. \A x, y \in Nat : x < y => <<x, y>> \in OpToRel(<, Nat)
  BY DEF OpToRel
<1> QED BY <1>1, NatLessThanWellFounded

\* A set of numbers has a smallest one.
LEMMA SmallestIn ==
  ASSUME NEW U, U \subseteq Nat, U # {}
  PROVE  \E x \in U : \A y \in U : ~ (y < x)
<1>1. PICK R : IsWellFoundedOn(R, Nat) /\ \A x, y \in Nat : x < y => <<x, y>> \in R
  BY NatLess
<1>2. IsWellFoundedOn(R, Nat)
  BY <1>1
<1>3. \E x \in U : \A y \in U : ~ (<<y, x>> \in R)
  BY ONLY <1>2, WFMin, U \subseteq Nat, U # {}, Zenon
<1> QED BY <1>1, <1>3

\* Induction, said of a set of numbers.
LEMMA SetInduction ==
  ASSUME NEW T, 0 \in T, \A n \in Nat : n \in T => n + 1 \in T
  PROVE  Nat \subseteq T
<1> DEFINE U == Nat \ T
<1>1. SUFFICES ASSUME U # {} PROVE FALSE
  OBVIOUS
<1>2. PICK x \in U : \A y \in U : ~ (y < x)
  <2> HIDE DEF U
  <2>1. U \subseteq Nat
    BY DEF U
  <2> QED BY <1>1, <2>1, SmallestIn
<1>3. x - 1 \in Nat /\ x - 1 < x /\ x = (x - 1) + 1
  BY <1>2
<1>4. x - 1 \notin U
  BY <1>2, <1>3
<1> QED BY <1>2, <1>3, <1>4

\* Max of FiniteSetsExt, which the folds count down with.
LEMMA MaxIsIn ==
  ASSUME NEW n \in Nat, NEW s \in SUBSET (1 .. n), s # {}
  PROVE  Max(s) \in s /\ \A y \in s : Max(s) >= y
<1> DEFINE U == {n - x : x \in s}
<1>1. U \subseteq Nat /\ U # {}
  <2>1. \A x \in s : x \in 1 .. n
    OBVIOUS
  <2>2. \A x \in 1 .. n : n - x \in Nat
    OBVIOUS
  <2> QED BY <2>1, <2>2
<1>2. PICK u \in U : \A y \in U : ~ (y < u)
  <2> HIDE DEF U
  <2> QED BY <1>1, SmallestIn
<1>3. PICK x \in s : u = n - x
  BY <1>2
<1>4. \A y \in s : x >= y
  <2> TAKE y \in s
  <2>1. n - y \in U
    OBVIOUS
  <2>2. ~ (n - y < n - x)
    BY <1>2, <1>3, <2>1
  <2> QED BY <2>2
<1> QED BY <1>4 DEF Max

LEMMA MaxIs ==
  ASSUME NEW n \in Nat, NEW s \in SUBSET (1 .. n + 1), n + 1 \in s
  PROVE  Max(s) = n + 1
<1>1. Max(s) \in s /\ Max(s) >= n + 1
  BY MaxIsIn, n + 1 \in Nat
<1>2. Max(s) \in 1 .. n + 1
  BY <1>1
<1> QED BY <1>1, <1>2

Folds(g, n, base, op) ==
  \A s \in SUBSET (1 .. n) :
    g[s] = IF s = {} THEN base ELSE op[Max(s)][g[s \ {Max(s)}]]

Foldable(V, n, base, op) == \E g \in [SUBSET (1 .. n) -> V] : Folds(g, n, base, op)

\* A fold over 1 .. n can be continued to n + 1.
LEMMA FoldGrows ==
  ASSUME NEW V, NEW base \in V, NEW N \in Nat, NEW op \in [1 .. N -> [V -> V]],
         NEW n \in Nat, n + 1 <= N, Foldable(V, n, base, op)
  PROVE  Foldable(V, n + 1, base, op)
<1>1. PICK g \in [SUBSET (1 .. n) -> V] : Folds(g, n, base, op)
  BY DEF Foldable
<1> DEFINE h == [s \in SUBSET (1 .. n + 1) |->
                   IF n + 1 \in s THEN op[n + 1][g[s \ {n + 1}]] ELSE g[s]]
<1>2. \A s \in SUBSET (1 .. n + 1) : s \ {n + 1} \in SUBSET (1 .. n)
  OBVIOUS
<1>3. \A s \in SUBSET (1 .. n + 1) : n + 1 \notin s => s \in SUBSET (1 .. n)
  OBVIOUS
<1>4. \A s \in SUBSET (1 .. n) : s \in SUBSET (1 .. n + 1) /\ n + 1 \notin s
  OBVIOUS
<1>5. \A s \in SUBSET (1 .. n) : h[s] = g[s]
  BY <1>4
<1>6. ASSUME NEW s \in SUBSET (1 .. n + 1) PROVE h[s] \in V
  <2>1. CASE n + 1 \in s
    <3>1. g[s \ {n + 1}] \in V /\ n + 1 \in 1 .. N
      BY <1>2
    <3>2. h[s] = op[n + 1][g[s \ {n + 1}]]
      BY <2>1
    <3> HIDE DEF h
    <3> QED BY <3>1, <3>2
  <2>2. CASE n + 1 \notin s
    BY <1>3, <2>2
  <2> QED BY <2>1, <2>2
<1>7. ASSUME NEW s \in SUBSET (1 .. n + 1)
      PROVE  h[s] = IF s = {} THEN base ELSE op[Max(s)][h[s \ {Max(s)}]]
  <2>1. CASE n + 1 \in s
    <3>1. Max(s) = n + 1
      BY <2>1, MaxIs
    <3>2. h[s \ {n + 1}] = g[s \ {n + 1}]
      BY <1>2, <1>5
    <3>3. h[s] = op[n + 1][g[s \ {n + 1}]]
      BY <2>1
    <3> HIDE DEF h
    <3> QED BY <2>1, <3>1, <3>2, <3>3
  <2>2. CASE n + 1 \notin s
    <3>1. s \in SUBSET (1 .. n) /\ h[s] = g[s]
      BY <1>3, <1>5, <2>2
    <3>2. s \ {Max(s)} \in SUBSET (1 .. n)
      BY <3>1
    <3>3. h[s \ {Max(s)}] = g[s \ {Max(s)}]
      BY <1>5, <3>2
    <3>4. g[s] = IF s = {} THEN base ELSE op[Max(s)][g[s \ {Max(s)}]]
      BY <1>1, <3>1 DEF Folds
    <3> HIDE DEF h
    <3> QED BY <3>1, <3>3, <3>4
  <2> QED BY <2>1, <2>2
<1>8. h \in [SUBSET (1 .. n + 1) -> V]
  BY <1>6
<1>9. Folds(h, n + 1, base, op)
  <2> HIDE DEF h
  <2> QED BY <1>7 DEF Folds
<1> QED BY <1>8, <1>9 DEF Foldable

\* So there is one over 1 .. n for every n.
LEMMA FoldExists ==
  ASSUME NEW V, NEW base \in V, NEW N \in Nat, NEW op \in [1 .. N -> [V -> V]]
  PROVE  Foldable(V, N, base, op)
<1> DEFINE T == {n \in Nat : n <= N => Foldable(V, n, base, op)}
<1>1. 0 \in T
  <2> DEFINE g == [s \in SUBSET (1 .. 0) |-> base]
  <2>1. g \in [SUBSET (1 .. 0) -> V]
    OBVIOUS
  <2>2. \A s \in SUBSET (1 .. 0) : s = {}
    OBVIOUS
  <2>3. Folds(g, 0, base, op)
    BY <2>2 DEF Folds
  <2> QED BY <2>1, <2>3 DEF Foldable
<1>2. ASSUME NEW n \in Nat, n \in T PROVE n + 1 \in T
  BY <1>2, FoldGrows
<1>3. N \in T
  <2> HIDE DEF T
  <2> QED BY <1>1, <1>2, SetInduction
<1> QED BY <1>3

\* What a fold computes: a run that starts at base and takes the numbers one by one.
Run(V, N, base, op, result) ==
  \E t \in [0 .. N -> V] :
    /\ t[0] = base
    /\ \A k \in 0 .. N - 1 : t[k + 1] = op[k + 1][t[k]]
    /\ result = t[N]

\* A fold is a run from its base to its result.
LEMMA RunIs ==
  ASSUME NEW V, NEW base \in V, NEW N \in Nat, NEW op \in [1 .. N -> [V -> V]],
         NEW f, f[{}] = base,
         \A k \in 0 .. N - 1 : f[1 .. k] \in V => f[1 .. k + 1] = op[k + 1][f[1 .. k]]
  PROVE  Run(V, N, base, op, f[1 .. N])
<1> DEFINE T == {k \in Nat : k <= N => f[1 .. k] \in V}
<1>1. 1 .. 0 = {} /\ 0 \in T
  OBVIOUS
<1>2. ASSUME NEW k \in Nat, k \in T PROVE k + 1 \in T
  <2> SUFFICES ASSUME k + 1 <= N PROVE f[1 .. k + 1] \in V
    OBVIOUS
  <2>1. k \in 0 .. N - 1 /\ f[1 .. k] \in V /\ k + 1 \in 1 .. N
    BY <1>2
  <2> HIDE DEF T
  <2> QED BY <2>1
<1>3. \A k \in Nat : k \in T
  <2> HIDE DEF T
  <2> QED BY <1>1, <1>2, SetInduction
<1>4. \A k \in 0 .. N : f[1 .. k] \in V
  BY <1>3
<1> HIDE DEF T
<1> DEFINE t == [k \in 0 .. N |-> f[1 .. k]]
<1>5. t \in [0 .. N -> V] /\ t[0] = base /\ f[1 .. N] = t[N]
  BY <1>1, <1>4
<1>6. \A k \in 0 .. N - 1 : t[k + 1] = op[k + 1][t[k]]
  BY <1>4
<1> QED BY <1>5, <1>6 DEF Run

\* CountDeckCards is a run of sums.

\* The values of a fold, as the function in FoldLeft has them.
LEMMA FoldStarts ==
  ASSUME NEW V, NEW base \in V, NEW N \in Nat, NEW op \in [1 .. N -> [V -> V]],
         NEW g \in [SUBSET (1 .. N) -> V], Folds(g, N, base, op)
  PROVE  g[{}] = base
<1>1. {} \in SUBSET (1 .. N)
  OBVIOUS
<1> QED BY <1>1 DEF Folds

\* A function that folds as long as its values stay in V gives a run.
LEMMA FoldWalks ==
  ASSUME NEW V, NEW base \in V, NEW N \in Nat, NEW op \in [1 .. N -> [V -> V]],
         NEW f, f[{}] = base,
         \A s \in SUBSET (1 .. N) :
           s # {} /\ f[s \ {Max(s)}] \in V => f[s] = op[Max(s)][f[s \ {Max(s)}]]
  PROVE  Run(V, N, base, op, f[1 .. N])
<1>1. ASSUME NEW k \in 0 .. N - 1, f[1 .. k] \in V
      PROVE  f[1 .. k + 1] = op[k + 1][f[1 .. k]]
  <2>1. /\ k \in Nat /\ k + 1 <= N /\ 1 .. k + 1 \in SUBSET (1 .. N) /\ 1 .. k + 1 # {}
        /\ k + 1 \in 1 .. N /\ k + 1 \in 1 .. k + 1
    <3>1. k \in Nat /\ k + 1 <= N /\ k + 1 \in 1 .. N /\ k + 1 \in 1 .. k + 1
      OBVIOUS
    <3>2. 1 .. k + 1 \subseteq 1 .. N
      BY <3>1
    <3> QED BY <3>1, <3>2
  <2>2. Max(1 .. k + 1) = k + 1
    BY <2>1, MaxIs
  <2>3. (1 .. k + 1) \ {k + 1} = 1 .. k
    BY <2>1
  <2> QED BY <1>1, <2>1, <2>2, <2>3
<1>2. \A k \in 0 .. N - 1 : f[1 .. k] \in V => f[1 .. k + 1] = op[k + 1][f[1 .. k]]
  BY <1>1
<1> QED BY <1>2, RunIs, Zenon

-----------------------------------------------------------------------------
(* What tables, zones and lines are made of.                               *)

Body == Creature \cup {Empty}

\* The zones where player p shows card c.
Laid(zone, p, c) == {z \in Zones : z[1] = p /\ zone[z] # Empty /\ zone[z].card = c}

\* A table that shows no card more often than the decks had it.
GoodTable == {t \in Table : \A p \in Players, c \in Cards : Holdings(t, p, c) <= Decks[p][c]}

\* An empty zone is not a creature.
LEMMA EmptyIsNone == \A b \in Creature : b # Empty
<1> SUFFICES ASSUME NEW b \in Creature, b = Empty PROVE FALSE
  OBVIOUS
<1>1. DOMAIN b = {"card", "augment", "effect"} /\ DOMAIN Empty = {"card"}
  BY DEF Creature, Empty
<1>2. "augment" \notin {"card"}
  OBVIOUS
<1> QED BY <1>1, <1>2

LEMMA FreshIs ==
  ASSUME NEW c \in Creatures
  PROVE  Fresh(c) \in Creature /\ Fresh(c) # Empty /\ Fresh(c).card = c
<1>1. Fresh(c) \in Creature /\ Fresh(c).card = c
  BY DEF Fresh, Creature
<1> QED BY <1>1, EmptyIsNone

LEMMA ZonesFinite == IsFiniteSet(Zones)
<1>1. IsFiniteSet(Lanes)
  BY ClientBoardAssumption, FS_Interval DEF Lanes
<1>2. IsFiniteSet(Players)
  <2>1. IsFiniteSet({Local})
    BY FS_Singleton
  <2>2. Players = {Local} \cup {Remote}
    BY DEF Players
  <2> QED BY <2>1, <2>2, FS_AddElement
<1> QED BY <1>1, <1>2, FS_Product DEF Zones

LEMMA LaidFinite ==
  ASSUME NEW zone, NEW p, NEW c
  PROVE  IsFiniteSet(Laid(zone, p, c)) /\ Cardinality(Laid(zone, p, c)) \in Nat
<1>1. Laid(zone, p, c) \in SUBSET Zones
  BY DEF Laid
<1>2. IsFiniteSet(Laid(zone, p, c))
  BY <1>1, ZonesFinite, FS_Subset
<1> QED BY <1>2, FS_CardinalityType

LEMMA HoldingsIs ==
  ASSUME NEW t, NEW p, NEW c
  PROVE  Holdings(t, p, c) = t.deck[p][c] + t.hand[p][c] + Cardinality(Laid(t.zone, p, c))
BY DEF Holdings, Laid

\* Fewer creatures are no more cards.
LEMMA LaidKept ==
  ASSUME NEW zone, NEW other, NEW p, NEW c,
         \A z \in Zones : other[z] # Empty => zone[z] # Empty /\ other[z].card = zone[z].card
  PROVE  Cardinality(Laid(other, p, c)) <= Cardinality(Laid(zone, p, c))
<1>1. Laid(other, p, c) \in SUBSET Laid(zone, p, c)
  BY DEF Laid
<1> QED BY <1>1, LaidFinite, FS_Subset

\* One creature more is one card more.
LEMMA LaidPut ==
  ASSUME NEW zone, NEW other, NEW p, NEW c, NEW y,
         \A z \in Zones : z # y => other[z] = zone[z]
  PROVE  Cardinality(Laid(other, p, c)) <= Cardinality(Laid(zone, p, c)) + 1
<1>1. Laid(other, p, c) \in SUBSET (Laid(zone, p, c) \cup {y})
  BY DEF Laid
<1>2. /\ IsFiniteSet(Laid(zone, p, c) \cup {y})
      /\ Cardinality(Laid(zone, p, c) \cup {y}) <= Cardinality(Laid(zone, p, c)) + 1
  BY LaidFinite, FS_AddElement
<1>3. Cardinality(Laid(other, p, c)) <= Cardinality(Laid(zone, p, c) \cup {y})
  BY <1>1, <1>2, FS_Subset
<1>4. /\ Cardinality(Laid(other, p, c)) \in Nat /\ Cardinality(Laid(zone, p, c)) \in Nat
      /\ Cardinality(Laid(zone, p, c) \cup {y}) \in Nat
  BY <1>2, LaidFinite, FS_CardinalityType
<1> QED BY <1>2, <1>3, <1>4

\* The same cards of the others, whatever is put down.
LEMMA LaidElsewhere ==
  ASSUME NEW zone, NEW other, NEW p, NEW c, NEW y,
         \A z \in Zones : z # y => other[z] = zone[z],
         ~ (p = y[1] /\ c = other[y].card)
  PROVE  Cardinality(Laid(other, p, c)) <= Cardinality(Laid(zone, p, c))
<1>1. Laid(other, p, c) \in SUBSET Laid(zone, p, c)
  BY DEF Laid
<1> QED BY <1>1, LaidFinite, FS_Subset

LEMMA TableIs ==
  ASSUME NEW t \in Table
  PROVE  /\ t.health \in [Players -> Int]
         /\ t.hand \in [Players -> Hand] /\ t.deck \in [Players -> Hand]
         /\ t.zone \in [Zones -> Body]
         /\ \A p \in Players, c \in Cards :
              t.hand[p][c] \in Nat /\ t.deck[p][c] \in Nat
BY DEF Table, Body, Hand

LEMMA DecksAre == \A p \in Players, c \in Cards : Decks[p][c] \in Nat
BY ClientBoardAssumption DEF Hand

\* A table that holds and shows no more than a good one.
LEMMA GoodKept ==
  ASSUME NEW t \in GoodTable, NEW u \in Table,
         \A p \in Players, c \in Cards :
           u.deck[p][c] + u.hand[p][c] <= t.deck[p][c] + t.hand[p][c],
         \A z \in Zones :
           u.zone[z] # Empty => t.zone[z] # Empty /\ u.zone[z].card = t.zone[z].card
  PROVE  u \in GoodTable
<1> SUFFICES ASSUME NEW p \in Players, NEW c \in Cards
             PROVE  Holdings(u, p, c) <= Decks[p][c]
  BY DEF GoodTable
<1>1. t \in Table /\ Holdings(t, p, c) <= Decks[p][c]
  BY DEF GoodTable
<1>2. Cardinality(Laid(u.zone, p, c)) <= Cardinality(Laid(t.zone, p, c))
  BY LaidKept
<1>3. /\ Cardinality(Laid(u.zone, p, c)) \in Nat /\ Cardinality(Laid(t.zone, p, c)) \in Nat
      /\ u.deck[p][c] \in Nat /\ u.hand[p][c] \in Nat
      /\ t.deck[p][c] \in Nat /\ t.hand[p][c] \in Nat /\ Decks[p][c] \in Nat
  BY <1>1, LaidFinite, TableIs, DecksAre
<1> QED BY <1>1, <1>2, <1>3, HoldingsIs

\* A card that is put down comes from the hand or the deck.
LEMMA GoodPlaced ==
  ASSUME NEW t \in GoodTable, NEW u \in Table, NEW y \in Zones,
         \A z \in Zones : z # y => u.zone[z] = t.zone[z],
         \A p \in Players, c \in Cards :
           u.deck[p][c] + u.hand[p][c] <= t.deck[p][c] + t.hand[p][c],
         \A p \in Players, c \in Cards : p = y[1] /\ c = u.zone[y].card =>
           u.deck[p][c] + u.hand[p][c] + 1 <= t.deck[p][c] + t.hand[p][c]
  PROVE  u \in GoodTable
<1> SUFFICES ASSUME NEW p \in Players, NEW c \in Cards
             PROVE  Holdings(u, p, c) <= Decks[p][c]
  BY DEF GoodTable
<1>1. t \in Table /\ Holdings(t, p, c) <= Decks[p][c]
  BY DEF GoodTable
<1>2. /\ Cardinality(Laid(u.zone, p, c)) \in Nat /\ Cardinality(Laid(t.zone, p, c)) \in Nat
      /\ u.deck[p][c] \in Nat /\ u.hand[p][c] \in Nat
      /\ t.deck[p][c] \in Nat /\ t.hand[p][c] \in Nat /\ Decks[p][c] \in Nat
  BY <1>1, LaidFinite, TableIs, DecksAre
<1>3. CASE p = y[1] /\ c = u.zone[y].card
  <2>1. Cardinality(Laid(u.zone, p, c)) <= Cardinality(Laid(t.zone, p, c)) + 1
    BY LaidPut
  <2> QED BY <1>1, <1>2, <1>3, <2>1, HoldingsIs
<1>4. CASE ~ (p = y[1] /\ c = u.zone[y].card)
  <2>1. Cardinality(Laid(u.zone, p, c)) <= Cardinality(Laid(t.zone, p, c))
    BY <1>4, LaidElsewhere
  <2> QED BY <1>1, <1>2, <2>1, HoldingsIs
<1> QED BY <1>3, <1>4

-----------------------------------------------------------------------------
(* What the lines change.                                                  *)

ZoneUpdates == {"AUGMENT", "EFFECT_ADD", "EFFECT_REMOVE", "DESTROY"}

HealthAfter(health, m) == IF m.cmd = "HP" THEN [health EXCEPT ![m.player] = @ - 1] ELSE health

Changed(b, cmd) ==
  IF b = Empty \/ cmd = "DESTROY" THEN Empty
  ELSE IF cmd = "AUGMENT" THEN [b EXCEPT !.augment = @ + 1]
  ELSE [b EXCEPT !.effect = (cmd = "EFFECT_ADD")]

ZonesAfter(zone, m) ==
  IF m.cmd \in ZoneUpdates THEN [zone EXCEPT ![m.zone] = Changed(@, m.cmd)] ELSE zone

\* The zones as they will be when the creatures that are to die have gone.
Shows(t, waiting) == [z \in Zones |-> IF Contains(waiting, z) THEN Empty ELSE t.zone[z]]

LEMMA UpdateIs ==
  ASSUME NEW m \in StatUpdates
  PROVE  \/ m.cmd = "HP" /\ m.player \in Players
         \/ m.cmd = "MATCH_LOST"
         \/ m.cmd \in ZoneUpdates /\ m.zone \in Zones
BY DEF StatUpdates, ZoneUpdates, Augment, EffectAdd, EffectRemove, Destroy, Hp, MatchOver

LEMMA ChangedIs ==
  ASSUME NEW b \in Body, NEW cmd \in ZoneUpdates
  PROVE  /\ Changed(b, cmd) \in Body
         /\ Changed(b, cmd) # Empty => b # Empty /\ Changed(b, cmd).card = b.card
<1>1. CASE b = Empty \/ cmd = "DESTROY"
  BY <1>1 DEF Body, Changed
<1>2. CASE b # Empty /\ cmd # "DESTROY"
  <2>1. b \in Creature
    BY <1>2 DEF Body
  <2>2. \A n \in Nat, x \in BOOLEAN :
          /\ [b EXCEPT !.augment = n] \in Creature /\ [b EXCEPT !.augment = n].card = b.card
          /\ [b EXCEPT !.effect = x] \in Creature /\ [b EXCEPT !.effect = x].card = b.card
    BY <2>1 DEF Creature
  <2>3. b.augment + 1 \in Nat
    BY <2>1 DEF Creature
  <2>4. Changed(b, cmd) \in Creature /\ Changed(b, cmd).card = b.card
    BY <1>2, <2>2, <2>3 DEF Changed
  <2> QED BY <1>2, <2>4 DEF Body
<1> QED BY <1>1, <1>2

LEMMA ZonesAfterIs ==
  ASSUME NEW zone \in [Zones -> Body], NEW m \in StatUpdates
  PROVE  ZonesAfter(zone, m) \in [Zones -> Body]
BY UpdateIs, ChangedIs DEF ZonesAfter

LEMMA HealthAfterIs ==
  ASSUME NEW health \in [Players -> Int], NEW m \in StatUpdates
  PROVE  HealthAfter(health, m) \in [Players -> Int]
<1>1. CASE m.cmd = "HP"
  <2>1. m.player \in Players
    BY <1>1, UpdateIs DEF ZoneUpdates
  <2>2. [health EXCEPT ![m.player] = @ - 1] \in [Players -> Int]
    BY <2>1
  <2> QED BY <1>1, <2>2 DEF HealthAfter
<1>2. CASE m.cmd # "HP"
  BY <1>2 DEF HealthAfter
<1> QED BY <1>1, <1>2

\* A table with one zone changed.
LEMMA ZoneSet ==
  ASSUME NEW t \in Table, NEW z \in Zones, NEW b \in Body
  PROVE  /\ [t EXCEPT !.zone[z] = b] \in Table
         /\ [t EXCEPT !.zone[z] = b].zone = [t.zone EXCEPT ![z] = b]
         /\ [t EXCEPT !.zone[z] = b].hand = t.hand
         /\ [t EXCEPT !.zone[z] = b].deck = t.deck
         /\ [t EXCEPT !.zone[z] = b].health = t.health
BY DEF Table, Body

LEMMA HealthSet ==
  ASSUME NEW t \in Table, NEW p \in Players, NEW n \in Int
  PROVE  /\ [t EXCEPT !.health[p] = n] \in Table
         /\ [t EXCEPT !.health[p] = n].health = [t.health EXCEPT ![p] = n]
         /\ [t EXCEPT !.health[p] = n].hand = t.hand
         /\ [t EXCEPT !.health[p] = n].deck = t.deck
         /\ [t EXCEPT !.health[p] = n].zone = t.zone
BY DEF Table

\* A table that keeps its cards and loses or changes creatures stays good.
LEMMA GoodZone ==
  ASSUME NEW t \in GoodTable, NEW z \in Zones, NEW b \in Body,
         b # Empty => t.zone[z] # Empty /\ b.card = t.zone[z].card
  PROVE  [t EXCEPT !.zone[z] = b] \in GoodTable
<1> DEFINE u == [t EXCEPT !.zone[z] = b]
<1>1. t \in Table
  BY DEF GoodTable
<1>2. u \in Table /\ u.zone = [t.zone EXCEPT ![z] = b] /\ u.hand = t.hand /\ u.deck = t.deck
  BY <1>1, ZoneSet
<1>3. \A y \in Zones : u.zone[y] # Empty => t.zone[y] # Empty /\ u.zone[y].card = t.zone[y].card
  BY <1>1, <1>2, TableIs
<1>4. \A p \in Players, c \in Cards : u.deck[p][c] + u.hand[p][c] <= t.deck[p][c] + t.hand[p][c]
  BY <1>1, <1>2, TableIs
<1> QED BY <1>2, <1>3, <1>4, GoodKept

LEMMA GoodHealth ==
  ASSUME NEW t \in GoodTable, NEW p \in Players, NEW n \in Int
  PROVE  [t EXCEPT !.health[p] = n] \in GoodTable
<1> DEFINE u == [t EXCEPT !.health[p] = n]
<1>1. t \in Table
  BY DEF GoodTable
<1>2. u \in Table /\ u.zone = t.zone /\ u.hand = t.hand /\ u.deck = t.deck
  BY <1>1, HealthSet
<1>3. \A q \in Players, c \in Cards : u.deck[q][c] + u.hand[q][c] <= t.deck[q][c] + t.hand[q][c]
  BY <1>1, <1>2, TableIs
<1> QED BY <1>2, <1>3, GoodKept

-----------------------------------------------------------------------------
(* What the client's screen becomes.                                       *)

Screens == [table : GoodTable, pending : Seq(Zones), queued : BOOLEAN, ended : BOOLEAN]

LEMMA ClearedIs ==
  ASSUME animated \in BOOLEAN, NEW d \in Screens, NEW z \in Zones
  PROVE  /\ Cleared(d, z) \in Screens
         /\ Cleared(d, z).table = [d.table EXCEPT !.zone[z] = Empty]
         /\ Cleared(d, z).pending = d.pending
<1>1. d.table \in GoodTable /\ Empty \in Body
  BY DEF Screens, Body
<1>2. [d.table EXCEPT !.zone[z] = Empty] \in GoodTable
  BY <1>1, GoodZone
<1>3. Cleared(d, z) = [d EXCEPT !.table = [d.table EXCEPT !.zone[z] = Empty],
                                !.queued = d.queued \/ animated]
  BY <1>1 DEF Cleared, Screens
<1> QED BY <1>2, <1>3 DEF Screens

LEMMA ScreenTable ==
  ASSUME NEW d \in Screens, NEW u \in GoodTable
  PROVE  /\ [d EXCEPT !.table = u] \in Screens
         /\ [d EXCEPT !.table = u].table = u
         /\ [d EXCEPT !.table = u].pending = d.pending
BY DEF Screens

LEMMA ScreenIs ==
  ASSUME NEW d \in Screens
  PROVE  /\ d.table \in GoodTable /\ d.table \in Table /\ d.pending \in Seq(Zones)
         /\ d.queued \in BOOLEAN /\ d.ended \in BOOLEAN
BY DEF Screens, GoodTable

LEMMA ShowsIs ==
  ASSUME NEW t \in Table, NEW waiting
  PROVE  Shows(t, waiting) \in [Zones -> Body]
BY TableIs DEF Shows, Body

\* A zone that changes shows at once unless its creature is to die.
LEMMA ShowsSet ==
  ASSUME NEW t \in Table, NEW waiting, NEW z \in Zones, NEW b \in Body
  PROVE  Shows([t EXCEPT !.zone[z] = b], waiting)
           = IF Contains(waiting, z) THEN Shows(t, waiting)
             ELSE [Shows(t, waiting) EXCEPT ![z] = b]
<1> DEFINE u == [t EXCEPT !.zone[z] = b]
<1>1. u.zone = [t.zone EXCEPT ![z] = b] /\ t.zone \in [Zones -> Body]
  BY ZoneSet, TableIs
<1> HIDE DEF u
<1>2. \A y \in Zones : u.zone[y] = IF y = z THEN b ELSE t.zone[y]
  BY <1>1
<1>3. CASE Contains(waiting, z)
  <2>1. \A y \in Zones : (IF Contains(waiting, y) THEN Empty ELSE u.zone[y])
                           = (IF Contains(waiting, y) THEN Empty ELSE t.zone[y])
    BY <1>2, <1>3
  <2> QED BY <1>3, <2>1 DEF Shows, u
<1>4. CASE ~Contains(waiting, z)
  <2>1. \A y \in Zones : (IF Contains(waiting, y) THEN Empty ELSE u.zone[y])
                           = (IF y = z THEN b ELSE IF Contains(waiting, y) THEN Empty ELSE t.zone[y])
    BY <1>2, <1>4
  <2> QED BY <1>4, <2>1 DEF Shows, u
<1> QED BY <1>3, <1>4

\* A creature that is to die shows no more.
LEMMA ShowsWaits ==
  ASSUME NEW t \in Table, NEW waiting \in Seq(Zones), NEW z \in Zones
  PROVE  Shows(t, Append(waiting, z)) = [Shows(t, waiting) EXCEPT ![z] = Empty]
<1>1. \A y : Contains(Append(waiting, z), y) <=> Contains(waiting, y) \/ y = z
  <2> TAKE y
  <2>1. /\ Len(waiting) \in Nat /\ Len(Append(waiting, z)) = Len(waiting) + 1
        /\ \A i \in 1 .. Len(waiting) : Append(waiting, z)[i] = waiting[i]
        /\ Append(waiting, z)[Len(waiting) + 1] = z
    BY AppendProperties
  <2>2. ASSUME Contains(Append(waiting, z), y) PROVE Contains(waiting, y) \/ y = z
    <3>1. PICK i \in 1 .. Len(waiting) + 1 : Append(waiting, z)[i] = y
      BY <2>1, <2>2 DEF Contains
    <3> QED BY <2>1, <3>1 DEF Contains
  <2>3. ASSUME Contains(waiting, y) PROVE Contains(Append(waiting, z), y)
    <3>1. PICK i \in 1 .. Len(waiting) : waiting[i] = y
      BY <2>3 DEF Contains
    <3>2. i \in 1 .. Len(Append(waiting, z)) /\ Append(waiting, z)[i] = y
      BY <2>1, <3>1
    <3> QED BY <3>2 DEF Contains
  <2>4. Contains(Append(waiting, z), z)
    <3>1. Len(waiting) + 1 \in 1 .. Len(Append(waiting, z))
      BY <2>1
    <3> QED BY <2>1, <3>1 DEF Contains
  <2> QED BY <2>2, <2>3, <2>4
<1> QED BY <1>1 DEF Shows

LEMMA ShowsEmpty ==
  ASSUME NEW t \in Table, NEW waiting, NEW z \in Zones, Shows(t, waiting)[z] = Empty
  PROVE  Contains(waiting, z) \/ t.zone[z] = Empty
BY DEF Shows

\* What an update does to the health, the hands and what the zones will show.
UpdatesTo(d, m, e) ==
  /\ e \in Screens
  /\ e.table.hand = d.table.hand /\ e.table.deck = d.table.deck
  /\ e.table.health = HealthAfter(d.table.health, m)
  /\ Shows(e.table, e.pending) = ZonesAfter(Shows(d.table, d.pending), m)

LEMMA HpUpdates ==
  ASSUME NEW d \in Screens, NEW m \in StatUpdates, m.cmd = "HP"
  PROVE  UpdatesTo(d, m, Updated(d, m))
<1>1. m.player \in Players /\ m.cmd \notin ZoneUpdates
  BY UpdateIs DEF ZoneUpdates
<1>2. d.table \in GoodTable /\ d.table \in Table
  BY ScreenIs
<1>3. d.table.health[m.player] - 1 \in Int
  BY <1>1, <1>2, TableIs
<1> DEFINE u == [d.table EXCEPT !.health[m.player] = d.table.health[m.player] - 1]
<1>4. /\ u \in GoodTable /\ u.health = [d.table.health EXCEPT ![m.player] = @ - 1]
      /\ u.hand = d.table.hand /\ u.deck = d.table.deck /\ u.zone = d.table.zone
  BY <1>1, <1>2, <1>3, GoodHealth, HealthSet
<1>5. Updated(d, m) = [d EXCEPT !.table = u]
  BY <1>2, UpdateIs DEF Updated, Screens
<1> HIDE DEF u
<1>6. /\ Updated(d, m) \in Screens /\ Updated(d, m).table = u
      /\ Updated(d, m).pending = d.pending
  BY <1>4, <1>5, ScreenTable
<1>7. Shows(u, d.pending) = Shows(d.table, d.pending)
  BY <1>4 DEF Shows
<1> QED BY <1>1, <1>4, <1>6, <1>7 DEF UpdatesTo, HealthAfter, ZonesAfter

LEMMA EndUpdates ==
  ASSUME NEW d \in Screens, NEW m \in StatUpdates, m.cmd = "MATCH_LOST"
  PROVE  UpdatesTo(d, m, Updated(d, m))
<1>1. Updated(d, m) = [d EXCEPT !.ended = TRUE]
  BY DEF Updated
<1>2. /\ Updated(d, m) \in Screens /\ Updated(d, m).table = d.table
      /\ Updated(d, m).pending = d.pending
  BY <1>1 DEF Screens
<1>3. m.cmd \notin ZoneUpdates
  BY DEF ZoneUpdates
<1> QED BY <1>2, <1>3 DEF UpdatesTo, HealthAfter, ZonesAfter

\* The creature of the zone is set: it shows as changed, or it is to die.
LEMMA SetUpdates ==
  ASSUME NEW d \in Screens, NEW m \in StatUpdates, m.cmd \in ZoneUpdates,
         NEW e \in Screens, NEW b \in Body,
         e.table = [d.table EXCEPT !.zone[m.zone] = b], e.pending = d.pending,
         b = Changed(d.table.zone[m.zone], m.cmd)
  PROVE  UpdatesTo(d, m, e)
<1>1. m.zone \in Zones /\ m.cmd # "HP"
  BY UpdateIs DEF ZoneUpdates
<1>2. d.table \in Table
  BY ScreenIs
<1>3. /\ e.table.hand = d.table.hand /\ e.table.deck = d.table.deck
      /\ e.table.health = d.table.health
  BY <1>1, <1>2, ZoneSet
<1> DEFINE shown == Shows(d.table, d.pending)
<1>4. Shows(e.table, e.pending) = IF Contains(d.pending, m.zone) THEN shown
                                  ELSE [shown EXCEPT ![m.zone] = b]
  BY <1>1, <1>2, ShowsSet
<1>5. shown \in [Zones -> Body]
  BY <1>2, ShowsIs
<1>6. Shows(e.table, e.pending) = ZonesAfter(shown, m)
  <2>1. CASE Contains(d.pending, m.zone)
    <3>1. shown[m.zone] = Empty
      BY <1>1, <2>1 DEF Shows
    <3>2. Changed(shown[m.zone], m.cmd) = Empty
      BY <3>1 DEF Changed
    <3> HIDE DEF shown
    <3>3. [shown EXCEPT ![m.zone] = Empty] = shown
      BY <1>1, <1>5, <3>1
    <3> QED BY <1>4, <2>1, <3>2, <3>3 DEF ZonesAfter
  <2>2. CASE ~Contains(d.pending, m.zone)
    <3>1. shown[m.zone] = d.table.zone[m.zone]
      BY <1>1, <2>2 DEF Shows
    <3> HIDE DEF shown
    <3> QED BY <1>4, <2>2, <3>1 DEF ZonesAfter
  <2> QED BY <2>1, <2>2
<1> QED BY <1>1, <1>3, <1>6 DEF UpdatesTo, HealthAfter

\* destroyCreature.
LEMMA DestroyUpdates ==
  ASSUME animated \in BOOLEAN,
         NEW d \in Screens, NEW m \in StatUpdates, m.cmd = "DESTROY"
  PROVE  UpdatesTo(d, m, Destroyed(d, m.zone))
<1>1. m.zone \in Zones /\ m.cmd \in ZoneUpdates
  BY UpdateIs DEF ZoneUpdates
<1>2. d.table \in Table /\ d.pending \in Seq(Zones)
  BY ScreenIs
<1> DEFINE e == Destroyed(d, m.zone)
<1>3. CASE e = Cleared(d, m.zone)
  <2>1. Changed(d.table.zone[m.zone], m.cmd) = Empty
    BY DEF Changed
  <2>2. Empty \in Body
    BY DEF Body
  <2>3. /\ e \in Screens /\ e.table = [d.table EXCEPT !.zone[m.zone] = Empty]
        /\ e.pending = d.pending
    BY <1>1, <1>3, ClearedIs
  <2> HIDE DEF e
  <2>4. UpdatesTo(d, m, e)
    BY <1>1, <2>1, <2>2, <2>3, SetUpdates
  <2> QED BY <2>4 DEF e
<1> DEFINE shown == Shows(d.table, d.pending)
<1>4. ZonesAfter(shown, m) = [shown EXCEPT ![m.zone] = Empty]
  BY <1>1 DEF ZonesAfter, Changed
<1>5. shown \in [Zones -> Body]
  BY <1>2, ShowsIs
<1>6. CASE e = d /\ Contains(d.pending, m.zone)
  <2>1. shown[m.zone] = Empty
    BY <1>1, <1>6 DEF Shows
  <2>2. [shown EXCEPT ![m.zone] = Empty] = shown
    <3> HIDE DEF shown
    <3> QED BY <1>1, <1>5, <2>1
  <2> QED BY <1>4, <1>6, <2>2 DEF UpdatesTo, HealthAfter
<1>7. CASE e = [d EXCEPT !.pending = Append(@, m.zone)]
  <2>1. Append(d.pending, m.zone) \in Seq(Zones)
    BY <1>1, <1>2
  <2>2. e \in Screens /\ e.table = d.table /\ e.pending = Append(d.pending, m.zone)
    BY <1>7, <2>1 DEF Screens
  <2>3. Shows(d.table, Append(d.pending, m.zone)) = [shown EXCEPT ![m.zone] = Empty]
    BY <1>1, <1>2, ShowsWaits
  <2> QED BY <1>4, <2>2, <2>3 DEF UpdatesTo, HealthAfter
<1> QED BY <1>3, <1>6, <1>7 DEF Destroyed

\* An update of a creature that is not there, or that is to die, shows nothing new.
LEMMA NothingUpdates ==
  ASSUME NEW d \in Screens, NEW m \in StatUpdates, m.cmd \in ZoneUpdates,
         d.table.zone[m.zone] = Empty
  PROVE  UpdatesTo(d, m, d)
<1>1. m.zone \in Zones /\ m.cmd # "HP"
  BY UpdateIs DEF ZoneUpdates
<1>2. d.table \in Table
  BY ScreenIs
<1> DEFINE shown == Shows(d.table, d.pending)
<1>3. shown \in [Zones -> Body] /\ shown[m.zone] = Empty
  BY <1>1, <1>2, ShowsIs DEF Shows
<1> HIDE DEF shown
<1>4. ZonesAfter(shown, m) = shown
  BY <1>1, <1>3 DEF ZonesAfter, Changed
<1> QED BY <1>1, <1>4 DEF UpdatesTo, HealthAfter, shown

\* Each update shows what it says, whether or not a creature lives on for a while.
LEMMA UpdatedIs ==
  ASSUME animated \in BOOLEAN, NEW d \in Screens, NEW m \in StatUpdates
  PROVE  UpdatesTo(d, m, Updated(d, m))
<1>1. CASE m.cmd = "HP"
  BY <1>1, HpUpdates
<1>2. CASE m.cmd = "MATCH_LOST"
  BY <1>2, EndUpdates
<1>3. CASE m.cmd \in ZoneUpdates
  <2>1. m.zone \in Zones /\ m.cmd # "HP" /\ m.cmd # "MATCH_LOST"
    BY <1>3, UpdateIs DEF ZoneUpdates
  <2>2. d.table \in GoodTable /\ d.table \in Table
    BY ScreenIs
  <2> DEFINE b == d.table.zone[m.zone]
  <2>3. CASE b = Empty
    <3>1. Updated(d, m) = d
      BY <2>1, <2>3 DEF Updated
    <3> QED BY <1>3, <2>3, <3>1, NothingUpdates
  <2>4. CASE b # Empty /\ m.cmd = "DESTROY"
    <3>1. Updated(d, m) = Destroyed(d, m.zone)
      BY <2>1, <2>4 DEF Updated
    <3> QED BY <2>4, <3>1, DestroyUpdates
  <2>5. CASE b # Empty /\ m.cmd # "DESTROY"
    <3>1. b \in Creature
      BY <2>1, <2>2, <2>5, TableIs DEF Body
    <3> DEFINE x == Changed(b, m.cmd)
    <3>2. b \in Body
      BY <3>1 DEF Body
    <3>3. x \in Body /\ (x # Empty => x.card = b.card)
      BY <1>3, <3>2, ChangedIs
    <3> DEFINE u == [d.table EXCEPT !.zone[m.zone] = x]
    <3>4. u \in GoodTable
      BY <2>1, <2>2, <2>5, <3>3, GoodZone
    <3>5. Updated(d, m) = [d EXCEPT !.table = u]
      <4>1. CASE m.cmd = "AUGMENT"
        <5>1. Updated(d, m) = [d EXCEPT !.table.zone[m.zone].augment = @ + 1]
          BY <2>1, <2>5, <4>1 DEF Updated
        <5>2. x = [b EXCEPT !.augment = @ + 1]
          BY <2>5, <4>1 DEF Changed
        <5> QED BY <5>1, <5>2
      <4>2. CASE m.cmd = "EFFECT_ADD"
        <5>1. Updated(d, m) = [d EXCEPT !.table.zone[m.zone].effect = TRUE]
          BY <2>1, <2>5, <4>2 DEF Updated
        <5>2. x = [b EXCEPT !.effect = TRUE]
          BY <2>5, <4>2 DEF Changed
        <5> QED BY <5>1, <5>2
      <4>3. CASE m.cmd = "EFFECT_REMOVE"
        <5>1. Updated(d, m) = [d EXCEPT !.table.zone[m.zone].effect = FALSE]
          BY <2>1, <2>5, <4>3 DEF Updated
        <5>2. x = [b EXCEPT !.effect = FALSE]
          BY <2>5, <4>3 DEF Changed
        <5> QED BY <5>1, <5>2
      <4> QED BY <1>3, <2>5, <4>1, <4>2, <4>3 DEF ZoneUpdates
    <3> HIDE DEF x
    <3>6. /\ Updated(d, m) \in Screens /\ Updated(d, m).table = u
          /\ Updated(d, m).pending = d.pending
      BY <3>4, <3>5, ScreenTable
    <3> DEFINE e == Updated(d, m)
    <3>7. e.table = [d.table EXCEPT !.zone[m.zone] = x]
      BY <3>6
    <3>8. x = Changed(d.table.zone[m.zone], m.cmd)
      BY DEF x
    <3>9. e \in Screens /\ e.pending = d.pending
      BY <3>6
    <3> HIDE DEF e, u, b
    <3>10. UpdatesTo(d, m, e)
      BY <1>3, <3>3, <3>7, <3>8, <3>9, SetUpdates
    <3> QED BY <3>10 DEF e
  <2> QED BY <2>3, <2>4, <2>5
<1> QED BY <1>1, <1>2, <1>3, UpdateIs

-----------------------------------------------------------------------------
(* What a snapshot does to a zone and to a hand.                            *)

\* A zone that is synced is right or empty, and only a creature that was not there
\* takes a card.
SyncsTo(t, z, want, u) ==
  /\ u \in GoodTable
  /\ u.health = t.health
  /\ \A y \in Zones : y # z => u.zone[y] = t.zone[y]
  /\ u.zone[z] \in {want, Empty}
  /\ \A p \in Players, c \in Cards : u.hand[p][c] <= t.hand[p][c]
  /\ (want = Empty \/ t.zone[z] = want) =>
       u.hand = t.hand /\ u.deck = t.deck /\ u.zone[z] = want

\* A bag with one card less.
LEMMA LessIs ==
  ASSUME NEW bags \in [Players -> Hand], NEW p \in Players, NEW c \in Cards, bags[p][c] > 0
  PROVE  /\ [bags EXCEPT ![p] = Less(@, c)] \in [Players -> Hand]
         /\ \A q \in Players, d \in Cards :
              [bags EXCEPT ![p] = Less(@, c)][q][d]
                = IF q = p /\ d = c THEN bags[q][d] - 1 ELSE bags[q][d]
<1>1. bags[p] \in [Cards -> Nat] /\ bags[p][c] - 1 \in Nat
  BY DEF Hand
<1>2. Less(bags[p], c) \in [Cards -> Nat]
  BY <1>1 DEF Less
<1>3. \A d \in Cards : Less(bags[p], c)[d] = IF d = c THEN bags[p][d] - 1 ELSE bags[p][d]
  BY <1>1 DEF Less
<1>4. [bags EXCEPT ![p] = Less(@, c)] \in [Players -> Hand]
  BY <1>2 DEF Hand
<1>5. \A q \in Players : [bags EXCEPT ![p] = Less(@, c)][q]
                           = IF q = p THEN Less(bags[p], c) ELSE bags[q]
  OBVIOUS
<1> QED BY <1>3, <1>4, <1>5

LEMMA PlacedIs ==
  ASSUME NEW t \in GoodTable, NEW z \in Zones, NEW b \in Creature,
         t.zone[z] # b
  PROVE  SyncsTo(t, z, b, Placed(t, z, b))
<1> DEFINE u == Placed(t, z, b)
<1> DEFINE p == z[1]
<1> DEFINE c == b.card
<1>1. p \in Players /\ c \in Cards /\ b \in Body /\ b # Empty /\ Empty \in Body
  BY EmptyIsNone DEF Zones, Cards, Creature, Body
<1>2. t \in Table
  BY DEF GoodTable
<1>3. /\ t.health \in [Players -> Int]
      /\ t.hand \in [Players -> Hand] /\ t.deck \in [Players -> Hand]
      /\ t.zone \in [Zones -> Body]
      /\ \A q \in Players, d \in Cards : t.hand[q][d] \in Nat /\ t.deck[q][d] \in Nat
  BY <1>2, TableIs
<1>4. CASE t.hand[p][c] > 0
  <2> DEFINE hand == [t.hand EXCEPT ![p] = Less(@, c)]
  <2>1. /\ hand \in [Players -> Hand]
        /\ \A q \in Players, d \in Cards :
             hand[q][d] = IF q = p /\ d = c THEN t.hand[q][d] - 1 ELSE t.hand[q][d]
    <3> HIDE DEF p, c
    <3> QED BY <1>1, <1>3, <1>4, LessIs
  <2>2. u = [t EXCEPT !.hand = hand, !.zone = [t.zone EXCEPT ![z] = b]]
    BY <1>2, <1>4 DEF Placed, Table
  <2> HIDE DEF u, hand
  <2>3. /\ u \in Table /\ u.hand = hand /\ u.deck = t.deck /\ u.health = t.health
        /\ u.zone = [t.zone EXCEPT ![z] = b]
    <3>1. [t.zone EXCEPT ![z] = b] \in [Zones -> Body]
      BY <1>1, <1>3
    <3> QED BY <1>2, <2>1, <2>2, <3>1 DEF Table, Body
  <2>4. u.zone[z] = b /\ \A y \in Zones : y # z => u.zone[y] = t.zone[y]
    BY <1>3, <2>3
  <2>5. \A q \in Players, d \in Cards :
          /\ u.deck[q][d] + u.hand[q][d] <= t.deck[q][d] + t.hand[q][d]
          /\ u.hand[q][d] <= t.hand[q][d]
    BY <1>3, <2>1, <2>3
  <2>6. \A q \in Players, d \in Cards : q = z[1] /\ d = u.zone[z].card =>
          u.deck[q][d] + u.hand[q][d] + 1 <= t.deck[q][d] + t.hand[q][d]
    BY <1>3, <2>1, <2>3, <2>4
  <2>7. u \in GoodTable
    BY <2>3, <2>4, <2>5, <2>6, GoodPlaced
  <2> QED BY <1>1, <2>3, <2>4, <2>5, <2>7 DEF SyncsTo, u
<1>5. CASE ~(t.hand[p][c] > 0) /\ t.deck[p][c] > 0
  <2> DEFINE deck == [t.deck EXCEPT ![p] = Less(@, c)]
  <2>1. /\ deck \in [Players -> Hand]
        /\ \A q \in Players, d \in Cards :
             deck[q][d] = IF q = p /\ d = c THEN t.deck[q][d] - 1 ELSE t.deck[q][d]
    <3> HIDE DEF p, c
    <3> QED BY <1>1, <1>3, <1>5, LessIs
  <2>2. u = [t EXCEPT !.deck = deck, !.zone = [t.zone EXCEPT ![z] = b]]
    BY <1>2, <1>5 DEF Placed, Table
  <2> HIDE DEF u, deck
  <2>3. /\ u \in Table /\ u.deck = deck /\ u.hand = t.hand /\ u.health = t.health
        /\ u.zone = [t.zone EXCEPT ![z] = b]
    <3>1. [t.zone EXCEPT ![z] = b] \in [Zones -> Body]
      BY <1>1, <1>3
    <3> QED BY <1>2, <2>1, <2>2, <3>1 DEF Table, Body
  <2>4. u.zone[z] = b /\ \A y \in Zones : y # z => u.zone[y] = t.zone[y]
    BY <1>3, <2>3
  <2>5. \A q \in Players, d \in Cards :
          /\ u.deck[q][d] + u.hand[q][d] <= t.deck[q][d] + t.hand[q][d]
          /\ u.hand[q][d] <= t.hand[q][d]
    BY <1>3, <2>1, <2>3
  <2>6. \A q \in Players, d \in Cards : q = z[1] /\ d = u.zone[z].card =>
          u.deck[q][d] + u.hand[q][d] + 1 <= t.deck[q][d] + t.hand[q][d]
    BY <1>3, <2>1, <2>3, <2>4
  <2>7. u \in GoodTable
    BY <2>3, <2>4, <2>5, <2>6, GoodPlaced
  <2> QED BY <1>1, <2>3, <2>4, <2>5, <2>7 DEF SyncsTo, u
<1>6. CASE ~(t.hand[p][c] > 0) /\ ~(t.deck[p][c] > 0)
  <2>1. u = [t EXCEPT !.zone[z] = Empty]
    BY <1>6 DEF Placed
  <2> HIDE DEF u
  <2>2. /\ u \in Table /\ u.zone = [t.zone EXCEPT ![z] = Empty]
        /\ u.hand = t.hand /\ u.deck = t.deck /\ u.health = t.health
    BY <1>1, <1>2, <2>1, ZoneSet
  <2>3. u \in GoodTable
    BY <1>1, <2>1, GoodZone
  <2>4. u.zone[z] = Empty /\ \A y \in Zones : y # z => u.zone[y] = t.zone[y]
    BY <1>3, <2>2
  <2> QED BY <1>1, <1>3, <2>2, <2>3, <2>4 DEF SyncsTo, u
<1> QED BY <1>4, <1>5, <1>6

LEMMA ZoneSyncedIs ==
  ASSUME NEW t \in GoodTable, NEW z \in Zones, NEW want \in Body
  PROVE  SyncsTo(t, z, want, ZoneSynced(t, z, want))
<1> DEFINE u == ZoneSynced(t, z, want)
<1>1. t \in Table /\ Empty \in Body
  BY DEF GoodTable, Body
<1>2. t.zone \in [Zones -> Body]
      /\ \A p \in Players, c \in Cards : t.hand[p][c] \in Nat /\ t.deck[p][c] \in Nat
  BY <1>1, TableIs
<1>3. ASSUME NEW b \in Body, u = [t EXCEPT !.zone[z] = b], b \in {want, Empty},
             b # Empty => t.zone[z] # Empty /\ b.card = t.zone[z].card,
             (want = Empty \/ t.zone[z] = want) => b = want
      PROVE  SyncsTo(t, z, want, u)
  <2> HIDE DEF u
  <2>1. u \in GoodTable
    BY <1>3, GoodZone
  <2>2. /\ u.zone = [t.zone EXCEPT ![z] = b]
        /\ u.hand = t.hand /\ u.deck = t.deck /\ u.health = t.health
    BY <1>1, <1>3, ZoneSet
  <2>3. u.zone[z] = b /\ \A y \in Zones : y # z => u.zone[y] = t.zone[y]
    BY <1>2, <2>2
  <2> QED BY <1>2, <1>3, <2>1, <2>2, <2>3 DEF SyncsTo
<1>4. CASE want = Empty
  <2>1. u = [t EXCEPT !.zone[z] = Empty]
    BY <1>4 DEF ZoneSynced
  <2> HIDE DEF u
  <2> QED BY <1>1, <1>3, <1>4, <2>1 DEF u
<1>5. CASE want # Empty /\ t.zone[z] # Empty /\ t.zone[z].card = want.card
  <2>1. u = [t EXCEPT !.zone[z] = want]
    BY <1>5 DEF ZoneSynced
  <2> HIDE DEF u
  <2> QED BY <1>3, <1>5, <2>1 DEF u
<1>6. CASE want # Empty /\ ~(t.zone[z] # Empty /\ t.zone[z].card = want.card)
  <2>1. u = Placed(t, z, want) /\ want \in Creature /\ t.zone[z] # want
    BY <1>6 DEF ZoneSynced, Body
  <2> HIDE DEF u
  <2> QED BY <2>1, PlacedIs DEF u
<1> QED BY <1>4, <1>5, <1>6

\* Tables that may have drawn more than there was.
Loose == [health : [Players -> Int], hand : [Players -> [Cards -> Int]],
          deck : [Players -> [Cards -> Int]], zone : [Zones -> Body]]

LEMMA LooseDraws ==
  ASSUME NEW t \in Loose, NEW p \in Players, NEW c \in Cards
  PROVE  /\ Draws(t, p, c) \in Loose
         /\ Draws(t, p, c).health = t.health /\ Draws(t, p, c).zone = t.zone
         /\ \A q \in Players, d \in Cards :
              /\ Draws(t, p, c).deck[q][d]
                   = IF q = p /\ d = c THEN t.deck[q][d] - 1 ELSE t.deck[q][d]
              /\ Draws(t, p, c).hand[q][d]
                   = IF q = p /\ d = c THEN t.hand[q][d] + 1 ELSE t.hand[q][d]
<1> DEFINE deck == [t.deck EXCEPT ![p] = Less(@, c)]
<1> DEFINE hand == [t.hand EXCEPT ![p] = With(@, c)]
<1>1. /\ t.deck \in [Players -> [Cards -> Int]] /\ t.hand \in [Players -> [Cards -> Int]]
      /\ t.health \in [Players -> Int] /\ t.zone \in [Zones -> Body]
  BY DEF Loose
<1>2. t.deck[p] \in [Cards -> Int] /\ t.hand[p] \in [Cards -> Int]
  BY <1>1
<1>3. /\ Less(t.deck[p], c) \in [Cards -> Int] /\ With(t.hand[p], c) \in [Cards -> Int]
      /\ \A d \in Cards :
           /\ Less(t.deck[p], c)[d] = IF d = c THEN t.deck[p][d] - 1 ELSE t.deck[p][d]
           /\ With(t.hand[p], c)[d] = IF d = c THEN t.hand[p][d] + 1 ELSE t.hand[p][d]
  BY <1>2 DEF Less, With
<1>4. /\ deck \in [Players -> [Cards -> Int]] /\ hand \in [Players -> [Cards -> Int]]
      /\ \A q \in Players : deck[q] = IF q = p THEN Less(t.deck[p], c) ELSE t.deck[q]
      /\ \A q \in Players : hand[q] = IF q = p THEN With(t.hand[p], c) ELSE t.hand[q]
  BY <1>1, <1>3
<1>5. Draws(t, p, c) = [t EXCEPT !.deck = deck, !.hand = hand]
  BY DEF Draws, Loose
<1> HIDE DEF deck, hand
<1>6. /\ Draws(t, p, c) \in Loose /\ Draws(t, p, c).deck = deck /\ Draws(t, p, c).hand = hand
      /\ Draws(t, p, c).health = t.health /\ Draws(t, p, c).zone = t.zone
  BY <1>4, <1>5 DEF Loose
<1> QED BY <1>1, <1>3, <1>4, <1>6

-----------------------------------------------------------------------------
(* What the folds compute: a run of updates, of zones cleared, of zones that *)
(* are synced, of draws.                                                   *)

\* The held updates, one after another.
LEMMA FlushRuns ==
  ASSUME animated \in BOOLEAN, held \in Seq(StatUpdates), NEW d \in Screens
  PROVE  \E v \in [0 .. Len(held) -> Screens] :
           /\ v[0] = d
           /\ \A k \in 0 .. Len(held) - 1 : v[k + 1] = Updated(v[k], held[k + 1])
           /\ Flushed(d) = v[Len(held)]
<1> DEFINE N == Len(held)
<1>0. N \in Nat /\ DOMAIN held = 1 .. N /\ d \in Screens
  BY LenProperties
<1> HIDE DEF N
<1> DEFINE body(f) == [s \in SUBSET DOMAIN held |->
             IF s = {} THEN d ELSE Updated(f[s \ {Max(s)}], held[Max(s)])]
<1> DEFINE op == [k \in 1 .. N |-> [x \in Screens |-> Updated(x, held[k])]]
<1>1. op \in [1 .. N -> [Screens -> Screens]]
      /\ \A x \in Screens, k \in 1 .. N : op[k][x] = Updated(x, held[k])
  <2>1. \A x \in Screens, k \in 1 .. N : Updated(x, held[k]) \in Screens
    BY <1>0, UpdatedIs, ElementOfSeq DEF UpdatesTo, N
  <2> QED BY <2>1
<1> HIDE DEF op
<1>2. PICK g \in [SUBSET (1 .. N) -> Screens] : Folds(g, N, d, op)
  BY <1>0, <1>1, FoldExists DEF Foldable
<1>3. ASSUME NEW s \in SUBSET (1 .. N), s # {}
      PROVE  /\ Max(s) \in 1 .. N
             /\ g[s \ {Max(s)}] \in Screens
             /\ g[s] = op[Max(s)][g[s \ {Max(s)}]]
  <2>1. Max(s) \in s
    BY <1>0, <1>3, MaxIsIn
  <2>2. Max(s) \in 1 .. N /\ s \ {Max(s)} \in SUBSET (1 .. N)
    BY <2>1
  <2>3. g[s] = op[Max(s)][g[s \ {Max(s)}]]
    BY <1>2, <1>3 DEF Folds
  <2> QED BY <2>2, <2>3
<1>4. g = body(g)
  <2>1. ASSUME NEW s \in SUBSET (1 .. N)
        PROVE  g[s] = IF s = {} THEN d ELSE Updated(g[s \ {Max(s)}], held[Max(s)])
    <3>1. CASE s = {}
      BY <1>0, <1>1, <1>2, <3>1, FoldStarts, Zenon
    <3>2. CASE s # {}
      <4>1. /\ Max(s) \in 1 .. N /\ g[s \ {Max(s)}] \in Screens
            /\ g[s] = op[Max(s)][g[s \ {Max(s)}]]
        BY <1>3, <3>2
      <4> QED BY <1>1, <3>2, <4>1
    <3> QED BY <3>1, <3>2
  <2> QED BY <1>0, <2>1
<1>5. PICK f : f = (CHOOSE h : h = body(h))
  OBVIOUS
<1>6. f = body(f)
  <2> HIDE DEF body
  <2> QED BY <1>4, <1>5
<1>7. Flushed(d) = f[1 .. N]
  BY <1>0, <1>5 DEF Flushed, FoldLeft, MapThenFoldSet
<1>8. f[{}] = d
  BY <1>6
<1>9. ASSUME NEW s \in SUBSET (1 .. N), s # {}, f[s \ {Max(s)}] \in Screens
      PROVE  f[s] = op[Max(s)][f[s \ {Max(s)}]]
  <2>1. Max(s) \in 1 .. N
    BY <1>3, <1>9
  <2>2. f[s] = Updated(f[s \ {Max(s)}], held[Max(s)])
    BY <1>0, <1>6, <1>9
  <2> QED BY <1>1, <1>9, <2>1, <2>2
<1> HIDE DEF body
<1>10. Run(Screens, N, d, op, f[1 .. N])
  BY <1>0, <1>1, <1>8, <1>9, FoldWalks, Zenon
<1>11. PICK v \in [0 .. N -> Screens] :
         /\ v[0] = d
         /\ \A k \in 0 .. N - 1 : v[k + 1] = op[k + 1][v[k]]
         /\ f[1 .. N] = v[N]
  BY <1>10 DEF Run
<1>12. ASSUME NEW k \in 0 .. N - 1 PROVE v[k + 1] = Updated(v[k], held[k + 1])
  <2>1. k \in 0 .. N /\ k + 1 \in 1 .. N /\ v[k] \in Screens
    BY <1>0
  <2> QED BY <1>1, <1>11, <2>1
<1> QED BY <1>7, <1>11, <1>12 DEF N

\* The zones whose time has come, one after another.
LEMMA ClearRuns ==
  ASSUME animated \in BOOLEAN, NEW gone \in Seq(Zones), NEW d \in Screens
  PROVE  \E v \in [0 .. Len(gone) -> Screens] :
           /\ v[0] = d
           /\ \A k \in 0 .. Len(gone) - 1 : v[k + 1] = Cleared(v[k], gone[k + 1])
           /\ FoldLeft(Cleared, d, gone) = v[Len(gone)]
<1> DEFINE N == Len(gone)
<1>0. N \in Nat /\ DOMAIN gone = 1 .. N /\ d \in Screens
  BY LenProperties
<1> HIDE DEF N
<1> DEFINE body(f) == [s \in SUBSET DOMAIN gone |->
             IF s = {} THEN d ELSE Cleared(f[s \ {Max(s)}], gone[Max(s)])]
<1> DEFINE op == [k \in 1 .. N |-> [x \in Screens |-> Cleared(x, gone[k])]]
<1>1. op \in [1 .. N -> [Screens -> Screens]]
      /\ \A x \in Screens, k \in 1 .. N : op[k][x] = Cleared(x, gone[k])
  <2>1. \A x \in Screens, k \in 1 .. N : Cleared(x, gone[k]) \in Screens
    BY <1>0, ClearedIs, ElementOfSeq DEF N
  <2> QED BY <2>1
<1> HIDE DEF op
<1>2. PICK g \in [SUBSET (1 .. N) -> Screens] : Folds(g, N, d, op)
  BY <1>0, <1>1, FoldExists DEF Foldable
<1>3. ASSUME NEW s \in SUBSET (1 .. N), s # {}
      PROVE  /\ Max(s) \in 1 .. N
             /\ g[s \ {Max(s)}] \in Screens
             /\ g[s] = op[Max(s)][g[s \ {Max(s)}]]
  <2>1. Max(s) \in s
    BY <1>0, <1>3, MaxIsIn
  <2>2. Max(s) \in 1 .. N /\ s \ {Max(s)} \in SUBSET (1 .. N)
    BY <2>1
  <2>3. g[s] = op[Max(s)][g[s \ {Max(s)}]]
    BY <1>2, <1>3 DEF Folds
  <2> QED BY <2>2, <2>3
<1>4. g = body(g)
  <2>1. ASSUME NEW s \in SUBSET (1 .. N)
        PROVE  g[s] = IF s = {} THEN d ELSE Cleared(g[s \ {Max(s)}], gone[Max(s)])
    <3>1. CASE s = {}
      BY <1>0, <1>1, <1>2, <3>1, FoldStarts, Zenon
    <3>2. CASE s # {}
      <4>1. /\ Max(s) \in 1 .. N /\ g[s \ {Max(s)}] \in Screens
            /\ g[s] = op[Max(s)][g[s \ {Max(s)}]]
        BY <1>3, <3>2
      <4> QED BY <1>1, <3>2, <4>1
    <3> QED BY <3>1, <3>2
  <2> QED BY <1>0, <2>1
<1>5. PICK f : f = (CHOOSE h : h = body(h))
  OBVIOUS
<1>6. f = body(f)
  <2> HIDE DEF body
  <2> QED BY <1>4, <1>5
<1>7. FoldLeft(Cleared, d, gone) = f[1 .. N]
  BY <1>0, <1>5 DEF FoldLeft, MapThenFoldSet
<1>8. f[{}] = d
  BY <1>6
<1>9. ASSUME NEW s \in SUBSET (1 .. N), s # {}, f[s \ {Max(s)}] \in Screens
      PROVE  f[s] = op[Max(s)][f[s \ {Max(s)}]]
  <2>1. Max(s) \in 1 .. N
    BY <1>3, <1>9
  <2>2. f[s] = Cleared(f[s \ {Max(s)}], gone[Max(s)])
    BY <1>0, <1>6, <1>9
  <2> QED BY <1>1, <1>9, <2>1, <2>2
<1> HIDE DEF body
<1>10. Run(Screens, N, d, op, f[1 .. N])
  BY <1>0, <1>1, <1>8, <1>9, FoldWalks, Zenon
<1>11. PICK v \in [0 .. N -> Screens] :
         /\ v[0] = d
         /\ \A k \in 0 .. N - 1 : v[k + 1] = op[k + 1][v[k]]
         /\ f[1 .. N] = v[N]
  BY <1>10 DEF Run
<1>12. ASSUME NEW k \in 0 .. N - 1 PROVE v[k + 1] = Cleared(v[k], gone[k + 1])
  <2>1. k \in 0 .. N /\ k + 1 \in 1 .. N /\ v[k] \in Screens
    BY <1>0
  <2> QED BY <1>1, <1>11, <2>1
<1> QED BY <1>7, <1>11, <1>12 DEF N

ZonesSynced(t, zone, order) == FoldLeft(LAMBDA u, z : ZoneSynced(u, z, zone[z]), t, order)

\* The zones of a snapshot, one after another.
LEMMA SyncRuns ==
  ASSUME NEW zone \in [Zones -> Body], NEW order \in Seq(Zones), NEW t \in GoodTable
  PROVE  \E v \in [0 .. Len(order) -> GoodTable] :
           /\ v[0] = t
           /\ \A k \in 0 .. Len(order) - 1 : v[k + 1] = ZoneSynced(v[k], order[k + 1], zone[order[k + 1]])
           /\ ZonesSynced(t, zone, order) = v[Len(order)]
<1> DEFINE N == Len(order)
<1>0. N \in Nat /\ DOMAIN order = 1 .. N /\ t \in GoodTable
  BY LenProperties
<1> HIDE DEF N
<1> DEFINE body(f) == [s \in SUBSET DOMAIN order |->
             IF s = {} THEN t ELSE ZoneSynced(f[s \ {Max(s)}], order[Max(s)], zone[order[Max(s)]])]
<1> DEFINE op == [k \in 1 .. N |-> [x \in GoodTable |-> ZoneSynced(x, order[k], zone[order[k]])]]
<1>1. op \in [1 .. N -> [GoodTable -> GoodTable]]
      /\ \A x \in GoodTable, k \in 1 .. N : op[k][x] = ZoneSynced(x, order[k], zone[order[k]])
  <2>1. \A x \in GoodTable, k \in 1 .. N : ZoneSynced(x, order[k], zone[order[k]]) \in GoodTable
    BY <1>0, ZoneSyncedIs, ElementOfSeq DEF N, SyncsTo
  <2> QED BY <2>1
<1> HIDE DEF op
<1>2. PICK g \in [SUBSET (1 .. N) -> GoodTable] : Folds(g, N, t, op)
  BY <1>0, <1>1, FoldExists DEF Foldable
<1>3. ASSUME NEW s \in SUBSET (1 .. N), s # {}
      PROVE  /\ Max(s) \in 1 .. N
             /\ g[s \ {Max(s)}] \in GoodTable
             /\ g[s] = op[Max(s)][g[s \ {Max(s)}]]
  <2>1. Max(s) \in s
    BY <1>0, <1>3, MaxIsIn
  <2>2. Max(s) \in 1 .. N /\ s \ {Max(s)} \in SUBSET (1 .. N)
    BY <2>1
  <2>3. g[s] = op[Max(s)][g[s \ {Max(s)}]]
    BY <1>2, <1>3 DEF Folds
  <2> QED BY <2>2, <2>3
<1>4. g = body(g)
  <2>1. ASSUME NEW s \in SUBSET (1 .. N)
        PROVE  g[s] = IF s = {} THEN t ELSE ZoneSynced(g[s \ {Max(s)}], order[Max(s)], zone[order[Max(s)]])
    <3>1. CASE s = {}
      BY <1>0, <1>1, <1>2, <3>1, FoldStarts, Zenon
    <3>2. CASE s # {}
      <4>1. /\ Max(s) \in 1 .. N /\ g[s \ {Max(s)}] \in GoodTable
            /\ g[s] = op[Max(s)][g[s \ {Max(s)}]]
        BY <1>3, <3>2
      <4> QED BY <1>1, <3>2, <4>1
    <3> QED BY <3>1, <3>2
  <2> QED BY <1>0, <2>1
<1>5. PICK f : f = (CHOOSE h : h = body(h))
  OBVIOUS
<1>6. f = body(f)
  <2> HIDE DEF body
  <2> QED BY <1>4, <1>5
<1>7. ZonesSynced(t, zone, order) = f[1 .. N]
  BY <1>0, <1>5 DEF ZonesSynced, FoldLeft, MapThenFoldSet
<1>8. f[{}] = t
  BY <1>6
<1>9. ASSUME NEW s \in SUBSET (1 .. N), s # {}, f[s \ {Max(s)}] \in GoodTable
      PROVE  f[s] = op[Max(s)][f[s \ {Max(s)}]]
  <2>1. Max(s) \in 1 .. N
    BY <1>3, <1>9
  <2>2. f[s] = ZoneSynced(f[s \ {Max(s)}], order[Max(s)], zone[order[Max(s)]])
    BY <1>0, <1>6, <1>9
  <2> QED BY <1>1, <1>9, <2>1, <2>2
<1> HIDE DEF body
<1>10. Run(GoodTable, N, t, op, f[1 .. N])
  BY <1>0, <1>1, <1>8, <1>9, FoldWalks, Zenon
<1>11. PICK v \in [0 .. N -> GoodTable] :
         /\ v[0] = t
         /\ \A k \in 0 .. N - 1 : v[k + 1] = op[k + 1][v[k]]
         /\ f[1 .. N] = v[N]
  BY <1>10 DEF Run
<1>12. ASSUME NEW k \in 0 .. N - 1 PROVE v[k + 1] = ZoneSynced(v[k], order[k + 1], zone[order[k + 1]])
  <2>1. k \in 0 .. N /\ k + 1 \in 1 .. N /\ v[k] \in GoodTable
    BY <1>0
  <2> QED BY <1>1, <1>11, <2>1
<1> QED BY <1>7, <1>11, <1>12 DEF N

\* The cards of an opening, one after another.
LEMMA DrawRuns ==
  ASSUME NEW p \in Players, NEW t \in Loose
  PROVE  \E v \in [0 .. Len(Opening[p]) -> Loose] :
           /\ v[0] = t
           /\ \A k \in 0 .. Len(Opening[p]) - 1 : v[k + 1] = Draws(v[k], p, Opening[p][k + 1])
           /\ DrawsAll(t, p) = v[Len(Opening[p])]
<1> DEFINE N == Len(Opening[p])
<1>0. N \in Nat /\ DOMAIN Opening[p] = 1 .. N /\ t \in Loose
  BY ClientBoardAssumption, LenProperties
<1> HIDE DEF N
<1> DEFINE body(f) == [s \in SUBSET DOMAIN Opening[p] |->
             IF s = {} THEN t ELSE Draws(f[s \ {Max(s)}], p, Opening[p][Max(s)])]
<1> DEFINE op == [k \in 1 .. N |-> [x \in Loose |-> Draws(x, p, Opening[p][k])]]
<1>1. op \in [1 .. N -> [Loose -> Loose]]
      /\ \A x \in Loose, k \in 1 .. N : op[k][x] = Draws(x, p, Opening[p][k])
  <2>1. \A x \in Loose, k \in 1 .. N : Draws(x, p, Opening[p][k]) \in Loose
    BY <1>0, LooseDraws, ClientBoardAssumption, ElementOfSeq DEF N
  <2> QED BY <2>1
<1> HIDE DEF op
<1>2. PICK g \in [SUBSET (1 .. N) -> Loose] : Folds(g, N, t, op)
  BY <1>0, <1>1, FoldExists DEF Foldable
<1>3. ASSUME NEW s \in SUBSET (1 .. N), s # {}
      PROVE  /\ Max(s) \in 1 .. N
             /\ g[s \ {Max(s)}] \in Loose
             /\ g[s] = op[Max(s)][g[s \ {Max(s)}]]
  <2>1. Max(s) \in s
    BY <1>0, <1>3, MaxIsIn
  <2>2. Max(s) \in 1 .. N /\ s \ {Max(s)} \in SUBSET (1 .. N)
    BY <2>1
  <2>3. g[s] = op[Max(s)][g[s \ {Max(s)}]]
    BY <1>2, <1>3 DEF Folds
  <2> QED BY <2>2, <2>3
<1>4. g = body(g)
  <2>1. ASSUME NEW s \in SUBSET (1 .. N)
        PROVE  g[s] = IF s = {} THEN t ELSE Draws(g[s \ {Max(s)}], p, Opening[p][Max(s)])
    <3>1. CASE s = {}
      BY <1>0, <1>1, <1>2, <3>1, FoldStarts, Zenon
    <3>2. CASE s # {}
      <4>1. /\ Max(s) \in 1 .. N /\ g[s \ {Max(s)}] \in Loose
            /\ g[s] = op[Max(s)][g[s \ {Max(s)}]]
        BY <1>3, <3>2
      <4> QED BY <1>1, <3>2, <4>1
    <3> QED BY <3>1, <3>2
  <2> QED BY <1>0, <2>1
<1>5. PICK f : f = (CHOOSE h : h = body(h))
  OBVIOUS
<1>6. f = body(f)
  <2> HIDE DEF body
  <2> QED BY <1>4, <1>5
<1>7. DrawsAll(t, p) = f[1 .. N]
  BY <1>0, <1>5 DEF DrawsAll, FoldLeft, MapThenFoldSet
<1>8. f[{}] = t
  BY <1>6
<1>9. ASSUME NEW s \in SUBSET (1 .. N), s # {}, f[s \ {Max(s)}] \in Loose
      PROVE  f[s] = op[Max(s)][f[s \ {Max(s)}]]
  <2>1. Max(s) \in 1 .. N
    BY <1>3, <1>9
  <2>2. f[s] = Draws(f[s \ {Max(s)}], p, Opening[p][Max(s)])
    BY <1>0, <1>6, <1>9
  <2> QED BY <1>1, <1>9, <2>1, <2>2
<1> HIDE DEF body
<1>10. Run(Loose, N, t, op, f[1 .. N])
  BY <1>0, <1>1, <1>8, <1>9, FoldWalks, Zenon
<1>11. PICK v \in [0 .. N -> Loose] :
         /\ v[0] = t
         /\ \A k \in 0 .. N - 1 : v[k + 1] = op[k + 1][v[k]]
         /\ f[1 .. N] = v[N]
  BY <1>10 DEF Run
<1>12. ASSUME NEW k \in 0 .. N - 1 PROVE v[k + 1] = Draws(v[k], p, Opening[p][k + 1])
  <2>1. k \in 0 .. N /\ k + 1 \in 1 .. N /\ v[k] \in Loose
    BY <1>0
  <2> QED BY <1>1, <1>11, <2>1
<1> QED BY <1>7, <1>11, <1>12 DEF N

-----------------------------------------------------------------------------
(* Draws, plays and snapshots move cards; none is made.                     *)

LEMMA GoodIsTable == \A t \in GoodTable : t \in Table
BY DEF GoodTable

LEMMA TableDraws ==
  ASSUME NEW t \in Table, NEW p \in Players, NEW c \in Cards, t.deck[p][c] > 0
  PROVE  Draws(t, p, c) \in Table
<1>1. t \in Loose
  BY DEF Table, Loose, Hand, Body
<1> DEFINE u == Draws(t, p, c)
<1>2. /\ u \in Loose
      /\ \A q \in Players, d \in Cards :
           /\ u.deck[q][d] = IF q = p /\ d = c THEN t.deck[q][d] - 1 ELSE t.deck[q][d]
           /\ u.hand[q][d] = IF q = p /\ d = c THEN t.hand[q][d] + 1 ELSE t.hand[q][d]
  BY <1>1, LooseDraws
<1> HIDE DEF u
<1>3. \A q \in Players, d \in Cards : u.deck[q][d] \in Nat /\ u.hand[q][d] \in Nat
  BY <1>2, TableIs
<1>4. u.deck \in [Players -> Hand] /\ u.hand \in [Players -> Hand]
  BY <1>2, <1>3 DEF Loose, Hand
<1> QED BY <1>2, <1>4 DEF Loose, Table, Body, u

LEMMA DrawsIs ==
  ASSUME NEW t \in Table, NEW p \in Players, NEW c \in Cards
  PROVE  /\ Draws(t, p, c).health = t.health /\ Draws(t, p, c).zone = t.zone
         /\ \A q \in Players, d \in Cards :
              /\ Draws(t, p, c).deck[q][d]
                   = IF q = p /\ d = c THEN t.deck[q][d] - 1 ELSE t.deck[q][d]
              /\ Draws(t, p, c).hand[q][d]
                   = IF q = p /\ d = c THEN t.hand[q][d] + 1 ELSE t.hand[q][d]
<1>1. t \in Loose
  BY DEF Table, Loose, Hand, Body
<1> QED BY <1>1, LooseDraws

LEMMA GoodDraws ==
  ASSUME NEW t \in GoodTable, NEW p \in Players, NEW c \in Cards, t.deck[p][c] > 0
  PROVE  Draws(t, p, c) \in GoodTable
<1> DEFINE u == Draws(t, p, c)
<1>1. t \in Table /\ u \in Table
  BY GoodIsTable, TableDraws
<1>2. /\ u.zone = t.zone
      /\ \A q \in Players, d \in Cards : u.deck[q][d] + u.hand[q][d] <= t.deck[q][d] + t.hand[q][d]
  BY <1>1, DrawsIs, TableIs
<1> HIDE DEF u
<1> QED BY <1>1, <1>2, GoodKept DEF u

\* A card that leaves a hand.
Drops(t, p, c) == [t EXCEPT !.hand[p] = Less(@, c)]

LEMMA DropsIs ==
  ASSUME NEW t \in Table, NEW p \in Players, NEW c \in Cards, t.hand[p][c] > 0
  PROVE  /\ Drops(t, p, c) \in Table
         /\ Drops(t, p, c).health = t.health /\ Drops(t, p, c).zone = t.zone
         /\ Drops(t, p, c).deck = t.deck
         /\ \A q \in Players, d \in Cards :
              Drops(t, p, c).hand[q][d]
                = IF q = p /\ d = c THEN t.hand[q][d] - 1 ELSE t.hand[q][d]
<1> DEFINE hand == [t.hand EXCEPT ![p] = Less(@, c)]
<1>1. /\ hand \in [Players -> Hand]
      /\ \A q \in Players, d \in Cards :
           hand[q][d] = IF q = p /\ d = c THEN t.hand[q][d] - 1 ELSE t.hand[q][d]
  BY LessIs, TableIs
<1>2. Drops(t, p, c) = [t EXCEPT !.hand = hand]
  BY DEF Drops, Table
<1> HIDE DEF hand
<1> QED BY <1>1, <1>2 DEF Table

LEMMA GoodDrops ==
  ASSUME NEW t \in GoodTable, NEW p \in Players, NEW c \in Cards, t.hand[p][c] > 0
  PROVE  Drops(t, p, c) \in GoodTable
<1> DEFINE u == Drops(t, p, c)
<1>1. t \in Table
  BY GoodIsTable
<1>2. /\ u \in Table /\ u.zone = t.zone /\ u.deck = t.deck
      /\ \A q \in Players, d \in Cards : u.hand[q][d] <= t.hand[q][d]
  BY <1>1, DropsIs, TableIs
<1> HIDE DEF u
<1>3. \A q \in Players, d \in Cards : u.deck[q][d] + u.hand[q][d] <= t.deck[q][d] + t.hand[q][d]
  BY <1>1, <1>2, TableIs
<1> QED BY <1>2, <1>3, GoodKept DEF u

\* A creature that leaves a hand for its zone.
Summons(t, p, c, z) == [t EXCEPT !.hand[p] = Less(@, c), !.zone[z] = Fresh(c)]

LEMMA SummonsIs ==
  ASSUME NEW t \in Table, NEW p \in Players, NEW c \in Creatures, NEW z \in Zones,
         t.hand[p][c] > 0
  PROVE  /\ Summons(t, p, c, z) \in Table
         /\ Summons(t, p, c, z).health = t.health
         /\ Summons(t, p, c, z).zone = [t.zone EXCEPT ![z] = Fresh(c)]
         /\ Summons(t, p, c, z).deck = t.deck
         /\ Summons(t, p, c, z).hand = Drops(t, p, c).hand
<1> DEFINE hand == [t.hand EXCEPT ![p] = Less(@, c)]
<1> DEFINE zone == [t.zone EXCEPT ![z] = Fresh(c)]
<1>0. c \in Cards
  BY DEF Cards
<1>1. hand \in [Players -> Hand]
  BY <1>0, LessIs, TableIs
<1>2. zone \in [Zones -> Body]
  BY TableIs, FreshIs DEF Body
<1>3. /\ Summons(t, p, c, z) = [t EXCEPT !.hand = hand, !.zone = zone]
      /\ Drops(t, p, c) = [t EXCEPT !.hand = hand]
  BY DEF Summons, Drops, Table
<1>4. zone = [t.zone EXCEPT ![z] = Fresh(c)]
  OBVIOUS
<1> HIDE DEF hand, zone
<1> QED BY <1>1, <1>2, <1>3, <1>4 DEF Table, Body

LEMMA GoodSummons ==
  ASSUME NEW t \in GoodTable, NEW p \in Players, NEW z \in Zones, p = z[1],
         NEW c \in Creatures, t.hand[p][c] > 0
  PROVE  Summons(t, p, c, z) \in GoodTable
<1> DEFINE u == Summons(t, p, c, z)
<1>1. t \in Table /\ c \in Cards
  BY GoodIsTable DEF Cards
<1>2. /\ u \in Table /\ u.zone = [t.zone EXCEPT ![z] = Fresh(c)]
      /\ u.deck = t.deck /\ u.hand = Drops(t, p, c).hand
  BY ONLY <1>1, SummonsIs, p \in Players, c \in Creatures, z \in Zones, t.hand[p][c] > 0
<1>3. \A q \in Players, d \in Cards :
        u.hand[q][d] = IF q = p /\ d = c THEN t.hand[q][d] - 1 ELSE t.hand[q][d]
  BY <1>1, <1>2, DropsIs
<1>4. /\ \A y \in Zones : y # z => u.zone[y] = t.zone[y]
      /\ u.zone[z].card = c
  BY <1>1, <1>2, TableIs, FreshIs
<1> HIDE DEF u
<1>5. \A q \in Players, d \in Cards :
        /\ u.deck[q][d] + u.hand[q][d] <= t.deck[q][d] + t.hand[q][d]
        /\ q = z[1] /\ d = u.zone[z].card =>
             u.deck[q][d] + u.hand[q][d] + 1 <= t.deck[q][d] + t.hand[q][d]
  BY <1>1, <1>2, <1>3, <1>4, TableIs
<1>6. \A q \in Players, d \in Cards :
        u.deck[q][d] + u.hand[q][d] <= t.deck[q][d] + t.hand[q][d]
  BY <1>5
<1>7. \A q \in Players, d \in Cards : q = z[1] /\ d = u.zone[z].card =>
        u.deck[q][d] + u.hand[q][d] + 1 <= t.deck[q][d] + t.hand[q][d]
  BY <1>5
<1>8. u \in Table /\ \A y \in Zones : y # z => u.zone[y] = t.zone[y]
  BY <1>2, <1>4
<1>9. u \in GoodTable
  BY ONLY <1>6, <1>7, <1>8, t \in GoodTable, z \in Zones, GoodPlaced
<1> QED BY <1>9 DEF u

\* A hand becomes as it is wanted, if it can, and has nothing that is not wanted.
HandTakes(t, p, want, u) ==
  /\ u \in GoodTable
  /\ u.health = t.health
  /\ u.zone = t.zone
  /\ \A q \in Players, c \in Cards : q # p =>
       u.hand[q][c] = t.hand[q][c] /\ u.deck[q][c] = t.deck[q][c]
  /\ \A c \in Cards :
       /\ u.hand[p][c] <= want[c]
       /\ t.hand[p][c] <= want[c] /\ want[c] <= t.hand[p][c] + t.deck[p][c] =>
            /\ u.hand[p][c] = want[c]
            /\ u.deck[p][c] = t.hand[p][c] + t.deck[p][c] - want[c]

\* reconcileHand: as much as is wanted, from the hand and then from the deck.
LEMMA HandSyncedIs ==
  ASSUME NEW t \in GoodTable, NEW p \in Players, NEW want \in Hand
  PROVE  HandTakes(t, p, want, HandSynced(t, p, want))
<1> DEFINE fromHand == [c \in Cards |-> Smaller(want[c], t.hand[p][c])]
<1> DEFINE fromDeck == [c \in Cards |-> Smaller(want[c] - fromHand[c], t.deck[p][c])]
<1> DEFINE hand == [t.hand EXCEPT ![p] = [c \in Cards |-> fromHand[c] + fromDeck[c]]]
<1> DEFINE deck == [t.deck EXCEPT ![p] = [c \in Cards |-> @[c] - fromDeck[c]]]
<1> DEFINE u == HandSynced(t, p, want)
<1>1. t \in Table
  BY GoodIsTable
<1>2. \A q \in Players, c \in Cards : t.hand[q][c] \in Nat /\ t.deck[q][c] \in Nat
  BY <1>1, TableIs
<1>3. \A c \in Cards : want[c] \in Nat
  BY DEF Hand
<1>4. ASSUME NEW c \in Cards
      PROVE  /\ fromHand[c] \in Nat /\ fromDeck[c] \in Nat
             /\ fromHand[c] <= t.hand[p][c] /\ fromDeck[c] <= t.deck[p][c]
             /\ fromHand[c] + fromDeck[c] <= want[c]
             /\ t.hand[p][c] <= want[c] /\ want[c] <= t.hand[p][c] + t.deck[p][c] =>
                  fromHand[c] = t.hand[p][c] /\ fromDeck[c] = want[c] - t.hand[p][c]
  <2>1. fromHand[c] = Smaller(want[c], t.hand[p][c])
        /\ fromDeck[c] = Smaller(want[c] - Smaller(want[c], t.hand[p][c]), t.deck[p][c])
    OBVIOUS
  <2> HIDE DEF fromHand, fromDeck
  <2> QED BY <1>2, <1>3, <2>1 DEF Smaller
<1> HIDE DEF fromHand, fromDeck
<1>5. t.hand \in [Players -> Hand] /\ t.deck \in [Players -> Hand]
  BY <1>1, TableIs
<1>6. \A q \in Players, c \in Cards :
        /\ hand[q][c] = IF q = p THEN fromHand[c] + fromDeck[c] ELSE t.hand[q][c]
        /\ deck[q][c] = IF q = p THEN t.deck[q][c] - fromDeck[c] ELSE t.deck[q][c]
  BY <1>5
<1>7. hand \in [Players -> Hand]
  <2>1. [c \in Cards |-> fromHand[c] + fromDeck[c]] \in Hand
    BY <1>4 DEF Hand
  <2> QED BY <1>5, <2>1
<1>8. deck \in [Players -> Hand]
  <2>1. [c \in Cards |-> t.deck[p][c] - fromDeck[c]] \in Hand
    BY <1>2, <1>4 DEF Hand
  <2> QED BY <1>5, <2>1
<1>9. u = [t EXCEPT !.hand = hand, !.deck = deck]
  BY <1>1 DEF HandSynced, fromHand, fromDeck, Table
<1> HIDE DEF hand, deck, u
<1>10. /\ u \in Table /\ u.hand = hand /\ u.deck = deck
       /\ u.health = t.health /\ u.zone = t.zone
  BY <1>1, <1>7, <1>8, <1>9 DEF Table
<1>11. \A q \in Players, c \in Cards : u.deck[q][c] + u.hand[q][c] <= t.deck[q][c] + t.hand[q][c]
  BY <1>2, <1>4, <1>6, <1>10
<1>12. u \in GoodTable
  BY <1>10, <1>11, GoodKept
<1>13. \A q \in Players, c \in Cards : q # p =>
         u.hand[q][c] = t.hand[q][c] /\ u.deck[q][c] = t.deck[q][c]
  BY <1>6, <1>10
<1>14. ASSUME NEW c \in Cards
       PROVE  /\ u.hand[p][c] <= want[c]
              /\ t.hand[p][c] <= want[c] /\ want[c] <= t.hand[p][c] + t.deck[p][c] =>
                   /\ u.hand[p][c] = want[c]
                   /\ u.deck[p][c] = t.hand[p][c] + t.deck[p][c] - want[c]
  BY <1>2, <1>3, <1>4, <1>6, <1>10
<1>15. HandTakes(t, p, want, u)
  BY <1>10, <1>12, <1>13, <1>14 DEF HandTakes
<1> QED BY <1>15 DEF u

\* Two sequences one after the other.
LEMMA JoinIs ==
  ASSUME NEW S, NEW a \in Seq(S), NEW b \in Seq(S), NEW n \in Nat, NEW m \in Nat,
         Len(a) = n, Len(b) = m
  PROVE  /\ a \o b \in Seq(S) /\ Len(a \o b) = n + m
         /\ \A i \in 1 .. n + m : (a \o b)[i] = IF i <= n THEN a[i] ELSE b[i - n]
<1>1. a \o b \in Seq(S) /\ Len(a \o b) = Len(a) + Len(b)
  BY ConcatProperties
<1>2. \A i \in 1 .. Len(a) + Len(b) :
        (a \o b)[i] = IF i <= Len(a) THEN a[i] ELSE b[i - Len(a)]
  BY ConcatProperties
<1> QED BY <1>1, <1>2

\* All that a snapshot shows.
Snapshot == [health : [Players -> Int], hand : [Players -> Hand], zone : [Zones -> Body]]

\* The zones that a snapshot goes through.
Order == [lane \in Lanes |-> <<Local, lane>>] \o [lane \in Lanes |-> <<Remote, lane>>]

LEMMA OrderIs ==
  /\ Order \in Seq(Zones)
  /\ \A z \in Zones : \E i \in 1 .. Len(Order) : Order[i] = z
<1> DEFINE of(p) == [lane \in Lanes |-> <<p, lane>>]
<1>1. \A p \in Players : of(p) \in Seq(Zones) /\ Len(of(p)) = LaneCount
  BY ClientBoardAssumption DEF Lanes, Zones
<1>2. Local \in Players /\ Remote \in Players
  BY DEF Players
<1>3. LaneCount \in Nat
  BY ClientBoardAssumption
<1>4. /\ Order \in Seq(Zones) /\ Len(Order) = LaneCount + LaneCount
      /\ \A i \in 1 .. LaneCount + LaneCount :
           Order[i] = IF i <= LaneCount THEN of(Local)[i] ELSE of(Remote)[i - LaneCount]
  <2>1. of(Local) \in Seq(Zones) /\ of(Remote) \in Seq(Zones)
        /\ Len(of(Local)) = LaneCount /\ Len(of(Remote)) = LaneCount
    BY <1>1, <1>2
  <2>2. Order = of(Local) \o of(Remote)
    BY DEF Order
  <2>3. PICK a, b, n : a = of(Local) /\ b = of(Remote) /\ n = LaneCount
    OBVIOUS
  <2> HIDE DEF of
  <2>4. a \in Seq(Zones) /\ b \in Seq(Zones) /\ Len(a) = n /\ Len(b) = n /\ n \in Nat
    BY <1>3, <2>1, <2>3
  <2>5. a \o b \in Seq(Zones) /\ Len(a \o b) = n + n
    BY ONLY <2>4, JoinIs
  <2>6. \A i \in 1 .. n + n : (a \o b)[i] = IF i <= n THEN a[i] ELSE b[i - n]
    <3>1. \A i \in 1 .. Len(a) + Len(b) : (a \o b)[i] = IF i <= Len(a) THEN a[i] ELSE b[i - Len(a)]
      BY ONLY <2>4, ConcatProperties
    <3> QED BY ONLY <2>4, <3>1
  <2> QED BY <2>2, <2>3, <2>5, <2>6
<1>5. ASSUME NEW z \in Zones PROVE \E i \in 1 .. Len(Order) : Order[i] = z
  <2>1. PICK p \in Players, lane \in 1 .. LaneCount : z = <<p, lane>>
    BY DEF Zones, Lanes
  <2>2. CASE p = Local
    <3>1. lane \in 1 .. LaneCount + LaneCount /\ lane <= LaneCount
      BY <1>3, <2>1
    <3>2. Order[lane] = <<Local, lane>>
      BY <1>4, <2>1, <3>1 DEF Lanes
    <3> QED BY <1>4, <2>1, <2>2, <3>1, <3>2
  <2>3. CASE p = Remote
    <3> DEFINE i == lane + LaneCount
    <3>1. i \in 1 .. LaneCount + LaneCount /\ ~(i <= LaneCount) /\ i - LaneCount = lane
      BY <1>3, <2>1
    <3> HIDE DEF i
    <3>2. Order[i] = of(Remote)[lane]
      <4> HIDE DEF of
      <4> QED BY <1>4, <3>1
    <3>3. of(Remote)[lane] = <<Remote, lane>>
      BY <2>1 DEF Lanes
    <3> QED BY <1>4, <2>1, <2>3, <3>1, <3>2, <3>3
  <2> QED BY <2>1, <2>2, <2>3 DEF Players
<1> QED BY <1>4, <1>5

\* A snapshot that is worked in shows nothing that is not in it; and all of it, if no
\* creature has to come and the cards that are missing are in the deck.
SnapshotShows(t, snap, u) ==
  /\ u \in GoodTable
  /\ u.health = snap.health
  /\ \A z \in Zones : u.zone[z] \in {snap.zone[z], Empty}
  /\ \A p \in Players, c \in Cards : u.hand[p][c] <= snap.hand[p][c]

NoneComes(t, snap) == \A z \in Zones : snap.zone[z] # Empty => t.zone[z] = snap.zone[z]

WithinReach(t, snap) ==
  \A p \in Players, c \in Cards :
    t.hand[p][c] <= snap.hand[p][c] /\ snap.hand[p][c] <= t.hand[p][c] + t.deck[p][c]

LEMMA HandsSynced ==
  ASSUME NEW t \in GoodTable, NEW snap \in Snapshot
  PROVE  \E u \in GoodTable :
           /\ u = HandSynced(HandSynced([t EXCEPT !.health = snap.health],
                                        Local, snap.hand[Local]), Remote, snap.hand[Remote])
           /\ u.health = snap.health /\ u.zone = t.zone
           /\ \A p \in Players, c \in Cards : u.hand[p][c] <= snap.hand[p][c]
           /\ WithinReach(t, snap) =>
                \A p \in Players, c \in Cards :
                  /\ u.hand[p][c] = snap.hand[p][c]
                  /\ u.deck[p][c] = t.hand[p][c] + t.deck[p][c] - snap.hand[p][c]
<1>0. /\ Local \in Players /\ Remote \in Players /\ Local # Remote
      /\ \A p \in Players : p = Local \/ p = Remote
  BY ClientBoardAssumption DEF Players
<1>1. /\ snap.health \in [Players -> Int] /\ snap.hand[Local] \in Hand
      /\ snap.hand[Remote] \in Hand
  BY <1>0 DEF Snapshot
<1> DEFINE v == [t EXCEPT !.health = snap.health]
<1>2. /\ v \in Table /\ v.health = snap.health /\ v.zone = t.zone
      /\ v.hand = t.hand /\ v.deck = t.deck
  BY <1>1, GoodIsTable DEF Table
<1>3. v \in GoodTable
  <2>1. \A p \in Players, c \in Cards : v.deck[p][c] + v.hand[p][c] <= t.deck[p][c] + t.hand[p][c]
    BY <1>2, GoodIsTable, TableIs
  <2> HIDE DEF v
  <2> QED BY <1>2, <2>1, GoodKept
<1> HIDE DEF v
<1> DEFINE w == HandSynced(v, Local, snap.hand[Local])
<1>4. /\ w \in GoodTable /\ w.health = v.health /\ w.zone = v.zone
      /\ \A q \in Players, c \in Cards : q # Local =>
           w.hand[q][c] = v.hand[q][c] /\ w.deck[q][c] = v.deck[q][c]
      /\ \A c \in Cards :
           /\ w.hand[Local][c] <= snap.hand[Local][c]
           /\ v.hand[Local][c] <= snap.hand[Local][c]
                /\ snap.hand[Local][c] <= v.hand[Local][c] + v.deck[Local][c] =>
                /\ w.hand[Local][c] = snap.hand[Local][c]
                /\ w.deck[Local][c] = v.hand[Local][c] + v.deck[Local][c] - snap.hand[Local][c]
  <2>1. PICK want : want = snap.hand[Local]
    OBVIOUS
  <2>2. want \in Hand /\ v \in GoodTable /\ Local \in Players
    BY <1>0, <1>1, <1>3, <2>1
  <2>3. HandTakes(v, Local, want, HandSynced(v, Local, want))
    BY ONLY <2>2, HandSyncedIs
  <2>4. HandTakes(v, Local, snap.hand[Local], w)
    BY <2>1, <2>3
  <2> HIDE DEF w
  <2> QED BY <2>4 DEF HandTakes
<1> HIDE DEF w
<1> DEFINE u == HandSynced(w, Remote, snap.hand[Remote])
<1>5. /\ u \in GoodTable /\ u.health = w.health /\ u.zone = w.zone
      /\ \A q \in Players, c \in Cards : q # Remote =>
           u.hand[q][c] = w.hand[q][c] /\ u.deck[q][c] = w.deck[q][c]
      /\ \A c \in Cards :
           /\ u.hand[Remote][c] <= snap.hand[Remote][c]
           /\ w.hand[Remote][c] <= snap.hand[Remote][c]
                /\ snap.hand[Remote][c] <= w.hand[Remote][c] + w.deck[Remote][c] =>
                /\ u.hand[Remote][c] = snap.hand[Remote][c]
                /\ u.deck[Remote][c] = w.hand[Remote][c] + w.deck[Remote][c] - snap.hand[Remote][c]
  <2>1. PICK want : want = snap.hand[Remote]
    OBVIOUS
  <2>2. want \in Hand /\ w \in GoodTable /\ Remote \in Players
    BY <1>0, <1>1, <1>4, <2>1
  <2>3. HandTakes(w, Remote, want, HandSynced(w, Remote, want))
    BY ONLY <2>2, HandSyncedIs
  <2>4. HandTakes(w, Remote, snap.hand[Remote], u)
    BY <2>1, <2>3
  <2> HIDE DEF u
  <2> QED BY <2>4 DEF HandTakes
<1> HIDE DEF u
<1>6. ASSUME NEW p \in Players, NEW c \in Cards
      PROVE  /\ u.hand[p][c] <= snap.hand[p][c]
             /\ WithinReach(t, snap) =>
                  /\ u.hand[p][c] = snap.hand[p][c]
                  /\ u.deck[p][c] = t.hand[p][c] + t.deck[p][c] - snap.hand[p][c]
  <2>1. CASE p = Local
    <3>1. u.hand[p][c] = w.hand[p][c] /\ u.deck[p][c] = w.deck[p][c]
      BY <1>0, <1>5, <2>1
    <3> QED BY <1>2, <1>4, <2>1, <3>1 DEF WithinReach
  <2>2. CASE p = Remote
    <3>1. w.hand[p][c] = t.hand[p][c] /\ w.deck[p][c] = t.deck[p][c]
      BY <1>0, <1>2, <1>4, <2>2
    <3> QED BY <1>5, <2>2, <3>1 DEF WithinReach
  <2> QED BY <1>0, <2>1, <2>2
<1>7. u = HandSynced(HandSynced([t EXCEPT !.health = snap.health],
                                Local, snap.hand[Local]), Remote, snap.hand[Remote])
  BY DEF u, w, v
<1>8. u.health = snap.health /\ u.zone = t.zone
  BY <1>2, <1>4, <1>5
<1> QED BY <1>5, <1>6, <1>7, <1>8

LEMMA SyncedIs ==
  ASSUME NEW t \in GoodTable, NEW snap \in Snapshot
  PROVE  /\ SnapshotShows(t, snap, Synced(t, snap))
         /\ NoneComes(t, snap) =>
              /\ Synced(t, snap).zone = snap.zone
              /\ WithinReach(t, snap) =>
                   \A p \in Players, c \in Cards :
                     /\ Synced(t, snap).hand[p][c] = snap.hand[p][c]
                     /\ Synced(t, snap).deck[p][c] = t.hand[p][c] + t.deck[p][c] - snap.hand[p][c]
<1>1. PICK h \in GoodTable :
           /\ h = HandSynced(HandSynced([t EXCEPT !.health = snap.health],
                                        Local, snap.hand[Local]), Remote, snap.hand[Remote])
           /\ h.health = snap.health /\ h.zone = t.zone
           /\ \A p \in Players, c \in Cards : h.hand[p][c] <= snap.hand[p][c]
           /\ WithinReach(t, snap) =>
                \A p \in Players, c \in Cards :
                  /\ h.hand[p][c] = snap.hand[p][c]
                  /\ h.deck[p][c] = t.hand[p][c] + t.deck[p][c] - snap.hand[p][c]
  BY HandsSynced
<1> DEFINE zone == snap.zone
<1>2. zone \in [Zones -> Body] /\ snap.hand \in [Players -> Hand]
  BY DEF Snapshot
<1> DEFINE N == Len(Order)
<1>3. Synced(t, snap) = ZonesSynced(h, zone, Order)
  BY <1>1 DEF Synced, ZonesSynced, Order
<1>4. N \in Nat /\ \A i \in 1 .. N : Order[i] \in Zones
  BY OrderIs, LenProperties, ElementOfSeq
<1> HIDE DEF zone
<1>5. PICK v \in [0 .. N -> GoodTable] :
        /\ v[0] = h
        /\ \A k \in 0 .. N - 1 : v[k + 1] = ZoneSynced(v[k], Order[k + 1], zone[Order[k + 1]])
        /\ Synced(t, snap) = v[N]
  <2>1. \E v \in [0 .. Len(Order) -> GoodTable] :
          /\ v[0] = h
          /\ \A k \in 0 .. Len(Order) - 1 :
               v[k + 1] = ZoneSynced(v[k], Order[k + 1], zone[Order[k + 1]])
          /\ ZonesSynced(h, zone, Order) = v[Len(Order)]
    <3>1. zone \in [Zones -> Body] /\ Order \in Seq(Zones) /\ h \in GoodTable
      BY <1>2, OrderIs
    <3> QED BY ONLY <3>1, SyncRuns, ZenonT(30)
  <2> QED BY <1>3, <2>1
<1> HIDE DEF N
<1>6. ASSUME NEW k \in 0 .. N - 1
      PROVE  /\ k \in Nat /\ k \in 0 .. N /\ k + 1 \in 0 .. N /\ k + 1 \in 1 .. N
             /\ SyncsTo(v[k], Order[k + 1], zone[Order[k + 1]], v[k + 1])
  <2>1. k \in Nat /\ k \in 0 .. N /\ k + 1 \in 0 .. N /\ k + 1 \in 1 .. N
    BY <1>4
  <2>2. v[k] \in GoodTable /\ Order[k + 1] \in Zones /\ zone[Order[k + 1]] \in Body
    BY <1>2, <1>4, <2>1
  <2> QED BY <1>5, <2>1, <2>2, ZoneSyncedIs
<1> DEFINE Right(k) ==
      /\ v[k].health = h.health
      /\ \A i \in 1 .. k : v[k].zone[Order[i]] \in {zone[Order[i]], Empty}
      /\ \A p \in Players, c \in Cards : v[k].hand[p][c] <= snap.hand[p][c]
      /\ NoneComes(t, snap) =>
           /\ \A z \in Zones : zone[z] # Empty => v[k].zone[z] = zone[z]
           /\ v[k].hand = h.hand /\ v[k].deck = h.deck
<1> DEFINE T == {k \in Nat : k <= N => Right(k)}
<1>7. 0 \in T
  <2>1. NoneComes(t, snap) => \A z \in Zones : zone[z] # Empty => h.zone[z] = zone[z]
    BY <1>1 DEF NoneComes, zone
  <2>2. v[0] = h /\ \A p \in Players, c \in Cards : h.hand[p][c] <= snap.hand[p][c]
    BY <1>1, <1>5
  <2>3. Right(0)
    BY ONLY <2>1, <2>2
  <2> QED BY <2>3
<1>8. ASSUME NEW k \in Nat, k \in T PROVE k + 1 \in T
  <2> SUFFICES ASSUME k + 1 <= N PROVE Right(k + 1)
    OBVIOUS
  <2>1. k \in 0 .. N - 1 /\ Right(k)
    BY <1>4, <1>8
  <2> DEFINE x == v[k]
  <2> DEFINE y == v[k + 1]
  <2> DEFINE z == Order[k + 1]
  <2>2. /\ k + 1 \in 1 .. N /\ y \in GoodTable /\ y.health = x.health
        /\ \A o \in Zones : o # z => y.zone[o] = x.zone[o]
        /\ y.zone[z] \in {zone[z], Empty}
        /\ \A p \in Players, c \in Cards : y.hand[p][c] <= x.hand[p][c]
        /\ (zone[z] = Empty \/ x.zone[z] = zone[z]) =>
             y.hand = x.hand /\ y.deck = x.deck /\ y.zone[z] = zone[z]
    BY <1>6, <2>1 DEF SyncsTo
  <2>3. z \in Zones /\ x \in GoodTable
    BY <1>4, <1>6, <2>1
  <2>4. \A p \in Players, c \in Cards :
          x.hand[p][c] \in Nat /\ y.hand[p][c] \in Nat /\ snap.hand[p][c] \in Nat
    BY <1>2, <2>2, <2>3, GoodIsTable, TableIs DEF Hand
  <2>5. \A i \in 1 .. k + 1 : y.zone[Order[i]] \in {zone[Order[i]], Empty}
    <3> TAKE i \in 1 .. k + 1
    <3>1. i = k + 1 \/ i \in 1 .. k
      OBVIOUS
    <3>2. i \in 1 .. N
      BY <1>4, <2>2
    <3>3. Order[i] \in Zones
      BY <1>4, <3>2
    <3> QED BY <2>1, <2>2, <3>1, <3>3
  <2>6. \A p \in Players, c \in Cards : y.hand[p][c] <= snap.hand[p][c]
    BY <2>1, <2>2, <2>4
  <2>7. ASSUME NoneComes(t, snap)
        PROVE  /\ \A o \in Zones : zone[o] # Empty => y.zone[o] = zone[o]
               /\ y.hand = h.hand /\ y.deck = h.deck
    <3>1. zone[z] = Empty \/ x.zone[z] = zone[z]
      BY <2>1, <2>3, <2>7
    <3> QED BY <2>1, <2>2, <2>3, <2>7, <3>1
  <2> QED BY <2>1, <2>2, <2>5, <2>6, <2>7
<1>9. Right(N)
  <2>1. N \in T
    <3> HIDE DEF T
    <3> QED BY <1>4, <1>7, <1>8, SetInduction
  <2> QED BY <1>4, <2>1
<1>10. v[N] \in GoodTable
  BY <1>4, <1>5
<1>11. \A z \in Zones : v[N].zone[z] \in {zone[z], Empty}
  BY <1>9, OrderIs DEF N
<1>12. SnapshotShows(t, snap, v[N])
  BY <1>1, <1>9, <1>10, <1>11 DEF SnapshotShows, zone
<1>13. ASSUME NoneComes(t, snap) PROVE v[N].zone = snap.zone
  <2>1. \A z \in Zones : v[N].zone[z] = zone[z]
    BY <1>9, <1>11, <1>13
  <2>2. v[N].zone \in [Zones -> Body]
    BY <1>10, GoodIsTable, TableIs
  <2> QED BY <1>2, <2>1, <2>2 DEF zone
<1>14. ASSUME NoneComes(t, snap), WithinReach(t, snap), NEW p \in Players, NEW c \in Cards
       PROVE  /\ v[N].hand[p][c] = snap.hand[p][c]
              /\ v[N].deck[p][c] = t.hand[p][c] + t.deck[p][c] - snap.hand[p][c]
  BY <1>1, <1>9, <1>14
<1> QED BY <1>5, <1>12, <1>13, <1>14

-----------------------------------------------------------------------------
(* The lines that the server may send of a table, and the table after them. *)

Messages == Lines \cup {FullState(s) : s \in Snapshot}

\* An update that a table permits: only a creature that is there changes.
Tells(t, m, u) ==
  /\ m \in StatUpdates
  /\ u \in Table
  /\ u.hand = t.hand /\ u.deck = t.deck
  /\ u.health = HealthAfter(t.health, m)
  /\ u.zone = ZonesAfter(t.zone, m)
  /\ m.cmd \in ZoneUpdates => t.zone[m.zone] # Empty

Legal(t, m, u) ==
  \/ \E p \in Players, c \in Cards :
       t.deck[p][c] > 0 /\ m = Draw(p, c) /\ u = Draws(t, p, c)
  \/ \E p \in Players, c \in Cards :
       t.hand[p][c] > 0 /\ m = Discard(p, c) /\ u = Drops(t, p, c)
  \/ \E p \in Players, c \in Spells, lane \in Lanes :
       t.hand[p][c] > 0 /\ m = Play(p, c, lane) /\ u = Drops(t, p, c)
  \/ \E p \in Players, c \in Creatures, lane \in Lanes :
       /\ t.hand[p][c] > 0 /\ t.zone[<<p, lane>>] = Empty
       /\ m = Play(p, c, lane) /\ u = Summons(t, p, c, <<p, lane>>)
  \/ (\E lane \in Lanes : m = Combat(lane)) /\ u = t
  \/ (\E z \in Zones : m = Direct(z)) /\ u = t
  \/ m = FullState(Shown(t)) /\ u = t
  \/ Tells(t, m, u)

LEMMA ShownIs ==
  ASSUME NEW t \in Table
  PROVE  /\ Shown(t) \in Snapshot
         /\ Shown(t).health = t.health /\ Shown(t).hand = t.hand /\ Shown(t).zone = t.zone
BY TableIs DEF Shown, Snapshot

LEMMA CardsAre == \A c : c \in Cards <=> c \in Creatures \/ c \in Spells
BY DEF Cards

LEMMA LegalTypes ==
  ASSUME NEW t \in Table, NEW m, NEW u, Legal(t, m, u)
  PROVE  u \in Table /\ m \in Messages
<1>1. ASSUME NEW p \in Players, NEW c \in Cards,
             t.deck[p][c] > 0, m = Draw(p, c), u = Draws(t, p, c)
      PROVE  u \in Table /\ m \in Messages
  BY <1>1, TableDraws DEF Messages, Lines
<1>2. ASSUME NEW p \in Players, NEW c \in Cards,
             t.hand[p][c] > 0, m = Discard(p, c), u = Drops(t, p, c)
      PROVE  u \in Table /\ m \in Messages
  BY <1>2, DropsIs DEF Messages, Lines
<1>3. ASSUME NEW p \in Players, NEW c \in Spells, NEW lane \in Lanes,
             t.hand[p][c] > 0, m = Play(p, c, lane), u = Drops(t, p, c)
      PROVE  u \in Table /\ m \in Messages
  <2>1. c \in Cards
    BY CardsAre
  <2> QED BY <1>3, <2>1, DropsIs DEF Messages, Lines
<1>4. ASSUME NEW p \in Players, NEW c \in Creatures, NEW lane \in Lanes, t.hand[p][c] > 0,
             m = Play(p, c, lane), u = Summons(t, p, c, <<p, lane>>)
      PROVE  u \in Table /\ m \in Messages
  <2>1. c \in Cards /\ <<p, lane>> \in Zones
    BY CardsAre DEF Zones
  <2>2. u \in Table
    BY <1>4, <2>1, SummonsIs
  <2>3. m \in Messages
    BY <1>4, <2>1 DEF Messages, Lines
  <2> QED BY <2>2, <2>3
<1>5. ASSUME NEW lane \in Lanes, m = Combat(lane) PROVE m \in Messages
  BY <1>5 DEF Messages, Lines
<1>6. ASSUME NEW z \in Zones, m = Direct(z) PROVE m \in Messages
  BY <1>6 DEF Messages, Lines
<1>7. ASSUME m = FullState(Shown(t)) PROVE m \in Messages
  BY <1>7, ShownIs DEF Messages
<1>8. ASSUME Tells(t, m, u) PROVE u \in Table /\ m \in Messages
  BY <1>8 DEF Tells, Messages, Lines
<1> QED BY <1>1, <1>2, <1>3, <1>4, <1>5, <1>6, <1>7, <1>8 DEF Legal

\* What is in a line of each kind.
LEMMA MessageIs ==
  ASSUME NEW m \in Messages
  PROVE  /\ m.cmd \in {"DRAW", "DISCARD"} => m.player \in Players /\ m.card \in Cards
         /\ m.cmd = "PLAY" => m.player \in Players /\ m.card \in Cards /\ m.lane \in Lanes
         /\ m.cmd = "COMBAT" => m.lane \in Lanes
         /\ m.cmd = "FULL_STATE" => m = FullState(m.table) /\ m.table \in Snapshot
         /\ m.cmd \in {"DRAW", "DISCARD", "PLAY", "COMBAT", "DIRECT", "FULL_STATE"} =>
              m \notin StatUpdates
<1>1. ASSUME m \in StatUpdates
      PROVE  m.cmd \notin {"DRAW", "DISCARD", "PLAY", "COMBAT", "DIRECT", "FULL_STATE"}
  BY <1>1, UpdateIs DEF ZoneUpdates
<1>2. ASSUME NEW p \in Players, NEW c \in Cards, m = Draw(p, c)
      PROVE  m.cmd = "DRAW" /\ m.player = p /\ m.card = c
  BY <1>2 DEF Draw
<1>3. ASSUME NEW p \in Players, NEW c \in Cards, m = Discard(p, c)
      PROVE  m.cmd = "DISCARD" /\ m.player = p /\ m.card = c
  BY <1>3 DEF Discard
<1>4. ASSUME NEW p \in Players, NEW c \in Cards, NEW lane \in Lanes, m = Play(p, c, lane)
      PROVE  m.cmd = "PLAY" /\ m.player = p /\ m.card = c /\ m.lane = lane
  BY <1>4 DEF Play
<1>5. ASSUME NEW lane \in Lanes, m = Combat(lane)
      PROVE  m.cmd = "COMBAT" /\ m.lane = lane
  BY <1>5 DEF Combat
<1>6. ASSUME NEW z \in Zones, m = Direct(z) PROVE m.cmd = "DIRECT"
  BY <1>6 DEF Direct
<1>7. ASSUME NEW s \in Snapshot, m = FullState(s)
      PROVE  m.cmd = "FULL_STATE" /\ m = FullState(m.table) /\ m.table \in Snapshot
  BY <1>7 DEF FullState
<1>8. \/ m \in StatUpdates
      \/ \E p \in Players, c \in Cards : m = Draw(p, c)
      \/ \E p \in Players, c \in Cards : m = Discard(p, c)
      \/ \E p \in Players, c \in Cards, lane \in Lanes : m = Play(p, c, lane)
      \/ \E lane \in Lanes : m = Combat(lane)
      \/ \E z \in Zones : m = Direct(z)
      \/ \E s \in Snapshot : m = FullState(s)
  BY DEF Messages, Lines
<1>9. CASE m \in StatUpdates
  BY <1>1, <1>9
<1>10. CASE \E p \in Players, c \in Cards : m = Draw(p, c)
  BY <1>1, <1>2, <1>10
<1>11. CASE \E p \in Players, c \in Cards : m = Discard(p, c)
  BY <1>1, <1>3, <1>11
<1>12. CASE \E p \in Players, c \in Cards, lane \in Lanes : m = Play(p, c, lane)
  BY <1>1, <1>4, <1>12
<1>13. CASE \E lane \in Lanes : m = Combat(lane)
  BY <1>1, <1>5, <1>13
<1>14. CASE \E z \in Zones : m = Direct(z)
  BY <1>1, <1>6, <1>14
<1>15. CASE \E s \in Snapshot : m = FullState(s)
  BY <1>1, <1>7, <1>15
<1> QED BY <1>8, <1>9, <1>10, <1>11, <1>12, <1>13, <1>14, <1>15

-----------------------------------------------------------------------------
(* The server's steps.                                                     *)

Typed ==
  /\ server \in Table
  /\ channel \in Seq(Messages)
  /\ sent \in 0 .. MaxSent
  /\ over \in BOOLEAN
  /\ table \in GoodTable
  /\ held \in Seq(StatUpdates)
  /\ pending \in Seq(Zones)
  /\ barrier \in BOOLEAN /\ queued \in BOOLEAN /\ active \in BOOLEAN
  /\ animated \in BOOLEAN /\ ended \in BOOLEAN
  /\ framed \in BOOLEAN /\ overtaken \in BOOLEAN

LEMMA ServerTells ==
  ASSUME Typed, NEW z \in Zones, ServerChanges(z)
  PROVE  \E m, u : Tells(server, m, u) /\ Sends(u, m)
<1> DEFINE b == server.zone[z]
<1>1. /\ server \in Table /\ server.zone \in [Zones -> Body] /\ b # Empty
  BY TableIs DEF Typed, ServerChanges
<1>2. b \in Creature /\ b \in Body
  BY <1>1 DEF Body
<1>3. ASSUME NEW m \in StatUpdates, m.zone = z, m.cmd \in ZoneUpdates,
             NEW u, u = [server EXCEPT !.zone[z] = Changed(b, m.cmd)]
      PROVE  Tells(server, m, u)
  <2>1. Changed(b, m.cmd) \in Body
    BY <1>2, <1>3, ChangedIs
  <2>2. /\ u \in Table /\ u.zone = [server.zone EXCEPT ![z] = Changed(b, m.cmd)]
        /\ u.hand = server.hand /\ u.deck = server.deck /\ u.health = server.health
    BY <1>1, <1>3, <2>1, ZoneSet
  <2>3. m.cmd # "HP"
    BY <1>3 DEF ZoneUpdates
  <2> QED BY <1>1, <1>3, <2>2, <2>3 DEF Tells, HealthAfter, ZonesAfter
<1>4. CASE Sends([server EXCEPT !.zone[z].augment = @ + 1], Augment(z))
  <2>1. Augment(z) \in StatUpdates /\ Augment(z).zone = z /\ Augment(z).cmd = "AUGMENT"
    BY DEF StatUpdates, Augment
  <2>2. [server EXCEPT !.zone[z].augment = @ + 1]
          = [server EXCEPT !.zone[z] = Changed(b, Augment(z).cmd)]
    BY <1>1, <2>1 DEF Changed
  <2> QED BY <1>3, <1>4, <2>1, <2>2 DEF ZoneUpdates
<1>5. CASE Sends([server EXCEPT !.zone[z].effect = TRUE], EffectAdd(z))
  <2>1. EffectAdd(z) \in StatUpdates /\ EffectAdd(z).zone = z /\ EffectAdd(z).cmd = "EFFECT_ADD"
    BY DEF StatUpdates, EffectAdd
  <2>2. [server EXCEPT !.zone[z].effect = TRUE]
          = [server EXCEPT !.zone[z] = Changed(b, EffectAdd(z).cmd)]
    BY <1>1, <2>1 DEF Changed
  <2> QED BY <1>3, <1>5, <2>1, <2>2 DEF ZoneUpdates
<1>6. CASE Sends([server EXCEPT !.zone[z].effect = FALSE], EffectRemove(z))
  <2>1. /\ EffectRemove(z) \in StatUpdates /\ EffectRemove(z).zone = z
        /\ EffectRemove(z).cmd = "EFFECT_REMOVE"
    BY DEF StatUpdates, EffectRemove
  <2>2. [server EXCEPT !.zone[z].effect = FALSE]
          = [server EXCEPT !.zone[z] = Changed(b, EffectRemove(z).cmd)]
    BY <1>1, <2>1 DEF Changed
  <2> QED BY <1>3, <1>6, <2>1, <2>2 DEF ZoneUpdates
<1>7. CASE Sends([server EXCEPT !.zone[z] = Empty], Destroy(z))
  <2>1. Destroy(z) \in StatUpdates /\ Destroy(z).zone = z /\ Destroy(z).cmd = "DESTROY"
    BY DEF StatUpdates, Destroy
  <2>2. [server EXCEPT !.zone[z] = Empty]
          = [server EXCEPT !.zone[z] = Changed(b, Destroy(z).cmd)]
    BY <1>1, <2>1 DEF Changed
  <2> QED BY <1>3, <1>7, <2>1, <2>2 DEF ZoneUpdates
<1> QED BY <1>4, <1>5, <1>6, <1>7 DEF ServerChanges

LEMMA ServerSteps ==
  ASSUME Typed, ServerNext
  PROVE  \E m, u : Legal(server, m, u) /\ Sends(u, m)
<1>1. server \in Table
  BY DEF Typed
<1>2. CASE ServerSnapshot
  BY <1>2 DEF ServerSnapshot, Legal
<1>3. CASE ServerEnds
  <2>1. MatchOver \in StatUpdates /\ MatchOver.cmd = "MATCH_LOST"
    BY DEF StatUpdates, MatchOver
  <2>2. Tells(server, MatchOver, server)
    BY <1>1, <2>1 DEF Tells, HealthAfter, ZonesAfter, ZoneUpdates
  <2> QED BY <1>3, <2>2 DEF ServerEnds, Legal
<1>4. ASSUME NEW p \in Players, ServerHits(p) PROVE \E m, u : Legal(server, m, u) /\ Sends(u, m)
  <2> DEFINE u == [server EXCEPT !.health[p] = @ - 1]
  <2>1. Hp(p) \in StatUpdates /\ Hp(p).cmd = "HP" /\ Hp(p).player = p
    BY DEF StatUpdates, Hp
  <2>2. server.health[p] - 1 \in Int
    BY <1>1, TableIs
  <2>3. u = [server EXCEPT !.health[p] = server.health[p] - 1]
    OBVIOUS
  <2> HIDE DEF u
  <2>4. /\ u \in Table /\ u.health = [server.health EXCEPT ![p] = @ - 1]
        /\ u.hand = server.hand /\ u.deck = server.deck /\ u.zone = server.zone
    BY <1>1, <2>2, <2>3, HealthSet
  <2>5. Tells(server, Hp(p), u)
    BY <2>1, <2>4 DEF Tells, HealthAfter, ZonesAfter, ZoneUpdates
  <2>6. Sends(u, Hp(p))
    BY <1>4 DEF ServerHits, u
  <2> QED BY <2>5, <2>6 DEF Legal
<1>5. ASSUME NEW p \in Players, NEW c \in Cards, ServerDraws(p, c)
      PROVE  \E m, u : Legal(server, m, u) /\ Sends(u, m)
  BY <1>5 DEF ServerDraws, Legal
<1>6. ASSUME NEW p \in Players, NEW c \in Cards, ServerDiscards(p, c)
      PROVE  \E m, u : Legal(server, m, u) /\ Sends(u, m)
  <2>1. Legal(server, Discard(p, c), Drops(server, p, c))
    BY <1>6 DEF ServerDiscards, Legal
  <2>2. Sends(Drops(server, p, c), Discard(p, c))
    BY <1>6 DEF ServerDiscards, Drops
  <2> QED BY <2>1, <2>2
<1>7. ASSUME NEW p \in Players, NEW c \in Cards, NEW lane \in Lanes, ServerPlays(p, c, lane)
      PROVE  \E m, u : Legal(server, m, u) /\ Sends(u, m)
  <2>1. CASE c \in Spells /\ Sends([server EXCEPT !.hand[p] = Less(@, c)], Play(p, c, lane))
    <3>1. Legal(server, Play(p, c, lane), Drops(server, p, c))
      BY <1>7, <2>1 DEF ServerPlays, Legal
    <3> QED BY <2>1, <3>1 DEF Drops
  <2>2. CASE /\ c \in Creatures /\ server.zone[<<p, lane>>] = Empty
             /\ Sends([server EXCEPT !.hand[p] = Less(@, c), !.zone[<<p, lane>>] = Fresh(c)],
                      Play(p, c, lane))
    <3>1. Legal(server, Play(p, c, lane), Summons(server, p, c, <<p, lane>>))
      BY <1>7, <2>2 DEF ServerPlays, Legal
    <3> QED BY <2>2, <3>1 DEF Summons
  <2> QED BY <1>7, <2>1, <2>2 DEF ServerPlays
<1>8. ASSUME NEW z \in Zones, ServerFights(z) PROVE \E m, u : Legal(server, m, u) /\ Sends(u, m)
  <2>1. z[2] \in Lanes
    BY DEF Zones
  <2>2. Legal(server, Direct(z), server) /\ Legal(server, Combat(z[2]), server)
    BY <2>1 DEF Legal
  <2> QED BY <1>8, <2>2 DEF ServerFights
<1>9. ASSUME NEW z \in Zones, ServerChanges(z) PROVE \E m, u : Legal(server, m, u) /\ Sends(u, m)
  BY <1>9, ServerTells DEF Legal
<1> QED BY <1>2, <1>3, <1>4, <1>5, <1>6, <1>7, <1>8, <1>9 DEF ServerNext

-----------------------------------------------------------------------------
(* The opening is drawn from the decks, card by card.                       *)

Drawn(p, k, c) == Cardinality({i \in 1 .. k : Opening[p][i] = c})

At(p, k, c) == {i \in 1 .. k : Opening[p][i] = c}

LEMMA AtFinite ==
  ASSUME NEW p, NEW k \in Nat, NEW c
  PROVE  IsFiniteSet(At(p, k, c)) /\ Drawn(p, k, c) = Cardinality(At(p, k, c))
         /\ Drawn(p, k, c) \in Nat
<1>1. IsFiniteSet(1 .. k) /\ At(p, k, c) \in SUBSET (1 .. k)
  BY FS_Interval DEF At
<1>2. IsFiniteSet(At(p, k, c))
  BY <1>1, FS_Subset
<1>3. Drawn(p, k, c) = Cardinality(At(p, k, c))
  BY DEF Drawn, At
<1> QED BY <1>2, <1>3, FS_CardinalityType

LEMMA DrawnNone ==
  ASSUME NEW p, NEW c
  PROVE  Drawn(p, 0, c) = 0
<1>1. At(p, 0, c) = {}
  BY DEF At
<1> QED BY <1>1, AtFinite, FS_EmptySet

LEMMA DrawnMore ==
  ASSUME NEW p, NEW k \in Nat, NEW c
  PROVE  Drawn(p, k + 1, c) = Drawn(p, k, c) + (IF Opening[p][k + 1] = c THEN 1 ELSE 0)
<1>1. /\ IsFiniteSet(At(p, k, c)) /\ Drawn(p, k, c) = Cardinality(At(p, k, c))
      /\ Drawn(p, k, c) \in Nat
  BY AtFinite
<1>2. Drawn(p, k + 1, c) = Cardinality(At(p, k + 1, c))
  BY DEF Drawn, At
<1>3. CASE Opening[p][k + 1] = c
  <2>1. At(p, k + 1, c) = At(p, k, c) \cup {k + 1} /\ k + 1 \notin At(p, k, c)
    BY <1>3 DEF At
  <2>2. Cardinality(At(p, k, c) \cup {k + 1}) = Cardinality(At(p, k, c)) + 1
    BY <1>1, <2>1, FS_AddElement
  <2> QED BY <1>1, <1>2, <1>3, <2>1, <2>2
<1>4. CASE Opening[p][k + 1] # c
  <2>1. At(p, k + 1, c) = At(p, k, c)
    BY <1>4 DEF At
  <2> QED BY <1>1, <1>2, <1>4, <2>1
<1> QED BY <1>3, <1>4

LEMMA DrawnMost ==
  ASSUME NEW p \in Players, NEW k \in Nat, k <= Len(Opening[p]), NEW c \in Cards
  PROVE  Drawn(p, k, c) <= Decks[p][c]
<1>1. Opening[p] \in Seq(Cards)
  BY ClientBoardAssumption
<1> DEFINE N == Len(Opening[p])
<1>2. DOMAIN Opening[p] = 1 .. N /\ N \in Nat
  BY <1>1, LenProperties
<1> DEFINE all == {i \in DOMAIN Opening[p] : Opening[p][i] = c}
<1>3. Cardinality(all) <= Decks[p][c]
  BY ClientBoardAssumption
<1>4. all = At(p, N, c) /\ At(p, k, c) \in SUBSET At(p, N, c)
  BY <1>2 DEF At
<1> HIDE DEF all, N
<1>5. IsFiniteSet(At(p, N, c)) /\ Cardinality(At(p, N, c)) = Drawn(p, N, c) /\ Drawn(p, N, c) \in Nat
  BY <1>2, AtFinite
<1>6. Drawn(p, k, c) = Cardinality(At(p, k, c)) /\ Drawn(p, k, c) \in Nat
  BY AtFinite
<1>7. Cardinality(At(p, k, c)) <= Cardinality(At(p, N, c))
  BY <1>4, <1>5, FS_Subset
<1> QED BY <1>3, <1>4, <1>5, <1>6, <1>7, DecksAre

LEMMA DrawnIs ==
  ASSUME NEW p \in Players, NEW k \in Nat, NEW c \in Cards
  PROVE  /\ Drawn(p, k, c) \in Nat
         /\ Drawn(p, k + 1, c) = Drawn(p, k, c) + (IF Opening[p][k + 1] = c THEN 1 ELSE 0)
         /\ k <= Len(Opening[p]) => Drawn(p, k, c) <= Decks[p][c]
BY AtFinite, DrawnMore, DrawnMost

\* The tables of an opening, one for each card drawn.
Opens(p, t, v) ==
  /\ v \in [0 .. Len(Opening[p]) -> Table]
  /\ v[0] = t
  /\ \A k \in 0 .. Len(Opening[p]) - 1 :
       /\ v[k].deck[p][Opening[p][k + 1]] > 0
       /\ v[k + 1] = Draws(v[k], p, Opening[p][k + 1])
  /\ \A k \in 0 .. Len(Opening[p]) :
       /\ v[k].health = t.health /\ v[k].zone = t.zone
       /\ \A q \in Players, c \in Cards :
            /\ v[k].deck[q][c] + v[k].hand[q][c] = t.deck[q][c] + t.hand[q][c]
            /\ q # p => v[k].deck[q][c] = t.deck[q][c]

LEMMA OpeningRuns ==
  ASSUME NEW p \in Players, NEW t \in Table, \A c \in Cards : t.deck[p][c] = Decks[p][c]
  PROVE  \E v : Opens(p, t, v) /\ DrawsAll(t, p) = v[Len(Opening[p])]
<1> DEFINE N == Len(Opening[p])
<1>1. Opening[p] \in Seq(Cards)
  BY ClientBoardAssumption
<1>2. N \in Nat /\ \A i \in 1 .. N : Opening[p][i] \in Cards
  BY <1>1, LenProperties, ElementOfSeq
<1>3. t \in Loose
  BY DEF Table, Loose, Hand, Body
<1>4. PICK v \in [0 .. N -> Loose] :
        /\ v[0] = t
        /\ \A k \in 0 .. N - 1 : v[k + 1] = Draws(v[k], p, Opening[p][k + 1])
        /\ DrawsAll(t, p) = v[N]
  BY <1>3, DrawRuns
<1> HIDE DEF N
<1> DEFINE Right(k) ==
      /\ v[k].health = t.health /\ v[k].zone = t.zone
      /\ \A q \in Players, c \in Cards :
           /\ v[k].hand[q][c] = t.hand[q][c] + (IF q = p THEN Drawn(p, k, c) ELSE 0)
           /\ v[k].deck[q][c] = t.deck[q][c] - (IF q = p THEN Drawn(p, k, c) ELSE 0)
<1> DEFINE T == {k \in Nat : k <= N => Right(k)}
<1>5. \A q \in Players, c \in Cards : t.hand[q][c] \in Nat /\ t.deck[q][c] \in Nat
  BY TableIs
<1>6. 0 \in T
  BY <1>4, <1>5, DrawnNone
<1>7. ASSUME NEW k \in Nat, k \in T PROVE k + 1 \in T
  <2> SUFFICES ASSUME k + 1 <= N PROVE Right(k + 1)
    OBVIOUS
  <2>1. k \in 0 .. N - 1 /\ k \in 0 .. N /\ k + 1 \in 1 .. N /\ Right(k)
    BY <1>2, <1>7
  <2> DEFINE x == v[k]
  <2> DEFINE y == v[k + 1]
  <2> DEFINE o == Opening[p][k + 1]
  <2>2. x \in Loose /\ o \in Cards /\ y = Draws(x, p, o)
    BY <1>2, <1>4, <2>1
  <2>3. /\ y.health = x.health /\ y.zone = x.zone
        /\ \A q \in Players, d \in Cards :
             /\ y.deck[q][d] = IF q = p /\ d = o THEN x.deck[q][d] - 1 ELSE x.deck[q][d]
             /\ y.hand[q][d] = IF q = p /\ d = o THEN x.hand[q][d] + 1 ELSE x.hand[q][d]
    <3> HIDE DEF x, y, o
    <3> QED BY <2>2, LooseDraws
  <2>4. \A c \in Cards : /\ Drawn(p, k, c) \in Nat
                         /\ Drawn(p, k + 1, c) = Drawn(p, k, c) + (IF o = c THEN 1 ELSE 0)
    BY DrawnIs
  <2>5. /\ x.health = t.health /\ x.zone = t.zone
        /\ \A q \in Players, c \in Cards :
             /\ x.hand[q][c] = t.hand[q][c] + (IF q = p THEN Drawn(p, k, c) ELSE 0)
             /\ x.deck[q][c] = t.deck[q][c] - (IF q = p THEN Drawn(p, k, c) ELSE 0)
    BY <2>1
  <2> HIDE DEF x, y, o
  <2>6. ASSUME NEW q \in Players, NEW c \in Cards
        PROVE  /\ y.hand[q][c] = t.hand[q][c] + (IF q = p THEN Drawn(p, k + 1, c) ELSE 0)
               /\ y.deck[q][c] = t.deck[q][c] - (IF q = p THEN Drawn(p, k + 1, c) ELSE 0)
    <3>1. CASE q # p
      BY <2>3, <2>5, <3>1
    <3>2. CASE q = p /\ c = o
      <4>1. y.hand[q][c] = x.hand[q][c] + 1 /\ y.deck[q][c] = x.deck[q][c] - 1
        BY <2>3, <3>2
      <4>2. x.hand[q][c] = t.hand[q][c] + Drawn(p, k, c)
            /\ x.deck[q][c] = t.deck[q][c] - Drawn(p, k, c)
        BY <2>5, <3>2
      <4>3. Drawn(p, k + 1, c) = Drawn(p, k, c) + 1 /\ Drawn(p, k, c) \in Nat
        BY <2>4, <3>2
      <4>4. t.hand[q][c] \in Nat /\ t.deck[q][c] \in Nat
        BY <1>5
      <4>5. t.hand[q][c] + Drawn(p, k, c) + 1 = t.hand[q][c] + Drawn(p, k + 1, c)
            /\ t.deck[q][c] - Drawn(p, k, c) - 1 = t.deck[q][c] - Drawn(p, k + 1, c)
        BY <4>3, <4>4
      <4> QED BY <3>2, <4>1, <4>2, <4>5
    <3>3. CASE q = p /\ c # o
      <4>1. y.hand[q][c] = x.hand[q][c] /\ y.deck[q][c] = x.deck[q][c]
        BY <2>3, <3>3
      <4>2. Drawn(p, k + 1, c) = Drawn(p, k, c)
        BY <2>4, <3>3
      <4> QED BY <2>5, <4>1, <4>2
    <3> QED BY <3>1, <3>2, <3>3
  <2> QED BY <2>3, <2>5, <2>6 DEF y
<1>8. ASSUME NEW k \in 0 .. N PROVE Right(k)
  <2>1. k \in T
    <3> HIDE DEF T
    <3> QED BY <1>2, <1>6, <1>7, SetInduction
  <2> QED BY <1>2, <2>1
<1>9. ASSUME NEW k \in 0 .. N
      PROVE  v[k] \in Table
  <2>0. k \in Nat /\ k <= Len(Opening[p])
    BY <1>2 DEF N
  <2>1. \A c \in Cards : Drawn(p, k, c) \in Nat /\ Drawn(p, k, c) <= Decks[p][c] /\ Decks[p][c] \in Nat
    BY <2>0, DrawnIs, DecksAre
  <2>2. \A q \in Players, c \in Cards : v[k].hand[q][c] \in Nat /\ v[k].deck[q][c] \in Nat
    BY <1>5, <1>8, <2>1
  <2>3. v[k] \in Loose
    BY <1>4
  <2>4. v[k].hand \in [Players -> Hand] /\ v[k].deck \in [Players -> Hand]
    BY <2>2, <2>3 DEF Loose, Hand
  <2> QED BY <2>3, <2>4 DEF Loose, Table, Body
<1>10. ASSUME NEW k \in 0 .. N - 1
       PROVE  v[k].deck[p][Opening[p][k + 1]] > 0
  <2> DEFINE o == Opening[p][k + 1]
  <2>1. k \in 0 .. N /\ k \in Nat /\ k + 1 \in 1 .. N /\ k + 1 <= N /\ o \in Cards
    BY <1>2
  <2>2. /\ Drawn(p, k, o) \in Nat /\ Drawn(p, k + 1, o) = Drawn(p, k, o) + 1
        /\ Drawn(p, k + 1, o) <= Decks[p][o]
    <3>1. k + 1 \in Nat /\ k + 1 <= Len(Opening[p])
      BY <2>1 DEF N
    <3>2. Drawn(p, k + 1, o) <= Decks[p][o]
      BY <2>1, <3>1, DrawnMost
    <3>3. Drawn(p, k, o) \in Nat
      BY <2>1, AtFinite
    <3>4. Drawn(p, k + 1, o) = Drawn(p, k, o) + 1
      BY <2>1, <3>3, DrawnMore
    <3> QED BY <3>2, <3>3, <3>4
  <2>3. v[k].deck[p][o] = Decks[p][o] - Drawn(p, k, o)
    BY <1>8, <2>1
  <2> QED BY <2>1, <2>2, <2>3, DecksAre
<1>11. ASSUME NEW k \in 0 .. N
       PROVE  /\ v[k].health = t.health /\ v[k].zone = t.zone
              /\ \A q \in Players, c \in Cards :
                   /\ v[k].deck[q][c] + v[k].hand[q][c] = t.deck[q][c] + t.hand[q][c]
                   /\ q # p => v[k].deck[q][c] = t.deck[q][c]
  <2>1. Right(k)
    BY <1>8
  <2>2. \A c \in Cards : Drawn(p, k, c) \in Nat
    <3>1. k \in Nat
      BY <1>2
    <3> QED BY <3>1, AtFinite
  <2> QED BY <1>5, <2>1, <2>2
<1>12. v \in [0 .. N -> Table]
  BY <1>4, <1>9
<1>13. Opens(p, t, v)
  BY <1>4, <1>10, <1>11, <1>12 DEF Opens, N
<1> QED BY <1>4, <1>13 DEF N

\* The tables behind the lines that are on the way: the first is the one that the
\* lines handled so far amount to, the last is the server's.
Behind(lines, now, ts) ==
  /\ ts \in [0 .. Len(lines) -> Table]
  /\ ts[Len(lines)] = now
  /\ \A i \in 1 .. Len(lines) : Legal(ts[i - 1], lines[i], ts[i])

LEMMA FullDecksIs ==
  /\ FullDecks \in Table /\ FullDecks \in GoodTable
  /\ \A p \in Players, c \in Cards : FullDecks.hand[p][c] = 0 /\ FullDecks.deck[p][c] = Decks[p][c]
  /\ \A z \in Zones : FullDecks.zone[z] = Empty
<1>1. FullDecks \in Table
  <2>1. [p \in Players |-> StartHealth] \in [Players -> Int]
    BY ClientBoardAssumption
  <2>2. [p \in Players |-> [c \in Cards |-> 0]] \in [Players -> Hand]
    BY DEF Hand
  <2>3. [z \in Zones |-> Empty] \in [Zones -> Creature \cup {Empty}]
    OBVIOUS
  <2> QED BY <2>1, <2>2, <2>3, ClientBoardAssumption DEF FullDecks, Table
<1>2. \A p \in Players, c \in Cards : FullDecks.hand[p][c] = 0 /\ FullDecks.deck[p][c] = Decks[p][c]
  BY DEF FullDecks
<1>3. \A z \in Zones : FullDecks.zone[z] = Empty
  BY DEF FullDecks
<1>4. ASSUME NEW p \in Players, NEW c \in Cards PROVE Holdings(FullDecks, p, c) <= Decks[p][c]
  <2>1. Laid(FullDecks.zone, p, c) = {}
    BY <1>3 DEF Laid
  <2>2. Cardinality(Laid(FullDecks.zone, p, c)) = 0
    BY <2>1, FS_EmptySet
  <2> QED BY <1>2, <2>2, HoldingsIs, DecksAre
<1> QED BY <1>1, <1>2, <1>3, <1>4 DEF GoodTable

LEMMA OpeningLinesAre ==
  LET n == Len(Opening[Local])  m == Len(Opening[Remote])
  IN  /\ n \in Nat /\ m \in Nat
      /\ Len(OpeningLines) = n + m + 1 /\ Len(OpeningLines) \in Nat
      /\ \A i \in 1 .. n : Opening[Local][i] \in Cards /\ OpeningLines[i] = Draw(Local, Opening[Local][i])
      /\ \A i \in 1 .. m : Opening[Remote][i] \in Cards /\ OpeningLines[n + i] = Draw(Remote, Opening[Remote][i])
      /\ OpeningLines[n + m + 1] = FullState(Shown(Opened))
<1> DEFINE n == Len(Opening[Local])
<1> DEFINE m == Len(Opening[Remote])
<1>1. Opening[Local] \in Seq(Cards) /\ Opening[Remote] \in Seq(Cards)
  BY ClientBoardAssumption DEF Players
<1>2. /\ n \in Nat /\ m \in Nat
      /\ DOMAIN Opening[Local] = 1 .. n /\ DOMAIN Opening[Remote] = 1 .. m
      /\ \A i \in 1 .. n : Opening[Local][i] \in Cards
      /\ \A i \in 1 .. m : Opening[Remote][i] \in Cards
  BY <1>1, LenProperties, ElementOfSeq
<1> HIDE DEF n, m
<1> DEFINE any == {Draw(p, c) : p \in Players, c \in Cards} \cup {FullState(Shown(Opened))}
<1> DEFINE a == [i \in 1 .. n |-> Draw(Local, Opening[Local][i])]
<1> DEFINE b == [i \in 1 .. m |-> Draw(Remote, Opening[Remote][i])]
<1> DEFINE c == <<FullState(Shown(Opened))>>
<1>3. a \in Seq(any) /\ Len(a) = n
  BY <1>2 DEF Players
<1>4. b \in Seq(any) /\ Len(b) = m
  BY <1>2 DEF Players
<1>5. c \in Seq(any) /\ Len(c) = 1 /\ c[1] = FullState(Shown(Opened))
  OBVIOUS
<1>6. OpeningLines = (a \o b) \o c
  BY <1>2 DEF OpeningLines
<1>7. /\ \A i \in 1 .. n : a[i] = Draw(Local, Opening[Local][i])
      /\ \A i \in 1 .. m : b[i] = Draw(Remote, Opening[Remote][i])
  OBVIOUS
<1> HIDE DEF a, b, c, any
<1>8. /\ a \o b \in Seq(any) /\ Len(a \o b) = n + m
      /\ \A i \in 1 .. n + m : (a \o b)[i] = IF i <= n THEN a[i] ELSE b[i - n]
  BY <1>3, <1>4, ConcatProperties
<1> DEFINE d == a \o b
<1>9. /\ Len(d \o c) = n + m + 1
      /\ \A i \in 1 .. n + m + 1 : (d \o c)[i] = IF i <= n + m THEN d[i] ELSE c[i - (n + m)]
  <2>1. n + m \in Nat /\ d \in Seq(any) /\ Len(d) = n + m
    BY <1>2, <1>8
  <2>2. ASSUME NEW S, NEW e \in Seq(S), NEW f \in Seq(S), NEW x \in Nat, Len(e) = x, Len(f) = 1
        PROVE  /\ Len(e \o f) = x + 1
               /\ \A i \in 1 .. x + 1 : (e \o f)[i] = IF i <= x THEN e[i] ELSE f[i - x]
    <3>1. Len(e \o f) = x + 1
      <4>1. Len(e \o f) = Len(e) + Len(f)
        BY ONLY <2>2, ConcatProperties
      <4> QED BY <2>2, <4>1
    <3>2. \A i \in 1 .. x + 1 : (e \o f)[i] = IF i <= Len(e) THEN e[i] ELSE f[i - Len(e)]
      BY ONLY <2>2, ConcatProperties
    <3> QED BY <2>2, <3>1, <3>2
  <2> HIDE DEF d
  <2>3. PICK x \in Nat : x = n + m
    BY <2>1
  <2>4. /\ Len(d \o c) = x + 1
        /\ \A i \in 1 .. x + 1 : (d \o c)[i] = IF i <= x THEN d[i] ELSE c[i - x]
    <3>1. d \in Seq(any) /\ c \in Seq(any) /\ Len(d) = x /\ Len(c) = 1
      BY <1>5, <2>1, <2>3
    <3>2. Len(d \o c) = x + 1
      BY ONLY <2>2, <3>1, x \in Nat
    <3>3. \A i \in 1 .. x + 1 : (d \o c)[i] = IF i <= x THEN d[i] ELSE c[i - x]
      BY ONLY <2>2, <3>1, x \in Nat
    <3> QED BY <3>2, <3>3
  <2> QED BY <2>3, <2>4
<1>10. ASSUME NEW i \in 1 .. n PROVE OpeningLines[i] = Draw(Local, Opening[Local][i])
  <2>1. i \in 1 .. n + m + 1 /\ i <= n + m /\ i \in 1 .. n + m /\ i <= n
    BY <1>2
  <2> QED BY <1>6, <1>7, <1>8, <1>9, <2>1
<1>11. ASSUME NEW i \in 1 .. m PROVE OpeningLines[n + i] = Draw(Remote, Opening[Remote][i])
  <2> DEFINE j == n + i
  <2>1. j \in 1 .. n + m + 1 /\ j <= n + m /\ j \in 1 .. n + m /\ ~(j <= n) /\ j - n = i
    BY <1>2
  <2> HIDE DEF j
  <2>2. OpeningLines[j] = b[i]
    BY <1>6, <1>8, <1>9, <2>1
  <2> QED BY <1>7, <2>2 DEF j
<1>12. OpeningLines[n + m + 1] = FullState(Shown(Opened))
  <2> DEFINE j == n + m + 1
  <2>1. j \in 1 .. n + m + 1 /\ ~(j <= n + m) /\ j - (n + m) = 1
    BY <1>2
  <2> HIDE DEF j
  <2>2. OpeningLines[j] = c[1]
    BY <1>6, <1>9, <2>1
  <2> QED BY <1>5, <2>2 DEF j
<1>13. Len(OpeningLines) = n + m + 1 /\ Len(OpeningLines) \in Nat
  BY <1>2, <1>6, <1>9
<1> QED BY <1>2, <1>10, <1>11, <1>12, <1>13 DEF n, m

\* The opening is legal from the full decks on.
LEMMA OpeningBehind ==
  \E ts :
    /\ Behind(OpeningLines, Opened, ts)
    /\ ts[0] = FullDecks
<1> DEFINE n == Len(Opening[Local])
<1> DEFINE m == Len(Opening[Remote])
<1>0. /\ Local \in Players /\ Remote \in Players /\ Local # Remote
      /\ FullDecks \in Table
      /\ \A q \in Players, c \in Cards : FullDecks.hand[q][c] = 0 /\ FullDecks.deck[q][c] = Decks[q][c]
  BY ClientBoardAssumption, FullDecksIs DEF Players
<1>1. PICK v : Opens(Local, FullDecks, v) /\ DrawsAll(FullDecks, Local) = v[n]
  BY <1>0, OpeningRuns
<1> DEFINE t == v[n]
<1>2. n \in Nat /\ m \in Nat
  BY OpeningLinesAre
<1>3. /\ t \in Table /\ t.health = FullDecks.health /\ t.zone = FullDecks.zone
      /\ \A q \in Players, c \in Cards :
           /\ t.deck[q][c] + t.hand[q][c] = Decks[q][c]
           /\ q # Local => t.deck[q][c] = Decks[q][c]
  <2>1. n \in 0 .. n
    BY <1>2
  <2> HIDE DEF n
  <2>2. v \in [0 .. n -> Table]
    BY <1>1 DEF Opens, n
  <2>3. \A q \in Players, c \in Cards :
          FullDecks.deck[q][c] + FullDecks.hand[q][c] = Decks[q][c] /\ FullDecks.deck[q][c] = Decks[q][c]
    BY <1>0, DecksAre
  <2> QED BY <1>1, <2>1, <2>2, <2>3 DEF Opens, n
<1>4. PICK w : Opens(Remote, t, w) /\ DrawsAll(t, Remote) = w[m]
  <2>1. \A c \in Cards : t.deck[Remote][c] = Decks[Remote][c]
    BY <1>0, <1>3
  <2> HIDE DEF t, m
  <2>2. \E w : Opens(Remote, t, w) /\ DrawsAll(t, Remote) = w[Len(Opening[Remote])]
    BY <1>0, <1>3, <2>1, OpeningRuns
  <2> QED BY <2>2 DEF m
<1>5. Opened = w[m]
  BY <1>1, <1>4 DEF Opened
<1>6. /\ Len(OpeningLines) = n + m + 1
      /\ \A i \in 1 .. n : OpeningLines[i] = Draw(Local, Opening[Local][i]) /\ Opening[Local][i] \in Cards
      /\ \A i \in 1 .. m : OpeningLines[n + i] = Draw(Remote, Opening[Remote][i]) /\ Opening[Remote][i] \in Cards
      /\ OpeningLines[n + m + 1] = FullState(Shown(Opened))
  BY OpeningLinesAre
<1>7. /\ v \in [0 .. n -> Table] /\ v[0] = FullDecks
      /\ \A k \in 0 .. n - 1 : /\ v[k].deck[Local][Opening[Local][k + 1]] > 0
                               /\ v[k + 1] = Draws(v[k], Local, Opening[Local][k + 1])
  BY <1>1 DEF Opens
<1>8. /\ w \in [0 .. m -> Table] /\ w[0] = t
      /\ \A k \in 0 .. m - 1 : /\ w[k].deck[Remote][Opening[Remote][k + 1]] > 0
                               /\ w[k + 1] = Draws(w[k], Remote, Opening[Remote][k + 1])
  BY <1>4 DEF Opens
<1> HIDE DEF n, m
<1> DEFINE N == n + m + 1
<1> DEFINE ts == [i \in 0 .. N |-> IF i <= n THEN v[i] ELSE IF i <= n + m THEN w[i - n] ELSE w[m]]
<1>9. ASSUME NEW i \in 0 .. N
      PROVE  \/ i \in 0 .. n /\ ts[i] = v[i]
             \/ i - n \in 1 .. m /\ i \in n + 1 .. n + m /\ ts[i] = w[i - n]
             \/ i = N /\ ts[i] = w[m]
  BY <1>2
<1>10. ts \in [0 .. N -> Table]
  <2>1. ASSUME NEW i \in 0 .. N PROVE ts[i] \in Table
    <3> HIDE DEF ts
    <3>1. CASE i \in 0 .. n /\ ts[i] = v[i]
      BY <1>7, <3>1
    <3>2. CASE i - n \in 1 .. m /\ ts[i] = w[i - n]
      <4>1. i - n \in 0 .. m
        BY <1>2, <3>2
      <4> QED BY <1>8, <3>2, <4>1
    <3>3. CASE ts[i] = w[m]
      <4>1. m \in 0 .. m
        BY <1>2
      <4> QED BY <1>8, <3>3, <4>1
    <3> QED BY <1>9, <3>1, <3>2, <3>3
  <2> QED BY <2>1
<1>11. ts[0] = FullDecks /\ ts[N] = w[m]
  BY <1>2, <1>7
<1>12. ASSUME NEW i \in 1 .. N
       PROVE  Legal(ts[i - 1], OpeningLines[i], ts[i])
  <2>1. CASE i \in 1 .. n
    <3>1. i - 1 \in 0 .. n - 1 /\ i - 1 + 1 = i
      BY <1>2, <2>1
    <3>2. ts[i - 1] = v[i - 1] /\ ts[i] = v[i]
      BY <1>2, <2>1
    <3>3. v[i - 1].deck[Local][Opening[Local][i]] > 0 /\ v[i] = Draws(v[i - 1], Local, Opening[Local][i])
      BY <1>7, <3>1
    <3> HIDE DEF ts
    <3> QED BY <1>0, <1>6, <2>1, <3>2, <3>3 DEF Legal
  <2>2. CASE i \in n + 1 .. n + m
    <3> DEFINE j == i - n
    <3>1. j \in 1 .. m /\ j - 1 \in 0 .. m - 1 /\ j - 1 + 1 = j /\ n + j = i
      BY <1>2, <2>2
    <3>2. ts[i] = w[j]
      BY <1>2, <2>2
    <3>3. ts[i - 1] = w[j - 1]
      <4>1. CASE i = n + 1
        <5>1. i - 1 \in 0 .. N /\ i - 1 <= n /\ i - 1 = n /\ j - 1 = 0
          BY <1>2, <4>1
        <5>2. ts[i - 1] = v[n]
          BY <5>1
        <5> QED BY <1>8, <5>1, <5>2
      <4>2. CASE i # n + 1
        <5>1. i - 1 \in 0 .. N /\ ~(i - 1 <= n) /\ i - 1 <= n + m /\ i - 1 - n = j - 1
          BY <1>2, <2>2, <4>2
        <5> QED BY <5>1
      <4> QED BY <4>1, <4>2
    <3> HIDE DEF ts, j
    <3>4. w[j - 1].deck[Remote][Opening[Remote][j]] > 0 /\ w[j] = Draws(w[j - 1], Remote, Opening[Remote][j])
      BY <1>8, <3>1
    <3>5. OpeningLines[i] = Draw(Remote, Opening[Remote][j]) /\ Opening[Remote][j] \in Cards
      BY <1>6, <3>1
    <3> QED BY <1>0, <3>2, <3>3, <3>4, <3>5 DEF Legal
  <2>3. CASE i = N
    <3>1. ts[i] = w[m]
      BY <1>11, <2>3
    <3>2. ts[i - 1] = w[m]
      <4>1. i - 1 = n + m /\ i - 1 \in 0 .. N /\ i - 1 <= n + m /\ i - 1 - n = m
        BY <1>2, <2>3
      <4>2. CASE m = 0
        <5>1. i - 1 <= n /\ i - 1 = n
          BY <1>2, <4>1, <4>2
        <5>2. ts[i - 1] = v[n]
          BY <4>1, <5>1
        <5> QED BY <1>8, <4>2, <5>2
      <4>3. CASE m # 0
        <5>1. ~(i - 1 <= n)
          BY <1>2, <4>1, <4>3
        <5> QED BY <4>1, <5>1
      <4> QED BY <4>2, <4>3
    <3> HIDE DEF ts
    <3>3. OpeningLines[i] = FullState(Shown(ts[i - 1]))
      BY <1>5, <1>6, <2>3, <3>2
    <3> QED BY <3>1, <3>2, <3>3 DEF Legal
  <2> QED BY <1>2, <2>1, <2>2, <2>3
<1> HIDE DEF ts
<1>13. Len(OpeningLines) = N
  BY <1>6
<1>14. Behind(OpeningLines, Opened, ts)
  <2> HIDE DEF N
  <2> QED BY <1>5, <1>10, <1>11, <1>12, <1>13 DEF Behind
<1> QED
  <2> HIDE DEF N
  <2> QED BY <1>11, <1>14

LEMMA OpeningLinesType == OpeningLines \in Seq(Messages)
<1>1. PICK ts : Behind(OpeningLines, Opened, ts)
  BY OpeningBehind
<1>2. Len(OpeningLines) \in Nat
  BY OpeningLinesAre
<1>3. DOMAIN OpeningLines = 1 .. Len(OpeningLines)
      /\ OpeningLines = [i \in 1 .. Len(OpeningLines) |-> OpeningLines[i]]
  <2>1. Opening[Local] \in Seq(Cards) /\ Opening[Remote] \in Seq(Cards)
    BY ClientBoardAssumption DEF Players
  <2> DEFINE any == {Draw(p, c) : p \in Players, c \in Cards} \cup {FullState(Shown(Opened))}
  <2>2. /\ Len(Opening[Local]) \in Nat /\ Len(Opening[Remote]) \in Nat
        /\ DOMAIN Opening[Local] = 1 .. Len(Opening[Local])
        /\ DOMAIN Opening[Remote] = 1 .. Len(Opening[Remote])
        /\ \A i \in 1 .. Len(Opening[Local]) : Opening[Local][i] \in Cards
        /\ \A i \in 1 .. Len(Opening[Remote]) : Opening[Remote][i] \in Cards
    BY <2>1, LenProperties, ElementOfSeq
  <2>3. /\ [i \in DOMAIN Opening[Local] |-> Draw(Local, Opening[Local][i])] \in Seq(any)
        /\ [i \in DOMAIN Opening[Remote] |-> Draw(Remote, Opening[Remote][i])] \in Seq(any)
        /\ <<FullState(Shown(Opened))>> \in Seq(any)
    BY <2>2 DEF Players
  <2> HIDE DEF any
  <2>4. OpeningLines \in Seq(any)
    BY <2>3 DEF OpeningLines
  <2> QED BY <2>4, LenProperties
<1>4. \A i \in 1 .. Len(OpeningLines) : OpeningLines[i] \in Messages
  <2> TAKE i \in 1 .. Len(OpeningLines)
  <2>1. i - 1 \in 0 .. Len(OpeningLines) /\ Legal(ts[i - 1], OpeningLines[i], ts[i])
    BY <1>1, <1>2 DEF Behind
  <2>2. ts[i - 1] \in Table
    BY <1>1, <2>1 DEF Behind
  <2> QED BY <2>1, <2>2, LegalTypes
<1> QED BY <1>2, <1>3, <1>4

LEMMA TypedStarts == Init => Typed
<1> SUFFICES ASSUME Init PROVE Typed
  OBVIOUS
<1>1. Opened \in Table
  <2>1. PICK ts : Behind(OpeningLines, Opened, ts)
    BY OpeningBehind
  <2>2. Len(OpeningLines) \in 0 .. Len(OpeningLines)
    <3>1. Len(OpeningLines) \in Nat
      BY OpeningLinesAre
    <3> QED BY <3>1
  <2> QED BY <2>1, <2>2 DEF Behind
<1>2. channel \in Seq(Messages)
  BY OpeningLinesType DEF Init
<1>3. sent \in 0 .. MaxSent
  BY ClientBoardAssumption DEF Init
<1> QED BY <1>1, <1>2, <1>3, FullDecksIs, EmptySeq DEF Init, Typed

-----------------------------------------------------------------------------
(* Every step keeps the types.                                              *)

\* The line that is handled, and those that stay.
LEMMA LineIs ==
  ASSUME Typed, channel # <<>>
  PROVE  Line \in Messages /\ Tail(channel) \in Seq(Messages)
BY HeadTailProperties DEF Typed, Line

LEMMA DrawCardTable ==
  ASSUME Typed, DrawCard
  PROVE  /\ Line.player \in Players /\ Line.card \in Cards
         /\ table.deck[Line.player][Line.card] > 0 => table' = Draws(table, Line.player, Line.card)
         /\ ~(table.deck[Line.player][Line.card] > 0) => table' = table
         /\ table' \in GoodTable
<1>1. channel # <<>> /\ Line.cmd = "DRAW"
  BY DEF DrawCard, Receives, Line
<1>2. Line.player \in Players /\ Line.card \in Cards
  BY <1>1, LineIs, MessageIs
<1>3. table \in GoodTable /\ table.deck[Line.player][Line.card] \in Nat
  BY <1>2, GoodIsTable, TableIs DEF Typed
<1>4. table.deck[Line.player][Line.card] > 0 => table' = Draws(table, Line.player, Line.card)
  BY <1>3 DEF DrawCard
<1>5. ~(table.deck[Line.player][Line.card] > 0) => table' = table
  BY <1>3 DEF DrawCard
<1>6. table.deck[Line.player][Line.card] > 0 => Draws(table, Line.player, Line.card) \in GoodTable
  BY <1>2, <1>3, GoodDraws
<1> QED BY <1>2, <1>3, <1>4, <1>5, <1>6

LEMMA DiscardCardTable ==
  ASSUME Typed, DiscardCard
  PROVE  /\ Line.player \in Players /\ Line.card \in Cards
         /\ table.hand[Line.player][Line.card] > 0 => table' = Drops(table, Line.player, Line.card)
         /\ ~(table.hand[Line.player][Line.card] > 0) => table' = table
         /\ table' \in GoodTable
<1>1. channel # <<>> /\ Line.cmd = "DISCARD"
  BY DEF DiscardCard, Receives, Line
<1>2. Line.player \in Players /\ Line.card \in Cards
  BY <1>1, LineIs, MessageIs
<1>3. table \in GoodTable /\ table.hand[Line.player][Line.card] \in Nat
  BY <1>2, GoodIsTable, TableIs DEF Typed
<1>4. table.hand[Line.player][Line.card] > 0 => table' = Drops(table, Line.player, Line.card)
  BY <1>3 DEF DiscardCard, Drops
<1>5. ~(table.hand[Line.player][Line.card] > 0) => table' = table
  BY <1>3 DEF DiscardCard
<1>6. table.hand[Line.player][Line.card] > 0 => Drops(table, Line.player, Line.card) \in GoodTable
  BY <1>2, <1>3, GoodDrops
<1> QED BY <1>2, <1>3, <1>4, <1>5, <1>6

LEMMA PlayCardTable ==
  ASSUME Typed, PlayCard
  PROVE  LET p == Line.player  c == Line.card  z == <<Line.player, Line.lane>>
         IN  /\ p \in Players /\ c \in Cards /\ Line.lane \in Lanes /\ z \in Zones
             /\ ~(table.hand[p][c] > 0) => table' = table
             /\ table.hand[p][c] > 0 /\ c \in Creatures /\ table.zone[z] = Empty =>
                  table' = Summons(table, p, c, z)
             /\ table.hand[p][c] > 0 /\ ~(c \in Creatures /\ table.zone[z] = Empty) =>
                  table' = Drops(table, p, c)
             /\ table' \in GoodTable
<1> DEFINE p == Line.player
<1> DEFINE c == Line.card
<1> DEFINE z == <<Line.player, Line.lane>>
<1>1. channel # <<>> /\ Line.cmd = "PLAY"
  BY DEF PlayCard, Receives, Line
<1>2. p \in Players /\ c \in Cards /\ Line.lane \in Lanes /\ z \in Zones /\ z[1] = p
  BY <1>1, LineIs, MessageIs DEF Zones
<1>3. /\ table \in GoodTable /\ table \in Table /\ table.hand[p][c] \in Nat
      /\ table.zone \in [Zones -> Body]
  BY <1>2, GoodIsTable, TableIs DEF Typed
<1>4. table' = IF ~(table.hand[p][c] > 0) THEN table
               ELSE [table EXCEPT
                 !.hand[p] = Less(@, c),
                 !.zone[z] = IF (table.hand[p][c] > 0 /\ c \in Creatures) /\ @ = Empty
                             THEN Fresh(c) ELSE @]
  BY DEF PlayCard
<1>5. ASSUME table.hand[p][c] > 0, c \in Creatures, table.zone[z] = Empty
      PROVE  table' = Summons(table, p, c, z) /\ table' \in GoodTable
  <2>1. table' = Summons(table, p, c, z)
    BY <1>4, <1>5 DEF Summons
  <2> HIDE DEF p, c, z
  <2>2. Summons(table, p, c, z) \in GoodTable
    BY <1>2, <1>3, <1>5, GoodSummons
  <2> QED BY <2>1, <2>2
<1>6. ASSUME table.hand[p][c] > 0, ~(c \in Creatures /\ table.zone[z] = Empty)
      PROVE  table' = Drops(table, p, c) /\ table' \in GoodTable
  <2>1. table' = [table EXCEPT !.hand[p] = Less(@, c), !.zone[z] = @]
    BY <1>4, <1>6
  <2>2. table' = Drops(table, p, c)
    <3> HIDE DEF p, c, z
    <3>1. [table.zone EXCEPT ![z] = @] = table.zone
      BY <1>2, <1>3
    <3> QED BY <1>3, <2>1, <3>1 DEF Drops, Table
  <2> HIDE DEF p, c, z
  <2>3. Drops(table, p, c) \in GoodTable
    BY <1>2, <1>3, <1>6, GoodDrops
  <2> QED BY <2>2, <2>3
<1>7. ASSUME ~(table.hand[p][c] > 0) PROVE table' = table
  BY <1>4, <1>7
<1> QED BY <1>2, <1>3, <1>5, <1>6, <1>7

LEMMA DisplayIs ==
  ASSUME Typed
  PROVE  Display \in Screens
BY DEF Typed, Display, Screens

\* The screen after the zones whose time has come are cleared.
LEMMA GoneIs ==
  ASSUME Typed, NEW waits \in BOOLEAN, NEW due \in 0 .. Len(pending)
  PROVE  LET rest == SubSeq(pending, due + 1, Len(pending))
             gone == FoldLeft(Cleared, [Display EXCEPT !.queued = waits, !.pending = rest],
                              SubSeq(pending, 1, due))
         IN  /\ gone \in Screens
             /\ gone.table.hand = table.hand /\ gone.table.deck = table.deck
             /\ gone.table.health = table.health
             /\ Shows(gone.table, gone.pending) = Shows(table, pending)
<1> DEFINE rest == SubSeq(pending, due + 1, Len(pending))
<1> DEFINE first == SubSeq(pending, 1, due)
<1> DEFINE d == [Display EXCEPT !.queued = waits, !.pending = rest]
<1> DEFINE gone == FoldLeft(Cleared, d, first)
<1>1. pending \in Seq(Zones) /\ Len(pending) \in Nat /\ animated \in BOOLEAN
  BY LenProperties DEF Typed
<1>2. \A i \in 1 .. Len(pending) : pending[i] \in Zones
  BY <1>1, ElementOfSeq
<1>3. due \in Nat /\ due <= Len(pending) /\ due \in Int /\ due + 1 \in Int /\ Len(pending) \in Int
      /\ Len(pending) - (due + 1) + 1 = Len(pending) - due /\ due - 1 + 1 = due
  BY <1>1
<1>4. /\ first \in Seq(Zones) /\ Len(first) = due
      /\ \A i \in 1 .. due : first[i] = pending[i]
  <2>1. \A i \in 1 .. due : pending[i] \in Zones
    BY <1>2, <1>3
  <2>2. /\ first \in Seq(Zones) /\ Len(first) = IF 1 <= due THEN due - 1 + 1 ELSE 0
        /\ \A i \in 1 .. due - 1 + 1 : first[i] = pending[1 + i - 1]
    BY <1>3, <2>1, SubSeqProperties
  <2> HIDE DEF first
  <2> QED BY <1>3, <2>2
<1>5. /\ rest \in Seq(Zones) /\ Len(rest) = Len(pending) - due
      /\ \A i \in 1 .. Len(pending) - due : rest[i] = pending[due + i]
  <2>1. \A i \in due + 1 .. Len(pending) : pending[i] \in Zones
    BY <1>2, <1>3
  <2>2. /\ rest \in Seq(Zones)
        /\ Len(rest) = IF due + 1 <= Len(pending) THEN Len(pending) - (due + 1) + 1 ELSE 0
        /\ \A i \in 1 .. Len(pending) - (due + 1) + 1 : rest[i] = pending[due + 1 + i - 1]
    BY <1>3, <2>1, SubSeqProperties
  <2> HIDE DEF rest
  <2>3. Len(rest) = Len(pending) - due
    <3>1. CASE due + 1 <= Len(pending)
      BY <1>3, <2>2, <3>1
    <3>2. CASE ~(due + 1 <= Len(pending))
      <4>1. \A n \in Nat : due <= n /\ ~(due + 1 <= n) => due = n
        OBVIOUS
      <4>2. due = Len(pending) /\ Len(rest) = 0
        BY <1>1, <1>3, <2>2, <3>2, <4>1
      <4> QED BY <1>1, <4>2
    <3> QED BY <3>1, <3>2
  <2>4. ASSUME NEW i \in 1 .. Len(pending) - due PROVE rest[i] = pending[due + i]
    <3>1. due + 1 + i - 1 = due + i
      BY <1>3
    <3> QED BY <1>3, <2>2, <3>1
  <2> QED BY <2>2, <2>3, <2>4
<1>6. /\ d \in Screens /\ d.table = table /\ d.pending = rest
  <2> HIDE DEF rest
  <2> QED BY <1>5 DEF Typed, Display, Screens
<1> HIDE DEF rest, first, d
<1>7. PICK v \in [0 .. due -> Screens] :
        /\ v[0] = d
        /\ \A k \in 0 .. due - 1 : v[k + 1] = Cleared(v[k], first[k + 1])
        /\ gone = v[due]
  <2>1. \E v \in [0 .. Len(first) -> Screens] :
          /\ v[0] = d
          /\ \A k \in 0 .. Len(first) - 1 : v[k + 1] = Cleared(v[k], first[k + 1])
          /\ FoldLeft(Cleared, d, first) = v[Len(first)]
    BY <1>1, <1>4, <1>6, ClearRuns, Zenon
  <2> QED BY <1>4, <2>1
<1> DEFINE Right(k) ==
      /\ v[k].pending = rest
      /\ v[k].table.hand = table.hand /\ v[k].table.deck = table.deck
      /\ v[k].table.health = table.health
      /\ \A z \in Zones : v[k].table.zone[z]
                            = IF \E i \in 1 .. k : pending[i] = z THEN Empty ELSE table.zone[z]
<1> DEFINE T == {k \in Nat : k <= due => Right(k)}
<1>8. 0 \in T
  BY <1>6, <1>7
<1>9. ASSUME NEW k \in Nat, k \in T PROVE k + 1 \in T
  <2> SUFFICES ASSUME k + 1 <= due PROVE Right(k + 1)
    OBVIOUS
  <2>1. k \in 0 .. due - 1 /\ k \in 0 .. due /\ k + 1 \in 1 .. due /\ k + 1 \in 1 .. Len(pending) /\ Right(k)
    BY <1>3, <1>9
  <2> DEFINE y == pending[k + 1]
  <2>2. y \in Zones /\ v[k] \in Screens /\ v[k + 1] = Cleared(v[k], y)
    BY <1>2, <1>4, <1>7, <2>1
  <2> HIDE DEF y
  <2>3. /\ v[k + 1] \in Screens /\ v[k + 1].pending = v[k].pending
        /\ v[k + 1].table = [v[k].table EXCEPT !.zone[y] = Empty]
    BY <1>1, <2>2, ClearedIs
  <2>4. v[k].table \in Table /\ Empty \in Body
    BY <2>2, ScreenIs DEF Body
  <2>5. /\ v[k + 1].table.hand = v[k].table.hand /\ v[k + 1].table.deck = v[k].table.deck
        /\ v[k + 1].table.health = v[k].table.health
        /\ v[k + 1].table.zone = [v[k].table.zone EXCEPT ![y] = Empty]
    BY <2>2, <2>3, <2>4, ZoneSet
  <2>6. \A z \in Zones : v[k + 1].table.zone[z] = IF z = y THEN Empty ELSE v[k].table.zone[z]
    BY <2>4, <2>5, TableIs
  <2>7. ASSUME NEW z \in Zones
        PROVE  (\E i \in 1 .. k + 1 : pending[i] = z) <=> z = y \/ \E i \in 1 .. k : pending[i] = z
    <3>1. \A i \in 1 .. k + 1 : i = k + 1 \/ i \in 1 .. k
      OBVIOUS
    <3>2. \A i \in 1 .. k : i \in 1 .. k + 1
      OBVIOUS
    <3>3. k + 1 \in 1 .. k + 1
      OBVIOUS
    <3> QED BY <3>1, <3>2, <3>3 DEF y
  <2>8. ASSUME NEW z \in Zones
        PROVE  v[k + 1].table.zone[z]
                 = IF \E i \in 1 .. k + 1 : pending[i] = z THEN Empty ELSE table.zone[z]
    <3>1. v[k].table.zone[z] = IF \E i \in 1 .. k : pending[i] = z THEN Empty ELSE table.zone[z]
      BY <2>1
    <3> QED BY <2>6, <2>7, <3>1
  <2> QED BY <2>1, <2>3, <2>5, <2>8
<1>10. Right(due)
  <2>1. due \in T
    <3> HIDE DEF T
    <3> QED BY <1>3, <1>8, <1>9, SetInduction
  <2> QED BY <1>3, <2>1
<1>11. ASSUME NEW z \in Zones
       PROVE  Contains(pending, z) <=> (\E i \in 1 .. due : pending[i] = z) \/ Contains(rest, z)
  <2>1. ASSUME NEW i \in 1 .. Len(pending), pending[i] = z
        PROVE  (\E j \in 1 .. due : pending[j] = z) \/ Contains(rest, z)
    <3>1. CASE i <= due
      BY <2>1, <3>1
    <3>2. CASE ~(i <= due)
      <4> DEFINE j == i - due
      <4>1. j \in 1 .. Len(pending) - due /\ due + j = i
        BY <1>3, <3>2
      <4> HIDE DEF j
      <4>2. rest[j] = z /\ j \in 1 .. Len(rest)
        BY <1>5, <2>1, <4>1
      <4> QED BY <4>2 DEF Contains
    <3> QED BY <3>1, <3>2
  <2>2. ASSUME NEW i \in 1 .. due, pending[i] = z PROVE Contains(pending, z)
    <3>1. i \in 1 .. Len(pending)
      BY <1>3
    <3> QED BY <2>2, <3>1 DEF Contains
  <2>3. ASSUME NEW i \in 1 .. Len(rest), rest[i] = z PROVE Contains(pending, z)
    <3>1. due + i \in 1 .. Len(pending) /\ pending[due + i] = z
      BY <1>3, <1>5, <2>3
    <3> QED BY <3>1 DEF Contains
  <2> QED BY <2>1, <2>2, <2>3 DEF Contains
<1>12. Shows(v[due].table, v[due].pending) = Shows(table, pending)
  <2>1. ASSUME NEW z \in Zones
        PROVE  (IF Contains(rest, z) THEN Empty ELSE v[due].table.zone[z])
                 = (IF Contains(pending, z) THEN Empty ELSE table.zone[z])
    BY <1>10, <1>11
  <2> QED BY <1>10, <2>1 DEF Shows
<1>13. due \in 0 .. due
  BY <1>3
<1>14. /\ gone \in Screens
       /\ gone.table.hand = table.hand /\ gone.table.deck = table.deck
       /\ gone.table.health = table.health
       /\ Shows(gone.table, gone.pending) = Shows(table, pending)
  BY <1>7, <1>10, <1>12, <1>13
<1> QED BY <1>14 DEF rest, first, d

LEMMA TypedServer ==
  ASSUME Typed, ServerNext
  PROVE  Typed'
<1>1. PICK m, u : Legal(server, m, u) /\ Sends(u, m)
  BY ServerSteps
<1>2. u \in Table /\ m \in Messages
  BY <1>1, LegalTypes DEF Typed
<1>3. server' \in Table /\ channel' \in Seq(Messages) /\ over' \in BOOLEAN
  BY <1>1, <1>2, AppendProperties DEF Sends, Typed
<1>4. sent' \in 0 .. MaxSent
  BY <1>1, ClientBoardAssumption DEF Sends, Typed
<1>5. /\ UNCHANGED <<framed, table, held, pending, barrier, queued, active>>
      /\ UNCHANGED <<animated, ended, overtaken>>
  BY <1>1 DEF Sends, screenVars, historyVars
<1> QED BY <1>3, <1>4, <1>5 DEF Typed

\* A line that is handled leaves the server alone.
LEMMA HandledTypes ==
  ASSUME Typed, channel # <<>>, Handled
  PROVE  /\ server' \in Table /\ channel' \in Seq(Messages) /\ sent' \in 0 .. MaxSent
         /\ over' \in BOOLEAN /\ framed' \in BOOLEAN
BY LineIs DEF Handled, Typed

LEMMA TypedLines ==
  ASSUME Typed, DrawCard \/ DiscardCard \/ PlayCard \/ ResolveCombat \/ HandleFullState
  PROVE  Typed'
<1>1. channel # <<>> /\ Handled
  BY DEF DrawCard, DiscardCard, PlayCard, ResolveCombat, HandleFullState, Receives
<1>2. /\ server' \in Table /\ channel' \in Seq(Messages) /\ sent' \in 0 .. MaxSent
      /\ over' \in BOOLEAN /\ framed' \in BOOLEAN
  BY <1>1, HandledTypes
<1>3. CASE DrawCard
  <2>1. table' \in GoodTable
    BY <1>3, DrawCardTable
  <2>2. queued' \in BOOLEAN
    BY <1>3 DEF DrawCard, Typed
  <2>3. UNCHANGED <<held, pending, barrier, active, animated, ended, overtaken>>
    BY <1>3 DEF DrawCard, historyVars
  <2> QED BY <1>2, <2>1, <2>2, <2>3 DEF Typed
<1>4. CASE DiscardCard
  <2>1. table' \in GoodTable
    BY <1>4, DiscardCardTable
  <2>2. UNCHANGED <<held, pending, barrier, queued, active, animated, ended, overtaken>>
    BY <1>4 DEF DiscardCard, screenVars, historyVars
  <2> QED BY <1>2, <2>1, <2>2 DEF Typed
<1>5. CASE PlayCard
  <2>1. table' \in GoodTable
    BY <1>5, PlayCardTable
  <2>2. queued' \in BOOLEAN /\ overtaken' \in BOOLEAN
    BY <1>5 DEF PlayCard, Typed
  <2>3. UNCHANGED <<held, pending, barrier, active, animated, ended>>
    BY <1>5 DEF PlayCard
  <2> QED BY <1>2, <2>1, <2>2, <2>3 DEF Typed
<1>6. CASE ResolveCombat
  <2>1. queued' \in BOOLEAN /\ barrier' \in BOOLEAN
    BY <1>6 DEF ResolveCombat, Typed
  <2>2. UNCHANGED <<table, held, pending, active, animated, ended, overtaken>>
    BY <1>6 DEF ResolveCombat, historyVars
  <2> QED BY <1>2, <2>1, <2>2 DEF Typed
<1>7. CASE HandleFullState
  <2>1. Line.cmd = "FULL_STATE" /\ Line.table \in Snapshot
    BY <1>1, <1>7, LineIs, MessageIs DEF HandleFullState, Receives, Line
  <2>2. table' = Synced(table, Line.table)
    BY <1>7 DEF HandleFullState
  <2>3. table' \in GoodTable
    BY <2>1, <2>2, SyncedIs DEF SnapshotShows, Typed
  <2>4. overtaken' \in BOOLEAN
    BY <1>7 DEF HandleFullState, Typed
  <2>5. UNCHANGED <<held, pending, barrier, queued, active, animated, ended>>
    BY <1>7 DEF HandleFullState, screenVars
  <2> QED BY <1>2, <2>3, <2>4, <2>5 DEF Typed
<1> QED BY <1>3, <1>4, <1>5, <1>6, <1>7

LEMMA TypedUpdates ==
  ASSUME Typed, HoldUpdate \/ ApplyUpdate
  PROVE  Typed'
<1>1. channel # <<>> /\ Handled /\ Line \in StatUpdates
  BY DEF HoldUpdate, ApplyUpdate, NextIsUpdate
<1>2. /\ server' \in Table /\ channel' \in Seq(Messages) /\ sent' \in 0 .. MaxSent
      /\ over' \in BOOLEAN /\ framed' \in BOOLEAN
  BY <1>1, HandledTypes
<1>3. CASE HoldUpdate
  <2>1. held' \in Seq(StatUpdates)
    BY <1>1, <1>3, AppendProperties DEF HoldUpdate, Typed
  <2>2. UNCHANGED <<table, pending, barrier, queued, active, animated, ended, overtaken>>
    BY <1>3 DEF HoldUpdate, historyVars
  <2> QED BY <1>2, <2>1, <2>2 DEF Typed
<1>4. CASE ApplyUpdate
  <2>1. Updated(Display, Line) \in Screens
    BY <1>1, DisplayIs, UpdatedIs DEF UpdatesTo, Typed
  <2>2. /\ table' \in GoodTable /\ pending' \in Seq(Zones)
        /\ queued' \in BOOLEAN /\ ended' \in BOOLEAN
    BY <1>4, <2>1, ScreenIs DEF ApplyUpdate, Displays
  <2>3. UNCHANGED <<held, barrier, active, animated, overtaken>>
    BY <1>4 DEF ApplyUpdate
  <2> QED BY <1>2, <2>2, <2>3 DEF Typed
<1> QED BY <1>3, <1>4

\* What the rest of a frame does: nothing is flushed and all held updates stay, or all
\* of them come, one after another, after the zones whose time has come are cleared.
FrameEnds(gone, runs) ==
  \/ /\ held # <<>> /\ ~(animated /\ runs)
     /\ Displays(Flushed(gone)) /\ held' = <<>> /\ barrier' = FALSE
  \/ /\ held = <<>> \/ (animated /\ runs)
     /\ Displays(gone) /\ UNCHANGED <<held, barrier>>

LEMMA FrameIs ==
  ASSUME Typed, EndOfFrame
  PROVE  /\ \E gone \in Screens, runs \in BOOLEAN :
              /\ gone.table.hand = table.hand /\ gone.table.deck = table.deck
              /\ gone.table.health = table.health
              /\ Shows(gone.table, gone.pending) = Shows(table, pending)
              /\ active' = runs
              /\ FrameEnds(gone, runs)
         /\ UNCHANGED <<server, channel, sent, over, animated, overtaken>>
         /\ framed' = FALSE
<1>1. PICK waits \in BOOLEAN, runs \in BOOLEAN, due \in 0 .. Len(pending) :
       /\ active' = runs
       /\ LET rest == SubSeq(pending, due + 1, Len(pending))
              gone == FoldLeft(Cleared, [Display EXCEPT !.queued = waits, !.pending = rest],
                               SubSeq(pending, 1, due))
          IN IF held # <<>> /\ ~(animated /\ runs)
             THEN Displays(Flushed(gone)) /\ held' = <<>> /\ barrier' = FALSE
             ELSE Displays(gone) /\ UNCHANGED <<held, barrier>>
  BY DEF EndOfFrame
<1> DEFINE gone == FoldLeft(Cleared, [Display EXCEPT !.queued = waits,
                                                     !.pending = SubSeq(pending, due + 1, Len(pending))],
                            SubSeq(pending, 1, due))
<1>2. /\ gone \in Screens
      /\ gone.table.hand = table.hand /\ gone.table.deck = table.deck
      /\ gone.table.health = table.health
      /\ Shows(gone.table, gone.pending) = Shows(table, pending)
  BY GoneIs
<1>3. IF held # <<>> /\ ~(animated /\ runs)
      THEN Displays(Flushed(gone)) /\ held' = <<>> /\ barrier' = FALSE
      ELSE Displays(gone) /\ UNCHANGED <<held, barrier>>
  BY <1>1
<1> HIDE DEF gone
<1>4. FrameEnds(gone, runs)
  BY <1>3 DEF FrameEnds
<1>5. UNCHANGED <<server, channel, sent, over, animated, overtaken>>
  BY DEF EndOfFrame, serverVars
<1>6. framed' = FALSE
  BY DEF EndOfFrame
<1> QED BY <1>1, <1>2, <1>4, <1>5, <1>6

\* All the held updates show what they say.
LEMMA FlushedIs ==
  ASSUME Typed, NEW d \in Screens, NEW h \in [0 .. Len(held) -> [Players -> Int]],
         NEW s \in [0 .. Len(held) -> [Zones -> Body]],
         h[0] = d.table.health, s[0] = Shows(d.table, d.pending),
         \A i \in 1 .. Len(held) :
           h[i] = HealthAfter(h[i - 1], held[i]) /\ s[i] = ZonesAfter(s[i - 1], held[i])
  PROVE  /\ Flushed(d) \in Screens
         /\ Flushed(d).table.hand = d.table.hand /\ Flushed(d).table.deck = d.table.deck
         /\ Flushed(d).table.health = h[Len(held)]
         /\ Shows(Flushed(d).table, Flushed(d).pending) = s[Len(held)]
<1> DEFINE N == Len(held)
<1>1. held \in Seq(StatUpdates) /\ N \in Nat /\ animated \in BOOLEAN
  BY LenProperties DEF Typed
<1>2. \A i \in 1 .. N : held[i] \in StatUpdates
  BY <1>1, ElementOfSeq
<1>3. PICK v \in [0 .. N -> Screens] :
        /\ v[0] = d
        /\ \A k \in 0 .. N - 1 : v[k + 1] = Updated(v[k], held[k + 1])
        /\ Flushed(d) = v[N]
  BY <1>1, FlushRuns, Zenon
<1>4. \A i \in 1 .. N :
        h[i] = HealthAfter(h[i - 1], held[i]) /\ s[i] = ZonesAfter(s[i - 1], held[i])
  OBVIOUS
<1> HIDE DEF N
<1> DEFINE Right(k) ==
      /\ v[k].table.hand = d.table.hand /\ v[k].table.deck = d.table.deck
      /\ v[k].table.health = h[k]
      /\ Shows(v[k].table, v[k].pending) = s[k]
<1> DEFINE T == {k \in Nat : k <= N => Right(k)}
<1>5. 0 \in T
  BY <1>3
<1>6. ASSUME NEW k \in Nat, k \in T PROVE k + 1 \in T
  <2> SUFFICES ASSUME k + 1 <= N PROVE Right(k + 1)
    OBVIOUS
  <2>1. k \in 0 .. N - 1 /\ k \in 0 .. N /\ k + 1 \in 1 .. N /\ k + 1 - 1 = k /\ Right(k)
    BY <1>1, <1>6
  <2>2. v[k] \in Screens /\ held[k + 1] \in StatUpdates /\ v[k + 1] = Updated(v[k], held[k + 1])
    BY <1>2, <1>3, <2>1
  <2>3. UpdatesTo(v[k], held[k + 1], v[k + 1])
    BY <1>1, <2>2, UpdatedIs
  <2>4. h[k + 1] = HealthAfter(h[k], held[k + 1]) /\ s[k + 1] = ZonesAfter(s[k], held[k + 1])
    BY <1>4, <2>1
  <2> QED BY <2>1, <2>3, <2>4 DEF UpdatesTo
<1>7. Right(N)
  <2>1. N \in T
    <3> HIDE DEF T
    <3> QED BY <1>1, <1>5, <1>6, SetInduction
  <2> QED BY <1>1, <2>1
<1>8. v[N] \in Screens
  BY <1>1, <1>3
<1> QED BY <1>3, <1>7, <1>8 DEF N

LEMMA FlushedTypes ==
  ASSUME Typed, NEW d \in Screens
  PROVE  Flushed(d) \in Screens
<1>1. held \in Seq(StatUpdates) /\ animated \in BOOLEAN /\ Len(held) \in Nat
  BY LenProperties DEF Typed
<1>2. PICK v \in [0 .. Len(held) -> Screens] : Flushed(d) = v[Len(held)]
  BY <1>1, FlushRuns
<1> QED BY <1>1, <1>2

LEMMA TypedFrame ==
  ASSUME Typed, EndOfFrame
  PROVE  Typed'
<1>1. PICK gone \in Screens, runs \in BOOLEAN : active' = runs /\ FrameEnds(gone, runs)
  BY FrameIs
<1>2. UNCHANGED <<server, channel, sent, over, animated, overtaken>> /\ framed' = FALSE
  BY FrameIs
<1>3. CASE Displays(Flushed(gone)) /\ held' = <<>> /\ barrier' = FALSE
  <2>1. Flushed(gone) \in Screens
    BY FlushedTypes
  <2>2. /\ table' \in GoodTable /\ pending' \in Seq(Zones)
        /\ queued' \in BOOLEAN /\ ended' \in BOOLEAN
    BY <1>3, <2>1, ScreenIs DEF Displays
  <2>3. held' \in Seq(StatUpdates)
    BY <1>3, EmptySeq
  <2> QED BY <1>1, <1>2, <1>3, <2>2, <2>3 DEF Typed
<1>4. CASE Displays(gone) /\ UNCHANGED <<held, barrier>>
  <2>1. /\ table' \in GoodTable /\ pending' \in Seq(Zones)
        /\ queued' \in BOOLEAN /\ ended' \in BOOLEAN
    BY <1>4, ScreenIs DEF Displays
  <2> QED BY <1>1, <1>2, <1>4, <2>1 DEF Typed
<1> QED BY <1>1, <1>3, <1>4 DEF FrameEnds

LEMMA TypedSteps == Typed /\ [Next]_vars => Typed'
<1> SUFFICES ASSUME Typed, [Next]_vars PROVE Typed'
  OBVIOUS
<1>1. CASE UNCHANGED vars
  BY <1>1 DEF vars, serverVars, screenVars, historyVars, Typed
<1> QED BY <1>1, TypedServer, TypedLines, TypedUpdates, TypedFrame DEF Next, ClientNext

LEMMA TypedImplies == Typed => TypeOK
<1> SUFFICES ASSUME Typed PROVE TypeOK
  OBVIOUS
<1>1. table \in Table /\ \A p \in Players, c \in Cards : Holdings(table, p, c) <= Decks[p][c]
  BY DEF Typed, GoodTable
<1>2. ASSUME NEW i \in DOMAIN channel
      PROVE  channel[i] \in Lines \/ channel[i] = FullState(channel[i].table)
  <2>1. channel[i] \in Messages
    BY LenProperties, ElementOfSeq DEF Typed
  <2>2. CASE channel[i] \in Lines
    BY <2>2
  <2>3. CASE \E s \in Snapshot : channel[i] = FullState(s)
    <3>1. PICK s \in Snapshot : channel[i] = FullState(s)
      BY <2>3
    <3>2. FullState(s).table = s
      BY DEF FullState
    <3> QED BY <3>1, <3>2
  <2> QED BY <2>1, <2>2, <2>3 DEF Messages
<1>3. <<over, framed, barrier, queued, active, animated, ended, overtaken>> \in Seq(BOOLEAN)
  BY DEF Typed
<1> QED BY <1>1, <1>2, <1>3 DEF Typed, TypeOK

\* Every variable has its type, and no card is ever shown at two places.
THEOREM TypeCorrect == Spec => []TypeOK
<1> QED BY TypedStarts, TypedSteps, TypedImplies, PTL DEF Spec

-----------------------------------------------------------------------------
(* Snapshots.                                                              *)

\* Only a snapshot that is worked in takes such a line from the channel.
LEMMA SnapshotSteps ==
  ASSUME Typed, [Next]_vars, Receives("FULL_STATE"), Len(channel') < Len(channel)
  PROVE  /\ HandleFullState
         /\ Line \in Messages /\ Line = FullState(Line.table) /\ Line.table \in Snapshot
<1>1. /\ channel \in Seq(Messages) /\ channel # <<>> /\ Line.cmd = "FULL_STATE"
      /\ Len(channel) \in Nat
  BY LenProperties DEF Typed, Receives, Line
<1>2. Line \in Messages
  BY <1>1, LineIs
<1>3. Line = FullState(Line.table) /\ Line.table \in Snapshot /\ Line \notin StatUpdates
  BY <1>1, <1>2, MessageIs
<1>4. channel' # channel
  <2> SUFFICES ASSUME channel' = channel PROVE FALSE
    OBVIOUS
  <2> QED BY <1>1
<1>5. ~ ServerNext
  <2> SUFFICES ASSUME ServerNext PROVE FALSE
    OBVIOUS
  <2>1. PICK m, u : Legal(server, m, u) /\ Sends(u, m)
    BY ServerSteps
  <2>2. m \in Messages
    BY <2>1, LegalTypes DEF Typed
  <2>3. channel' = Append(channel, m)
    BY <2>1 DEF Sends
  <2>4. Len(channel') = Len(channel) + 1
    BY <1>1, <2>2, <2>3, AppendProperties
  <2> QED BY <1>1, <2>4
<1>6. ~ (DrawCard \/ DiscardCard \/ PlayCard \/ ResolveCombat)
  BY <1>1 DEF DrawCard, DiscardCard, PlayCard, ResolveCombat, Receives, Line
<1>7. ~ (HoldUpdate \/ ApplyUpdate)
  BY <1>3 DEF HoldUpdate, ApplyUpdate, NextIsUpdate
<1>8. ~ EndOfFrame /\ ~ UNCHANGED vars
  BY <1>4 DEF EndOfFrame, vars, serverVars
<1> QED BY <1>2, <1>3, <1>5, <1>6, <1>7, <1>8 DEF Next, ClientNext

\* A snapshot leaves nothing on the screen that is not in it, whatever the client had
\* held back or got wrong before.
THEOREM NothingFalseShown == Spec => NothingFalse
<1>1. Init => Typed
  BY TypedStarts
<1>2. Typed /\ [Next]_vars => Typed'
  BY TypedSteps
<1>3. Typed /\ [Next]_vars =>
        [Receives("FULL_STATE") /\ Len(channel') < Len(channel) =>
           /\ table'.health = Line.table.health
           /\ \A z \in Zones : table'.zone[z] \in {Line.table.zone[z], Empty}
           /\ \A p \in Players, c \in Cards : table'.hand[p][c] <= Line.table.hand[p][c]]_vars
  <2> SUFFICES ASSUME Typed, [Next]_vars, Receives("FULL_STATE"), Len(channel') < Len(channel)
               PROVE  /\ table'.health = Line.table.health
                      /\ \A z \in Zones : table'.zone[z] \in {Line.table.zone[z], Empty}
                      /\ \A p \in Players, c \in Cards : table'.hand[p][c] <= Line.table.hand[p][c]
    OBVIOUS
  <2>1. HandleFullState /\ Line.table \in Snapshot
    BY SnapshotSteps
  <2>2. table \in GoodTable /\ table' = Synced(table, Line.table)
    BY <2>1 DEF Typed, HandleFullState
  <2>3. SnapshotShows(table, Line.table, Synced(table, Line.table))
    BY <2>1, <2>2, SyncedIs
  <2> QED BY <2>2, <2>3 DEF SnapshotShows
<1> QED BY <1>1, <1>2, <1>3, PTL DEF Spec, NothingFalse

-----------------------------------------------------------------------------
(* The tables behind the lines, as lines are sent and handled.              *)

LEMMA BehindSent ==
  ASSUME NEW lines \in Seq(Messages), NEW now \in Table, NEW ts, Behind(lines, now, ts),
         NEW m, NEW u, Legal(now, m, u)
  PROVE  \E us : Behind(Append(lines, m), u, us) /\ us[0] = ts[0]
<1> DEFINE n == Len(lines)
<1>1. n \in Nat /\ u \in Table /\ m \in Messages
  BY LegalTypes, LenProperties
<1>2. /\ Len(Append(lines, m)) = n + 1 /\ Append(lines, m)[n + 1] = m
      /\ \A i \in 1 .. n : Append(lines, m)[i] = lines[i]
  BY <1>1, AppendProperties
<1>3. /\ ts \in [0 .. n -> Table] /\ ts[n] = now
      /\ \A i \in 1 .. n : Legal(ts[i - 1], lines[i], ts[i])
  BY DEF Behind
<1> DEFINE us == [i \in 0 .. n + 1 |-> IF i <= n THEN ts[i] ELSE u]
<1> HIDE DEF n
<1>4. /\ \A i \in 0 .. n : us[i] = ts[i] /\ us[i] \in Table
      /\ us[n + 1] = u /\ us \in [0 .. n + 1 -> Table]
  BY <1>1, <1>3
<1> HIDE DEF us
<1>5. ASSUME NEW i \in 1 .. n + 1 PROVE Legal(us[i - 1], Append(lines, m)[i], us[i])
  <2>1. CASE i \in 1 .. n
    <3>1. i - 1 \in 0 .. n /\ i \in 0 .. n
      BY <1>1, <2>1
    <3>2. us[i - 1] = ts[i - 1] /\ us[i] = ts[i] /\ Append(lines, m)[i] = lines[i]
      BY <1>2, <1>4, <2>1, <3>1
    <3> QED BY <1>3, <2>1, <3>2
  <2>2. CASE i = n + 1
    <3>1. i - 1 = n /\ n \in 0 .. n
      BY <1>1, <2>2
    <3>2. us[i - 1] = now /\ us[i] = u /\ Append(lines, m)[i] = m
      BY <1>2, <1>3, <1>4, <2>2, <3>1
    <3> QED BY <3>2
  <2>3. i \in 1 .. n \/ i = n + 1
    BY <1>1
  <2> QED BY <2>1, <2>2, <2>3
<1>6. Behind(Append(lines, m), u, us)
  BY <1>2, <1>4, <1>5 DEF Behind
<1>7. us[0] = ts[0]
  BY <1>1, <1>4
<1> QED BY <1>6, <1>7

\* Without the first k lines.
LEMMA BehindRest ==
  ASSUME NEW lines \in Seq(Messages), NEW now, NEW ts, Behind(lines, now, ts),
         NEW rest \in Seq(Messages), NEW k \in Nat, Len(lines) = Len(rest) + k,
         \A i \in 1 .. Len(rest) : rest[i] = lines[i + k]
  PROVE  \E us : Behind(rest, now, us) /\ us[0] = ts[k]
<1>1. PICK n : n = Len(lines)
  OBVIOUS
<1>2. PICK r : r = Len(rest)
  OBVIOUS
<1>3. n \in Nat /\ r \in Nat /\ n = r + k
  BY <1>1, <1>2, LenProperties
<1>4. /\ ts \in [0 .. n -> Table] /\ ts[n] = now
      /\ \A i \in 1 .. n : Legal(ts[i - 1], lines[i], ts[i])
  BY <1>1 DEF Behind
<1> DEFINE us == [i \in 0 .. r |-> ts[i + k]]
<1>5. us \in [0 .. r -> Table] /\ us[r] = now /\ us[0] = ts[k]
  <2>1. \A i \in 0 .. r : i + k \in 0 .. n
    BY <1>3
  <2> QED BY <1>3, <1>4, <2>1
<1>6. ASSUME NEW i \in 1 .. r PROVE Legal(us[i - 1], rest[i], us[i])
  <2>1. PICK j : j = i + k
    OBVIOUS
  <2>2. i - 1 \in 0 .. r /\ i \in 0 .. r /\ j \in 1 .. n /\ i - 1 + k = j - 1
    BY <1>3, <2>1
  <2>3. us[i - 1] = ts[j - 1] /\ us[i] = ts[j]
    BY <2>1, <2>2
  <2>4. rest[i] = lines[j]
    BY <1>2, <2>1
  <2>5. Legal(ts[j - 1], lines[j], ts[j])
    BY <1>4, <2>2
  <2> QED BY <2>3, <2>4, <2>5
<1> HIDE DEF us
<1>7. Behind(rest, now, us)
  BY <1>2, <1>5, <1>6 DEF Behind
<1> QED BY <1>5, <1>7

LEMMA BehindHandled ==
  ASSUME NEW lines \in Seq(Messages), NEW now, NEW ts, Behind(lines, now, ts), lines # <<>>
  PROVE  /\ Legal(ts[0], Head(lines), ts[1]) /\ ts[0] \in Table /\ ts[1] \in Table
         /\ \E us : Behind(Tail(lines), now, us) /\ us[0] = ts[1]
<1>1. PICK n : n = Len(lines)
  OBVIOUS
<1>2. n \in Nat /\ n >= 1 /\ Head(lines) = lines[1]
  BY <1>1
<1>3. Tail(lines) \in Seq(Messages) /\ Len(lines) = Len(Tail(lines)) + 1
  BY <1>1, <1>2
<1>4. \A i \in 1 .. Len(Tail(lines)) : Tail(lines)[i] = lines[i + 1]
  OBVIOUS
<1>5. \E us : Behind(Tail(lines), now, us) /\ us[0] = ts[1]
  <2> DEFINE rest == Tail(lines)
  <2> HIDE DEF rest
  <2>1. rest \in Seq(Messages) /\ Len(lines) = Len(rest) + 1 /\ \A i \in 1 .. Len(rest) : rest[i] = lines[i + 1]
    BY <1>3, <1>4 DEF rest
  <2>2. \E us : Behind(rest, now, us) /\ us[0] = ts[1]
    BY <2>1, BehindRest, 1 \in Nat
  <2> QED BY <2>2 DEF rest
<1>6. 1 \in 1 .. n /\ 0 \in 0 .. n /\ 1 \in 0 .. n /\ 1 - 1 = 0
  BY <1>2
<1>7. Legal(ts[1 - 1], lines[1], ts[1]) /\ ts[0] \in Table /\ ts[1] \in Table
  BY <1>1, <1>6 DEF Behind
<1> QED BY <1>2, <1>5, <1>6, <1>7

-----------------------------------------------------------------------------
(* What the held updates will show.                                        *)

\* Healths and zones, one after each held update, from what the client shows to table
\* t; every update finds its creature.
Leads(ms, health, zone, t, h, s) ==
  /\ h \in [0 .. Len(ms) -> [Players -> Int]] /\ s \in [0 .. Len(ms) -> [Zones -> Body]]
  /\ h[0] = health /\ s[0] = zone
  /\ \A i \in 1 .. Len(ms) :
       /\ h[i] = HealthAfter(h[i - 1], ms[i])
       /\ s[i] = ZonesAfter(s[i - 1], ms[i])
       /\ ms[i].cmd \in ZoneUpdates => s[i - 1][ms[i].zone] # Empty
  /\ h[Len(ms)] = t.health /\ s[Len(ms)] = t.zone

Waits(ms, health, zone, t) == \E h, s : Leads(ms, health, zone, t, h, s)

LEMMA WaitsNone ==
  ASSUME NEW health \in [Players -> Int], NEW zone \in [Zones -> Body], NEW t
  PROVE  Waits(<<>>, health, zone, t) <=> t.health = health /\ t.zone = zone
<1>1. ASSUME Waits(<<>>, health, zone, t) PROVE t.health = health /\ t.zone = zone
  <2>1. PICK h, s : Leads(<<>>, health, zone, t, h, s)
    BY <1>1 DEF Waits
  <2>2. Len(<<>>) = 0
    OBVIOUS
  <2> QED BY <2>1, <2>2 DEF Leads
<1>2. ASSUME t.health = health, t.zone = zone PROVE Waits(<<>>, health, zone, t)
  <2>1. Len(<<>>) = 0 /\ 1 .. 0 = {}
    OBVIOUS
  <2>2. Leads(<<>>, health, zone, t, [i \in 0 .. 0 |-> health], [i \in 0 .. 0 |-> zone])
    BY <1>2, <2>1 DEF Leads
  <2> QED BY <2>2 DEF Waits
<1> QED BY <1>1, <1>2

LEMMA WaitsSame ==
  ASSUME NEW ms, NEW health, NEW zone, NEW t, NEW u, Waits(ms, health, zone, t),
         u.health = t.health, u.zone = t.zone
  PROVE  Waits(ms, health, zone, u)
BY DEF Waits, Leads

LEMMA WaitsMore ==
  ASSUME NEW ms \in Seq(StatUpdates), NEW health, NEW zone, NEW t \in Table,
         Waits(ms, health, zone, t), NEW m, NEW u, Tells(t, m, u)
  PROVE  Waits(Append(ms, m), health, zone, u)
<1>1. PICK h, s : Leads(ms, health, zone, t, h, s)
  BY DEF Waits
<1>2. PICK n : n = Len(ms)
  OBVIOUS
<1>3. n \in Nat /\ m \in StatUpdates /\ u \in Table
  BY <1>2, LenProperties DEF Tells
<1>4. PICK more : more = Append(ms, m)
  OBVIOUS
<1>5. Len(more) = n + 1 /\ more[n + 1] = m /\ \A i \in 1 .. n : more[i] = ms[i]
  BY <1>2, <1>3, <1>4, AppendProperties
<1>6. /\ h \in [0 .. n -> [Players -> Int]] /\ s \in [0 .. n -> [Zones -> Body]]
      /\ h[0] = health /\ s[0] = zone /\ h[n] = t.health /\ s[n] = t.zone
  BY <1>1, <1>2 DEF Leads
<1>7. \A i \in 1 .. n :
        /\ h[i] = HealthAfter(h[i - 1], ms[i])
        /\ s[i] = ZonesAfter(s[i - 1], ms[i])
        /\ ms[i].cmd \in ZoneUpdates => s[i - 1][ms[i].zone] # Empty
  BY <1>1, <1>2 DEF Leads
<1>8. /\ u.health \in [Players -> Int] /\ u.zone \in [Zones -> Body]
      /\ u.health = HealthAfter(t.health, m) /\ u.zone = ZonesAfter(t.zone, m)
      /\ m.cmd \in ZoneUpdates => t.zone[m.zone] # Empty
  BY <1>3, TableIs DEF Tells
<1> DEFINE g == [i \in 0 .. n + 1 |-> IF i <= n THEN h[i] ELSE u.health]
<1> DEFINE r == [i \in 0 .. n + 1 |-> IF i <= n THEN s[i] ELSE u.zone]
<1>9. /\ g \in [0 .. n + 1 -> [Players -> Int]] /\ r \in [0 .. n + 1 -> [Zones -> Body]]
      /\ g[n + 1] = u.health /\ r[n + 1] = u.zone
  BY <1>3, <1>6, <1>8
<1>10. \A i \in 0 .. n : g[i] = h[i] /\ r[i] = s[i]
  BY <1>3
<1> HIDE DEF g, r
<1>11. ASSUME NEW i \in 1 .. n + 1
       PROVE  /\ g[i] = HealthAfter(g[i - 1], more[i])
              /\ r[i] = ZonesAfter(r[i - 1], more[i])
              /\ more[i].cmd \in ZoneUpdates => r[i - 1][more[i].zone] # Empty
  <2>1. CASE i \in 1 .. n
    <3>1. i - 1 \in 0 .. n /\ i \in 0 .. n
      BY <1>3, <2>1
    <3>2. g[i - 1] = h[i - 1] /\ g[i] = h[i] /\ r[i - 1] = s[i - 1] /\ r[i] = s[i] /\ more[i] = ms[i]
      BY <1>5, <1>10, <2>1, <3>1
    <3> QED BY <1>7, <2>1, <3>2
  <2>2. CASE i = n + 1
    <3>1. i - 1 = n /\ n \in 0 .. n
      BY <1>3, <2>2
    <3>2. g[i - 1] = t.health /\ r[i - 1] = t.zone
      BY <1>6, <1>10, <3>1
    <3>3. g[i] = u.health /\ r[i] = u.zone /\ more[i] = m
      BY <1>5, <1>9, <2>2
    <3> QED BY <1>8, <3>2, <3>3
  <2>3. i \in 1 .. n \/ i = n + 1
    BY <1>3
  <2> QED BY <2>1, <2>2, <2>3
<1>12. g[0] = health /\ r[0] = zone
  BY <1>3, <1>6, <1>10
<1>13. Leads(more, health, zone, u, g, r)
  BY <1>5, <1>9, <1>11, <1>12 DEF Leads
<1> QED BY <1>4, <1>13 DEF Waits

\* When all the held updates come at once.
LEMMA WaitsFlushed ==
  ASSUME Typed, NEW d \in Screens, NEW t, Waits(held, d.table.health, Shows(d.table, d.pending), t)
  PROVE  /\ Flushed(d) \in Screens
         /\ Flushed(d).table.hand = d.table.hand /\ Flushed(d).table.deck = d.table.deck
         /\ Flushed(d).table.health = t.health
         /\ Shows(Flushed(d).table, Flushed(d).pending) = t.zone
<1>1. PICK h, s : Leads(held, d.table.health, Shows(d.table, d.pending), t, h, s)
  BY DEF Waits
<1>2. /\ h \in [0 .. Len(held) -> [Players -> Int]] /\ s \in [0 .. Len(held) -> [Zones -> Body]]
      /\ h[0] = d.table.health /\ s[0] = Shows(d.table, d.pending)
      /\ \A i \in 1 .. Len(held) :
           h[i] = HealthAfter(h[i - 1], held[i]) /\ s[i] = ZonesAfter(s[i - 1], held[i])
      /\ h[Len(held)] = t.health /\ s[Len(held)] = t.zone
  BY <1>1 DEF Leads
<1> QED BY <1>2, FlushedIs

-----------------------------------------------------------------------------
(* A creature is played while updates are held.                            *)

\* A zone that ends empty, with no creature of it destroyed by a held update, was empty
\* all along.
LEMMA EmptyBefore ==
  ASSUME NEW ms \in Seq(StatUpdates), NEW health, NEW zone, NEW t, NEW h, NEW s,
         Leads(ms, health, zone, t, h, s), NEW z \in Zones, ~ Contains(ms, Destroy(z)),
         t.zone[z] = Empty
  PROVE  \A i \in 0 .. Len(ms) : s[i][z] = Empty
<1>1. PICK n : n = Len(ms)
  OBVIOUS
<1>2. n \in Nat
  BY <1>1, LenProperties
<1>3. /\ s \in [0 .. n -> [Zones -> Body]] /\ s[n][z] = Empty
      /\ \A i \in 1 .. n :
           /\ s[i] = ZonesAfter(s[i - 1], ms[i])
           /\ ms[i].cmd \in ZoneUpdates => s[i - 1][ms[i].zone] # Empty
  BY <1>1 DEF Leads
<1>4. ASSUME NEW i \in 1 .. n PROVE ms[i] \in StatUpdates /\ ms[i] # Destroy(z)
  BY <1>1, ElementOfSeq DEF Contains
<1> DEFINE T == {k \in Nat : k <= n => s[n - k][z] = Empty}
<1>5. 0 \in T
  BY <1>2, <1>3
<1>6. ASSUME NEW k \in Nat, k \in T PROVE k + 1 \in T
  <2> SUFFICES ASSUME k + 1 <= n PROVE s[n - (k + 1)][z] = Empty
    OBVIOUS
  <2>1. PICK i : i = n - k
    OBVIOUS
  <2>2. i \in 1 .. n /\ i - 1 \in 0 .. n /\ n - (k + 1) = i - 1 /\ s[i][z] = Empty
    BY <1>2, <1>6, <2>1
  <2>3. s[i - 1] \in [Zones -> Body] /\ s[i] = ZonesAfter(s[i - 1], ms[i])
    BY <1>3, <2>2
  <2>4. CASE ms[i].cmd \in ZoneUpdates /\ ms[i].zone = z
    <3>1. s[i - 1][z] # Empty /\ s[i - 1][z] \in Body
      BY <1>3, <2>2, <2>3, <2>4
    <3>2. ms[i].cmd # "DESTROY"
      <4> SUFFICES ASSUME ms[i].cmd = "DESTROY" PROVE FALSE
        OBVIOUS
      <4>1. ms[i] = Destroy(z)
        BY <1>4, <2>2, <2>4 DEF StatUpdates, Augment, EffectAdd, EffectRemove, Destroy, Hp, MatchOver
      <4> QED BY <1>4, <2>2, <4>1
    <3>3. s[i][z] = Changed(s[i - 1][z], ms[i].cmd)
      BY <2>3, <2>4 DEF ZonesAfter
    <3>4. Changed(s[i - 1][z], ms[i].cmd) # Empty
      <4>1. s[i - 1][z] \in Creature
        BY <3>1 DEF Body
      <4>2. PICK b : b = s[i - 1][z]
        OBVIOUS
      <4>3. [b EXCEPT !.augment = @ + 1] \in Creature
        BY <4>1, <4>2 DEF Creature
      <4>4. [b EXCEPT !.effect = (ms[i].cmd = "EFFECT_ADD")] \in Creature
        BY <4>1, <4>2 DEF Creature
      <4> QED BY <3>1, <3>2, <4>2, <4>3, <4>4, EmptyIsNone DEF Changed
    <3> QED BY <2>2, <3>3, <3>4
  <2>5. CASE ~ (ms[i].cmd \in ZoneUpdates /\ ms[i].zone = z)
    <3>1. s[i][z] = s[i - 1][z]
      BY <2>3, <2>5 DEF ZonesAfter
    <3> QED BY <2>2, <3>1
  <2> QED BY <2>4, <2>5
<1>7. ASSUME NEW i \in 0 .. n PROVE s[i][z] = Empty
  <2>1. PICK k : k = n - i
    OBVIOUS
  <2>2. k \in Nat /\ k <= n /\ n - k = i
    BY <1>2, <2>1
  <2>3. k \in T
    <3> HIDE DEF T
    <3> QED BY <1>5, <1>6, <2>2, SetInduction
  <2> QED BY <2>2, <2>3
<1> QED BY <1>1, <1>7

\* So the creature may come before the held updates as well as after them.
LEMMA WaitsSummons ==
  ASSUME NEW ms \in Seq(StatUpdates), NEW health, NEW zone, NEW t \in Table, NEW z \in Zones,
         Waits(ms, health, zone, t), ~ Contains(ms, Destroy(z)), t.zone[z] = Empty,
         NEW b \in Body, NEW u, u.health = t.health, u.zone = [t.zone EXCEPT ![z] = b]
  PROVE  zone[z] = Empty /\ Waits(ms, health, [zone EXCEPT ![z] = b], u)
<1>1. PICK h, s : Leads(ms, health, zone, t, h, s)
  BY DEF Waits
<1>2. PICK n : n = Len(ms)
  OBVIOUS
<1>3. n \in Nat
  BY <1>2, LenProperties
<1>4. \A i \in 0 .. n : s[i][z] = Empty
  BY <1>1, <1>2, EmptyBefore
<1>5. /\ h \in [0 .. n -> [Players -> Int]] /\ s \in [0 .. n -> [Zones -> Body]]
      /\ h[0] = health /\ s[0] = zone /\ h[n] = t.health /\ s[n] = t.zone
  BY <1>1, <1>2 DEF Leads
<1>6. \A i \in 1 .. n :
        /\ h[i] = HealthAfter(h[i - 1], ms[i])
        /\ s[i] = ZonesAfter(s[i - 1], ms[i])
        /\ ms[i].cmd \in ZoneUpdates => s[i - 1][ms[i].zone] # Empty
  BY <1>1, <1>2 DEF Leads
<1>7. \A i \in 1 .. n : ms[i] \in StatUpdates
  BY <1>2, ElementOfSeq
<1> DEFINE r == [i \in 0 .. n |-> [s[i] EXCEPT ![z] = b]]
<1>8. /\ r \in [0 .. n -> [Zones -> Body]] /\ r[0] = [zone EXCEPT ![z] = b] /\ r[n] = u.zone
  <2>1. \A i \in 0 .. n : [s[i] EXCEPT ![z] = b] \in [Zones -> Body]
    <3> TAKE i \in 0 .. n
    <3>1. s[i] \in [Zones -> Body]
      BY <1>5
    <3> QED BY <3>1
  <2>2. 0 \in 0 .. n /\ n \in 0 .. n
    BY <1>3
  <2>3. r[0] = [s[0] EXCEPT ![z] = b] /\ r[n] = [s[n] EXCEPT ![z] = b]
    BY <2>2
  <2> QED BY <1>5, <2>1, <2>3
<1>9. \A i \in 0 .. n : r[i] = [s[i] EXCEPT ![z] = b]
  OBVIOUS
<1> HIDE DEF r
<1>10. ASSUME NEW i \in 1 .. n
       PROVE  /\ r[i] = ZonesAfter(r[i - 1], ms[i])
              /\ ms[i].cmd \in ZoneUpdates => r[i - 1][ms[i].zone] # Empty
  <2>1. i - 1 \in 0 .. n /\ i \in 0 .. n
    BY <1>3
  <2>2. PICK x, y : x = s[i - 1] /\ y = s[i]
    OBVIOUS
  <2>3. x \in [Zones -> Body] /\ y \in [Zones -> Body] /\ y = ZonesAfter(x, ms[i])
    BY <1>5, <1>6, <2>1, <2>2
  <2>4. x[z] = Empty /\ r[i - 1] = [x EXCEPT ![z] = b] /\ r[i] = [y EXCEPT ![z] = b]
    BY <1>4, <1>9, <2>1, <2>2
  <2>5. CASE ms[i].cmd \in ZoneUpdates
    <3>1. ms[i].zone \in Zones /\ ms[i].zone # z /\ x[ms[i].zone] # Empty
      BY <1>6, <1>7, <2>2, <2>4, <2>5, UpdateIs DEF ZoneUpdates
    <3>2. PICK o : o = ms[i].zone
      OBVIOUS
    <3>3. PICK e : e = Changed(x[o], ms[i].cmd)
      OBVIOUS
    <3>4. y = [x EXCEPT ![o] = e]
      BY <2>3, <2>5, <3>2, <3>3 DEF ZonesAfter
    <3>5. ZonesAfter(r[i - 1], ms[i]) = [r[i - 1] EXCEPT ![o] = e]
      <4>1. r[i - 1][o] = x[o]
        BY <2>3, <2>4, <3>1, <3>2
      <4> QED BY <2>5, <3>2, <3>3, <4>1 DEF ZonesAfter
    <3>6. r[i] = [r[i - 1] EXCEPT ![o] = e]
      BY <2>3, <2>4, <3>1, <3>2, <3>4
    <3>7. r[i - 1][o] # Empty
      BY <2>3, <2>4, <3>1, <3>2
    <3> QED BY <3>2, <3>5, <3>6, <3>7
  <2>6. CASE ms[i].cmd \notin ZoneUpdates
    <3>1. y = x /\ ZonesAfter(r[i - 1], ms[i]) = r[i - 1]
      BY <2>3, <2>6 DEF ZonesAfter
    <3> QED BY <2>4, <2>6, <3>1
  <2> QED BY <2>5, <2>6
<1>11. Leads(ms, health, [zone EXCEPT ![z] = b], u, h, r)
  BY <1>2, <1>5, <1>6, <1>8, <1>10 DEF Leads
<1>12. zone[z] = Empty
  BY <1>3, <1>4, <1>5
<1> QED BY <1>11, <1>12 DEF Waits

-----------------------------------------------------------------------------
(* What each kind of line says of the tables before and after it.          *)

LEMMA LegalIs ==
  ASSUME NEW t, NEW m, NEW u, Legal(t, m, u)
  PROVE  /\ m.cmd = "DRAW" =>
              /\ m.player \in Players /\ m.card \in Cards
              /\ t.deck[m.player][m.card] > 0 /\ u = Draws(t, m.player, m.card)
         /\ m.cmd = "DISCARD" =>
              /\ m.player \in Players /\ m.card \in Cards
              /\ t.hand[m.player][m.card] > 0 /\ u = Drops(t, m.player, m.card)
         /\ m.cmd = "PLAY" =>
              /\ m.player \in Players /\ m.lane \in Lanes /\ t.hand[m.player][m.card] > 0
              /\ \/ m.card \in Spells /\ u = Drops(t, m.player, m.card)
                 \/ /\ m.card \in Creatures /\ t.zone[<<m.player, m.lane>>] = Empty
                    /\ u = Summons(t, m.player, m.card, <<m.player, m.lane>>)
         /\ m.cmd \in {"COMBAT", "DIRECT"} => u = t
         /\ m.cmd = "FULL_STATE" => u = t /\ m.table = Shown(t)
         /\ m \in StatUpdates => Tells(t, m, u)
<1> DEFINE Kinds == {"DRAW", "DISCARD", "PLAY", "COMBAT", "DIRECT", "FULL_STATE"}
<1>1. ASSUME m \in StatUpdates PROVE m.cmd \notin Kinds
  BY <1>1, UpdateIs DEF ZoneUpdates
<1>2. CASE \E p \in Players, c \in Cards :
             t.deck[p][c] > 0 /\ m = Draw(p, c) /\ u = Draws(t, p, c)
  <2>1. m.cmd = "DRAW" /\ m.player \in Players /\ m.card \in Cards
        /\ t.deck[m.player][m.card] > 0 /\ u = Draws(t, m.player, m.card)
    BY <1>2 DEF Draw
  <2> QED BY <1>1, <2>1
<1>3. CASE \E p \in Players, c \in Cards :
             t.hand[p][c] > 0 /\ m = Discard(p, c) /\ u = Drops(t, p, c)
  <2>1. m.cmd = "DISCARD" /\ m.player \in Players /\ m.card \in Cards
        /\ t.hand[m.player][m.card] > 0 /\ u = Drops(t, m.player, m.card)
    BY <1>3 DEF Discard
  <2> QED BY <1>1, <2>1
<1>4. CASE \E p \in Players, c \in Spells, lane \in Lanes :
             t.hand[p][c] > 0 /\ m = Play(p, c, lane) /\ u = Drops(t, p, c)
  <2>1. m.cmd = "PLAY" /\ m.player \in Players /\ m.card \in Spells /\ m.lane \in Lanes
        /\ t.hand[m.player][m.card] > 0 /\ u = Drops(t, m.player, m.card)
    BY <1>4 DEF Play
  <2> QED BY <1>1, <2>1
<1>5. CASE \E p \in Players, c \in Creatures, lane \in Lanes :
             /\ t.hand[p][c] > 0 /\ t.zone[<<p, lane>>] = Empty
             /\ m = Play(p, c, lane) /\ u = Summons(t, p, c, <<p, lane>>)
  <2>1. m.cmd = "PLAY" /\ m.player \in Players /\ m.card \in Creatures /\ m.lane \in Lanes
        /\ t.hand[m.player][m.card] > 0 /\ t.zone[<<m.player, m.lane>>] = Empty
        /\ u = Summons(t, m.player, m.card, <<m.player, m.lane>>)
    BY <1>5 DEF Play
  <2> QED BY <1>1, <2>1
<1>6. CASE (\E lane \in Lanes : m = Combat(lane)) /\ u = t
  <2>1. m.cmd = "COMBAT"
    BY <1>6 DEF Combat
  <2> QED BY <1>1, <1>6, <2>1
<1>7. CASE (\E z \in Zones : m = Direct(z)) /\ u = t
  <2>1. m.cmd = "DIRECT"
    BY <1>7 DEF Direct
  <2> QED BY <1>1, <1>7, <2>1
<1>8. CASE m = FullState(Shown(t)) /\ u = t
  <2>1. m.cmd = "FULL_STATE" /\ m.table = Shown(t)
    BY <1>8 DEF FullState
  <2> QED BY <1>1, <1>8, <2>1
<1>9. CASE Tells(t, m, u)
  <2>1. m \in StatUpdates
    BY <1>9 DEF Tells
  <2> QED BY <1>1, <1>9, <2>1
<1> QED BY <1>2, <1>3, <1>4, <1>5, <1>6, <1>7, <1>8, <1>9 DEF Legal

\* The client has the cards of the table, in the hands and in the decks.
Follows(mine, t) ==
  \A p \in Players, c \in Cards :
    mine.hand[p][c] = t.hand[p][c] /\ mine.deck[p][c] = t.deck[p][c]

LEMMA FollowsSame ==
  ASSUME NEW mine, NEW t, Follows(mine, t),
         NEW ours, NEW u, ours.hand = mine.hand, ours.deck = mine.deck,
         u.hand = t.hand, u.deck = t.deck
  PROVE  Follows(ours, u)
BY DEF Follows

LEMMA FollowsDraws ==
  ASSUME NEW mine \in Table, NEW t \in Table, Follows(mine, t),
         NEW p \in Players, NEW c \in Cards, t.deck[p][c] > 0
  PROVE  mine.deck[p][c] > 0 /\ Follows(Draws(mine, p, c), Draws(t, p, c))
<1>1. PICK x, y : x = Draws(mine, p, c) /\ y = Draws(t, p, c)
  OBVIOUS
<1>2. mine.deck[p][c] > 0
  BY DEF Follows
<1>3. \A q \in Players, d \in Cards :
        /\ x.deck[q][d] = IF q = p /\ d = c THEN mine.deck[q][d] - 1 ELSE mine.deck[q][d]
        /\ x.hand[q][d] = IF q = p /\ d = c THEN mine.hand[q][d] + 1 ELSE mine.hand[q][d]
        /\ y.deck[q][d] = IF q = p /\ d = c THEN t.deck[q][d] - 1 ELSE t.deck[q][d]
        /\ y.hand[q][d] = IF q = p /\ d = c THEN t.hand[q][d] + 1 ELSE t.hand[q][d]
  BY <1>1, <1>2, DrawsIs
<1>4. Follows(x, y)
  BY <1>3 DEF Follows
<1> QED BY <1>1, <1>2, <1>4

LEMMA FollowsDrops ==
  ASSUME NEW mine \in Table, NEW t \in Table, Follows(mine, t),
         NEW p \in Players, NEW c \in Cards, t.hand[p][c] > 0
  PROVE  mine.hand[p][c] > 0 /\ Follows(Drops(mine, p, c), Drops(t, p, c))
<1>1. PICK x, y : x = Drops(mine, p, c) /\ y = Drops(t, p, c)
  OBVIOUS
<1>2. mine.hand[p][c] > 0
  BY DEF Follows
<1>3. /\ x.deck = mine.deck /\ y.deck = t.deck
      /\ \A q \in Players, d \in Cards :
           /\ x.hand[q][d] = IF q = p /\ d = c THEN mine.hand[q][d] - 1 ELSE mine.hand[q][d]
           /\ y.hand[q][d] = IF q = p /\ d = c THEN t.hand[q][d] - 1 ELSE t.hand[q][d]
  BY <1>1, <1>2, DropsIs
<1>4. Follows(x, y)
  BY <1>3 DEF Follows
<1> QED BY <1>1, <1>2, <1>4

-----------------------------------------------------------------------------
(* Each line takes the client from one table to the next.                  *)

LEMMA ShowsOf ==
  ASSUME NEW t, NEW u, NEW waiting, u.zone = t.zone
  PROVE  Shows(u, waiting) = Shows(t, waiting)
BY DEF Shows

\* The client shows table t, but for what it holds.
Mirroring(t) ==
  /\ Waits(held, table.health, Shows(table, pending), t)
  /\ Follows(table, t)

LEMMA MirrorsDraw ==
  ASSUME Typed, DrawCard, NEW t \in Table, NEW u \in Table, Legal(t, Line, u), Mirroring(t)
  PROVE  Mirroring(u)'
<1>1. PICK p, c : p = Line.player /\ c = Line.card
  OBVIOUS
<1>2. Line.cmd = "DRAW"
  BY DEF DrawCard, Receives, Line
<1>3. p \in Players /\ c \in Cards /\ t.deck[p][c] > 0 /\ u = Draws(t, p, c)
  <2>1. /\ Line.player \in Players /\ Line.card \in Cards
        /\ t.deck[Line.player][Line.card] > 0 /\ u = Draws(t, Line.player, Line.card)
    BY <1>2, LegalIs
  <2> QED BY <1>1, <2>1
<1>4. table \in Table /\ Follows(table, t)
  BY GoodIsTable DEF Typed, Mirroring
<1>5. table.deck[p][c] > 0 /\ Follows(Draws(table, p, c), u)
  BY <1>3, <1>4, FollowsDraws
<1>6. table' = Draws(table, p, c)
  BY <1>1, <1>5, DrawCardTable
<1>7. held' = held /\ pending' = pending
  BY DEF DrawCard, historyVars
<1>8. table'.health = table.health /\ table'.zone = table.zone /\ u.health = t.health /\ u.zone = t.zone
  BY <1>3, <1>4, <1>6, DrawsIs
<1>9. Shows(table', pending) = Shows(table, pending)
  BY <1>8, ShowsOf
<1>10. Waits(held, table.health, Shows(table, pending), u)
  BY <1>8, WaitsSame DEF Mirroring
<1>11. Waits(held', table'.health, Shows(table', pending'), u) /\ Follows(table', u)
  BY <1>5, <1>6, <1>7, <1>8, <1>9, <1>10
<1> QED BY <1>11 DEF Mirroring

LEMMA MirrorsDiscard ==
  ASSUME Typed, DiscardCard, NEW t \in Table, NEW u \in Table, Legal(t, Line, u), Mirroring(t)
  PROVE  Mirroring(u)'
<1>1. PICK p, c : p = Line.player /\ c = Line.card
  OBVIOUS
<1>2. Line.cmd = "DISCARD"
  BY DEF DiscardCard, Receives, Line
<1>3. p \in Players /\ c \in Cards /\ t.hand[p][c] > 0 /\ u = Drops(t, p, c)
  <2>1. /\ Line.player \in Players /\ Line.card \in Cards
        /\ t.hand[Line.player][Line.card] > 0 /\ u = Drops(t, Line.player, Line.card)
    BY <1>2, LegalIs
  <2> QED BY <1>1, <2>1
<1>4. table \in Table /\ Follows(table, t)
  BY GoodIsTable DEF Typed, Mirroring
<1>5. table.hand[p][c] > 0 /\ Follows(Drops(table, p, c), u)
  BY <1>3, <1>4, FollowsDrops
<1>6. table' = Drops(table, p, c)
  BY <1>1, <1>5, DiscardCardTable
<1>7. held' = held /\ pending' = pending
  BY DEF DiscardCard, historyVars, screenVars
<1>8. table'.health = table.health /\ table'.zone = table.zone /\ u.health = t.health /\ u.zone = t.zone
  BY <1>3, <1>4, <1>5, <1>6, DropsIs
<1>9. Shows(table', pending) = Shows(table, pending)
  BY <1>8, ShowsOf
<1>10. Waits(held, table.health, Shows(table, pending), u)
  BY <1>8, WaitsSame DEF Mirroring
<1>11. Waits(held', table'.health, Shows(table', pending'), u) /\ Follows(table', u)
  BY <1>5, <1>6, <1>7, <1>8, <1>9, <1>10
<1> QED BY <1>11 DEF Mirroring

LEMMA MirrorsPlay ==
  ASSUME Typed, PlayCard, ~ overtaken', NEW t \in Table, NEW u \in Table,
         Legal(t, Line, u), Mirroring(t)
  PROVE  Mirroring(u)'
<1>1. PICK p, c, z : p = Line.player /\ c = Line.card /\ z = <<Line.player, Line.lane>>
  OBVIOUS
<1>2. Line.cmd = "PLAY"
  BY DEF PlayCard, Receives, Line
<1>3. /\ p \in Players /\ t.hand[p][c] > 0
      /\ \/ c \in Spells /\ u = Drops(t, p, c)
         \/ c \in Creatures /\ t.zone[z] = Empty /\ u = Summons(t, p, c, z)
  <2>1. /\ Line.player \in Players /\ t.hand[Line.player][Line.card] > 0
        /\ \/ Line.card \in Spells /\ u = Drops(t, Line.player, Line.card)
           \/ /\ Line.card \in Creatures /\ t.zone[<<Line.player, Line.lane>>] = Empty
              /\ u = Summons(t, Line.player, Line.card, <<Line.player, Line.lane>>)
    BY <1>2, LegalIs
  <2> QED BY <1>1, <2>1
<1>4. table \in Table /\ Follows(table, t) /\ held \in Seq(StatUpdates)
  BY GoodIsTable DEF Typed, Mirroring
<1>5. /\ c \in Cards /\ z \in Zones
      /\ table.hand[p][c] > 0 /\ c \in Creatures /\ table.zone[z] = Empty =>
           table' = Summons(table, p, c, z)
      /\ table.hand[p][c] > 0 /\ ~ (c \in Creatures /\ table.zone[z] = Empty) =>
           table' = Drops(table, p, c)
  BY <1>1, PlayCardTable
<1>6. table.hand[p][c] > 0 /\ Follows(Drops(table, p, c), Drops(t, p, c))
  BY <1>3, <1>4, <1>5, FollowsDrops
<1>7. /\ table.hand[p][c] > 0 /\ ~ Contains(held, Destroy(z)) /\ ~ Contains(pending, z)
      /\ held' = held /\ pending' = pending
  BY <1>1, <1>6 DEF PlayCard
<1>8. CASE c \in Spells /\ u = Drops(t, p, c)
  <2>1. c \notin Creatures
    BY <1>8, ClientBoardAssumption
  <2>2. table' = Drops(table, p, c)
    BY <1>5, <1>7, <2>1
  <2>3. table'.health = table.health /\ table'.zone = table.zone /\ u.health = t.health /\ u.zone = t.zone
    BY <1>3, <1>4, <1>5, <1>7, <1>8, <2>2, DropsIs
  <2>4. Shows(table', pending) = Shows(table, pending)
    BY <2>3, ShowsOf
  <2>5. Waits(held, table.health, Shows(table, pending), u)
    BY <2>3, WaitsSame DEF Mirroring
  <2>6. Waits(held', table'.health, Shows(table', pending'), u) /\ Follows(table', u)
    BY <1>7, <1>6, <1>8, <2>2, <2>3, <2>4, <2>5
  <2> QED BY <2>6 DEF Mirroring
<1>9. CASE c \in Creatures /\ t.zone[z] = Empty /\ u = Summons(t, p, c, z)
  <2>1. PICK shown, b : shown = Shows(table, pending) /\ b = Fresh(c)
    OBVIOUS
  <2>2. shown \in [Zones -> Body] /\ b \in Body
    BY <1>4, <1>9, <2>1, ShowsIs, FreshIs DEF Body
  <2>3. u.health = t.health /\ u.zone = [t.zone EXCEPT ![z] = b]
        /\ u.deck = t.deck /\ u.hand = Drops(t, p, c).hand
    BY <1>3, <1>5, <1>9, <2>1, SummonsIs
  <2>4. shown[z] = Empty /\ Waits(held, table.health, [shown EXCEPT ![z] = b], u)
    <3>1. Waits(held, table.health, shown, t)
      BY <2>1 DEF Mirroring
    <3>2. PICK health : health = table.health
      OBVIOUS
    <3>3. /\ held \in Seq(StatUpdates) /\ z \in Zones /\ Waits(held, health, shown, t)
          /\ ~ Contains(held, Destroy(z)) /\ t.zone[z] = Empty
          /\ u.health = t.health /\ u.zone = [t.zone EXCEPT ![z] = b]
      BY <1>4, <1>5, <1>7, <1>9, <2>3, <3>1, <3>2
    <3>4. shown[z] = Empty /\ Waits(held, health, [shown EXCEPT ![z] = b], u)
      BY ONLY <2>2, <3>3, t \in Table, WaitsSummons
    <3> QED BY <3>2, <3>4
  <2>5. table.zone[z] = Empty
    BY <1>4, <1>5, <1>7, <2>1, <2>4, ShowsEmpty
  <2>6. table' = Summons(table, p, c, z)
    BY <1>5, <1>7, <1>9, <2>5
  <2>7. /\ table'.health = table.health /\ table'.zone = [table.zone EXCEPT ![z] = b]
        /\ table'.deck = table.deck /\ table'.hand = Drops(table, p, c).hand
    BY <1>3, <1>4, <1>5, <1>7, <1>9, <2>1, <2>6, SummonsIs
  <2>8. Shows(table', pending) = [shown EXCEPT ![z] = b]
    <3>1. PICK v : v = [table EXCEPT !.zone[z] = b]
      OBVIOUS
    <3>2. v.zone = [table.zone EXCEPT ![z] = b]
      BY <1>4, <1>5, <2>2, <3>1, ZoneSet
    <3>3. Shows(v, pending) = [shown EXCEPT ![z] = b]
      <4>1. Shows([table EXCEPT !.zone[z] = b], pending)
              = IF Contains(pending, z) THEN Shows(table, pending)
                ELSE [Shows(table, pending) EXCEPT ![z] = b]
        BY <1>4, <1>5, <2>2, ShowsSet
      <4> QED BY <1>7, <2>1, <3>1, <4>1
    <3> QED BY <2>7, <3>2, <3>3, ShowsOf
  <2>9. Follows(table', u)
    <3>1. Drops(table, p, c).deck = table.deck /\ Drops(t, p, c).deck = t.deck
      BY <1>3, <1>4, <1>5, <1>7, DropsIs
    <3> QED BY <1>6, <2>3, <2>7, <3>1, FollowsSame
  <2>10. Waits(held', table'.health, Shows(table', pending'), u) /\ Follows(table', u)
    BY <1>7, <2>4, <2>7, <2>8, <2>9
  <2> QED BY <2>10 DEF Mirroring
<1> QED BY <1>3, <1>8, <1>9

LEMMA MirrorsCombat ==
  ASSUME Typed, ResolveCombat, NEW t \in Table, NEW u \in Table, Legal(t, Line, u), Mirroring(t)
  PROVE  Mirroring(u)'
<1>1. Line.cmd \in {"COMBAT", "DIRECT"}
  BY DEF ResolveCombat, Receives, Line
<1>2. u = t
  BY <1>1, LegalIs
<1>3. held' = held /\ pending' = pending /\ table' = table
  BY DEF ResolveCombat, historyVars
<1> QED BY <1>2, <1>3 DEF Mirroring

\* An update that is held back.
LEMMA MirrorsHold ==
  ASSUME Typed, HoldUpdate, NEW t \in Table, NEW u \in Table, Legal(t, Line, u), Mirroring(t)
  PROVE  Mirroring(u)'
<1>1. PICK m, health, zone : m = Line /\ health = table.health /\ zone = Shows(table, pending)
  OBVIOUS
<1>2. m \in StatUpdates
  BY <1>1 DEF HoldUpdate, NextIsUpdate
<1>3. Tells(t, m, u)
  BY <1>1, <1>2, LegalIs
<1>4. held \in Seq(StatUpdates)
  BY DEF Typed
<1>5. Waits(held, health, zone, t)
  BY <1>1 DEF Mirroring
<1>6. Waits(Append(held, m), health, zone, u)
  BY ONLY <1>3, <1>4, <1>5, t \in Table, WaitsMore
<1>7. /\ held' = Append(held, m) /\ table' = table /\ pending' = pending
  BY <1>1 DEF HoldUpdate, historyVars
<1>8. Follows(table, u)
  <2>1. u.hand = t.hand /\ u.deck = t.deck /\ Follows(table, t)
    BY <1>3 DEF Tells, Mirroring
  <2> QED BY <2>1, FollowsSame
<1>9. Waits(held', table'.health, Shows(table', pending'), u) /\ Follows(table', u)
  BY <1>1, <1>6, <1>7, <1>8
<1> QED BY <1>9 DEF Mirroring

\* An update that is applied: none is held, since the client is not busy.
LEMMA MirrorsApply ==
  ASSUME Typed, held # <<>> => Busy, ApplyUpdate, NEW t \in Table, NEW u \in Table,
         Legal(t, Line, u), Mirroring(t)
  PROVE  Mirroring(u)'
<1>1. PICK m, d : m = Line /\ d = Display
  OBVIOUS
<1>2. m \in StatUpdates /\ held = <<>> /\ animated \in BOOLEAN
  BY <1>1 DEF ApplyUpdate, NextIsUpdate, Typed
<1>3. Tells(t, m, u)
  BY <1>1, <1>2, LegalIs
<1>4. d \in Screens /\ d.table = table /\ d.pending = pending
  BY <1>1, DisplayIs DEF Display
<1>5. PICK e : e = Updated(d, m)
  OBVIOUS
<1>6. UpdatesTo(d, m, e)
  BY <1>2, <1>4, <1>5, UpdatedIs
<1>7. table' = e.table /\ pending' = e.pending /\ held' = held
  BY <1>1, <1>5 DEF ApplyUpdate, Displays
<1>8. /\ table \in Table /\ e.table \in Table
      /\ table.health \in [Players -> Int] /\ e.table.health \in [Players -> Int]
  BY <1>4, <1>6, GoodIsTable, ScreenIs, TableIs DEF UpdatesTo
<1>9. PICK before, after : before = Shows(table, pending) /\ after = Shows(e.table, e.pending)
  OBVIOUS
<1>10. before \in [Zones -> Body] /\ after \in [Zones -> Body]
  BY <1>8, <1>9, ShowsIs
<1>11. t.health = table.health /\ t.zone = before
  <2>1. PICK health : health = table.health
    OBVIOUS
  <2>2. Waits(<<>>, health, before, t)
    BY <1>2, <1>9, <2>1 DEF Mirroring
  <2>3. health \in [Players -> Int]
    BY <1>8, <2>1
  <2>4. t.health = health /\ t.zone = before
    BY ONLY <1>10, <2>2, <2>3, WaitsNone
  <2> QED BY <2>1, <2>4
<1>12. u.health = e.table.health /\ u.zone = after
  BY <1>3, <1>4, <1>6, <1>9, <1>11 DEF Tells, UpdatesTo
<1>13. Waits(<<>>, e.table.health, after, u)
  <2>1. PICK health : health = e.table.health
    OBVIOUS
  <2>2. u.health = health /\ u.zone = after /\ health \in [Players -> Int]
    BY <1>8, <1>12, <2>1
  <2>3. Waits(<<>>, health, after, u)
    BY ONLY <1>10, <2>2, WaitsNone
  <2> QED BY <2>1, <2>3
<1>14. Follows(e.table, u)
  <2>1. /\ e.table.hand = table.hand /\ e.table.deck = table.deck
        /\ u.hand = t.hand /\ u.deck = t.deck /\ Follows(table, t)
    BY <1>3, <1>4, <1>6 DEF Tells, UpdatesTo, Mirroring
  <2> QED BY <2>1, FollowsSame
<1>15. Waits(held', table'.health, Shows(table', pending'), u) /\ Follows(table', u)
  BY <1>2, <1>7, <1>9, <1>13, <1>14
<1> QED BY <1>15 DEF Mirroring

\* A snapshot of the table that the client shows asks for no creature that is not there
\* and for no card that is not in the deck.
LEMMA SnapshotFits ==
  ASSUME Typed, HandleFullState, ~ overtaken', NEW t \in Table, Mirroring(t)
  PROVE  /\ t.health = table.health /\ t.zone = Shows(table, pending)
         /\ NoneComes(table, Shown(t)) /\ WithinReach(table, Shown(t))
<1>1. PICK snap, before : snap = Shown(t) /\ before = Shows(table, pending)
  OBVIOUS
<1>2. held = <<>>
  BY DEF HandleFullState
<1>3. table \in Table /\ table.health \in [Players -> Int]
  BY GoodIsTable, TableIs DEF Typed
<1>4. snap.hand = t.hand /\ snap.zone = t.zone
  BY <1>1, ShownIs
<1>5. t.health = table.health /\ t.zone = before
  <2>1. PICK health : health = table.health
    OBVIOUS
  <2>2. Waits(<<>>, health, before, t)
    BY <1>1, <1>2, <2>1 DEF Mirroring
  <2>3. health \in [Players -> Int] /\ before \in [Zones -> Body]
    BY <1>1, <1>3, <2>1, ShowsIs
  <2>4. t.health = health /\ t.zone = before
    BY ONLY <2>2, <2>3, WaitsNone
  <2> QED BY <2>1, <2>4
<1>6. \A z \in Zones : before[z] = IF Contains(pending, z) THEN Empty ELSE table.zone[z]
  BY <1>1 DEF Shows
<1>7. NoneComes(table, snap)
  BY <1>4, <1>5, <1>6 DEF NoneComes
<1>8. \A p \in Players, c \in Cards :
        /\ table.hand[p][c] \in Nat /\ table.deck[p][c] \in Nat
        /\ t.hand[p][c] \in Nat /\ t.deck[p][c] \in Nat
        /\ table.hand[p][c] = t.hand[p][c] /\ table.deck[p][c] = t.deck[p][c]
  BY <1>3, TableIs DEF Mirroring, Follows
<1>9. WithinReach(table, snap)
  BY <1>4, <1>8 DEF WithinReach
<1> QED BY <1>1, <1>5, <1>7, <1>9

\* A snapshot that finds no update held changes what is still to die, and only that.
LEMMA MirrorsSnapshot ==
  ASSUME Typed, HandleFullState, ~ overtaken', NEW t \in Table, NEW u \in Table,
         Legal(t, Line, u), Mirroring(t)
  PROVE  Mirroring(u)'
<1>1. Line.cmd = "FULL_STATE"
  BY DEF HandleFullState, Receives, Line
<1>2. u = t /\ Line.table = Shown(t)
  BY <1>1, LegalIs
<1>3. PICK snap, mine, before :
        snap = Shown(t) /\ mine = table' /\ before = Shows(table, pending)
  OBVIOUS
<1>4. /\ held = <<>> /\ held' = held /\ pending' = pending
      /\ mine = Synced(table, snap)
  BY <1>2, <1>3 DEF HandleFullState, screenVars
<1>5. table \in GoodTable /\ table \in Table /\ table.health \in [Players -> Int]
  BY GoodIsTable, TableIs DEF Typed
<1>6. snap \in Snapshot /\ snap.health = t.health /\ snap.hand = t.hand /\ snap.zone = t.zone
  BY <1>3, ShownIs
<1>7. /\ t.health = table.health /\ t.zone = before /\ before \in [Zones -> Body]
      /\ NoneComes(table, snap)
  BY <1>3, <1>5, SnapshotFits, ShowsIs
<1>8. \A p \in Players, c \in Cards :
         /\ table.hand[p][c] \in Nat /\ table.deck[p][c] \in Nat
         /\ t.hand[p][c] \in Nat /\ t.deck[p][c] \in Nat
         /\ table.hand[p][c] = t.hand[p][c] /\ table.deck[p][c] = t.deck[p][c]
  BY <1>5, TableIs DEF Mirroring, Follows
<1>9. WithinReach(table, snap)
  BY <1>3, SnapshotFits
<1>10. /\ mine \in GoodTable /\ mine.health = snap.health /\ mine.zone = snap.zone
       /\ \A p \in Players, c \in Cards :
            /\ mine.hand[p][c] = snap.hand[p][c]
            /\ mine.deck[p][c] = table.hand[p][c] + table.deck[p][c] - snap.hand[p][c]
  BY <1>4, <1>5, <1>6, <1>7, <1>9, SyncedIs DEF SnapshotShows
<1>11. Follows(mine, t)
  BY <1>6, <1>8, <1>10 DEF Follows
<1>12. Shows(mine, pending) = before
  BY <1>3, <1>6, <1>7, <1>10 DEF Shows
<1>13. Waits(<<>>, mine.health, before, t)
  <2>1. PICK health : health = mine.health
    OBVIOUS
  <2>2. t.health = health /\ t.zone = before /\ health \in [Players -> Int]
    BY <1>5, <1>6, <1>7, <1>10, <2>1
  <2>3. Waits(<<>>, health, before, t)
    BY ONLY <1>7, <2>2, WaitsNone
  <2> QED BY <2>1, <2>3
<1>14. Waits(held', table'.health, Shows(table', pending'), u) /\ Follows(table', u)
  BY <1>2, <1>3, <1>4, <1>11, <1>12, <1>13
<1> QED BY <1>14 DEF Mirroring

\* The rest of a frame, whether or not the held updates come in it.
LEMMA MirrorsFrame ==
  ASSUME Typed, EndOfFrame, NEW t \in Table, Mirroring(t)
  PROVE  Mirroring(t)'
<1>1. PICK gone \in Screens, runs \in BOOLEAN :
        /\ gone.table.hand = table.hand /\ gone.table.deck = table.deck
        /\ gone.table.health = table.health
        /\ Shows(gone.table, gone.pending) = Shows(table, pending)
        /\ FrameEnds(gone, runs)
  BY FrameIs
<1>2. Waits(held, gone.table.health, Shows(gone.table, gone.pending), t) /\ Follows(gone.table, t)
  <2>1. Follows(table, t)
    BY DEF Mirroring
  <2>2. Follows(gone.table, t)
    BY <1>1, <2>1, FollowsSame
  <2> QED BY <1>1, <2>2 DEF Mirroring
<1>3. CASE Displays(Flushed(gone)) /\ held' = <<>> /\ barrier' = FALSE
  <2>1. PICK e : e = Flushed(gone)
    OBVIOUS
  <2>2. /\ e \in Screens /\ e.table.hand = gone.table.hand /\ e.table.deck = gone.table.deck
        /\ e.table.health = t.health /\ Shows(e.table, e.pending) = t.zone
    BY <1>2, <2>1, WaitsFlushed
  <2>3. Follows(e.table, t)
    BY <1>2, <2>2, FollowsSame
  <2>4. Waits(<<>>, t.health, t.zone, t)
    <3>1. t.health \in [Players -> Int] /\ t.zone \in [Zones -> Body]
      BY TableIs
    <3>2. PICK health, zone : health = t.health /\ zone = t.zone
      OBVIOUS
    <3>3. health \in [Players -> Int] /\ zone \in [Zones -> Body]
      BY <3>1, <3>2
    <3>4. Waits(<<>>, health, zone, t)
      BY ONLY <3>2, <3>3, WaitsNone
    <3> QED BY <3>2, <3>4
  <2>5. table' = e.table /\ pending' = e.pending
    BY <1>3, <2>1 DEF Displays
  <2>6. Waits(held', table'.health, Shows(table', pending'), t) /\ Follows(table', t)
    BY <1>3, <2>2, <2>3, <2>4, <2>5
  <2> QED BY <2>6 DEF Mirroring
<1>4. CASE Displays(gone) /\ UNCHANGED <<held, barrier>>
  <2>1. table' = gone.table /\ pending' = gone.pending /\ held' = held
    BY <1>4 DEF Displays
  <2>2. Waits(held', table'.health, Shows(table', pending'), t) /\ Follows(table', t)
    BY <1>2, <2>1
  <2> QED BY <2>2 DEF Mirroring
<1> QED BY <1>1, <1>3, <1>4 DEF FrameEnds

-----------------------------------------------------------------------------
(* The inductive invariant.                                                *)

\* Updates are held only while something runs that lets them out again.
Delays == held # <<>> => Busy

\* The lines on the way lead from some table to the server's; and that table is the
\* client's, but for what it holds, unless something was overtaken.
Lags ==
  \E ts : Behind(channel, server, ts) /\ (~ overtaken => Mirroring(ts[0]))

IInv == Typed /\ Delays /\ Lags

LEMMA StartsLagging == Init => Lags
<1> SUFFICES ASSUME Init PROVE Lags
  OBVIOUS
<1>1. PICK ts : Behind(OpeningLines, Opened, ts) /\ ts[0] = FullDecks
  BY OpeningBehind
<1>2. /\ channel = OpeningLines /\ server = Opened
      /\ table = FullDecks /\ held = <<>> /\ pending = <<>>
  BY DEF Init
<1>3. PICK full : full = FullDecks
  OBVIOUS
<1>4. full \in Table /\ full.health \in [Players -> Int] /\ full.zone \in [Zones -> Body]
  BY <1>3, FullDecksIs, TableIs
<1>5. Shows(full, <<>>) = full.zone
  <2>1. \A z \in Zones : ~ Contains(<<>>, z)
    BY DEF Contains
  <2> QED BY <1>4, <2>1 DEF Shows
<1>6. Waits(<<>>, full.health, full.zone, full)
  <2>1. PICK health, zone : health = full.health /\ zone = full.zone
    OBVIOUS
  <2>2. health \in [Players -> Int] /\ zone \in [Zones -> Body]
    BY <1>4, <2>1
  <2>3. Waits(<<>>, health, zone, full)
    BY ONLY <2>1, <2>2, WaitsNone
  <2> QED BY <2>1, <2>3
<1>7. Follows(full, full)
  BY DEF Follows
<1>8. Mirroring(full)
  BY <1>2, <1>3, <1>5, <1>6, <1>7 DEF Mirroring
<1> QED BY <1>1, <1>2, <1>3, <1>8 DEF Lags

LEMMA DelaysKept ==
  ASSUME Typed, Delays, [Next]_vars
  PROVE  Delays'
<1>1. ASSUME UNCHANGED <<held, barrier, active, animated>> PROVE Delays'
  BY <1>1 DEF Delays, Busy
<1>2. CASE UNCHANGED vars
  BY <1>1, <1>2 DEF vars, screenVars, historyVars
<1>3. CASE ServerNext
  <2>1. PICK m, u : Sends(u, m)
    BY <1>3, ServerSteps
  <2> QED BY <1>1, <2>1 DEF Sends, screenVars, historyVars
<1>4. CASE DrawCard \/ DiscardCard \/ PlayCard \/ HandleFullState
  BY <1>1, <1>4 DEF DrawCard, DiscardCard, PlayCard, HandleFullState, screenVars, historyVars
<1>5. CASE ResolveCombat
  BY <1>5 DEF ResolveCombat, historyVars, Delays, Busy
<1>6. CASE HoldUpdate
  BY <1>6 DEF HoldUpdate, historyVars, Delays, Busy
<1>7. CASE ApplyUpdate
  BY <1>1, <1>7 DEF ApplyUpdate
<1>8. CASE EndOfFrame
  <2>1. PICK gone \in Screens, runs \in BOOLEAN : active' = runs /\ FrameEnds(gone, runs)
    BY <1>8, FrameIs
  <2>2. animated' = animated
    BY <1>8, FrameIs
  <2> QED BY <2>1, <2>2 DEF FrameEnds, Delays, Busy
<1> QED BY <1>2, <1>3, <1>4, <1>5, <1>6, <1>7, <1>8 DEF Next, ClientNext

\* Every line that the client handles, except one that it overtakes another with.
LEMMA MirrorsLine ==
  ASSUME Typed, Delays, ~ overtaken', NEW t \in Table, NEW u \in Table, Legal(t, Line, u),
         Mirroring(t),
         DrawCard \/ DiscardCard \/ PlayCard \/ ResolveCombat
           \/ HoldUpdate \/ ApplyUpdate \/ HandleFullState
  PROVE  Mirroring(u)'
<1>1. CASE DrawCard
  BY <1>1, MirrorsDraw
<1>2. CASE DiscardCard
  BY <1>2, MirrorsDiscard
<1>3. CASE PlayCard
  BY <1>3, MirrorsPlay
<1>4. CASE ResolveCombat
  BY <1>4, MirrorsCombat
<1>5. CASE HoldUpdate
  BY <1>5, MirrorsHold
<1>6. CASE ApplyUpdate
  BY <1>6, MirrorsApply DEF Delays
<1>7. CASE HandleFullState
  BY <1>7, MirrorsSnapshot
<1> QED BY <1>1, <1>2, <1>3, <1>4, <1>5, <1>6, <1>7

LEMMA LagsKept ==
  ASSUME Typed, Delays, Lags, [Next]_vars
  PROVE  Lags'
<1>1. PICK ts : Behind(channel, server, ts) /\ (~ overtaken => Mirroring(ts[0]))
  BY DEF Lags
<1>2. channel \in Seq(Messages) /\ server \in Table
  BY DEF Typed
<1>3. PICK t : t = ts[0]
  OBVIOUS
<1>4. t \in Table
  <2>1. 0 \in 0 .. Len(channel)
    BY <1>2, LenProperties
  <2> QED BY <1>1, <1>3, <2>1 DEF Behind
<1>5. ~ overtaken => Mirroring(t)
  BY <1>1, <1>3
<1>6. CASE UNCHANGED vars
  <2>1. UNCHANGED <<channel, server, overtaken, held, table, pending>>
    BY <1>6 DEF vars, serverVars, screenVars, historyVars
  <2>2. Behind(channel', server', ts) /\ (~ overtaken' => Mirroring(t)')
    BY <1>1, <1>5, <2>1 DEF Mirroring
  <2> QED BY <1>3, <2>2 DEF Lags
<1>7. CASE ServerNext
  <2>1. PICK m, u : Legal(server, m, u) /\ Sends(u, m)
    BY <1>7, ServerSteps
  <2>2. PICK now, lines : now = server /\ lines = channel
    OBVIOUS
  <2>3. lines \in Seq(Messages) /\ now \in Table /\ Behind(lines, now, ts) /\ Legal(now, m, u)
    BY <1>1, <1>2, <2>1, <2>2
  <2>4. PICK us : Behind(Append(lines, m), u, us) /\ us[0] = ts[0]
    BY ONLY <2>3, BehindSent
  <2>5. /\ channel' = Append(lines, m) /\ server' = u
        /\ UNCHANGED <<overtaken, held, table, pending>>
    BY <2>1, <2>2 DEF Sends, screenVars, historyVars
  <2>6. Behind(channel', server', us) /\ us[0] = t /\ (~ overtaken' => Mirroring(t)')
    BY <1>3, <1>5, <2>4, <2>5 DEF Mirroring
  <2> QED BY <2>6 DEF Lags
<1>8. CASE DrawCard \/ DiscardCard \/ PlayCard \/ ResolveCombat
             \/ HoldUpdate \/ ApplyUpdate \/ HandleFullState
  <2>1. channel # <<>> /\ Handled /\ (overtaken => overtaken')
    <3>1. CASE DrawCard \/ DiscardCard \/ ResolveCombat
      BY <3>1 DEF DrawCard, DiscardCard, ResolveCombat, Receives, historyVars
    <3>2. CASE HoldUpdate \/ ApplyUpdate
      BY <3>2 DEF HoldUpdate, ApplyUpdate, NextIsUpdate, historyVars
    <3>3. CASE PlayCard \/ HandleFullState
      <4>1. channel # <<>> /\ Handled
        BY <3>3 DEF PlayCard, HandleFullState, Receives
      <4>2. overtaken => overtaken'
        BY <3>3, Zenon DEF PlayCard, HandleFullState
      <4> QED BY <4>1, <4>2
    <3> QED BY <1>8, <3>1, <3>2, <3>3
  <2>2. PICK now, lines, m : now = server /\ lines = channel /\ m = Line
    OBVIOUS
  <2>3. lines \in Seq(Messages) /\ lines # <<>> /\ Behind(lines, now, ts) /\ m = Head(lines)
    BY <1>1, <1>2, <2>1, <2>2 DEF Line
  <2>4. /\ Legal(ts[0], m, ts[1]) /\ ts[1] \in Table
        /\ \E us : Behind(Tail(lines), now, us) /\ us[0] = ts[1]
    BY ONLY <2>3, BehindHandled
  <2>5. PICK u : u = ts[1]
    OBVIOUS
  <2>6. PICK us : Behind(Tail(lines), now, us) /\ us[0] = u
    BY <2>4, <2>5
  <2>7. channel' = Tail(lines) /\ server' = now
    BY <2>1, <2>2 DEF Handled
  <2>8. ASSUME ~ overtaken' PROVE Mirroring(u)'
    <3>1. Mirroring(t) /\ Legal(t, Line, u) /\ u \in Table
      BY <1>3, <1>5, <2>1, <2>2, <2>4, <2>5, <2>8
    <3> QED BY <1>4, <1>8, <2>8, <3>1, MirrorsLine
  <2>9. Behind(channel', server', us) /\ (~ overtaken' => Mirroring(u)')
    BY <2>6, <2>7, <2>8
  <2> QED BY <2>6, <2>9 DEF Lags
<1>9. CASE EndOfFrame
  <2>1. UNCHANGED <<channel, server, overtaken>>
    BY <1>9, FrameIs
  <2>2. ~ overtaken => Mirroring(t)'
    BY <1>4, <1>5, <1>9, MirrorsFrame
  <2>3. Behind(channel', server', ts) /\ (~ overtaken' => Mirroring(t)')
    BY <1>1, <2>1, <2>2
  <2> QED BY <1>3, <2>3 DEF Lags
<1> QED BY <1>6, <1>7, <1>8, <1>9 DEF Next, ClientNext

LEMMA Starts == Init => IInv
<1>1. Init => Delays
  BY DEF Init, Delays
<1> QED BY <1>1, TypedStarts, StartsLagging DEF IInv

LEMMA Steps == IInv /\ [Next]_vars => IInv'
BY TypedSteps, DelaysKept, LagsKept DEF IInv

LEMMA CaughtUp == IInv => Mirrors
<1> SUFFICES ASSUME IInv, channel = <<>>, held = <<>>, pending = <<>>, ~ overtaken
             PROVE  Shown(table) = Shown(server)
  BY DEF Mirrors
<1>1. PICK ts : Behind(channel, server, ts) /\ Mirroring(ts[0])
  BY DEF IInv, Lags
<1>2. Len(channel) = 0
  OBVIOUS
<1>3. ts[0] = server
  BY <1>1, <1>2 DEF Behind
<1>4. /\ table \in Table /\ server \in Table
      /\ table.health \in [Players -> Int] /\ table.zone \in [Zones -> Body]
      /\ table.hand \in [Players -> Hand] /\ server.hand \in [Players -> Hand]
  BY GoodIsTable, TableIs DEF IInv, Typed
<1>5. Shows(table, <<>>) = table.zone
  <2>1. \A z \in Zones : ~ Contains(<<>>, z)
    BY DEF Contains
  <2> QED BY <1>4, <2>1 DEF Shows
<1>6. server.health = table.health /\ server.zone = table.zone
  <2>1. PICK health, zone, t : health = table.health /\ zone = table.zone /\ t = server
    OBVIOUS
  <2>2. Waits(<<>>, health, zone, t)
    BY <1>1, <1>3, <1>5, <2>1 DEF Mirroring
  <2>3. health \in [Players -> Int] /\ zone \in [Zones -> Body]
    BY <1>4, <2>1
  <2>4. t.health = health /\ t.zone = zone
    BY ONLY <2>2, <2>3, WaitsNone
  <2> QED BY <2>1, <2>4
<1>7. table.hand = server.hand
  <2>1. \A p \in Players, c \in Cards : table.hand[p][c] = server.hand[p][c]
    BY <1>1, <1>3 DEF Mirroring, Follows
  <2>2. \A p \in Players : table.hand[p] = server.hand[p]
    BY <1>4, <2>1 DEF Hand
  <2> QED BY <1>4, <2>2
<1> QED BY <1>6, <1>7 DEF Shown

\* Once it has caught up, the client shows the server's table, however the updates
\* were held back and the creatures died, unless a line overtook one that it builds upon.
THEOREM MirrorsServer == Spec => []Mirrors
<1> QED BY Starts, Steps, CaughtUp, PTL DEF Spec

\* After a snapshot the client shows what it says, unless a line was applied before one
\* that came earlier: the part of README.md:110 that holds, SelfCorrects having no
\* such condition (Playing::handleFullStateMessage).
SnapshotCorrects ==
  [][Receives("FULL_STATE") /\ Len(channel') < Len(channel) /\ ~ overtaken' =>
       Shown(table') = Line.table]_vars

\* The values that a snapshot sets are all the client shows of it.
LEMMA SnapshotIsShown ==
  ASSUME Typed, HandleFullState, ~ overtaken', NEW t \in Table, NEW u \in Table,
         Legal(t, Line, u), Mirroring(t)
  PROVE  Shown(table') = Line.table
<1>1. Line.cmd = "FULL_STATE"
  BY DEF HandleFullState, Receives, Line
<1>2. Line.table = Shown(t)
  BY <1>1, LegalIs
<1>3. PICK snap, mine : snap = Shown(t) /\ mine = table'
  OBVIOUS
<1>4. snap \in Snapshot /\ snap.health = t.health /\ snap.hand = t.hand /\ snap.zone = t.zone
  BY <1>3, ShownIs
<1>5. table \in GoodTable /\ mine = Synced(table, snap)
  BY <1>2, <1>3 DEF Typed, HandleFullState
<1>6. NoneComes(table, snap) /\ WithinReach(table, snap)
  BY <1>3, SnapshotFits
<1>7. /\ mine \in GoodTable /\ mine.health = snap.health /\ mine.zone = snap.zone
      /\ \A p \in Players, c \in Cards : mine.hand[p][c] = snap.hand[p][c]
  BY <1>4, <1>5, <1>6, SyncedIs DEF SnapshotShows
<1>8. mine.hand = snap.hand
  <2>1. mine.hand \in [Players -> Hand] /\ snap.hand \in [Players -> Hand]
    BY <1>4, <1>7, GoodIsTable, TableIs
  <2>2. \A p \in Players : mine.hand[p] = snap.hand[p]
    BY <1>7, <2>1 DEF Hand
  <2> QED BY <2>1, <2>2
<1>9. Shown(mine) = snap
  BY <1>3, <1>4, <1>7, <1>8 DEF Shown
<1> QED BY <1>2, <1>3, <1>9

\* A client that applied nothing out of order is right after every snapshot, whatever
\* creatures are still to die (Playing::handleFullStateMessage).
THEOREM SnapshotsCorrect == Spec => SnapshotCorrects
<1>1. IInv /\ [Next]_vars =>
        [Receives("FULL_STATE") /\ Len(channel') < Len(channel) /\ ~ overtaken' =>
           Shown(table') = Line.table]_vars
  <2> SUFFICES ASSUME IInv, [Next]_vars, Receives("FULL_STATE"), Len(channel') < Len(channel),
                      ~ overtaken'
               PROVE  Shown(table') = Line.table
    OBVIOUS
  <2>1. HandleFullState /\ Typed /\ Lags
    BY SnapshotSteps DEF IInv
  <2>2. PICK ts : Behind(channel, server, ts) /\ (~ overtaken => Mirroring(ts[0]))
    BY <2>1 DEF Lags
  <2>3. channel # <<>> /\ ~ overtaken
    <3>1. channel # <<>>
      BY <2>1 DEF HandleFullState, Receives
    <3>2. ~ overtaken
      BY <2>1, Zenon DEF HandleFullState
    <3> QED BY <3>1, <3>2
  <2>4. PICK now, lines, m, t, u : now = server /\ lines = channel /\ m = Line /\ t = ts[0] /\ u = ts[1]
    OBVIOUS
  <2>5. lines \in Seq(Messages) /\ lines # <<>> /\ Behind(lines, now, ts) /\ m = Head(lines)
    BY <2>1, <2>2, <2>3, <2>4 DEF Line, Typed
  <2>6. Legal(ts[0], m, ts[1]) /\ ts[0] \in Table /\ ts[1] \in Table
    BY ONLY <2>5, BehindHandled
  <2>7. Legal(t, Line, u) /\ t \in Table /\ u \in Table /\ Mirroring(t)
    BY <2>2, <2>3, <2>4, <2>6
  <2> QED BY <2>1, <2>7, SnapshotIsShown
<1> QED BY <1>1, Starts, Steps, PTL DEF Spec, SnapshotCorrects

=============================================================================
