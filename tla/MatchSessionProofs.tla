------------------------- MODULE MatchSessionProofs -------------------------
(***************************************************************************)
(* What holds of a match for every card table within RulesAssumption, all  *)
(* decks and any number of lanes, rounds and messages.                     *)
(*                                                                         *)
(* First that every operation of the rules leaves a good state (Good), and *)
(* with it the invariants; then that a decided match stands (Stands), that *)
(* no card is copied (Within, Keeps), how a lane without keywords is       *)
(* fought (ByTheBook), and that combat favours neither seat: every         *)
(* operation commutes with the exchange of the seats (Mirror...), and the  *)
(* two creatures' parts of a stage with each other (...Commute).           *)
(***************************************************************************)
EXTENDS MatchSession, FiniteSetTheorems, TLAPS

\* A lane's side that is empty and bare, or holds a creature that stands, and that
\* regenerates only if it shows the keyword.
GoodSlot == {slot \in Slot : IF slot.card = NoCard THEN slot = EmptySlot
                                                   ELSE /\ Toughness(slot) > 0
                                                        /\ Catalog[slot.card].toughness > 0
                                                        /\ slot.regen[1] > 0
                                                             => "Regen" \in slot.effects}
Rows == [Lanes -> GoodSlot]

GoodGame == [running : BOOLEAN, loser : Players \cup {NoOne},
             health : [Players -> Int], mana : [Players -> Int], fatigue : [Players -> Nat],
             deck : [Players -> Seq(Cards)], hand : [Players -> [Cards -> Nat]],
             discard : [Players -> [Cards -> Nat]], board : [Players -> Rows]]

Decided(h) == /\ \A p \in Players : h.health[p] <= 0 => h.loser = p
              /\ h.running <=> h.loser = NoOne

\* What every operation of the rules preserves.
Good(h) == h \in GoodGame /\ Decided(h)

-----------------------------------------------------------------------------
(* Changing one field of a match.                                          *)

LEMMA Fields ==
  ASSUME NEW h, Good(h), NEW p \in Players
  PROVE  /\ h \in GoodGame /\ h.running \in BOOLEAN /\ h.loser \in Players \cup {NoOne}
         /\ h.health \in [Players -> Int] /\ h.mana \in [Players -> Int]
         /\ h.fatigue \in [Players -> Nat] /\ h.deck \in [Players -> Seq(Cards)]
         /\ h.hand \in [Players -> [Cards -> Nat]]
         /\ h.discard \in [Players -> [Cards -> Nat]] /\ h.board \in [Players -> Rows]
         /\ h.health[p] \in Int /\ h.mana[p] \in Int /\ h.fatigue[p] \in Nat
         /\ h.deck[p] \in Seq(Cards) /\ h.hand[p] \in [Cards -> Nat]
         /\ h.discard[p] \in [Cards -> Nat] /\ h.board[p] \in Rows
BY DEF Good, GoodGame

LEMMA SetHealth ==
  ASSUME NEW h \in GoodGame, NEW x \in [Players -> Int]
  PROVE  /\ [h EXCEPT !.health = x] \in GoodGame
         /\ [h EXCEPT !.health = x].health = x
         /\ [h EXCEPT !.health = x].running = h.running
         /\ [h EXCEPT !.health = x].loser = h.loser
BY DEF GoodGame

LEMMA SetMana ==
  ASSUME NEW h, Good(h), NEW x \in [Players -> Int]
  PROVE  Good([h EXCEPT !.mana = x])
BY DEF Good, GoodGame, Decided

LEMMA SetFatigue ==
  ASSUME NEW h, Good(h), NEW x \in [Players -> Nat]
  PROVE  Good([h EXCEPT !.fatigue = x])
BY DEF Good, GoodGame, Decided

LEMMA SetDeckAndHand ==
  ASSUME NEW h, Good(h), NEW x \in [Players -> Seq(Cards)],
         NEW y \in [Players -> [Cards -> Nat]]
  PROVE  Good([h EXCEPT !.deck = x, !.hand = y])
BY DEF Good, GoodGame, Decided

LEMMA SetHand ==
  ASSUME NEW h, Good(h), NEW x \in [Players -> [Cards -> Nat]]
  PROVE  Good([h EXCEPT !.hand = x])
BY DEF Good, GoodGame, Decided

LEMMA SetDiscard ==
  ASSUME NEW h, Good(h), NEW x \in [Players -> [Cards -> Nat]]
  PROVE  Good([h EXCEPT !.discard = x])
BY DEF Good, GoodGame, Decided

LEMMA SetBoard ==
  ASSUME NEW h, Good(h), NEW x \in [Players -> Rows]
  PROVE  Good([h EXCEPT !.board = x])
BY DEF Good, GoodGame, Decided

LEMMA SetBoardAndDiscard ==
  ASSUME NEW h, Good(h), NEW x \in [Players -> Rows], NEW y \in [Players -> [Cards -> Nat]]
  PROVE  Good([h EXCEPT !.board = x, !.discard = y])
BY DEF Good, GoodGame, Decided

-----------------------------------------------------------------------------
(* Players.                                                                *)

\* endMatch decides a running match, and no other.
LEMMA EndMatchGood ==
  ASSUME NEW h, Good(h), NEW p \in Players
  PROVE  Good(EndMatch(h, p))
<1>1. CASE h.running
  <2>1. [h EXCEPT !.running = FALSE, !.loser = p] \in GoodGame
    BY DEF Good, GoodGame
  <2>2. \A q \in Players : h.health[q] > 0
    BY <1>1, Fields DEF Good, Decided, Players, NoOne
  <2>3. Decided([h EXCEPT !.running = FALSE, !.loser = p])
    BY <2>2, Fields DEF Decided, Good, GoodGame, Players, NoOne
  <2> QED
    BY <1>1, <2>1, <2>3 DEF EndMatch, Good
<1>2. CASE ~h.running
  BY <1>2 DEF EndMatch
<1> QED
  BY <1>1, <1>2

\* augmentHP keeps a running match's players above 0.
LEMMA AugmentHPGood ==
  ASSUME NEW h, Good(h), NEW p \in Players, NEW n \in Int
  PROVE  Good(AugmentHP(h, p, n))
<1> DEFINE x == [h.health EXCEPT ![p] = h.health[p] + n]
           hurt == [h EXCEPT !.health = x]
<1>1. x \in [Players -> Int] /\ x[p] = h.health[p] + n
      /\ \A q \in Players : q # p => x[q] = h.health[q]
  BY Fields
<1>2. Changed(h, p, n) = hurt
  BY DEF Changed
<1>0. h \in GoodGame /\ x[p] \in Int
  BY <1>1, Fields
<1> HIDE DEF x
<1>3. hurt \in GoodGame /\ hurt.health = x /\ hurt.running = h.running /\ hurt.loser = h.loser
  BY <1>0, <1>1, SetHealth
<1> HIDE DEF hurt
<1>4. AugmentHP(h, p, n) = IF h.running THEN IF x[p] <= 0 THEN EndMatch(hurt, p) ELSE hurt ELSE h
  BY <1>0, <1>1, <1>2 DEF AugmentHP
<1>5. CASE ~h.running
  BY <1>4, <1>5
<1>6. CASE h.running /\ x[p] > 0
  <2>1. AugmentHP(h, p, n) = hurt
    BY <1>1, <1>4, <1>6
  <2>2. Decided(hurt)
    BY <1>1, <1>3, <1>6 DEF Good, Decided
  <2> QED
    BY <1>3, <2>1, <2>2 DEF Good
<1>7. CASE h.running /\ x[p] <= 0
  <2>1. AugmentHP(h, p, n) = [hurt EXCEPT !.running = FALSE, !.loser = p]
    BY <1>3, <1>4, <1>7 DEF EndMatch
  <2>2. /\ [hurt EXCEPT !.running = FALSE, !.loser = p] \in GoodGame
        /\ [hurt EXCEPT !.running = FALSE, !.loser = p].health = hurt.health
        /\ [hurt EXCEPT !.running = FALSE, !.loser = p].running = FALSE
        /\ [hurt EXCEPT !.running = FALSE, !.loser = p].loser = p
    BY <1>3 DEF GoodGame
  <2>3. h.loser = NoOne /\ \A q \in Players : ~(h.health[q] <= 0)
    BY <1>7, Fields DEF Good, Decided, Players, NoOne
  <2>4. Decided([hurt EXCEPT !.running = FALSE, !.loser = p])
    BY <1>1, <1>3, <2>2, <2>3 DEF Decided, Players, NoOne
  <2> QED
    BY <2>1, <2>2, <2>4 DEF Good
<1> QED
  BY <1>1, <1>5, <1>6, <1>7, Fields

\* setHP looks at no death: the amount must be positive.
LEMMA SetHPGood ==
  ASSUME NEW h, Good(h), NEW p \in Players, NEW n \in Int, n > 0
  PROVE  Good(SetHP(h, p, n))
<1> DEFINE x == [h.health EXCEPT ![p] = n]
<1>1. x \in [Players -> Int] /\ x[p] = n /\ \A q \in Players : q # p => x[q] = h.health[q]
  BY Fields
<1>2. [h EXCEPT !.health[p] = n] = [h EXCEPT !.health = x]
  OBVIOUS
<1> HIDE DEF x
<1>3. CASE h.running
  <2>1. Decided([h EXCEPT !.health = x])
    BY <1>1, SetHealth, Fields DEF Good, Decided
  <2> QED
    BY <1>1, <1>2, <1>3, <2>1, SetHealth, Fields DEF SetHP, Good
<1>4. CASE ~h.running
  BY <1>4 DEF SetHP
<1> QED
  BY <1>3, <1>4

LEMMA AugmentManaGood ==
  ASSUME NEW h, Good(h), NEW p \in Players, NEW n \in Int
  PROVE  Good([h EXCEPT !.mana[p] = @ + n]) /\ Good(AugmentMana(h, p, n))
<1> DEFINE x == [h.mana EXCEPT ![p] = h.mana[p] + n]
<1>1. x \in [Players -> Int]
  BY Fields
<1>2. [h EXCEPT !.mana[p] = @ + n] = [h EXCEPT !.mana = x]
  OBVIOUS
<1> HIDE DEF x
<1> QED
  BY <1>1, <1>2, SetMana DEF AugmentMana

LEMMA HandleFatigueGood ==
  ASSUME NEW h, Good(h), NEW p \in Players
  PROVE  Good(HandleFatigue(h, p))
<1> DEFINE hit == AugmentHP(h, p, -h.fatigue[p])
           x == [hit.fatigue EXCEPT ![p] = h.fatigue[p] + 1]
<1>1. h.fatigue[p] \in Nat /\ -h.fatigue[p] \in Int
  BY Fields
<1>2. Good(hit)
  BY <1>1, AugmentHPGood
<1> HIDE DEF hit
<1>3. x \in [Players -> Nat]
  BY <1>1, <1>2, Fields
<1>4. [hit EXCEPT !.fatigue[p] = h.fatigue[p] + 1] = [hit EXCEPT !.fatigue = x]
  OBVIOUS
<1> HIDE DEF x
<1>5. Good([hit EXCEPT !.fatigue[p] = h.fatigue[p] + 1])
  BY <1>2, <1>3, <1>4, SetFatigue
<1> QED
  BY <1>5 DEF HandleFatigue, hit

LEMMA DrawGood ==
  ASSUME NEW h, Good(h), NEW p \in Players
  PROVE  Good(Draw(h, p))
<1>1. CASE h.deck[p] = <<>>
  BY <1>1, HandleFatigueGood DEF Draw
<1>2. CASE h.deck[p] # <<>>
  <2> DEFINE d == h.deck[p]
             n == Len(d)
             rest == SubSeq(d, 1, n - 1)
             x == [h.deck EXCEPT ![p] = rest]
             y == [h.hand EXCEPT ![p] = [h.hand[p] EXCEPT ![d[n]] = h.hand[p][d[n]] + 1]]
  <2>1. d \in Seq(Cards) /\ d # <<>> /\ h.hand[p] \in [Cards -> Nat]
    BY <1>2, Fields
  <2>2. n \in Nat /\ n > 0 /\ d[n] \in Cards
    BY <2>1
  <2>3. rest \in Seq(Cards)
    BY <2>1, <2>2
  <2>4. Draw(h, p) = [h EXCEPT !.deck[p] = rest, !.hand[p][d[n]] = @ + 1]
    BY <1>2 DEF Draw
  <2>5. [h EXCEPT !.deck[p] = rest, !.hand[p][d[n]] = @ + 1] = [h EXCEPT !.deck = x, !.hand = y]
    OBVIOUS
  <2> HIDE DEF d, n, rest
  <2>6. x \in [Players -> Seq(Cards)]
    BY <2>3, Fields
  <2>7. y \in [Players -> [Cards -> Nat]]
    BY <2>1, <2>2, Fields
  <2> HIDE DEF x, y
  <2>8. Good([h EXCEPT !.deck = x, !.hand = y])
    BY <2>6, <2>7, SetDeckAndHand
  <2> QED
    BY <2>4, <2>5, <2>8
<1> QED
  BY <1>1, <1>2

LEMMA NaturalDrawGood ==
  ASSUME NEW h, Good(h), NEW p \in Players
  PROVE  Good(NaturalDraw(h, p))
BY DrawGood DEF NaturalDraw

-----------------------------------------------------------------------------
(* One side of one lane.                                                   *)

LEMMA EmptyIsGood == EmptySlot \in GoodSlot
BY DEF EmptySlot, GoodSlot, Slot

\* Every card of the table.
LEMMA CardFields ==
  ASSUME NEW c \in Cards
  PROVE  /\ Catalog[c].power \in Nat /\ Catalog[c].toughness \in Nat
         /\ Catalog[c].cost \in Nat /\ Catalog[c].value \in Nat
         /\ Catalog[c].regen \in Nat /\ Catalog[c].keywords \in SUBSET Keywords
         /\ c # NoCard
         /\ Catalog[c].regen > 0 => "Regen" \in Catalog[c].keywords
         /\ Catalog[c].type = "Creature" => Catalog[c].toughness > 0
         /\ Catalog[c].effects \in Seq(Entry)
BY RulesAssumption DEF Card, NoCard

\* What a lane that holds a creature consists of.
LEMMA SlotFields ==
  ASSUME NEW slot \in GoodSlot, slot.card # NoCard
  PROVE  /\ slot \in Slot /\ slot.card \in Cards
         /\ slot.augment \in Int \X Int /\ slot.augment[1] \in Int /\ slot.augment[2] \in Int
         /\ slot.effects \in SUBSET Keywords
         /\ slot.regen \in Nat \X Nat /\ slot.regen[1] \in Nat /\ slot.regen[2] \in Nat
         /\ Catalog[slot.card].toughness \in Nat /\ Catalog[slot.card].toughness > 0
         /\ Catalog[slot.card].power \in Nat
         /\ Toughness(slot) = Catalog[slot.card].toughness + slot.augment[2]
         /\ Catalog[slot.card].toughness + slot.augment[2] > 0
         /\ slot.regen[1] > 0 => "Regen" \in slot.effects
BY CardFields DEF GoodSlot, Slot, Toughness

\* Continuous effects and regen do not decide whether a creature stands.
LEMMA SlotEffectsGood ==
  ASSUME NEW slot \in GoodSlot, slot.card # NoCard, NEW e \in SUBSET Keywords,
         "Regen" \in slot.effects => "Regen" \in e
  PROVE  [slot EXCEPT !.effects = e] \in GoodSlot
BY SlotFields DEF GoodSlot, Slot, Toughness

LEMMA SlotRegenGood ==
  ASSUME NEW slot \in GoodSlot, slot.card # NoCard, NEW r \in Nat \X Nat,
         r[1] > 0 => "Regen" \in slot.effects
  PROVE  [slot EXCEPT !.regen = r] \in GoodSlot
BY SlotFields DEF GoodSlot, Slot, Toughness

LEMMA SlotAugmentGood ==
  ASSUME NEW slot \in GoodSlot, slot.card # NoCard, NEW a \in Int \X Int,
         Catalog[slot.card].toughness + a[2] > 0
  PROVE  [slot EXCEPT !.augment = a] \in GoodSlot
BY SlotFields DEF GoodSlot, Slot, Toughness

LEMMA AugmentedGood ==
  ASSUME NEW slot \in GoodSlot, slot.card # NoCard, NEW a \in Int \X Int
  PROVE  Augmented(slot, a) \in GoodSlot
<1> DEFINE b == <<slot.augment[1] + a[1], slot.augment[2] + a[2]>>
           next == [slot EXCEPT !.augment = b]
<1>1. b \in Int \X Int /\ b[2] \in Int
  BY SlotFields
<1> HIDE DEF b
<1>2. /\ next \in Slot /\ next.card = slot.card /\ next.augment = b
      /\ next.effects = slot.effects /\ next.regen = slot.regen
  BY <1>1, SlotFields DEF Slot
<1>3. [slot EXCEPT !.augment = <<@[1] + a[1], @[2] + a[2]>>] = next
  BY DEF b
<1> HIDE DEF next
<1>4. Augmented(slot, a) = IF Toughness(next) <= 0 THEN EmptySlot ELSE next
  BY <1>3 DEF Augmented, Destroyed
<1>5. Toughness(next) = Catalog[slot.card].toughness + b[2]
      /\ Catalog[slot.card].toughness + b[2] \in Int
  BY <1>1, <1>2, SlotFields DEF Toughness
<1>6. CASE Toughness(next) <= 0
  BY <1>4, <1>6, EmptyIsGood
<1>7. CASE ~(Toughness(next) <= 0)
  BY <1>2, <1>4, <1>5, <1>7, SlotFields DEF GoodSlot
<1> QED
  BY <1>6, <1>7

-----------------------------------------------------------------------------
(* Creatures.                                                              *)

LEMMA LanesFinite ==
  ASSUME NEW S \in SUBSET Lanes
  PROVE  IsFiniteSet(S) /\ Cardinality(S) \in Nat
<1>1. IsFiniteSet(Lanes)
  BY RulesAssumption, FS_Interval DEF Lanes
<1> QED
  BY <1>1, FS_Subset, FS_CardinalityType

LEMMA RowFields ==
  ASSUME NEW h, Good(h), NEW p \in Players, NEW l \in Lanes
  PROVE  h.board[p] \in Rows /\ h.board[p][l] \in GoodSlot
BY Fields DEF Rows

\* Any row of good lanes may replace a side of the board.
LEMMA WithRowGood ==
  ASSUME NEW h, Good(h), NEW p \in Players, NEW row \in Rows
  PROVE  Good(WithRow(h, p, row))
<1> DEFINE gone(c) == {l \in Lanes : h.board[p][l].card = c /\ row[l].card # c}
           pile == [c \in Cards |-> h.discard[p][c] + Cardinality(gone(c))]
           x == [h.board EXCEPT ![p] = row]
           y == [h.discard EXCEPT ![p] = pile]
<1>1. x \in [Players -> Rows]
  BY Fields
<1>2. ASSUME NEW c \in Cards
      PROVE  Cardinality(gone(c)) \in Nat
  <2>1. gone(c) \in SUBSET Lanes
    OBVIOUS
  <2> HIDE DEF gone
  <2> QED
    BY <2>1, LanesFinite
<1>3. WithRow(h, p, row) = [h EXCEPT !.board = x, !.discard = y]
  BY DEF WithRow
<1> HIDE DEF gone
<1>4. pile \in [Cards -> Nat]
  BY <1>2, Fields
<1> HIDE DEF pile
<1>5. y \in [Players -> [Cards -> Nat]]
  BY <1>4, Fields
<1> HIDE DEF x, y
<1>6. Good([h EXCEPT !.board = x, !.discard = y])
  BY <1>1, <1>5, SetBoardAndDiscard
<1> QED
  BY <1>3, <1>6

\* One good lane may replace another, without a trace on the discard pile.
LEMMA WithSlotGood ==
  ASSUME NEW h, Good(h), NEW p \in Players, NEW l \in Lanes, NEW slot \in GoodSlot
  PROVE  Good([h EXCEPT !.board[p][l] = slot])
<1> DEFINE row == [h.board[p] EXCEPT ![l] = slot]
           x == [h.board EXCEPT ![p] = row]
<1>1. [h EXCEPT !.board[p][l] = slot] = [h EXCEPT !.board = x]
  OBVIOUS
<1>2. row \in Rows
  BY Fields DEF Rows
<1> HIDE DEF row
<1>3. x \in [Players -> Rows]
  BY <1>2, Fields
<1> HIDE DEF x
<1> QED
  BY <1>1, <1>3, SetBoard

LEMMA DestroyCreatureGood ==
  ASSUME NEW h, Good(h), NEW p, NEW l
  PROVE  Good(DestroyCreature(h, p, l))
<1>1. CASE AtLane(h, p, l)
  <2> DEFINE row == [h.board[p] EXCEPT ![l] = EmptySlot]
  <2>1. p \in Players /\ l \in Lanes
    BY <1>1 DEF AtLane
  <2>2. row \in Rows
    BY <2>1, Fields, EmptyIsGood DEF Rows
  <2>3. DestroyCreature(h, p, l) = WithRow(h, p, row)
    BY <1>1 DEF DestroyCreature, Destroyed
  <2> HIDE DEF row
  <2> QED
    BY <2>1, <2>2, <2>3, WithRowGood
<1>2. CASE ~AtLane(h, p, l)
  BY <1>2 DEF DestroyCreature
<1> QED
  BY <1>1, <1>2

LEMMA AugmentCreatureGood ==
  ASSUME NEW h, Good(h), NEW p, NEW l, NEW a \in Int \X Int
  PROVE  Good(AugmentCreature(h, p, l, a))
<1>1. CASE AtLane(h, p, l)
  <2> DEFINE slot == Augmented(h.board[p][l], a)
             row == [h.board[p] EXCEPT ![l] = slot]
  <2>1. p \in Players /\ l \in Lanes /\ h.board[p][l].card # NoCard
    BY <1>1 DEF AtLane, Occupied
  <2>2. slot \in GoodSlot
    BY <2>1, RowFields, AugmentedGood
  <2>3. AugmentCreature(h, p, l, a) = WithRow(h, p, row)
    BY <1>1 DEF AugmentCreature
  <2> HIDE DEF slot
  <2>4. row \in Rows
    BY <2>1, <2>2, Fields DEF Rows
  <2> HIDE DEF row
  <2> QED
    BY <2>1, <2>3, <2>4, WithRowGood
<1>2. CASE ~AtLane(h, p, l)
  BY <1>2 DEF AugmentCreature
<1> QED
  BY <1>1, <1>2

LEMMA AugmentAllGood ==
  ASSUME NEW h, Good(h), NEW p, NEW a \in Int \X Int
  PROVE  Good(AugmentAll(h, p, a))
<1> DEFINE row == [l \in Lanes |-> IF Occupied(h, p, l) THEN Augmented(h.board[p][l], a)
                                   ELSE h.board[p][l]]
<1>1. CASE h.running /\ p \in Players
  <2>1. ASSUME NEW l \in Lanes
        PROVE  (IF Occupied(h, p, l) THEN Augmented(h.board[p][l], a)
                                     ELSE h.board[p][l]) \in GoodSlot
    BY <1>1, RowFields, AugmentedGood DEF Occupied
  <2>2. row \in Rows
    BY <2>1 DEF Rows
  <2>3. AugmentAll(h, p, a) = WithRow(h, p, row)
    BY <1>1 DEF AugmentAll
  <2> HIDE DEF row
  <2> QED
    BY <1>1, <2>2, <2>3, WithRowGood
<1>2. CASE ~(h.running /\ p \in Players)
  BY <1>2 DEF AugmentAll
<1> QED
  BY <1>1, <1>2

\* setCreature never sets a toughness below 1: the card table has no such entry.
LEMMA SetCreatureGood ==
  ASSUME NEW h, Good(h), NEW p, NEW l, NEW v \in Int \X Int, v[2] > 0
  PROVE  Good(SetCreature(h, p, l, v))
<1>1. CASE AtLane(h, p, l)
  <2> DEFINE slot == h.board[p][l]
             card == Catalog[slot.card]
             a == <<v[1] - card.power, Smaller(v[2], card.toughness) - card.toughness>>
  <2>1. p \in Players /\ l \in Lanes /\ slot.card # NoCard /\ slot \in GoodSlot
    BY <1>1, RowFields DEF AtLane, Occupied
  <2>2. a \in Int \X Int /\ card.toughness + a[2] > 0
    BY <2>1, SlotFields DEF Smaller
  <2>3. SetCreature(h, p, l, v) = [h EXCEPT !.board[p][l].augment = a]
    BY <1>1 DEF SetCreature
  <2> HIDE DEF a
  <2>4. [h EXCEPT !.board[p][l].augment = a]
          = [h EXCEPT !.board[p][l] = [slot EXCEPT !.augment = a]]
    OBVIOUS
  <2>5. [slot EXCEPT !.augment = a] \in GoodSlot
    BY <2>1, <2>2, SlotAugmentGood
  <2> QED
    BY <2>1, <2>3, <2>4, <2>5, WithSlotGood
<1>2. CASE ~AtLane(h, p, l)
  BY <1>2 DEF SetCreature
<1> QED
  BY <1>1, <1>2

LEMMA CreatureEffectGood ==
  ASSUME NEW h, Good(h), NEW p, NEW l, NEW k \in Keywords
  PROVE  /\ Good(AddCreatureEffect(h, p, l, k))
         /\ k # "Regen" => Good(RemoveCreatureEffect(h, p, l, k))
<1>1. CASE AtLane(h, p, l)
  <2> DEFINE slot == h.board[p][l]
             more == slot.effects \cup {k}
             less == slot.effects \ {k}
  <2>1. p \in Players /\ l \in Lanes /\ slot.card # NoCard /\ slot \in GoodSlot
    BY <1>1, RowFields DEF AtLane, Occupied
  <2>2. /\ more \in SUBSET Keywords /\ less \in SUBSET Keywords
        /\ "Regen" \in slot.effects => "Regen" \in more
        /\ k # "Regen" /\ "Regen" \in slot.effects => "Regen" \in less
    BY <2>1, SlotFields
  <2>3. /\ AddCreatureEffect(h, p, l, k)
             = [h EXCEPT !.board[p][l] = [slot EXCEPT !.effects = more]]
        /\ RemoveCreatureEffect(h, p, l, k)
             = [h EXCEPT !.board[p][l] = [slot EXCEPT !.effects = less]]
    BY <1>1 DEF AddCreatureEffect, RemoveCreatureEffect
  <2> HIDE DEF more, less
  <2>4. /\ [slot EXCEPT !.effects = more] \in GoodSlot
        /\ k # "Regen" => [slot EXCEPT !.effects = less] \in GoodSlot
    BY <2>1, <2>2, SlotEffectsGood
  <2> QED
    BY <2>1, <2>3, <2>4, WithSlotGood
<1>2. CASE ~AtLane(h, p, l)
  BY <1>2 DEF AddCreatureEffect, RemoveCreatureEffect
<1> QED
  BY <1>1, <1>2

LEMMA SetCreatureRegenGood ==
  ASSUME NEW h, Good(h), NEW p, NEW l, NEW n \in Int
  PROVE  Good(SetCreatureRegen(h, p, l, n))
<1>1. CASE AtLane(h, p, l) /\ n > 0
  <2> DEFINE slot == h.board[p][l]
             e == slot.effects \cup {"Regen"}
             r == MoreRegen(slot.regen, n)
             with == [slot EXCEPT !.effects = e, !.regen = r]
  <2>1. p \in Players /\ l \in Lanes /\ slot.card # NoCard /\ slot \in GoodSlot
    BY <1>1, RowFields DEF AtLane, Occupied
  <2>2. e \in SUBSET Keywords /\ "Regen" \in e
    BY <2>1, SlotFields DEF Keywords
  <2>3. r \in Nat \X Nat
    BY <1>1, <2>1, SlotFields DEF MoreRegen
  <2>4. SetCreatureRegen(h, p, l, n) = [h EXCEPT !.board[p][l] = WithRegen(slot, n)]
    BY <1>1 DEF SetCreatureRegen
  <2>5. WithRegen(slot, n) = with
    BY DEF WithRegen
  <2> HIDE DEF e, r, slot
  <2>6. with \in GoodSlot
    BY <2>1, <2>2, <2>3, SlotFields DEF GoodSlot, Slot, Toughness
  <2> HIDE DEF with
  <2>7. Good([h EXCEPT !.board[p][l] = with])
    BY <2>1, <2>6, WithSlotGood
  <2> QED
    BY <2>4, <2>5, <2>7
<1>2. CASE ~(AtLane(h, p, l) /\ n > 0)
  BY <1>2 DEF SetCreatureRegen
<1> QED
  BY <1>1, <1>2

-----------------------------------------------------------------------------
(* Card effects.                                                           *)

LEMMA OtherPlayer ==
  ASSUME NEW p \in Players
  PROVE  Other(p) \in Players /\ Other(p) # p /\ Other(Other(p)) = p
BY DEF Players, Other

\* An amount above 0 kills nobody; what it takes from the opponent may.
LEMMA FinalGambitGood ==
  ASSUME NEW h, Good(h), NEW p \in Players, NEW n \in Int, n > 0
  PROVE  Good(FinalGambit(h, p, n))
<1>1. Good(SetHP(h, p, n))
  BY SetHPGood
<1>2. -(h.health[p] - n) \in Int
  BY Fields
<1>3. Good(AugmentHP(SetHP(h, p, n), Other(p), -(h.health[p] - n)))
  BY <1>1, <1>2, OtherPlayer, AugmentHPGood
<1> QED
  BY <1>1, <1>3 DEF FinalGambit

LEMMA HealthPerCreatureGood ==
  ASSUME NEW h, Good(h), NEW p \in Players, NEW n \in Int
  PROVE  Good(HealthPerCreature(h, p, n))
<1>1. CreaturesOwned(h, p) \in Nat
  <2> DEFINE S == {l \in Lanes : Occupied(h, p, l)}
  <2>1. S \in SUBSET Lanes
    OBVIOUS
  <2>2. CreaturesOwned(h, p) = Cardinality(S)
    BY DEF CreaturesOwned
  <2> HIDE DEF S
  <2> QED
    BY <2>1, <2>2, LanesFinite
<1>2. CreaturesOwned(h, p) * n \in Int
  BY <1>1
<1> QED
  BY <1>2, AugmentHPGood DEF HealthPerCreature

LEMMA DrawCardsGood ==
  ASSUME NEW h, Good(h), NEW p \in Players, NEW n
  PROVE  Good(DrawCards(h, p, n))
BY DrawGood DEF DrawCards

\* The entries RulesAssumption admits.
LEMMA CardEntries ==
  ASSUME NEW c \in Cards, NEW i \in DOMAIN Catalog[c].effects
  PROVE  /\ Catalog[c].effects[i] \in Entry
         /\ Catalog[c].effects[i].effect = 4 => Catalog[c].effects[i].augment[2] > 0
         /\ Catalog[c].effects[i].effect \in {6, 11} => Catalog[c].effects[i].amount > 0
         /\ Catalog[c].effects[i].effect = 8 => Catalog[c].effects[i].keyword # "Regen"
<1> DEFINE s == Catalog[c].effects
<1>1. s \in Seq(Entry)
  BY CardFields
<1>2. /\ s[i].effect = 4 => s[i].augment[2] > 0
      /\ s[i].effect \in {6, 11} => s[i].amount > 0
      /\ s[i].effect = 8 => s[i].keyword # "Regen"
  BY RulesAssumption
<1> HIDE DEF s
<1>3. \A j \in DOMAIN s : s[j] \in Entry
  BY <1>1
<1> QED
  BY <1>2, <1>3 DEF s

\* Each of the effects of the card table.
LEMMA EffectGood ==
  ASSUME NEW h, Good(h), NEW e \in Entry, NEW caster \in Players, NEW l, NEW target,
         e.effect = 4 => e.augment[2] > 0, e.effect \in {6, 11} => e.amount > 0,
         e.effect = 8 => e.keyword # "Regen"
  PROVE  Good(Effect(h, e, caster, l, target))
<1> DEFINE who == TargetOr(caster, target)
<1>1. /\ e.effect \in 0 .. 12 /\ e.amount \in Int
      /\ e.augment \in Int \X Int /\ e.keyword \in Keywords
  BY DEF Entry
<1>2. who \in Players
  BY DEF TargetOr
<1> HIDE DEF who
<1>3. CASE e.effect = 0
  <2>1. Effect(h, e, caster, l, target) = AugmentCreature(h, target, l, e.augment)
    BY <1>3 DEF Effect
  <2> QED
    BY <1>1, <2>1, AugmentCreatureGood
<1>4. CASE e.effect = 1
  <2>1. Effect(h, e, caster, l, target) = DestroyCreature(h, target, l)
    BY <1>4 DEF Effect
  <2> QED
    BY <2>1, DestroyCreatureGood
<1>5. CASE e.effect = 2
  <2>1. Effect(h, e, caster, l, target) = AugmentAll(h, target, e.augment)
    BY <1>5 DEF Effect
  <2> QED
    BY <1>1, <2>1, AugmentAllGood
<1>6. CASE e.effect = 3
  <2>1. Effect(h, e, caster, l, target) = AugmentHP(h, who, e.amount)
    BY <1>6 DEF Effect, who
  <2> QED
    BY <1>1, <1>2, <2>1, AugmentHPGood
<1>7. CASE e.effect = 4
  <2>1. Effect(h, e, caster, l, target) = SetCreature(h, target, l, e.augment)
    BY <1>7 DEF Effect
  <2> QED
    BY <1>1, <1>7, <2>1, SetCreatureGood
<1>8. CASE e.effect = 5
  <2>1. Effect(h, e, caster, l, target) = AugmentMana(h, who, e.amount)
    BY <1>8 DEF Effect, who
  <2> QED
    BY <1>1, <1>2, <2>1, AugmentManaGood
<1>9. CASE e.effect = 6
  <2>1. Effect(h, e, caster, l, target) = SetHP(h, caster, e.amount)
    BY <1>9 DEF Effect
  <2> QED
    BY <1>1, <1>9, <2>1, SetHPGood
<1>10. CASE e.effect \in {7, 8}
  <2>1. \/ Effect(h, e, caster, l, target) = AddCreatureEffect(h, target, l, e.keyword)
        \/ /\ e.keyword # "Regen"
           /\ Effect(h, e, caster, l, target) = RemoveCreatureEffect(h, target, l, e.keyword)
    BY <1>10 DEF Effect
  <2> QED
    BY <1>1, <2>1, CreatureEffectGood
<1>11. CASE e.effect = 9
  <2>1. Effect(h, e, caster, l, target) = SetCreatureRegen(h, target, l, e.amount)
    BY <1>11 DEF Effect
  <2> QED
    BY <1>1, <2>1, SetCreatureRegenGood
<1>12. CASE e.effect = 10
  <2>1. Effect(h, e, caster, l, target) = HealthPerCreature(h, who, e.amount)
    BY <1>12 DEF Effect, who
  <2> QED
    BY <1>1, <1>2, <2>1, HealthPerCreatureGood
<1>13. CASE e.effect = 11
  <2>1. Effect(h, e, caster, l, target) = FinalGambit(h, who, e.amount)
    BY <1>13 DEF Effect, who
  <2> QED
    BY <1>1, <1>2, <1>13, <2>1, FinalGambitGood
<1>14. CASE e.effect = 12
  <2>1. Effect(h, e, caster, l, target) = DrawCards(h, caster, e.amount)
    BY <1>14 DEF Effect
  <2> QED
    BY <2>1, DrawCardsGood
<1> QED
  BY <1>1, <1>3, <1>4, <1>5, <1>6, <1>7, <1>8, <1>9, <1>10, <1>11, <1>12, <1>13, <1>14

LEMMA TriggerCardEffectsGood ==
  ASSUME NEW h, Good(h), NEW caster \in Players, NEW card \in Cards, NEW l, NEW target,
         NEW trigger
  PROVE  Good(TriggerCardEffects(h, caster, card, l, target, trigger))
<1> DEFINE entries == Catalog[card].effects
           Nth(k, n) == IF n \in DOMAIN entries
                        THEN ApplyEntry(k, entries[n], trigger, caster, l, target) ELSE k
<1>1. ASSUME NEW k, Good(k), NEW n
      PROVE  Good(Nth(k, n))
  <2>1. CASE n \in DOMAIN entries
    <3> DEFINE e == entries[n]
               to == EntryTarget(e, caster, target)
    <3>1. /\ e \in Entry
          /\ e.effect = 4 => e.augment[2] > 0
          /\ e.effect \in {6, 11} => e.amount > 0
          /\ e.effect = 8 => e.keyword # "Regen"
      BY <2>1, CardEntries
    <3> HIDE DEF e, to
    <3>2. Good(Effect(k, e, caster, l, to))
      BY <1>1, <3>1, EffectGood
    <3>3. Good(ApplyEntry(k, e, trigger, caster, l, target))
      BY <1>1, <3>2 DEF ApplyEntry, to
    <3> QED
      BY <2>1, <3>3 DEF e
  <2>2. CASE n \notin DOMAIN entries
    BY <1>1, <2>2
  <2> QED
    BY <2>1, <2>2
<1>2. TriggerCardEffects(h, caster, card, l, target, trigger)
        = IF h.running THEN Nth(Nth(h, 1), 2) ELSE h
  BY DEF TriggerCardEffects
<1> HIDE DEF Nth
<1>3. Good(Nth(Nth(h, 1), 2))
  BY <1>1
<1> QED
  BY <1>2, <1>3

-----------------------------------------------------------------------------
(* Combat.                                                                 *)

LEMMA PowerType ==
  ASSUME NEW h, Good(h), NEW p \in Players, NEW l \in Lanes
  PROVE  Power(h.board[p][l]) \in Int /\ Toughness(h.board[p][l]) \in Int
BY RowFields, SlotFields DEF Power, Toughness

LEMMA BlowType ==
  ASSUME NEW h, Good(h), NEW k, NEW l \in Lanes, NEW p \in Players
  PROVE  Blow(h, k, l, p).damage \in Int /\ Blow(h, k, l, p).overflow \in Int
<1> DEFINE power == Power(h.board[p][l])
           across == Toughness(h.board[Other(p)][l])
           lethal == IF "Deathtouch" \in k[p] THEN 1 ELSE across
<1>1. power \in Int /\ across \in Int /\ lethal \in Int
  BY PowerType, OtherPlayer
<1>2. /\ Blow(h, k, l, p).damage
           = IF power <= 0 THEN 0 ELSE IF "Deathtouch" \in k[p] THEN 1 ELSE power
      /\ Blow(h, k, l, p).overflow
           = IF "Trample" \in k[p] /\ power > 0 /\ power > lethal THEN power - lethal ELSE 0
  BY DEF Blow
<1> HIDE DEF power, lethal
<1> QED
  BY <1>1, <1>2

LEMMA HealGood ==
  ASSUME NEW h, Good(h), NEW k, NEW p \in Players, NEW n \in Int
  PROVE  Good(Heal(h, k, p, n))
BY AugmentHPGood DEF Heal

LEMMA DirectDamageGood ==
  ASSUME NEW h, Good(h), NEW k, NEW p \in Players, NEW n \in Int
  PROVE  Good(DirectDamage(h, k, p, n))
<1> DEFINE hit == AugmentHP(h, Other(p), -n)
<1>1. Good(hit)
  BY OtherPlayer, AugmentHPGood
<1> HIDE DEF hit
<1>2. Good(Heal(hit, k, p, n))
  BY <1>1, HealGood
<1> QED
  BY <1>2 DEF DirectDamage, hit

LEMMA StrikeGood ==
  ASSUME NEW h, Good(h), NEW k, NEW l, NEW p \in Players, NEW n \in Int
  PROVE  Good(Strike(h, k, l, p, n))
<1> DEFINE hit == AugmentCreature(h, Other(p), l, <<0, -n>>)
<1>1. <<0, -n>> \in Int \X Int
  OBVIOUS
<1>2. Good(hit)
  BY <1>1, AugmentCreatureGood
<1> HIDE DEF hit
<1>3. Good(Heal(hit, k, p, n))
  BY <1>2, HealGood
<1> QED
  BY <1>3 DEF Strike, hit

LEMMA TouchGood ==
  ASSUME NEW h, Good(h), NEW l, NEW p \in Players, NEW kills
  PROVE  Good(Touch(h, l, p, kills))
BY DestroyCreatureGood DEF Touch

LEMMA OnKillGood ==
  ASSUME NEW h, Good(h), NEW l \in Lanes, NEW p \in Players, NEW fought
  PROVE  Good(OnKill(h, l, p, fought))
<1>1. CASE Occupied(h, p, l)
  <2>1. h.board[p][l].card \in Cards
    BY <1>1, RowFields, SlotFields DEF Occupied
  <2> QED
    BY <2>1, TriggerCardEffectsGood DEF OnKill
<1>2. CASE ~Occupied(h, p, l)
  BY <1>2 DEF OnKill
<1> QED
  BY <1>1, <1>2

LEMMA ExchangeGood ==
  ASSUME NEW h, Good(h), NEW k, NEW l \in Lanes
  PROVE  Good(Exchange(h, k, l))
<1> DEFINE blow == [p \in Players |-> Blow(h, k, l, p)]
           h1 == Strikes(h, k, l, blow)
           h2 == Touches(h1, l, blow)
           h3 == Kills(h2, l, blow)
<1>1. 0 \in Players /\ 1 \in Players
  BY DEF Players
<1>2. \A p \in Players : blow[p].damage \in Int /\ blow[p].overflow \in Int
  BY BlowType
<1>3. Exchange(h, k, l) = Overflows(h3, k, blow)
  BY DEF Exchange
<1> HIDE DEF blow
<1>4. Good(h1)
  BY <1>1, <1>2, StrikeGood DEF Strikes
<1> HIDE DEF h1
<1>5. Good(h2)
  BY <1>1, <1>4, TouchGood DEF Touches
<1> HIDE DEF h2
<1>6. Good(h3)
  BY <1>1, <1>5, OnKillGood DEF Kills
<1> HIDE DEF h3
<1>7. Good(Overflows(h3, k, blow))
  BY <1>1, <1>2, <1>6, DirectDamageGood DEF Overflows
<1> QED
  BY <1>3, <1>7

LEMMA ResolveCombatOnceGood ==
  ASSUME NEW h, Good(h), NEW k, NEW l \in Lanes
  PROVE  Good(ResolveCombatOnce(h, k, l))
<1> DEFINE deal(p) == DirectDamage(h, k, p, Power(h.board[p][l]))
<1>1. Good(deal(0)) /\ Good(deal(1))
  <2>1. 0 \in Players /\ 1 \in Players
    BY DEF Players
  <2> QED
    BY <2>1, PowerType, DirectDamageGood
<1>2. Good(Exchange(h, k, l))
  BY ExchangeGood
<1>3. ResolveCombatOnce(h, k, l) \in {h, deal(0), deal(1), Exchange(h, k, l)}
  BY DEF ResolveCombatOnce
<1> QED
  BY <1>1, <1>2, <1>3

\* A lane's side is what the row says; healing kills no creature.
LEMMA WithRowBoard ==
  ASSUME NEW h, Good(h), NEW p \in Players, NEW row \in Rows
  PROVE  WithRow(h, p, row).board[p] = row
<1> DEFINE gone(c) == {l \in Lanes : h.board[p][l].card = c /\ row[l].card # c}
           pile == [c \in Cards |-> h.discard[p][c] + Cardinality(gone(c))]
           x == [h.board EXCEPT ![p] = row]
           y == [h.discard EXCEPT ![p] = pile]
<1>1. WithRow(h, p, row) = [h EXCEPT !.board = x, !.discard = y]
  BY DEF WithRow
<1>2. x[p] = row
  BY Fields
<1> HIDE DEF x, y
<1>3. [h EXCEPT !.board = x, !.discard = y].board = x
  BY Fields DEF GoodGame
<1> QED
  BY <1>1, <1>2, <1>3

LEMMA HealedStays ==
  ASSUME NEW h, Good(h), NEW p \in Players, NEW l \in Lanes, h.board[p][l].card # NoCard,
         NEW n \in Nat
  PROVE  LET healed == AugmentCreature(h, p, l, <<0, n>>).board[p][l]
         IN  healed.card # NoCard /\ healed.effects = h.board[p][l].effects
<1> DEFINE slot == h.board[p][l]
           a == <<0, n>>
           b == <<slot.augment[1] + a[1], slot.augment[2] + a[2]>>
           next == [slot EXCEPT !.augment = b]
           row == [h.board[p] EXCEPT ![l] = Augmented(slot, a)]
<1>1. slot \in GoodSlot /\ a \in Int \X Int
  BY RowFields
<1>2. Augmented(slot, a) \in GoodSlot
  BY <1>1, AugmentedGood
<1>3. b \in Int \X Int /\ Catalog[slot.card].toughness + b[2] > 0
  BY <1>1, SlotFields
<1>4. [slot EXCEPT !.augment = <<@[1] + a[1], @[2] + a[2]>>] = next
  OBVIOUS
<1> HIDE DEF b
<1>5. next.card = slot.card /\ next.augment = b /\ next.effects = slot.effects
  BY <1>1, SlotFields DEF Slot
<1>6. ~(Toughness(next) <= 0)
  BY <1>1, <1>3, <1>5, SlotFields DEF Toughness
<1> HIDE DEF next
<1>7. Augmented(slot, a).card # NoCard /\ Augmented(slot, a).effects = slot.effects
  BY <1>4, <1>5, <1>6 DEF Augmented
<1>8. CASE h.running
  <2>1. AugmentCreature(h, p, l, a) = WithRow(h, p, row)
    BY <1>8 DEF AugmentCreature, AtLane, Occupied
  <2>2. row \in Rows /\ row[l] = Augmented(slot, a)
    BY <1>2, Fields DEF Rows
  <2> HIDE DEF row, a
  <2>3. WithRow(h, p, row).board[p] = row
    BY <2>2, WithRowBoard
  <2> QED
    BY <1>7, <2>1, <2>2, <2>3 DEF a
<1>9. CASE ~h.running
  BY <1>9 DEF AugmentCreature, AtLane
<1> QED
  BY <1>8, <1>9

LEMMA TickRegenGood ==
  ASSUME NEW h, Good(h), NEW p \in Players, NEW l \in Lanes
  PROVE  Good(TickRegen(h, p, l))
<1> DEFINE slot    == h.board[p][l]
           value   == slot.regen[1]
           left    == slot.regen[2] - 1
           missing == IF slot.augment[2] < 0 THEN -slot.augment[2] ELSE 0
           heal    == Smaller(value, missing)
           healed  == IF left <= 0 /\ heal > 0 THEN AugmentCreature(h, p, l, <<0, heal>>) ELSE h
           regen   == <<value, IF left <= 0 THEN 2 ELSE left>>
<1>1. CASE slot.card = NoCard \/ value = 0
  BY <1>1 DEF TickRegen
<1>2. CASE ~(slot.card = NoCard \/ value = 0)
  <2>1. slot \in GoodSlot
    BY RowFields
  <2>2. heal \in Nat /\ left \in Int /\ regen \in Nat \X Nat
    BY <1>2, <2>1, SlotFields DEF Smaller
  <2>3. TickRegen(h, p, l) = [healed EXCEPT !.board[p][l].regen = regen]
    BY <1>2 DEF TickRegen
  <2> HIDE DEF heal, left, regen
  <2>4. <<0, heal>> \in Int \X Int
    BY <2>2
  <2>5. Good(healed)
    BY <2>4, AugmentCreatureGood
  <2>6. healed.board[p][l].card # NoCard /\ healed.board[p][l].effects = slot.effects
    BY <1>2, <2>2, HealedStays
  <2>6a. value > 0 /\ "Regen" \in slot.effects /\ regen[1] = value
    BY <1>2, <2>1, SlotFields DEF regen
  <2> HIDE DEF healed, slot, value
  <2> DEFINE next == [healed.board[p][l] EXCEPT !.regen = regen]
  <2>7. healed.board[p][l] \in GoodSlot
    BY <2>5, RowFields
  <2>8. next \in GoodSlot
    BY <2>2, <2>6, <2>6a, <2>7, SlotRegenGood
  <2>9. [healed EXCEPT !.board[p][l].regen = regen] = [healed EXCEPT !.board[p][l] = next]
    OBVIOUS
  <2> HIDE DEF next
  <2> QED
    BY <2>3, <2>5, <2>8, <2>9, WithSlotGood
<1> QED
  BY <1>1, <1>2

LEMMA ResolveLaneCombatGood ==
  ASSUME NEW h, Good(h), NEW l \in Lanes
  PROVE  Good(ResolveLaneCombat(h, l))
<1> DEFINE k == [p \in Players |-> h.board[p][l].effects]
           ticked == TickRegen(TickRegen(h, 0, l), 1, l)
           first == IF \E p \in Players : "Double Strike" \in k[p]
                    THEN ResolveCombatOnce(ticked, k, l) ELSE ticked
<1>1. ResolveLaneCombat(h, l) \in {h, ResolveCombatOnce(first, k, l)}
  BY DEF ResolveLaneCombat
<1>2. Good(ticked)
  BY TickRegenGood DEF Players
<1> HIDE DEF ticked, k
<1>3. Good(first)
  BY <1>2, ResolveCombatOnceGood
<1> HIDE DEF first
<1>4. Good(ResolveCombatOnce(first, k, l))
  BY <1>3, ResolveCombatOnceGood
<1> QED
  BY <1>1, <1>4

-----------------------------------------------------------------------------
(* The players' actions.                                                   *)

LEMMA PayGood ==
  ASSUME NEW h, Good(h), NEW p \in Players, NEW c \in Cards
  PROVE  Good(Pay(h, p, c)) /\ Pay(h, p, c).board = h.board /\ Pay(h, p, c).hand = h.hand
<1> DEFINE x == [h.mana EXCEPT ![p] = h.mana[p] - Catalog[c].cost]
<1>1. x \in [Players -> Int]
  BY Fields, CardFields
<1>2. Pay(h, p, c) = [h EXCEPT !.mana = x]
  BY DEF Pay
<1> HIDE DEF x
<1>3. Good([h EXCEPT !.mana = x])
  BY <1>1, SetMana
<1>4. [h EXCEPT !.mana = x].board = h.board /\ [h EXCEPT !.mana = x].hand = h.hand
  BY Fields DEF GoodGame
<1> QED
  BY <1>2, <1>3, <1>4

LEMMA FromHandGood ==
  ASSUME NEW h, Good(h), NEW p \in Players, NEW c \in Cards, h.hand[p][c] # 0
  PROVE  Good(FromHand(h, p, c)) /\ FromHand(h, p, c).board = h.board
<1> DEFINE fewer == [h.hand[p] EXCEPT ![c] = h.hand[p][c] - 1]
           x == [h.hand EXCEPT ![p] = fewer]
<1>1. h.hand[p] \in [Cards -> Nat]
  BY Fields
<1>2. fewer \in [Cards -> Nat]
  BY <1>1
<1>3. FromHand(h, p, c) = [h EXCEPT !.hand = x]
  BY DEF FromHand
<1> HIDE DEF fewer
<1>4. x \in [Players -> [Cards -> Nat]]
  BY <1>2, Fields
<1> HIDE DEF x
<1>5. Good([h EXCEPT !.hand = x])
  BY <1>4, SetHand
<1>6. [h EXCEPT !.hand = x].board = h.board
  BY Fields DEF GoodGame
<1> QED
  BY <1>3, <1>5, <1>6

\* A bare lane hands nothing on to the creature that is summoned into it.
LEMMA SummonedGood ==
  ASSUME NEW c \in Cards, Catalog[c].type = "Creature"
  PROVE  Summoned(EmptySlot, c) \in GoodSlot
<1> DEFINE slot == Summoned(EmptySlot, c)
<1>1. /\ slot.card = c /\ slot.augment = <<0, 0>>
      /\ slot.regen[1] > 0 => "Regen" \in slot.effects
  BY CardFields DEF Summoned, EmptySlot
<1>2. slot \in Slot
  BY CardFields DEF Summoned, EmptySlot, Slot
<1>3. Toughness(slot) = Catalog[c].toughness
  BY <1>1, CardFields DEF Toughness
<1> HIDE DEF slot
<1>4. slot \in GoodSlot
  BY <1>1, <1>2, <1>3, CardFields DEF GoodSlot
<1> QED
  BY <1>4 DEF slot

LEMMA HandleSummonGood ==
  ASSUME NEW h, Good(h), NEW p \in Players, NEW c \in Cards, NEW l,
         Catalog[c].type = "Creature"
  PROVE  Good(HandleSummon(h, p, c, l))
<1> DEFINE paid == Pay(h, p, c)
           taken == FromHand(paid, p, c)
           placed == [taken EXCEPT !.board[p][l] = Summoned(taken.board[p][l], c)]
           refused == ~h.running \/ l \notin Lanes \/ Occupied(h, p, l)
                        \/ h.mana[p] < Catalog[c].cost
<1>1. HandleSummon(h, p, c, l)
        = IF refused THEN h
          ELSE IF h.hand[p][c] = 0 THEN paid
          ELSE TriggerCardEffects(placed, p, c, NoLane, NoOne, "OnCast")
  BY DEF HandleSummon
<1>2. Good(paid) /\ paid.board = h.board /\ paid.hand = h.hand
  BY PayGood
<1>3. CASE refused
  BY <1>1, <1>3
<1>4. CASE ~refused /\ h.hand[p][c] = 0
  BY <1>1, <1>2, <1>4
<1>5. CASE ~refused /\ h.hand[p][c] # 0
  <2>1. l \in Lanes /\ h.board[p][l] = EmptySlot
    BY <1>5, RowFields DEF Occupied, GoodSlot
  <2> HIDE DEF paid, refused
  <2>2. Good(taken) /\ taken.board = h.board
    BY <1>2, <1>5, FromHandGood
  <2>3. Summoned(taken.board[p][l], c) \in GoodSlot
    BY <2>1, <2>2, SummonedGood
  <2> HIDE DEF taken
  <2>4. Good(placed)
    BY <2>1, <2>2, <2>3, WithSlotGood
  <2> HIDE DEF placed
  <2>5. Good(TriggerCardEffects(placed, p, c, NoLane, NoOne, "OnCast"))
    BY <2>4, TriggerCardEffectsGood
  <2> QED
    BY <1>1, <1>5, <2>5
<1> QED
  BY <1>3, <1>4, <1>5

LEMMA HandleSpellGood ==
  ASSUME NEW h, Good(h), NEW p \in Players, NEW c \in Cards, NEW l, NEW t
  PROVE  Good(HandleSpell(h, p, c, l, t))
<1> DEFINE paid == Pay(h, p, c)
           taken == FromHand(paid, p, c)
           cast == TriggerCardEffects(taken, p, c, l, ServerTargetIndex(p, t), "OnCast")
<1>1. HandleSpell(h, p, c, l, t)
        = IF ~h.running \/ h.mana[p] < Catalog[c].cost THEN h
          ELSE IF h.hand[p][c] = 0 THEN paid ELSE cast
  BY DEF HandleSpell
<1>2. Good(paid) /\ paid.hand = h.hand
  BY PayGood
<1> HIDE DEF paid
<1>3. h.hand[p][c] # 0 => Good(cast)
  <2>1. h.hand[p][c] # 0 => Good(taken)
    BY <1>2, FromHandGood
  <2> HIDE DEF taken
  <2> QED
    BY <2>1, TriggerCardEffectsGood
<1> HIDE DEF cast
<1> QED
  BY <1>1, <1>2, <1>3

LEMMA HandleDiscardGood ==
  ASSUME NEW h, Good(h), NEW p \in Players, NEW c \in Cards
  PROVE  Good(HandleDiscard(h, p, c))
<1> DEFINE more == [h.discard[p] EXCEPT ![c] = h.discard[p][c] + 1]
           x == [h.discard EXCEPT ![p] = more]
           piled == [h EXCEPT !.discard = x]
           taken == IF h.hand[p][c] > 0 THEN FromHand(piled, p, c) ELSE piled
<1>1. HandleDiscard(h, p, c) = IF h.running THEN AugmentMana(taken, p, Catalog[c].value) ELSE h
  BY DEF HandleDiscard
<1>2. more \in [Cards -> Nat]
  BY Fields
<1> HIDE DEF more
<1>3. x \in [Players -> [Cards -> Nat]]
  BY <1>2, Fields
<1> HIDE DEF x
<1>4. Good(piled)
  BY <1>3, SetDiscard
<1>5. piled.hand = h.hand
  BY Fields DEF GoodGame
<1> HIDE DEF piled
<1>6. Good(taken)
  <2>1. h.hand[p][c] \in Nat
    BY Fields
  <2> QED
    BY <1>4, <1>5, <2>1, FromHandGood
<1> HIDE DEF taken
<1>7. Catalog[c].value \in Int
  BY CardFields
<1>8. Good(AugmentMana(taken, p, Catalog[c].value))
  BY <1>6, <1>7, AugmentManaGood
<1> QED
  BY <1>1, <1>8

\* Every message processActions handles.
LEMMA HandledGood ==
  ASSUME NEW h, Good(h), NEW m \in Message
  PROVE  Good(Handled(h, m))
<1>1. /\ m.player \in Players /\ m.type \in {"PLAY", "DISCARD", "SURRENDER"}
      /\ m.type # "SURRENDER" => m.card \in Cards
  BY DEF Message
<1>2. CASE m.type = "DISCARD"
  BY <1>1, <1>2, HandleDiscardGood DEF Handled
<1>3. CASE m.type = "SURRENDER"
  BY <1>1, <1>3, EndMatchGood DEF Handled, HandleSurrender
<1>4. CASE m.type = "PLAY"
  <2>1. CASE Catalog[m.card].type = "Creature"
    BY <1>1, <1>4, <2>1, HandleSummonGood DEF Handled
  <2>2. CASE Catalog[m.card].type # "Creature"
    BY <1>1, <1>4, <2>2, HandleSpellGood DEF Handled
  <2> QED
    BY <2>1, <2>2
<1> QED
  BY <1>1, <1>2, <1>3, <1>4

-----------------------------------------------------------------------------
(* The game thread and the clients.                                        *)

Shape ==
  /\ phase \in Phases
  /\ opened \in Nat
  /\ lane \in Lanes
  /\ rounds \in 0 .. MaxRounds
  /\ attackDue \in BOOLEAN
  /\ actionQueue \in Seq(Message)
  /\ localQueue \in Seq(Message)
  /\ alive \in [Players -> BOOLEAN]

IInv == Good(g) /\ Shape

LEMMA InitGood == Init => IInv
<1> SUFFICES ASSUME Init PROVE IInv
  OBVIOUS
<1>1. PICK decks \in Matchups : g = NewGame(decks)
  BY DEF Init
<1>2. decks \in [Players -> Seq(Cards)]
  BY SessionAssumption
<1>3. NewGame(decks) \in GoodGame
  BY <1>2, EmptyIsGood, SessionAssumption DEF NewGame, GoodGame, Rows
<1>4. Decided(NewGame(decks))
  BY SessionAssumption DEF NewGame, Decided
<1>5. Shape
  <2>1. 0 \in Lanes /\ 0 \in 0 .. MaxRounds
    BY SessionAssumption, RulesAssumption DEF Lanes
  <2>2. <<>> \in Seq(Message)
    OBVIOUS
  <2> QED
    BY <2>1, <2>2 DEF Init, Shape, Phases
<1> QED
  BY <1>1, <1>3, <1>4, <1>5 DEF IInv, Good

LEMMA BothDrawGood ==
  ASSUME NEW h, Good(h)
  PROVE  Good(NaturalDraw(NaturalDraw(h, 0), 1))
<1>1. Good(NaturalDraw(h, 0))
  BY NaturalDrawGood DEF Players
<1> QED
  BY <1>1, NaturalDrawGood DEF Players

\* What the client offers as a target is one a message can carry.
LEMMA TargetsType ==
  ASSUME NEW p \in Players, NEW c \in Cards, NEW t \in Targets(p, c)
  PROVE  t[1] \in Lanes \cup {NoLane} /\ t[2] \in -3 .. 1
<1>1. Catalog[c].aim \in {"none", "creature", "player", "all opponent", "all your"}
  BY RulesAssumption DEF Card
<1>2. CASE Catalog[c].aim \in {"none", "all opponent", "all your"}
  <2>1. t \in {<<NoLane, -1>>, <<NoLane, -2>>, <<NoLane, -3>>}
    BY <1>2 DEF Targets
  <2> QED
    BY <2>1 DEF NoLane
<1>3. CASE Catalog[c].aim = "player"
  BY <1>3 DEF Targets, NoLane
<1>4. CASE Catalog[c].aim = "creature"
  BY <1>4 DEF Targets, NoLane
<1> QED
  BY <1>1, <1>2, <1>3, <1>4

LEMMA EnqueueGood ==
  ASSUME IInv, NEW m \in Message, Enqueue(m)
  PROVE  IInv'
<1>1. actionQueue' \in Seq(Message)
  BY DEF IInv, Shape, Enqueue
<1> QED
  BY <1>1 DEF IInv, Shape, Enqueue

LEMMA ClientGood ==
  ASSUME IInv, NEW p \in Players, Client(p)
  PROVE  IInv'
<1>1. CASE SendPlay(p)
  <2>1. PICK c \in Cards, l \in Lanes :
          \E t \in Targets(p, c) :
            Enqueue([player |-> p, type |-> "PLAY", card |-> c, lane |-> l,
                     targetLane |-> t[1], targetIndex |-> t[2]])
    BY <1>1 DEF SendPlay
  <2>2. PICK t \in Targets(p, c) :
          Enqueue([player |-> p, type |-> "PLAY", card |-> c, lane |-> l,
                   targetLane |-> t[1], targetIndex |-> t[2]])
    BY <2>1
  <2>3. [player |-> p, type |-> "PLAY", card |-> c, lane |-> l,
         targetLane |-> t[1], targetIndex |-> t[2]] \in Message
    BY TargetsType DEF Message
  <2> QED
    BY <2>2, <2>3, EnqueueGood
<1>2. CASE SendDiscard(p)
  <2>1. PICK c \in Cards : Enqueue([player |-> p, type |-> "DISCARD", card |-> c])
    BY <1>2 DEF SendDiscard
  <2>2. [player |-> p, type |-> "DISCARD", card |-> c] \in Message
    BY DEF Message
  <2> QED
    BY <2>1, <2>2, EnqueueGood
<1>3. CASE SendSurrender(p)
  <2>1. Enqueue([player |-> p, type |-> "SURRENDER"])
    BY <1>3 DEF SendSurrender
  <2>2. [player |-> p, type |-> "SURRENDER"] \in Message
    BY DEF Message
  <2> QED
    BY <2>1, <2>2, EnqueueGood
<1>4. CASE Disconnect(p)
  BY <1>4 DEF Disconnect, IInv, Shape
<1> QED
  BY <1>1, <1>2, <1>3, <1>4 DEF Client

LEMMA GameThreadGood ==
  ASSUME IInv, GameThread
  PROVE  IInv'
<1> USE DEF IInv
<1>1. CASE OpeningDraws
  <2>1. g' \in {g, NaturalDraw(NaturalDraw(g, 0), 1)}
    BY <1>1 DEF OpeningDraws
  <2>2. Shape'
    BY <1>1 DEF OpeningDraws, Shape, Phases
  <2> QED
    BY <2>1, <2>2, BothDrawGood
<1>2. CASE LoopEnds
  BY <1>2 DEF LoopEnds, Shape, Phases
<1>3. CASE HandleDisconnect
  <2>1. g' = EndMatch(g, 0) \/ g' = EndMatch(g, 1)
    BY <1>3 DEF HandleDisconnect
  <2>2. Shape'
    BY <1>3 DEF HandleDisconnect, Shape, Phases
  <2> QED
    BY <2>1, <2>2, EndMatchGood DEF Players
<1>4. CASE TakeActions
  BY <1>4 DEF TakeActions, Shape, Phases
<1>5. CASE ProcessAction
  <2>1. Head(localQueue) \in Message /\ Tail(localQueue) \in Seq(Message)
    BY <1>5 DEF ProcessAction, Shape
  <2>2. Good(g')
    BY <1>5, <2>1, HandledGood DEF ProcessAction
  <2>3. Shape'
    BY <1>5, <2>1 DEF ProcessAction, Shape, Phases
  <2> QED
    BY <2>2, <2>3
<1>6. CASE Timers
  <2>1. g' \in {g, NaturalDraw(NaturalDraw(g, 0), 1)}
    BY <1>6 DEF Timers
  <2>2. 0 \in Lanes
    BY RulesAssumption DEF Lanes
  <2>3. Shape'
    BY <1>6, <2>2, SessionAssumption DEF Timers, Shape, Phases
  <2> QED
    BY <2>1, <2>3, BothDrawGood
<1>7. CASE AttackLane
  <2>1. Good(g')
    BY <1>7, ResolveLaneCombatGood DEF AttackLane, Shape
  <2>2. Shape'
    BY <1>7, RulesAssumption DEF AttackLane, Shape, Phases, Lanes
  <2> QED
    BY <2>1, <2>2
<1> QED
  BY <1>1, <1>2, <1>3, <1>4, <1>5, <1>6, <1>7 DEF GameThread

\* The match keeps its inductive invariant, whatever the players send and whenever
\* the timers run out (gameLoop and every operation of MatchSession.cpp).
THEOREM MatchInductive == Spec => []IInv
<1>1. IInv /\ [Next]_vars => IInv'
  <2> SUFFICES ASSUME IInv, [Next]_vars PROVE IInv'
    OBVIOUS
  <2>1. CASE Next
    BY <2>1, GameThreadGood, ClientGood DEF Next
  <2>2. CASE UNCHANGED vars
    BY <2>2 DEF vars, IInv, Shape
  <2> QED
    BY <2>1, <2>2
<1> QED
  BY InitGood, <1>1, PTL DEF Spec

\* The type invariant of the match: no operation leaves the ranges of the code's
\* own types (PlayerState, ServerBoard).
THEOREM MatchTypeCorrect == Spec => []TypeOK
<1>1. IInv => TypeOK
  <2>1. ASSUME NEW h \in GoodGame
        PROVE  h \in Game
    BY DEF GoodGame, Game, Rows, GoodSlot
  <2> QED
    BY <2>1 DEF IInv, Good, Shape, TypeOK
<1> QED
  BY <1>1, MatchInductive, PTL

\* At most one player is dead, and it is the one the match was decided against
\* (augmentHP, setHP, endMatch), for every card table and every sequence of plays.
THEOREM AtMostOneLoser == Spec => []OneLoser
<1>1. IInv => OneLoser
  BY DEF IInv, Good, Decided, OneLoser
<1> QED
  BY <1>1, MatchInductive, PTL

\* No creature inherits the augments, effects or regen of the last one in its lane
\* (destroyCreature, handleSummon).
THEOREM NothingInherited == Spec => []EmptyLanesAreBare
<1>1. IInv => EmptyLanesAreBare
  <2> SUFFICES ASSUME IInv, NEW p \in Players, NEW l \in Lanes, ~Occupied(g, p, l)
               PROVE  g.board[p][l] = EmptySlot
    BY DEF EmptyLanesAreBare
  <2> QED
    BY RowFields DEF IInv, GoodSlot, Occupied
<1> QED
  BY <1>1, MatchInductive, PTL

\* No creature stays on the board without toughness (augmentCreature, setCreature,
\* resolveLaneCombat).
THEOREM NoDeadCreature == Spec => []CreaturesStand
<1>1. IInv => CreaturesStand
  <2> SUFFICES ASSUME IInv, NEW p \in Players, NEW l \in Lanes, Occupied(g, p, l)
               PROVE  Toughness(g.board[p][l]) > 0
    BY DEF CreaturesStand
  <2> QED
    BY RowFields DEF IInv, GoodSlot, Occupied
<1> QED
  BY <1>1, MatchInductive, PTL

-----------------------------------------------------------------------------
(* A decided match.                                                        *)

\* What DecidedStands says of two states of the match.
Stands(h, k) == /\ k.loser = h.loser
                /\ k.health = h.health /\ k.mana = h.mana
                /\ k.board = h.board /\ k.discard = h.discard
                /\ k.fatigue = h.fatigue

\* Cards may still be drawn, and nothing else happens.
LEMMA DrawStands ==
  ASSUME NEW h, Good(h), ~h.running, NEW p \in Players
  PROVE  ~NaturalDraw(h, p).running /\ Stands(h, NaturalDraw(h, p))
<1> DEFINE n == Len(h.deck[p])
           x == [h.deck EXCEPT ![p] = SubSeq(@, 1, n - 1)]
           y == [h.hand EXCEPT ![p][h.deck[p][n]] = @ + 1]
<1>1. NaturalDraw(h, p) \in {h, [h EXCEPT !.deck = x, !.hand = y]}
  BY DEF NaturalDraw, Draw, HandleFatigue
<1> HIDE DEF x, y
<1>2. Stands(h, h)
  BY DEF Stands
<1>3. ~[h EXCEPT !.deck = x, !.hand = y].running /\ Stands(h, [h EXCEPT !.deck = x, !.hand = y])
  BY Fields DEF Stands, GoodGame, Good
<1> QED
  BY <1>1, <1>2, <1>3

LEMMA BothDrawStand ==
  ASSUME NEW h, Good(h), ~h.running
  PROVE  Stands(h, NaturalDraw(NaturalDraw(h, 0), 1))
<1> DEFINE k == NaturalDraw(h, 0)
<1>1. 0 \in Players /\ 1 \in Players
  BY DEF Players
<1>2. Good(k) /\ ~k.running /\ Stands(h, k)
  BY <1>1, NaturalDrawGood, DrawStands
<1> HIDE DEF k
<1>3. Stands(k, NaturalDraw(k, 1))
  BY <1>1, <1>2, DrawStands
<1>4. Stands(h, NaturalDraw(k, 1))
  BY <1>2, <1>3 DEF Stands
<1> QED
  BY <1>4 DEF k

\* No message has an effect any more.
LEMMA HandledStands ==
  ASSUME NEW h, ~h.running, NEW m \in Message
  PROVE  Handled(h, m) = h
<1>1. m.type \in {"PLAY", "DISCARD", "SURRENDER"}
  BY DEF Message
<1> QED
  BY <1>1 DEF Handled, HandleDiscard, HandleSurrender, EndMatch, HandleSummon, HandleSpell

\* The outcome of a match is final: neither the messages still queued, nor the
\* lanes still to be resolved, nor the timers change it (the checks of running in
\* endMatch, augmentHP, handleFatigue and the handlers).
THEOREM OutcomeIsFinal == Spec => DecidedStands
<1>1. ASSUME IInv, ~g.running, Next
      PROVE  Stands(g, g')
  <2>1. Stands(g, g)
    BY DEF Stands
  <2>2. CASE OpeningDraws \/ Timers
    <3>1. g' \in {g, NaturalDraw(NaturalDraw(g, 0), 1)}
      BY <2>2 DEF OpeningDraws, Timers
    <3> QED
      BY <1>1, <2>1, <3>1, BothDrawStand DEF IInv
  <2>3. CASE LoopEnds \/ HandleDisconnect \/ TakeActions
    BY <1>1, <2>1, <2>3 DEF LoopEnds, HandleDisconnect, TakeActions
  <2>4. CASE ProcessAction
    <3>1. Head(localQueue) \in Message
      BY <1>1, <2>4 DEF ProcessAction, IInv, Shape
    <3> QED
      BY <1>1, <2>1, <2>4, <3>1, HandledStands DEF ProcessAction
  <2>5. CASE AttackLane
    <3>1. g' = g
      BY <1>1, <2>5 DEF AttackLane, ResolveLaneCombat
    <3> QED
      BY <2>1, <3>1
  <2>6. ASSUME NEW p \in Players, Client(p)
        PROVE  g' = g
    BY <1>1, <2>6 DEF Client, SendPlay, SendDiscard, SendSurrender, Enqueue, Disconnect
  <2> QED
    BY <1>1, <2>1, <2>2, <2>3, <2>4, <2>5, <2>6 DEF Next, GameThread
<1>2. IInv /\ [Next]_vars
        => [~g.running => /\ g'.loser = g.loser
                          /\ g'.health = g.health /\ g'.mana = g.mana
                          /\ g'.board = g.board /\ g'.discard = g.discard
                          /\ g'.fatigue = g.fatigue]_vars
  BY <1>1 DEF Stands
<1> QED
  BY <1>2, MatchInductive, PTL DEF Spec, DecidedStands

-----------------------------------------------------------------------------
(* Copies of a card.                                                       *)

InDeck(h, p, c) == {i \in DOMAIN h.deck[p] : h.deck[p][i] = c}
OnBoard(h, p, c) == {l \in Lanes : h.board[p][l].card = c}

LEMMA CopiesType ==
  ASSUME NEW h, Good(h), NEW p \in Players, NEW c \in Cards
  PROVE  /\ IsFiniteSet(InDeck(h, p, c)) /\ Cardinality(InDeck(h, p, c)) \in Nat
         /\ IsFiniteSet(OnBoard(h, p, c)) /\ Cardinality(OnBoard(h, p, c)) \in Nat
         /\ h.hand[p][c] \in Nat
         /\ Copies(h, p, c) = Cardinality(InDeck(h, p, c)) + h.hand[p][c]
                                + Cardinality(OnBoard(h, p, c))
         /\ Copies(h, p, c) \in Nat
<1>1. IsFiniteSet(OnBoard(h, p, c)) /\ Cardinality(OnBoard(h, p, c)) \in Nat
  BY LanesFinite DEF OnBoard
<1>2. IsFiniteSet(InDeck(h, p, c)) /\ Cardinality(InDeck(h, p, c)) \in Nat
  <2>1. PICK n \in Nat : DOMAIN h.deck[p] = 1 .. n
    BY Fields
  <2>2. IsFiniteSet(1 .. n)
    BY FS_Interval
  <2>3. InDeck(h, p, c) \subseteq 1 .. n
    BY <2>1 DEF InDeck
  <2> QED
    BY <2>2, <2>3, FS_Subset, FS_CardinalityType
<1>3. h.hand[p][c] \in Nat
  BY Fields
<1>4. Copies(h, p, c) = Cardinality(InDeck(h, p, c)) + h.hand[p][c]
                          + Cardinality(OnBoard(h, p, c))
  BY DEF Copies, InDeck, OnBoard
<1> QED
  BY <1>1, <1>2, <1>3, <1>4

\* A good state with no more copies of any card than k has.
Within(k, h) == /\ Good(h)
                /\ \A p \in Players, c \in Cards : Copies(h, p, c) <= Copies(k, p, c)

\* Nothing is drawn or played, and a lane keeps its creature or loses it.
Keeps(h, k) ==
  /\ k.deck = h.deck
  /\ k.hand = h.hand
  /\ \A p \in Players, l \in Lanes : k.board[p][l].card \in {h.board[p][l].card, NoCard}

LEMMA KeepsWithin ==
  ASSUME NEW k, Good(k), NEW h, Within(k, h), NEW j, Good(j), Keeps(h, j)
  PROVE  Within(k, j)
<1> SUFFICES ASSUME NEW p \in Players, NEW c \in Cards
             PROVE  Copies(j, p, c) <= Copies(k, p, c)
  BY DEF Within
<1>1. Good(h) /\ Copies(h, p, c) <= Copies(k, p, c)
  BY DEF Within
<1>2. OnBoard(j, p, c) \subseteq OnBoard(h, p, c)
  BY CardFields DEF OnBoard, Keeps
<1>3. InDeck(j, p, c) = InDeck(h, p, c) /\ j.hand[p][c] = h.hand[p][c]
  BY DEF InDeck, Keeps
<1>4. Cardinality(OnBoard(j, p, c)) <= Cardinality(OnBoard(h, p, c))
  BY <1>1, <1>2, CopiesType, FS_Subset
<1>5. Copies(j, p, c) <= Copies(h, p, c)
  BY <1>1, <1>3, <1>4, CopiesType
<1> QED
  BY <1>1, <1>5, CopiesType

\* The operations on players.
SameCards(h, k) == k.deck = h.deck /\ k.hand = h.hand /\ k.board = h.board

LEMMA SameCardsKeeps ==
  ASSUME NEW h, NEW k, SameCards(h, k)
  PROVE  Keeps(h, k)
BY DEF SameCards, Keeps

LEMMA EndMatchKeeps ==
  ASSUME NEW h, Good(h), NEW p
  PROVE  SameCards(h, EndMatch(h, p))
BY DEF SameCards, EndMatch, Good, GoodGame

LEMMA AugmentHPKeeps ==
  ASSUME NEW h, Good(h), NEW p \in Players, NEW n \in Int
  PROVE  SameCards(h, AugmentHP(h, p, n))
<1> DEFINE hurt == Changed(h, p, n)
<1>1. SameCards(h, h)
  BY DEF SameCards
<1>2. SameCards(h, hurt)
  BY DEF SameCards, Changed, Good, GoodGame
<1>3. SameCards(h, EndMatch(hurt, p))
  BY DEF SameCards, EndMatch, Changed, Good, GoodGame
<1>4. AugmentHP(h, p, n) \in {h, hurt, EndMatch(hurt, p)}
  <2>1. h.running \in BOOLEAN /\ h.health[p] + n \in Int
    BY Fields
  <2> QED
    BY <2>1 DEF AugmentHP
<1> QED
  BY <1>1, <1>2, <1>3, <1>4


LEMMA SetHPKeeps ==
  ASSUME NEW h, Good(h), NEW p \in Players, NEW n
  PROVE  SameCards(h, SetHP(h, p, n))
BY DEF SetHP, SameCards, Good, GoodGame

LEMMA AugmentManaKeeps ==
  ASSUME NEW h, Good(h), NEW p \in Players, NEW n
  PROVE  SameCards(h, AugmentMana(h, p, n))
BY DEF AugmentMana, SameCards, Good, GoodGame

LEMMA HandleFatigueKeeps ==
  ASSUME NEW h, Good(h), NEW p \in Players
  PROVE  SameCards(h, HandleFatigue(h, p))
<1> DEFINE hit == AugmentHP(h, p, -h.fatigue[p])
           x == [hit.fatigue EXCEPT ![p] = h.fatigue[p] + 1]
<1>1. -h.fatigue[p] \in Int
  BY Fields
<1>2. SameCards(h, hit) /\ Good(hit)
  BY <1>1, AugmentHPKeeps, AugmentHPGood
<1> HIDE DEF hit
<1>3. HandleFatigue(h, p) \in {h, [hit EXCEPT !.fatigue = x]}
  BY DEF HandleFatigue, hit
<1> HIDE DEF x
<1>4. SameCards(h, [hit EXCEPT !.fatigue = x])
  BY <1>2 DEF SameCards, Good, GoodGame
<1>5. SameCards(h, h)
  BY DEF SameCards
<1> QED
  BY <1>3, <1>4, <1>5

\* A card that is drawn leaves the deck for the hand.
LEMMA DrawWithin ==
  ASSUME NEW k, Good(k), NEW h, Within(k, h), NEW p \in Players
  PROVE  Within(k, Draw(h, p))
<1> DEFINE j == Draw(h, p)
<1>0. Good(h) /\ Good(j)
  BY DrawGood DEF Within
<1>1. CASE h.deck[p] = <<>>
  BY <1>0, <1>1, HandleFatigueKeeps, SameCardsKeeps, KeepsWithin DEF Draw
<1>2. CASE h.deck[p] # <<>>
  <2> DEFINE d == h.deck[p]
             n == Len(d)
             rest == SubSeq(d, 1, n - 1)
             x == [h.deck EXCEPT ![p] = rest]
             y == [h.hand EXCEPT ![p] = [h.hand[p] EXCEPT ![d[n]] = h.hand[p][d[n]] + 1]]
  <2>1. d \in Seq(Cards) /\ d # <<>>
    BY <1>0, <1>2, Fields
  <2>2. n \in Nat /\ n > 0 /\ DOMAIN d = 1 .. n /\ d[n] \in Cards
    BY <2>1
  <2>3. DOMAIN rest = 1 .. (n - 1) /\ \A i \in 1 .. (n - 1) : rest[i] = d[i]
    BY <2>1, <2>2
  <2>4. j = [h EXCEPT !.deck = x, !.hand = y]
    BY <1>2 DEF Draw
  <2>5. x[p] = rest /\ \A q \in Players : q # p => x[q] = h.deck[q]
    BY <1>0, Fields
  <2>6. /\ \A c \in Cards : y[p][c] = IF c = d[n] THEN h.hand[p][c] + 1 ELSE h.hand[p][c]
        /\ \A q \in Players : q # p => y[q] = h.hand[q]
    BY <1>0, Fields
  <2> HIDE DEF x, y, j, rest, n
  <2>7. j.deck = x /\ j.hand = y /\ j.board = h.board
    BY <1>0, <2>4 DEF Good, GoodGame
  <2>8. ASSUME NEW q \in Players, NEW c \in Cards
        PROVE  Copies(j, q, c) = Copies(h, q, c)
    <3>1. OnBoard(j, q, c) = OnBoard(h, q, c)
      BY <2>7 DEF OnBoard
    <3>2. CASE q # p
      <4>1. InDeck(j, q, c) = InDeck(h, q, c) /\ j.hand[q][c] = h.hand[q][c]
        BY <2>5, <2>6, <2>7, <3>2 DEF InDeck
      <4> QED
        BY <1>0, <3>1, <4>1, CopiesType
    <3>3. CASE q = p /\ c # d[n]
      <4>1. InDeck(j, q, c) = InDeck(h, q, c)
        BY <2>2, <2>3, <2>5, <2>7, <3>3 DEF InDeck
      <4>2. j.hand[q][c] = h.hand[q][c]
        BY <2>6, <2>7, <3>3
      <4> QED
        BY <1>0, <3>1, <4>1, <4>2, CopiesType
    <3>4. CASE q = p /\ c = d[n]
      <4>1. InDeck(h, q, c) = InDeck(j, q, c) \cup {n} /\ n \notin InDeck(j, q, c)
        BY <2>2, <2>3, <2>5, <2>7, <3>4 DEF InDeck
      <4>2. j.hand[q][c] = h.hand[q][c] + 1
        BY <2>6, <2>7, <3>4
      <4>3. Cardinality(InDeck(h, q, c)) = Cardinality(InDeck(j, q, c)) + 1
        BY <1>0, <4>1, CopiesType, FS_AddElement
      <4> QED
        BY <1>0, <3>1, <4>2, <4>3, CopiesType
    <3> QED
      BY <3>2, <3>3, <3>4
  <2> QED
    BY <1>0, <2>8 DEF Within, j
<1> QED
  BY <1>1, <1>2

LEMMA NaturalDrawWithin ==
  ASSUME NEW k, Good(k), NEW h, Within(k, h), NEW p \in Players
  PROVE  Within(k, NaturalDraw(h, p))
BY DrawWithin DEF NaturalDraw

\* The operations on creatures.
LEMMA WithRowKeeps ==
  ASSUME NEW h, Good(h), NEW p \in Players, NEW row \in Rows,
         \A l \in Lanes : row[l].card \in {h.board[p][l].card, NoCard}
  PROVE  Keeps(h, WithRow(h, p, row))
<1> DEFINE gone(c) == {l \in Lanes : h.board[p][l].card = c /\ row[l].card # c}
           x == [h.board EXCEPT ![p] = row]
           y == [h.discard EXCEPT ![p] = [c \in Cards |-> h.discard[p][c] + Cardinality(gone(c))]]
<1>1. WithRow(h, p, row) = [h EXCEPT !.board = x, !.discard = y]
  BY DEF WithRow
<1>2. \A q \in Players, l \in Lanes : x[q][l].card \in {h.board[q][l].card, NoCard}
  BY Fields
<1> HIDE DEF x, y
<1>3. /\ [h EXCEPT !.board = x, !.discard = y].board = x
      /\ [h EXCEPT !.board = x, !.discard = y].deck = h.deck
      /\ [h EXCEPT !.board = x, !.discard = y].hand = h.hand
  BY Fields DEF GoodGame
<1> QED
  BY <1>1, <1>2, <1>3 DEF Keeps

LEMMA WithSlotKeeps ==
  ASSUME NEW h, Good(h), NEW p \in Players, NEW l \in Lanes, NEW slot,
         slot.card \in {h.board[p][l].card, NoCard}
  PROVE  Keeps(h, [h EXCEPT !.board[p][l] = slot])
<1> DEFINE x == [h.board EXCEPT ![p] = [h.board[p] EXCEPT ![l] = slot]]
<1>1. [h EXCEPT !.board[p][l] = slot] = [h EXCEPT !.board = x]
  OBVIOUS
<1>2. \A q \in Players, m \in Lanes : x[q][m].card \in {h.board[q][m].card, NoCard}
  BY Fields DEF Rows
<1> HIDE DEF x
<1>3. /\ [h EXCEPT !.board = x].board = x
      /\ [h EXCEPT !.board = x].deck = h.deck
      /\ [h EXCEPT !.board = x].hand = h.hand
  BY Fields DEF GoodGame
<1> QED
  BY <1>1, <1>2, <1>3 DEF Keeps

LEMMA AugmentedKeeps ==
  ASSUME NEW slot \in GoodSlot, NEW a
  PROVE  Augmented(slot, a).card \in {slot.card, NoCard}
BY DEF Augmented, Destroyed, EmptySlot, GoodSlot, Slot

LEMMA KeepsItself ==
  ASSUME NEW h
  PROVE  Keeps(h, h)
BY DEF Keeps

LEMMA DestroyCreatureKeeps ==
  ASSUME NEW h, Good(h), NEW p, NEW l
  PROVE  Keeps(h, DestroyCreature(h, p, l))
<1>1. CASE AtLane(h, p, l)
  <2> DEFINE row == [h.board[p] EXCEPT ![l] = EmptySlot]
  <2>1. p \in Players /\ l \in Lanes
    BY <1>1 DEF AtLane
  <2>2. row \in Rows /\ \A m \in Lanes : row[m].card \in {h.board[p][m].card, NoCard}
    BY <2>1, Fields, EmptyIsGood DEF Rows, EmptySlot
  <2>3. DestroyCreature(h, p, l) = WithRow(h, p, row)
    BY <1>1 DEF DestroyCreature, Destroyed
  <2> HIDE DEF row
  <2> QED
    BY <2>1, <2>2, <2>3, WithRowKeeps
<1> QED
  BY <1>1, KeepsItself DEF DestroyCreature

LEMMA AugmentCreatureKeeps ==
  ASSUME NEW h, Good(h), NEW p, NEW l, NEW a \in Int \X Int
  PROVE  Keeps(h, AugmentCreature(h, p, l, a))
<1>1. CASE AtLane(h, p, l)
  <2> DEFINE slot == Augmented(h.board[p][l], a)
             row == [h.board[p] EXCEPT ![l] = slot]
  <2>1. p \in Players /\ l \in Lanes /\ h.board[p][l].card # NoCard
    BY <1>1 DEF AtLane, Occupied
  <2>2. slot \in GoodSlot /\ slot.card \in {h.board[p][l].card, NoCard}
    BY <2>1, RowFields, AugmentedGood, AugmentedKeeps
  <2>3. AugmentCreature(h, p, l, a) = WithRow(h, p, row)
    BY <1>1 DEF AugmentCreature
  <2> HIDE DEF slot
  <2>4. row \in Rows /\ \A m \in Lanes : row[m].card \in {h.board[p][m].card, NoCard}
    BY <2>1, <2>2, Fields DEF Rows
  <2> HIDE DEF row
  <2> QED
    BY <2>1, <2>3, <2>4, WithRowKeeps
<1> QED
  BY <1>1, KeepsItself DEF AugmentCreature

LEMMA AugmentAllKeeps ==
  ASSUME NEW h, Good(h), NEW p, NEW a \in Int \X Int
  PROVE  Keeps(h, AugmentAll(h, p, a))
<1> DEFINE row == [l \in Lanes |-> IF Occupied(h, p, l) THEN Augmented(h.board[p][l], a)
                                   ELSE h.board[p][l]]
<1>1. CASE h.running /\ p \in Players
  <2>1. ASSUME NEW l \in Lanes
        PROVE  row[l] \in GoodSlot /\ row[l].card \in {h.board[p][l].card, NoCard}
    BY <1>1, RowFields, AugmentedGood, AugmentedKeeps DEF Occupied
  <2>2. row \in Rows
    BY <2>1 DEF Rows
  <2>3. AugmentAll(h, p, a) = WithRow(h, p, row)
    BY <1>1 DEF AugmentAll
  <2> HIDE DEF row
  <2> QED
    BY <1>1, <2>1, <2>2, <2>3, WithRowKeeps
<1> QED
  BY <1>1, KeepsItself DEF AugmentAll

\* A creature's augment, effects and regen: the lane keeps its card.
LEMMA SlotKeeps ==
  ASSUME NEW h, Good(h), NEW p \in Players, NEW l \in Lanes, NEW x
  PROVE  /\ Keeps(h, [h EXCEPT !.board[p][l].augment = x])
         /\ Keeps(h, [h EXCEPT !.board[p][l].effects = x])
         /\ Keeps(h, [h EXCEPT !.board[p][l].regen = x])
         /\ \A y : Keeps(h, [h EXCEPT !.board[p][l] = [@ EXCEPT !.effects = y, !.regen = x]])
<1>1. h.board[p][l] \in Slot
  BY RowFields DEF GoodSlot
<1>2. /\ [h.board[p][l] EXCEPT !.augment = x].card = h.board[p][l].card
      /\ [h.board[p][l] EXCEPT !.effects = x].card = h.board[p][l].card
      /\ [h.board[p][l] EXCEPT !.regen = x].card = h.board[p][l].card
      /\ \A y : [h.board[p][l] EXCEPT !.effects = y, !.regen = x].card = h.board[p][l].card
  BY <1>1 DEF Slot
<1>3. ASSUME NEW slot, slot.card = h.board[p][l].card
      PROVE  Keeps(h, [h EXCEPT !.board[p][l] = slot])
  BY <1>3, WithSlotKeeps
<1>4. Keeps(h, [h EXCEPT !.board[p][l].augment = x])
  <2> DEFINE slot == [h.board[p][l] EXCEPT !.augment = x]
  <2>1. [h EXCEPT !.board[p][l].augment = x] = [h EXCEPT !.board[p][l] = slot]
    OBVIOUS
  <2>2. slot.card = h.board[p][l].card
    BY <1>2
  <2> HIDE DEF slot
  <2> QED
    BY <1>3, <2>1, <2>2
<1>5. Keeps(h, [h EXCEPT !.board[p][l].effects = x])
  <2> DEFINE slot == [h.board[p][l] EXCEPT !.effects = x]
  <2>1. [h EXCEPT !.board[p][l].effects = x] = [h EXCEPT !.board[p][l] = slot]
    OBVIOUS
  <2>2. slot.card = h.board[p][l].card
    BY <1>2
  <2> HIDE DEF slot
  <2> QED
    BY <1>3, <2>1, <2>2
<1>6. Keeps(h, [h EXCEPT !.board[p][l].regen = x])
  <2> DEFINE slot == [h.board[p][l] EXCEPT !.regen = x]
  <2>1. [h EXCEPT !.board[p][l].regen = x] = [h EXCEPT !.board[p][l] = slot]
    OBVIOUS
  <2>2. slot.card = h.board[p][l].card
    BY <1>2
  <2> HIDE DEF slot
  <2> QED
    BY <1>3, <2>1, <2>2
<1>7. ASSUME NEW y
      PROVE  Keeps(h, [h EXCEPT !.board[p][l] = [@ EXCEPT !.effects = y, !.regen = x]])
  <2> DEFINE slot == [h.board[p][l] EXCEPT !.effects = y, !.regen = x]
  <2>1. [h EXCEPT !.board[p][l] = [@ EXCEPT !.effects = y, !.regen = x]]
          = [h EXCEPT !.board[p][l] = slot]
    OBVIOUS
  <2>2. slot.card = h.board[p][l].card
    BY <1>2
  <2> HIDE DEF slot
  <2> QED
    BY <1>3, <2>1, <2>2
<1> QED
  BY <1>4, <1>5, <1>6, <1>7

LEMMA CreatureKeeps ==
  ASSUME NEW h, Good(h), NEW p, NEW l, NEW x
  PROVE  /\ Keeps(h, SetCreature(h, p, l, x))
         /\ Keeps(h, AddCreatureEffect(h, p, l, x))
         /\ Keeps(h, RemoveCreatureEffect(h, p, l, x))
         /\ Keeps(h, SetCreatureRegen(h, p, l, x))
<1>1. CASE AtLane(h, p, l)
  <2>1. p \in Players /\ l \in Lanes
    BY <1>1 DEF AtLane
  <2>2. Keeps(h, SetCreature(h, p, l, x))
    BY <1>1, <2>1, SlotKeeps DEF SetCreature
  <2>3. Keeps(h, AddCreatureEffect(h, p, l, x))
    BY <1>1, <2>1, SlotKeeps DEF AddCreatureEffect
  <2>4. Keeps(h, RemoveCreatureEffect(h, p, l, x))
    BY <1>1, <2>1, SlotKeeps DEF RemoveCreatureEffect
  <2>5. Keeps(h, SetCreatureRegen(h, p, l, x))
    BY <1>1, <2>1, SlotKeeps, KeepsItself DEF SetCreatureRegen, WithRegen
  <2> QED
    BY <2>2, <2>3, <2>4, <2>5
<1> QED
  BY <1>1, KeepsItself
     DEF SetCreature, AddCreatureEffect, RemoveCreatureEffect, SetCreatureRegen

\* Card effects: only drawing (effect 12) moves a card.
LEMMA FinalGambitKeeps ==
  ASSUME NEW h, Good(h), NEW p \in Players, NEW n \in Int, n > 0
  PROVE  SameCards(h, FinalGambit(h, p, n))
<1> DEFINE set == SetHP(h, p, n)
           delta == h.health[p] - n
<1>1. Good(set) /\ SameCards(h, set)
  BY SetHPGood, SetHPKeeps
<1>2. -delta \in Int
  BY Fields
<1> HIDE DEF set, delta
<1>3. SameCards(set, AugmentHP(set, Other(p), -delta))
  BY <1>1, <1>2, OtherPlayer, AugmentHPKeeps
<1>4. FinalGambit(h, p, n) \in {set, AugmentHP(set, Other(p), -delta)}
  BY DEF FinalGambit, set, delta
<1> QED
  BY <1>1, <1>3, <1>4 DEF SameCards

LEMMA HealthPerCreatureKeeps ==
  ASSUME NEW h, Good(h), NEW p \in Players, NEW n \in Int
  PROVE  SameCards(h, HealthPerCreature(h, p, n))
<1>1. CreaturesOwned(h, p) \in Nat
  <2> DEFINE S == {l \in Lanes : Occupied(h, p, l)}
  <2>1. S \in SUBSET Lanes
    OBVIOUS
  <2>2. CreaturesOwned(h, p) = Cardinality(S)
    BY DEF CreaturesOwned
  <2> HIDE DEF S
  <2> QED
    BY <2>1, <2>2, LanesFinite
<1>2. CreaturesOwned(h, p) * n \in Int
  BY <1>1
<1>3. SameCards(h, h)
  BY DEF SameCards
<1> QED
  BY <1>2, <1>3, AugmentHPKeeps DEF HealthPerCreature

LEMMA EffectKeeps ==
  ASSUME NEW h, Good(h), NEW e \in Entry, NEW caster \in Players, NEW l, NEW target,
         e.effect \in {6, 11} => e.amount > 0, e.effect # 12
  PROVE  Keeps(h, Effect(h, e, caster, l, target))
<1> DEFINE who == TargetOr(caster, target)
<1>1. /\ e.effect \in 0 .. 12 /\ e.amount \in Int /\ e.augment \in Int \X Int
  BY DEF Entry
<1>2. who \in Players
  BY DEF TargetOr
<1> HIDE DEF who
<1>3. CASE e.effect \in {0, 1, 2}
  <2>1. Effect(h, e, caster, l, target) \in {AugmentCreature(h, target, l, e.augment),
           DestroyCreature(h, target, l), AugmentAll(h, target, e.augment)}
    BY <1>3 DEF Effect
  <2> QED
    BY <1>1, <2>1, AugmentCreatureKeeps, DestroyCreatureKeeps, AugmentAllKeeps
<1>4. CASE e.effect \in {3, 5, 6, 10}
  <2>1. Effect(h, e, caster, l, target) \in {AugmentHP(h, who, e.amount),
           AugmentMana(h, who, e.amount), SetHP(h, caster, e.amount),
           HealthPerCreature(h, who, e.amount)}
    BY <1>4 DEF Effect, who
  <2> QED
    BY <1>1, <1>2, <2>1, AugmentHPKeeps, AugmentManaKeeps, SetHPKeeps, HealthPerCreatureKeeps,
       SameCardsKeeps
<1>5. CASE e.effect \in {4, 7, 8, 9}
  <2>1. Effect(h, e, caster, l, target) \in {SetCreature(h, target, l, e.augment),
           AddCreatureEffect(h, target, l, e.keyword),
           RemoveCreatureEffect(h, target, l, e.keyword),
           SetCreatureRegen(h, target, l, e.amount)}
    BY <1>5 DEF Effect
  <2> QED
    BY <2>1, CreatureKeeps
<1>6. CASE e.effect = 11
  <2>1. Effect(h, e, caster, l, target) = FinalGambit(h, who, e.amount)
    BY <1>6 DEF Effect, who
  <2> QED
    BY <1>1, <1>2, <1>6, <2>1, FinalGambitKeeps, SameCardsKeeps
<1> QED
  BY <1>1, <1>3, <1>4, <1>5, <1>6

LEMMA TriggerCardEffectsWithin ==
  ASSUME NEW k, Good(k), NEW h, Within(k, h), NEW caster \in Players, NEW card \in Cards,
         NEW l, NEW target, NEW trigger
  PROVE  Within(k, TriggerCardEffects(h, caster, card, l, target, trigger))
<1> DEFINE entries == Catalog[card].effects
           Nth(j, n) == IF n \in DOMAIN entries
                        THEN ApplyEntry(j, entries[n], trigger, caster, l, target) ELSE j
<1>1. ASSUME NEW j, Within(k, j), NEW n
      PROVE  Within(k, Nth(j, n))
  <2>1. CASE n \in DOMAIN entries
    <3> DEFINE e == entries[n]
               to == EntryTarget(e, caster, target)
    <3>1. /\ e \in Entry
          /\ e.effect = 4 => e.augment[2] > 0
          /\ e.effect \in {6, 11} => e.amount > 0
          /\ e.effect = 8 => e.keyword # "Regen"
      BY <2>1, CardEntries
    <3> HIDE DEF e, to
    <3>2. Good(j)
      BY <1>1 DEF Within
    <3>3. Within(k, Effect(j, e, caster, l, to))
      <4>1. CASE e.effect = 12
        BY <1>1, <4>1, DrawWithin DEF Effect, DrawCards
      <4>2. CASE e.effect # 12
        BY <1>1, <3>1, <3>2, <4>2, EffectGood, EffectKeeps, KeepsWithin
      <4> QED
        BY <4>1, <4>2
    <3>4. Within(k, ApplyEntry(j, e, trigger, caster, l, target))
      BY <1>1, <3>3 DEF ApplyEntry, to
    <3> QED
      BY <2>1, <3>4 DEF e
  <2>2. CASE n \notin DOMAIN entries
    BY <1>1, <2>2
  <2> QED
    BY <2>1, <2>2
<1>2. TriggerCardEffects(h, caster, card, l, target, trigger)
        = IF h.running THEN Nth(Nth(h, 1), 2) ELSE h
  BY DEF TriggerCardEffects
<1> HIDE DEF Nth
<1>3. Within(k, Nth(Nth(h, 1), 2))
  BY <1>1
<1> QED
  BY <1>2, <1>3

\* Combat.
LEMMA HealWithin ==
  ASSUME NEW k, Good(k), NEW h, Within(k, h), NEW kw, NEW p \in Players, NEW n \in Int
  PROVE  Within(k, Heal(h, kw, p, n))
<1>1. Good(h)
  BY DEF Within
<1> QED
  BY <1>1, AugmentHPGood, AugmentHPKeeps, SameCardsKeeps, KeepsWithin DEF Heal

LEMMA DirectDamageWithin ==
  ASSUME NEW k, Good(k), NEW h, Within(k, h), NEW kw, NEW p \in Players, NEW n \in Int
  PROVE  Within(k, DirectDamage(h, kw, p, n))
<1> DEFINE hit == AugmentHP(h, Other(p), -n)
<1>1. Good(h) /\ Other(p) \in Players /\ -n \in Int
  BY OtherPlayer DEF Within
<1>2. Within(k, hit)
  BY <1>1, AugmentHPGood, AugmentHPKeeps, SameCardsKeeps, KeepsWithin
<1> HIDE DEF hit
<1>3. Within(k, Heal(hit, kw, p, n))
  BY <1>2, HealWithin
<1> QED
  BY <1>3 DEF DirectDamage, hit

LEMMA StrikeWithin ==
  ASSUME NEW k, Good(k), NEW h, Within(k, h), NEW kw, NEW l, NEW p \in Players, NEW n \in Int
  PROVE  Within(k, Strike(h, kw, l, p, n))
<1> DEFINE hit == AugmentCreature(h, Other(p), l, <<0, -n>>)
<1>1. Good(h) /\ <<0, -n>> \in Int \X Int
  BY DEF Within
<1>2. Within(k, hit)
  BY <1>1, AugmentCreatureGood, AugmentCreatureKeeps, KeepsWithin
<1> HIDE DEF hit
<1>3. Within(k, Heal(hit, kw, p, n))
  BY <1>2, HealWithin
<1> QED
  BY <1>3 DEF Strike, hit

LEMMA TouchWithin ==
  ASSUME NEW k, Good(k), NEW h, Within(k, h), NEW l, NEW p \in Players, NEW kills
  PROVE  Within(k, Touch(h, l, p, kills))
<1>1. Good(h)
  BY DEF Within
<1> QED
  BY <1>1, DestroyCreatureGood, DestroyCreatureKeeps, KeepsWithin DEF Touch

LEMMA OnKillWithin ==
  ASSUME NEW k, Good(k), NEW h, Within(k, h), NEW l \in Lanes, NEW p \in Players, NEW fought
  PROVE  Within(k, OnKill(h, l, p, fought))
<1>1. CASE Occupied(h, p, l)
  <2>1. h.board[p][l].card \in Cards
    BY <1>1, RowFields, SlotFields DEF Occupied, Within
  <2> QED
    BY <2>1, TriggerCardEffectsWithin DEF OnKill
<1>2. CASE ~Occupied(h, p, l)
  BY <1>2 DEF OnKill
<1> QED
  BY <1>1, <1>2

LEMMA ExchangeWithin ==
  ASSUME NEW k, Good(k), NEW h, Within(k, h), NEW kw, NEW l \in Lanes
  PROVE  Within(k, Exchange(h, kw, l))
<1> DEFINE blow == [p \in Players |-> Blow(h, kw, l, p)]
           h1 == Strikes(h, kw, l, blow)
           h2 == Touches(h1, l, blow)
           h3 == Kills(h2, l, blow)
<1>1. 0 \in Players /\ 1 \in Players
  BY DEF Players
<1>2. \A p \in Players : blow[p].damage \in Int /\ blow[p].overflow \in Int
  BY BlowType DEF Within
<1>3. Exchange(h, kw, l) = Overflows(h3, kw, blow)
  BY DEF Exchange
<1> HIDE DEF blow
<1>4. Within(k, h1)
  BY <1>1, <1>2, StrikeWithin DEF Strikes
<1> HIDE DEF h1
<1>5. Within(k, h2)
  BY <1>1, <1>4, TouchWithin DEF Touches
<1> HIDE DEF h2
<1>6. Within(k, h3)
  BY <1>1, <1>5, OnKillWithin DEF Kills
<1> HIDE DEF h3
<1>7. Within(k, Overflows(h3, kw, blow))
  BY <1>1, <1>2, <1>6, DirectDamageWithin DEF Overflows
<1> QED
  BY <1>3, <1>7

LEMMA ResolveCombatOnceWithin ==
  ASSUME NEW k, Good(k), NEW h, Within(k, h), NEW kw, NEW l \in Lanes
  PROVE  Within(k, ResolveCombatOnce(h, kw, l))
<1> DEFINE deal(p) == DirectDamage(h, kw, p, Power(h.board[p][l]))
<1>1. Within(k, deal(0)) /\ Within(k, deal(1))
  <2>1. 0 \in Players /\ 1 \in Players
    BY DEF Players
  <2>2. \A p \in Players : Power(h.board[p][l]) \in Int
    BY PowerType DEF Within
  <2> QED
    BY <2>1, <2>2, DirectDamageWithin
<1>2. Within(k, Exchange(h, kw, l))
  BY ExchangeWithin
<1>3. ResolveCombatOnce(h, kw, l) \in {h, deal(0), deal(1), Exchange(h, kw, l)}
  BY DEF ResolveCombatOnce
<1> QED
  BY <1>1, <1>2, <1>3

LEMMA TickRegenKeeps ==
  ASSUME NEW h, Good(h), NEW p \in Players, NEW l \in Lanes
  PROVE  Keeps(h, TickRegen(h, p, l))
<1> DEFINE slot    == h.board[p][l]
           value   == slot.regen[1]
           left    == slot.regen[2] - 1
           missing == IF slot.augment[2] < 0 THEN -slot.augment[2] ELSE 0
           heal    == Smaller(value, missing)
           healed  == IF left <= 0 /\ heal > 0 THEN AugmentCreature(h, p, l, <<0, heal>>) ELSE h
           regen   == <<value, IF left <= 0 THEN 2 ELSE left>>
<1>1. CASE slot.card = NoCard \/ value = 0
  BY <1>1, KeepsItself DEF TickRegen
<1>2. CASE ~(slot.card = NoCard \/ value = 0)
  <2>1. slot \in GoodSlot
    BY RowFields
  <2>2. <<0, heal>> \in Int \X Int
    BY <1>2, <2>1, SlotFields DEF Smaller
  <2>3. TickRegen(h, p, l) = [healed EXCEPT !.board[p][l].regen = regen]
    BY <1>2 DEF TickRegen
  <2> HIDE DEF heal, left, regen
  <2>4. Good(healed) /\ Keeps(h, healed)
    BY <2>2, AugmentCreatureGood, AugmentCreatureKeeps, KeepsItself
  <2> HIDE DEF healed
  <2>5. Keeps(healed, [healed EXCEPT !.board[p][l].regen = regen])
    BY <2>4, SlotKeeps
  <2> QED
    BY <2>3, <2>4, <2>5 DEF Keeps
<1> QED
  BY <1>1, <1>2

LEMMA ResolveLaneCombatWithin ==
  ASSUME NEW h, Good(h), NEW l \in Lanes
  PROVE  Within(h, ResolveLaneCombat(h, l))
<1> DEFINE kw == [p \in Players |-> h.board[p][l].effects]
           one == TickRegen(h, 0, l)
           ticked == TickRegen(one, 1, l)
           first == IF \E p \in Players : "Double Strike" \in kw[p]
                    THEN ResolveCombatOnce(ticked, kw, l) ELSE ticked
<1>1. ResolveLaneCombat(h, l) \in {h, ResolveCombatOnce(first, kw, l)}
  BY DEF ResolveLaneCombat
<1>2. 0 \in Players /\ 1 \in Players /\ Within(h, h)
  BY CopiesType DEF Players, Within
<1>3. Within(h, one) /\ Good(one)
  BY <1>2, TickRegenGood, TickRegenKeeps, KeepsWithin
<1> HIDE DEF one, kw
<1>4. Within(h, ticked)
  BY <1>2, <1>3, TickRegenGood, TickRegenKeeps, KeepsWithin
<1> HIDE DEF ticked
<1>5. Within(h, first)
  BY <1>4, ResolveCombatOnceWithin
<1> HIDE DEF first
<1>6. Within(h, ResolveCombatOnce(first, kw, l))
  BY <1>5, ResolveCombatOnceWithin
<1> QED
  BY <1>1, <1>2, <1>6

\* The players' actions: a copy leaves the hand, and goes to the lane if it is a
\* creature.
LEMMA PayKeeps ==
  ASSUME NEW h, Good(h), NEW p, NEW c
  PROVE  SameCards(h, Pay(h, p, c))
BY DEF Pay, SameCards, Good, GoodGame

LEMMA FromHandFields ==
  ASSUME NEW h, Good(h), NEW p \in Players, NEW c \in Cards
  PROVE  /\ FromHand(h, p, c).deck = h.deck /\ FromHand(h, p, c).board = h.board
         /\ FromHand(h, p, c).hand[p][c] = h.hand[p][c] - 1
         /\ \A q \in Players, d \in Cards :
              <<q, d>> # <<p, c>> => FromHand(h, p, c).hand[q][d] = h.hand[q][d]
<1> DEFINE x == [h.hand EXCEPT ![p] = [h.hand[p] EXCEPT ![c] = h.hand[p][c] - 1]]
<1>1. FromHand(h, p, c) = [h EXCEPT !.hand = x]
  BY DEF FromHand
<1>2. /\ x[p][c] = h.hand[p][c] - 1
      /\ \A q \in Players, d \in Cards : <<q, d>> # <<p, c>> => x[q][d] = h.hand[q][d]
  BY Fields
<1> HIDE DEF x
<1>3. /\ [h EXCEPT !.hand = x].deck = h.deck /\ [h EXCEPT !.hand = x].board = h.board
      /\ [h EXCEPT !.hand = x].hand = x
  BY Fields DEF GoodGame
<1> QED
  BY <1>1, <1>2, <1>3

LEMMA FromHandWithin ==
  ASSUME NEW k, Good(k), NEW h, Within(k, h), NEW p \in Players, NEW c \in Cards,
         h.hand[p][c] # 0
  PROVE  Within(k, FromHand(h, p, c))
<1> DEFINE j == FromHand(h, p, c)
<1>1. Good(h) /\ Good(j)
  BY FromHandGood DEF Within
<1>2. ASSUME NEW q \in Players, NEW d \in Cards
      PROVE  Copies(j, q, d) <= Copies(h, q, d)
  <2>1. j.deck = h.deck /\ j.board = h.board
        /\ j.hand[q][d] \in {h.hand[q][d], h.hand[q][d] - 1}
    BY <1>1, FromHandFields
  <2> HIDE DEF j
  <2>2. InDeck(j, q, d) = InDeck(h, q, d) /\ OnBoard(j, q, d) = OnBoard(h, q, d)
    BY <2>1 DEF InDeck, OnBoard
  <2> QED
    BY <1>1, <2>1, <2>2, CopiesType
<1> HIDE DEF j
<1>3. \A q \in Players, d \in Cards : Copies(j, q, d) <= Copies(k, q, d)
  <2> SUFFICES ASSUME NEW q \in Players, NEW d \in Cards
               PROVE  Copies(j, q, d) <= Copies(k, q, d)
    OBVIOUS
  <2>1. Copies(h, q, d) <= Copies(k, q, d)
    BY DEF Within
  <2> QED
    BY <1>1, <1>2, <2>1, CopiesType
<1> QED
  BY <1>1, <1>3 DEF Within, j

LEMMA SummonWithin ==
  ASSUME NEW h, Good(h), NEW p \in Players, NEW c \in Cards, NEW l \in Lanes,
         Catalog[c].type = "Creature", h.hand[p][c] # 0, h.board[p][l] = EmptySlot
  PROVE  Within(h, [FromHand(h, p, c) EXCEPT !.board[p][l] = Summoned(@, c)])
<1> DEFINE taken == FromHand(h, p, c)
           slot == Summoned(taken.board[p][l], c)
           x == [taken.board EXCEPT ![p] = [taken.board[p] EXCEPT ![l] = slot]]
           j == [taken EXCEPT !.board = x]
<1>1. [taken EXCEPT !.board[p][l] = Summoned(@, c)] = [taken EXCEPT !.board[p][l] = slot]
      /\ [taken EXCEPT !.board[p][l] = slot] = j
  OBVIOUS
<1>2. Good(taken) /\ taken.board = h.board /\ taken.deck = h.deck
  BY FromHandGood, FromHandFields
<1>3. taken.hand[p][c] = h.hand[p][c] - 1
      /\ \A q \in Players, d \in Cards : <<q, d>> # <<p, c>> => taken.hand[q][d] = h.hand[q][d]
  BY FromHandFields
<1> HIDE DEF taken
<1>4. slot \in GoodSlot /\ slot.card = c
  <2>1. slot = Summoned(EmptySlot, c)
    BY <1>2
  <2>2. Summoned(EmptySlot, c).card = c
    BY DEF Summoned
  <2> QED
    BY <2>1, <2>2, SummonedGood
<1> HIDE DEF slot
<1>5. Good(j)
  BY <1>1, <1>2, <1>4, WithSlotGood
<1>6. /\ x[p][l].card = c
      /\ \A q \in Players, m \in Lanes : <<q, m>> # <<p, l>> => x[q][m] = h.board[q][m]
  BY <1>2, <1>4, Fields DEF Rows
<1> HIDE DEF x
<1>7. j.deck = h.deck /\ j.hand = taken.hand /\ j.board = x
  BY <1>2, Fields DEF GoodGame
<1> HIDE DEF j
<1>8. h.board[p][l].card = NoCard
  BY DEF EmptySlot
<1>9. ASSUME NEW q \in Players, NEW d \in Cards
      PROVE  Copies(j, q, d) <= Copies(h, q, d)
  <2>1. InDeck(j, q, d) = InDeck(h, q, d)
    BY <1>7 DEF InDeck
  <2>2. CASE <<q, d>> # <<p, c>>
    <3>1. j.hand[q][d] = h.hand[q][d]
      BY <1>3, <1>7, <2>2
    <3>2. OnBoard(j, q, d) = OnBoard(h, q, d)
      BY <1>6, <1>7, <1>8, <2>2, CardFields DEF OnBoard
    <3> QED
      BY <1>5, <2>1, <3>1, <3>2, CopiesType
  <2>3. CASE q = p /\ d = c
    <3>1. j.hand[q][d] = h.hand[q][d] - 1
      BY <1>3, <1>7, <2>3
    <3>2. OnBoard(j, q, d) = OnBoard(h, q, d) \cup {l} /\ l \notin OnBoard(h, q, d)
      BY <1>6, <1>7, <1>8, <2>3, CardFields DEF OnBoard
    <3>3. Cardinality(OnBoard(j, q, d)) = Cardinality(OnBoard(h, q, d)) + 1
      BY <3>2, CopiesType, FS_AddElement
    <3> QED
      BY <1>5, <2>1, <3>1, <3>3, CopiesType
  <2> QED
    BY <2>2, <2>3
<1> QED
  BY <1>1, <1>5, <1>9 DEF Within, taken

LEMMA WithinItself ==
  ASSUME NEW h, Good(h)
  PROVE  Within(h, h)
BY CopiesType DEF Within

LEMMA WithinTransitive ==
  ASSUME NEW k, Good(k), NEW h, Within(k, h), NEW j, Within(h, j)
  PROVE  Within(k, j)
<1> SUFFICES ASSUME NEW p \in Players, NEW c \in Cards
             PROVE  Copies(j, p, c) <= Copies(k, p, c)
  BY DEF Within
<1>1. /\ Good(h) /\ Good(j) /\ Copies(h, p, c) <= Copies(k, p, c)
      /\ Copies(j, p, c) <= Copies(h, p, c)
  BY DEF Within
<1> QED
  BY <1>1, CopiesType

LEMMA HandleSummonWithin ==
  ASSUME NEW h, Good(h), NEW p \in Players, NEW c \in Cards, NEW l,
         Catalog[c].type = "Creature"
  PROVE  Within(h, HandleSummon(h, p, c, l))
<1> DEFINE paid == Pay(h, p, c)
           placed == [FromHand(paid, p, c) EXCEPT !.board[p][l] = Summoned(@, c)]
           refused == ~h.running \/ l \notin Lanes \/ Occupied(h, p, l)
                        \/ h.mana[p] < Catalog[c].cost
<1>1. HandleSummon(h, p, c, l)
        = IF refused THEN h
          ELSE IF h.hand[p][c] = 0 THEN paid
          ELSE TriggerCardEffects(placed, p, c, NoLane, NoOne, "OnCast")
  BY DEF HandleSummon
<1>2. Within(h, h) /\ Good(paid) /\ Within(h, paid) /\ paid.board = h.board /\ paid.hand = h.hand
  BY WithinItself, PayGood, PayKeeps, SameCardsKeeps, KeepsWithin
<1>3. CASE refused
  BY <1>1, <1>2, <1>3
<1>4. CASE ~refused /\ h.hand[p][c] = 0
  BY <1>1, <1>2, <1>4
<1>5. CASE ~refused /\ h.hand[p][c] # 0
  <2>1. l \in Lanes /\ h.board[p][l] = EmptySlot
    BY <1>5, RowFields DEF Occupied, GoodSlot
  <2> HIDE DEF paid, refused
  <2>2. Within(paid, placed)
    BY <1>2, <1>5, <2>1, SummonWithin
  <2> HIDE DEF placed
  <2>3. Within(h, placed)
    BY <1>2, <2>2, WithinTransitive
  <2>4. Within(h, TriggerCardEffects(placed, p, c, NoLane, NoOne, "OnCast"))
    BY <2>3, TriggerCardEffectsWithin
  <2> QED
    BY <1>1, <1>5, <2>4
<1> QED
  BY <1>3, <1>4, <1>5

LEMMA HandleSpellWithin ==
  ASSUME NEW h, Good(h), NEW p \in Players, NEW c \in Cards, NEW l, NEW t
  PROVE  Within(h, HandleSpell(h, p, c, l, t))
<1> DEFINE paid == Pay(h, p, c)
           taken == FromHand(paid, p, c)
           cast == TriggerCardEffects(taken, p, c, l, ServerTargetIndex(p, t), "OnCast")
<1>1. HandleSpell(h, p, c, l, t)
        = IF ~h.running \/ h.mana[p] < Catalog[c].cost THEN h
          ELSE IF h.hand[p][c] = 0 THEN paid ELSE cast
  BY DEF HandleSpell
<1>2. Within(h, h) /\ Within(h, paid) /\ paid.hand = h.hand
  BY WithinItself, PayGood, PayKeeps, SameCardsKeeps, KeepsWithin
<1> HIDE DEF paid
<1>3. h.hand[p][c] # 0 => Within(h, cast)
  <2>1. h.hand[p][c] # 0 => Within(h, taken)
    BY <1>2, FromHandWithin
  <2> HIDE DEF taken
  <2> QED
    BY <2>1, TriggerCardEffectsWithin
<1> HIDE DEF cast
<1> QED
  BY <1>1, <1>2, <1>3

LEMMA HandleDiscardWithin ==
  ASSUME NEW h, Good(h), NEW p \in Players, NEW c \in Cards
  PROVE  Within(h, HandleDiscard(h, p, c))
<1> DEFINE more == [h.discard[p] EXCEPT ![c] = h.discard[p][c] + 1]
           x == [h.discard EXCEPT ![p] = more]
           piled == [h EXCEPT !.discard = x]
           taken == IF h.hand[p][c] > 0 THEN FromHand(piled, p, c) ELSE piled
<1>1. HandleDiscard(h, p, c) = IF h.running THEN AugmentMana(taken, p, Catalog[c].value) ELSE h
  BY DEF HandleDiscard
<1>2. more \in [Cards -> Nat]
  BY Fields
<1> HIDE DEF more
<1>3. x \in [Players -> [Cards -> Nat]]
  BY <1>2, Fields
<1> HIDE DEF x
<1>4. Good(piled)
  BY <1>3, SetDiscard
<1>5. SameCards(h, piled)
  BY Fields DEF GoodGame, SameCards
<1> HIDE DEF piled
<1>6. Within(h, h) /\ Within(h, piled) /\ piled.hand = h.hand
  BY <1>4, <1>5, WithinItself, SameCardsKeeps, KeepsWithin DEF SameCards
<1>7. Within(h, taken)
  <2>1. h.hand[p][c] \in Nat
    BY Fields
  <2> QED
    BY <1>6, <2>1, FromHandWithin
<1> HIDE DEF taken
<1>8. Good(taken) /\ Catalog[c].value \in Int
  BY <1>7, CardFields DEF Within
<1>9. Within(h, AugmentMana(taken, p, Catalog[c].value))
  BY <1>7, <1>8, AugmentManaGood, AugmentManaKeeps, SameCardsKeeps, KeepsWithin
<1> QED
  BY <1>1, <1>6, <1>9

LEMMA HandledWithin ==
  ASSUME NEW h, Good(h), NEW m \in Message
  PROVE  Within(h, Handled(h, m))
<1>1. /\ m.player \in Players /\ m.type \in {"PLAY", "DISCARD", "SURRENDER"}
      /\ m.type # "SURRENDER" => m.card \in Cards
  BY DEF Message
<1>2. CASE m.type = "DISCARD"
  BY <1>1, <1>2, HandleDiscardWithin DEF Handled
<1>3. CASE m.type = "SURRENDER"
  BY <1>1, <1>3, WithinItself, EndMatchGood, EndMatchKeeps, SameCardsKeeps, KeepsWithin
     DEF Handled, HandleSurrender
<1>4. CASE m.type = "PLAY"
  <2>1. CASE Catalog[m.card].type = "Creature"
    BY <1>1, <1>4, <2>1, HandleSummonWithin DEF Handled
  <2>2. CASE Catalog[m.card].type # "Creature"
    BY <1>1, <1>4, <2>2, HandleSpellWithin DEF Handled
  <2> QED
    BY <2>1, <2>2
<1> QED
  BY <1>1, <1>2, <1>3, <1>4

\* No operation of the match makes a copy of a card: what a player can still draw,
\* play or has on the board only ever shrinks (draw, handleSummon, handleSpell,
\* handleDiscard, every effect of the card table and every lane of an attack).
THEOREM CardsAreNeverCopied == Spec => NoCardAppears
<1>1. ASSUME IInv, Next
      PROVE  Within(g, g')
  <2>1. Within(g, g) /\ Good(g)
    BY <1>1, WithinItself DEF IInv
  <2>2. CASE OpeningDraws \/ Timers
    <3>1. g' \in {g, NaturalDraw(NaturalDraw(g, 0), 1)}
      BY <2>2 DEF OpeningDraws, Timers
    <3>2. Within(g, NaturalDraw(NaturalDraw(g, 0), 1))
      <4>1. Within(g, NaturalDraw(g, 0))
        BY <2>1, NaturalDrawWithin DEF Players
      <4> QED
        BY <2>1, <4>1, NaturalDrawWithin DEF Players
    <3> QED
      BY <2>1, <3>1, <3>2
  <2>3. CASE LoopEnds \/ TakeActions
    BY <2>1, <2>3 DEF LoopEnds, TakeActions
  <2>4. CASE HandleDisconnect
    <3>1. g' = EndMatch(g, 0) \/ g' = EndMatch(g, 1)
      BY <2>4 DEF HandleDisconnect
    <3>2. 0 \in Players /\ 1 \in Players
      BY DEF Players
    <3> QED
      BY <2>1, <3>1, <3>2, EndMatchGood, EndMatchKeeps, SameCardsKeeps, KeepsWithin
  <2>5. CASE ProcessAction
    <3>1. Head(localQueue) \in Message
      BY <1>1, <2>5 DEF ProcessAction, IInv, Shape
    <3> QED
      BY <2>1, <2>5, <3>1, HandledWithin DEF ProcessAction
  <2>6. CASE AttackLane
    BY <1>1, <2>1, <2>6, ResolveLaneCombatWithin DEF AttackLane, IInv, Shape
  <2>7. ASSUME NEW p \in Players, Client(p)
        PROVE  g' = g
    BY <2>7 DEF Client, SendPlay, SendDiscard, SendSurrender, Enqueue, Disconnect
  <2> QED
    BY <1>1, <2>1, <2>2, <2>3, <2>4, <2>5, <2>6, <2>7 DEF Next, GameThread
<1>2. IInv /\ [Next]_vars
        => [\A p \in Players, card \in Cards : Copies(g', p, card) <= Copies(g, p, card)]_vars
  BY <1>1 DEF Within
<1> QED
  BY <1>2, MatchInductive, PTL DEF Spec, NoCardAppears

-----------------------------------------------------------------------------
(* A battle of creatures without keywords.                                 *)

\* An attack phase is entered, and goes on, only while the match runs.
LEMMA AttackRuns == Spec => [](phase = "attack" => g.running)
<1> DEFINE A == phase = "attack" => g.running
<1>1. Init => A
  BY DEF Init
<1>2. A /\ [Next]_vars => A'
  <2> SUFFICES ASSUME A, [Next]_vars PROVE A'
    OBVIOUS
  <2>1. CASE OpeningDraws \/ LoopEnds \/ HandleDisconnect \/ TakeActions
    BY <2>1 DEF OpeningDraws, LoopEnds, HandleDisconnect, TakeActions
  <2>2. CASE ProcessAction \/ Timers \/ AttackLane
    BY <2>2 DEF ProcessAction, Timers, AttackLane
  <2>3. ASSUME NEW p \in Players, Client(p)
        PROVE  A'
    BY <2>3 DEF Client, SendPlay, SendDiscard, SendSurrender, Enqueue, Disconnect
  <2>4. CASE UNCHANGED vars
    BY <2>4 DEF vars
  <2> QED
    BY <2>1, <2>2, <2>3, <2>4 DEF Next, GameThread
<1> QED
  BY <1>1, <1>2, PTL DEF Spec

\* A step of the attack phase while the read threads are still is a lane's combat.
LEMMA AttackStep ==
  ASSUME IInv, phase = "attack" => g.running, [Next]_vars, Attacks, vars' # vars
  PROVE  AttackLane
<1>1. ASSUME NEW p \in Players, Client(p)
      PROVE  FALSE
  <2>1. ASSUME NEW m, Enqueue(m)
        PROVE  FALSE
    <3>1. Len(actionQueue') = Len(actionQueue) + 1 /\ Len(actionQueue) \in Nat
      BY <2>1 DEF Enqueue, IInv, Shape
    <3> QED
      BY <3>1 DEF Attacks
  <2>2. ~Disconnect(p)
    BY DEF Disconnect, Attacks, IInv, Shape
  <2> QED
    BY <1>1, <2>1, <2>2 DEF Client, SendPlay, SendDiscard, SendSurrender
<1>2. ~(OpeningDraws \/ LoopEnds \/ HandleDisconnect \/ TakeActions \/ ProcessAction
        \/ Timers)
  BY DEF Attacks, OpeningDraws, LoopEnds, HandleDisconnect, TakeActions, ProcessAction, Timers
<1> QED
  BY <1>1, <1>2 DEF Next, GameThread

LEMMA WithRowFields ==
  ASSUME NEW h, Good(h), NEW p \in Players, NEW row
  PROVE  /\ WithRow(h, p, row).health = h.health /\ WithRow(h, p, row).running = h.running
         /\ WithRow(h, p, row).board[p] = row
         /\ \A q \in Players : q # p => WithRow(h, p, row).board[q] = h.board[q]
<1> DEFINE gone(c) == {l \in Lanes : h.board[p][l].card = c /\ row[l].card # c}
           x == [h.board EXCEPT ![p] = row]
           y == [h.discard EXCEPT ![p] = [c \in Cards |-> h.discard[p][c] + Cardinality(gone(c))]]
           j == [h EXCEPT !.board = x, !.discard = y]
<1>1. WithRow(h, p, row) = j
  BY DEF WithRow
<1>2. x[p] = row /\ \A q \in Players : q # p => x[q] = h.board[q]
  BY Fields
<1> HIDE DEF x, y
<1>3. j.board = x /\ j.health = h.health /\ j.running = h.running
  BY Fields DEF GoodGame
<1> QED
  BY <1>1, <1>2, <1>3

\* What a blow of n leaves of a lane's side.
Struck(slot, n) == IF n = 0 \/ slot.card = NoCard THEN slot ELSE Augmented(slot, <<0, -n>>)

\* What it leaves of the match, when the lane shows no keyword.
AfterStrike(h, j, l, p, q, n) ==
  /\ Good(j) /\ j.running /\ j.health = h.health
  /\ j.board[p][l] = h.board[p][l]
  /\ j.board[q][l] = Struck(h.board[q][l], n)

LEMMA PlainStrike ==
  ASSUME NEW h, Good(h), h.running, NEW k, NEW l \in Lanes, NEW p \in Players, k[p] = {},
         NEW n \in Nat
  PROVE  AfterStrike(h, Strike(h, k, l, p, n), l, p, Other(p), n)
<1> DEFINE j == Strike(h, k, l, p, n)
           q == Other(p)
           slot == h.board[q][l]
           row == [h.board[q] EXCEPT ![l] = Augmented(slot, <<0, -n>>)]
<1>1. Good(j)
  BY StrikeGood
<1>2. q \in Players /\ q # p
  BY OtherPlayer
<1>3. n # 0 => j = AugmentCreature(h, q, l, <<0, -n>>)
  BY DEF Strike, Heal
<1>4. CASE n = 0 \/ slot.card = NoCard
  <2>1. j = h
    BY <1>3, <1>4 DEF Strike, AugmentCreature, AtLane, Occupied
  <2> QED
    BY <1>1, <1>4, <2>1 DEF Struck, AfterStrike
<1>5. CASE ~(n = 0 \/ slot.card = NoCard)
  <2>1. j = WithRow(h, q, row)
    BY <1>2, <1>3, <1>5 DEF AugmentCreature, AtLane, Occupied
  <2>2. row[l] = Struck(slot, n)
    BY <1>2, <1>5, Fields DEF Struck, Rows
  <2> HIDE DEF j, row, q
  <2>3. WithRow(h, q, row).health = h.health
    BY <1>2, WithRowFields
  <2>4. WithRow(h, q, row).running = h.running
    BY <1>2, WithRowFields
  <2>5. WithRow(h, q, row).board[q] = row
    BY <1>2, WithRowFields
  <2>6. WithRow(h, q, row).board[p] = h.board[p]
    BY <1>2, WithRowFields
  <2>7. j.health = h.health /\ j.running = h.running /\ j.board[q] = row /\ j.board[p] = h.board[p]
    BY <2>1, <2>3, <2>4, <2>5, <2>6
  <2> QED
    BY <1>1, <2>2, <2>7 DEF AfterStrike, j, q
<1> QED
  BY <1>4, <1>5

\* A card without an OnKill entry does nothing when its creature kills.
LEMMA NothingOnKill ==
  ASSUME NEW h, NEW p, NEW c, NEW l, NEW t,
         \A i \in DOMAIN Catalog[c].effects : Catalog[c].effects[i].trigger # "OnKill"
  PROVE  TriggerCardEffects(h, p, c, l, t, "OnKill") = h
BY DEF TriggerCardEffects, ApplyEntry, Applies

\* What a blow of that much leaves of a creature, and of an empty lane.
LEMMA StruckIs ==
  ASSUME NEW slot \in GoodSlot, NEW n \in Nat
  PROVE  /\ slot.card = NoCard => Struck(slot, n) = slot
         /\ slot.card # NoCard =>
              /\ Struck(slot, n).card = (IF Toughness(slot) - n > 0 THEN slot.card ELSE NoCard)
              /\ Struck(slot, n).card # NoCard => Toughness(Struck(slot, n)) = Toughness(slot) - n
<1>1. CASE slot.card = NoCard
  BY <1>1 DEF Struck
<1>2. CASE slot.card # NoCard /\ n = 0
  BY <1>2, SlotFields DEF Struck
<1>3. CASE slot.card # NoCard /\ n # 0
  <2> DEFINE b == <<slot.augment[1], slot.augment[2] + (-n)>>
             next == [slot EXCEPT !.augment = b]
  <2>1. next.card = slot.card /\ next.augment = b /\ b[2] = slot.augment[2] - n
    BY <1>3, SlotFields DEF Slot
  <2>2. [slot EXCEPT !.augment = <<@[1] + <<0, -n>>[1], @[2] + <<0, -n>>[2]>>] = next
    BY <1>3, SlotFields
  <2> HIDE DEF b, next
  <2>3. Toughness(next) = Toughness(slot) - n /\ Toughness(slot) - n \in Int
    BY <1>3, <2>1, SlotFields DEF Toughness
  <2>4. Struck(slot, n) = IF Toughness(next) <= 0 THEN EmptySlot ELSE next
    BY <1>3, <2>2 DEF Struck, Augmented, Destroyed
  <2> QED
    BY <1>3, <2>1, <2>3, <2>4 DEF EmptySlot
<1> QED
  BY <1>1, <1>2, <1>3

\* The README's table for a lane whose two sides are before and after: what player
\* p's creature and health become.
Lost(power) == IF power > 0 THEN power ELSE 0

ByTheBook(h, j, l, p) ==
  LET mine == h.board[p][l]
      across == h.board[Other(p)][l]
      after == j.board[p][l]
  IN  IF mine.card = NoCard
      THEN j.health[p] = h.health[p] - Lost(Power(across))
      ELSE /\ j.health[p] = h.health[p]
           /\ after.card = (IF Left(mine, across) > 0 THEN mine.card ELSE NoCard)
           /\ after.card # NoCard => Toughness(after) = Left(mine, across)

\* Two creatures, or one that has no power: both sides are struck.
LEMMA PlainExchange ==
  ASSUME NEW h, Good(h), h.running, NEW k, NEW l \in Lanes,
         \A p \in Players : k[p] = {} /\ Plain(h.board[p][l]),
         \A p \in Players : Occupied(h, p, l) \/ Power(h.board[Other(p)][l]) <= 0
  PROVE  \A p \in Players : ByTheBook(h, Exchange(h, k, l), l, p)
<1> DEFINE blow == [p \in Players |-> Blow(h, k, l, p)]
           n(p) == Lost(Power(h.board[p][l]))
           s0 == Strike(h, k, l, 0, n(0))
           j == Strike(s0, k, l, 1, n(1))
           side(p) == Struck(h.board[p][l], n(Other(p)))
<1>0. /\ 0 \in Players /\ 1 \in Players /\ Other(0) = 1 /\ Other(1) = 0 /\ Players = {0, 1}
      /\ k[0] = {} /\ k[1] = {}
  BY DEF Players, Other
<1>1. ASSUME NEW p \in Players
      PROVE  /\ Power(h.board[p][l]) \in Int /\ Toughness(h.board[p][l]) \in Int
             /\ n(p) \in Nat /\ h.board[p][l] \in GoodSlot
             /\ blow[p].damage = n(p) /\ ~blow[p].kills /\ blow[p].overflow = 0
  <2>1. Power(h.board[p][l]) \in Int /\ Toughness(h.board[p][l]) \in Int
    BY PowerType
  <2>2. h.board[p][l] \in GoodSlot
    BY RowFields
  <2>3. blow[p] = Blow(h, k, l, p) /\ k[p] = {}
    OBVIOUS
  <2>4. Blow(h, k, l, p).damage = n(p)
    BY <2>1, <2>3 DEF Blow, Lost
  <2>5. ~Blow(h, k, l, p).kills /\ Blow(h, k, l, p).overflow = 0
    BY <2>3 DEF Blow
  <2>6. n(p) \in Nat
    BY <2>1 DEF Lost
  <2> HIDE DEF blow, n
  <2> QED
    BY <2>1, <2>2, <2>3, <2>4, <2>5, <2>6
<1> HIDE DEF blow, n
<1>2. n(0) \in Nat /\ n(1) \in Nat
  BY <1>0, <1>1
<1>3. s0 = Strike(h, k, l, 0, n(0)) /\ j = Strike(s0, k, l, 1, n(1))
  OBVIOUS
<1> HIDE DEF s0, j
<1>4. AfterStrike(h, s0, l, 0, 1, n(0))
  BY <1>0, <1>2, <1>3, PlainStrike
<1>5. AfterStrike(s0, j, l, 1, 0, n(1))
  <2>1. Good(s0) /\ s0.running
    BY <1>4 DEF AfterStrike
  <2> QED
    BY <1>0, <1>2, <1>3, <2>1, PlainStrike
<1>6. j.health = h.health /\ \A p \in Players : j.board[p][l] = side(p)
  BY <1>0, <1>4, <1>5 DEF AfterStrike
<1>7. Strikes(h, k, l, blow) = j
  BY <1>0, <1>1 DEF Strikes, j, s0
<1>8. Touches(j, l, blow) = j
  BY <1>0, <1>1 DEF Touches, Touch
<1>9. ASSUME NEW p \in Players
      PROVE  OnKill(j, l, p, blow[p].fought) = j
  <2>1. CASE Occupied(j, p, l)
    <3>1. j.board[p][l].card = h.board[p][l].card
      BY <1>0, <1>1, <1>6, <2>1, StruckIs DEF Occupied
    <3>2. \A i \in DOMAIN Catalog[j.board[p][l].card].effects :
            Catalog[j.board[p][l].card].effects[i].trigger # "OnKill"
      BY <2>1, <3>1 DEF Plain, Occupied
    <3> QED
      BY <3>2, NothingOnKill DEF OnKill
  <2>2. CASE ~Occupied(j, p, l)
    BY <2>2 DEF OnKill
  <2> QED
    BY <2>1, <2>2
<1>10. Kills(j, l, blow) = j
  BY <1>0, <1>9 DEF Kills
<1>11. Overflows(j, k, blow) = j
  BY <1>0, <1>1 DEF Overflows, DirectDamage
<1>12. Exchange(h, k, l) = j
  BY <1>7, <1>8, <1>10, <1>11 DEF Exchange, blow
<1>13. ASSUME NEW p \in Players
       PROVE  ByTheBook(h, j, l, p)
  <2> DEFINE mine == h.board[p][l]
             across == h.board[Other(p)][l]
  <2>1. /\ mine \in GoodSlot /\ Toughness(mine) \in Int /\ Power(across) \in Int
        /\ n(Other(p)) \in Nat /\ n(Other(p)) = Lost(Power(across))
    BY <1>1, OtherPlayer DEF n
  <2>2. Left(mine, across) = Toughness(mine) - n(Other(p))
    BY <2>1 DEF Left, Lost
  <2>3. CASE mine.card = NoCard
    <3>1. Lost(Power(across)) = 0
      BY <2>1, <2>3 DEF Lost, Occupied
    <3>2. h.health[p] - 0 = h.health[p]
      BY Fields
    <3> QED
      BY <1>6, <2>3, <3>1, <3>2 DEF ByTheBook
  <2>4. CASE mine.card # NoCard
    <3>1. j.board[p][l] = Struck(mine, n(Other(p)))
      BY <1>6
    <3> HIDE DEF mine, across
    <3>2. /\ Struck(mine, n(Other(p))).card
                = (IF Left(mine, across) > 0 THEN mine.card ELSE NoCard)
          /\ Struck(mine, n(Other(p))).card # NoCard
               => Toughness(Struck(mine, n(Other(p)))) = Left(mine, across)
      BY <2>1, <2>2, <2>4, StruckIs
    <3> QED
      BY <1>6, <2>4, <3>1, <3>2 DEF ByTheBook, mine, across
  <2> QED
    BY <2>3, <2>4
<1> QED
  BY <1>12, <1>13

\* A creature that is alone and has power hits the other player.
LEMMA PlainHit ==
  ASSUME NEW h, Good(h), h.running, NEW k, NEW l \in Lanes, NEW q \in Players, k[q] = {},
         Occupied(h, q, l), ~Occupied(h, Other(q), l), Power(h.board[q][l]) > 0
  PROVE  \A p \in Players : ByTheBook(h, DirectDamage(h, k, q, Power(h.board[q][l])), l, p)
<1> DEFINE n == Power(h.board[q][l])
           r == Other(q)
           j == AugmentHP(h, r, -n)
<1>1. r \in Players /\ r # q /\ Other(r) = q /\ n \in Int /\ -n \in Int /\ n > 0
  BY OtherPlayer, PowerType
<1>2. DirectDamage(h, k, q, n) = j
  BY <1>1 DEF DirectDamage, Heal
<1>3. h.health[r] \in Int /\ h.health[q] \in Int /\ h.board[q][l] \in GoodSlot
  BY <1>1, Fields, RowFields
<1> HIDE DEF n, r
<1>4. SameCards(h, j)
  BY <1>1, AugmentHPKeeps
<1>5. j.health[r] = h.health[r] - n /\ j.health[q] = h.health[q]
  <2> DEFINE x == [h.health EXCEPT ![r] = h.health[r] + (-n)]
             hurt == [h EXCEPT !.health = x]
  <2>1. x \in [Players -> Int] /\ x[r] = h.health[r] - n /\ x[q] = h.health[q]
    BY <1>1, <1>3, Fields
  <2>2. Changed(h, r, -n) = hurt
    BY DEF Changed
  <2> HIDE DEF x
  <2>3. hurt.health = x /\ hurt \in GoodGame
    BY <2>1, SetHealth DEF Good
  <2> HIDE DEF hurt
  <2>4. EndMatch(hurt, r).health = x
    BY <2>3 DEF EndMatch, GoodGame
  <2>5. j \in {hurt, EndMatch(hurt, r)}
    BY <1>1, <1>3, <2>2 DEF AugmentHP
  <2> QED
    BY <2>1, <2>3, <2>4, <2>5
<1> HIDE DEF j
<1>6. ByTheBook(h, j, l, r)
  BY <1>1, <1>5 DEF ByTheBook, Lost, n, r, Occupied
<1>7. ByTheBook(h, j, l, q)
  <2>1. Power(h.board[r][l]) = 0
    BY DEF Power, Occupied, r
  <2>2. Left(h.board[q][l], h.board[r][l]) = Toughness(h.board[q][l])
        /\ Toughness(h.board[q][l]) > 0
    BY <1>1, <2>1, PowerType, SlotFields, RowFields DEF Left, Occupied
  <2> QED
    BY <1>4, <1>5, <2>2 DEF ByTheBook, SameCards, Occupied, r
<1>8. \A p \in Players : p = q \/ p = r
  BY DEF r, Other, Players
<1> QED
  BY <1>2, <1>6, <1>7, <1>8 DEF n

LEMMA PlainTick ==
  ASSUME NEW h, Good(h), NEW p \in Players, NEW l \in Lanes, Plain(h.board[p][l])
  PROVE  TickRegen(h, p, l) = h
<1>1. h.board[p][l].card = NoCard \/ h.board[p][l].regen[1] = 0
  BY RowFields, SlotFields DEF Plain
<1> QED
  BY <1>1 DEF TickRegen

LEMMA PlainCombat ==
  ASSUME NEW h, Good(h), h.running, NEW l \in Lanes,
         \A p \in Players : Plain(h.board[p][l])
  PROVE  \A p \in Players : ByTheBook(h, ResolveLaneCombat(h, l), l, p)
<1> DEFINE k == [p \in Players |-> h.board[p][l].effects]
<1>0. 0 \in Players /\ 1 \in Players /\ Other(0) = 1 /\ Other(1) = 0 /\ Players = {0, 1}
  BY DEF Players, Other
<1>1. \A p \in Players : k[p] = {}
  BY DEF Plain
<1>2. TickRegen(TickRegen(h, 0, l), 1, l) = h
  BY <1>0, PlainTick
<1>3. ResolveLaneCombat(h, l) = IF \A p \in Players : ~Occupied(h, p, l) THEN h
                                ELSE ResolveCombatOnce(h, k, l)
  BY <1>1, <1>2 DEF ResolveLaneCombat
<1> HIDE DEF k
<1>4. CASE \A p \in Players : ~Occupied(h, p, l)
  <2>1. ASSUME NEW p \in Players
        PROVE  ByTheBook(h, h, l, p)
    <3>1. h.board[p][l].card = NoCard /\ h.board[Other(p)][l].card = NoCard
      BY <1>4, OtherPlayer DEF Occupied
    <3>2. h.health[p] - 0 = h.health[p]
      BY Fields
    <3> QED
      BY <3>1, <3>2 DEF ByTheBook, Lost, Power
  <2> QED
    BY <1>3, <1>4, <2>1
<1> DEFINE direct(p) == /\ Occupied(h, p, l) /\ ~Occupied(h, Other(p), l)
                        /\ Power(h.board[p][l]) > 0
           deal(p) == DirectDamage(h, k, p, Power(h.board[p][l]))
<1>5. CASE ~(\A p \in Players : ~Occupied(h, p, l)) /\ direct(0)
  <2>1. ResolveCombatOnce(h, k, l) = deal(0)
    BY <1>0, <1>5 DEF ResolveCombatOnce
  <2> QED
    BY <1>0, <1>1, <1>3, <1>5, <2>1, PlainHit
<1>6. CASE ~(\A p \in Players : ~Occupied(h, p, l)) /\ ~direct(0) /\ direct(1)
  <2>1. ResolveCombatOnce(h, k, l) = deal(1)
    BY <1>0, <1>6 DEF ResolveCombatOnce
  <2> QED
    BY <1>0, <1>1, <1>3, <1>6, <2>1, PlainHit
<1>7. CASE ~(\A p \in Players : ~Occupied(h, p, l)) /\ ~direct(0) /\ ~direct(1)
  <2>1. ResolveCombatOnce(h, k, l) = Exchange(h, k, l)
    BY <1>7 DEF ResolveCombatOnce
  <2>2. \A p \in Players : Occupied(h, p, l) \/ Power(h.board[Other(p)][l]) <= 0
    <3>1. \A p \in Players : Power(h.board[p][l]) \in Int
      BY PowerType
    <3> QED
      BY <1>0, <1>7, <3>1 DEF Power, Occupied
  <2> QED
    BY <1>1, <1>3, <1>7, <2>1, <2>2, PlainExchange
<1> QED
  BY <1>4, <1>5, <1>6, <1>7

\* A lane without keywords is fought as the README's rules say, with any creatures
\* of the card table, whatever augments they have and however the match goes on
\* (resolveCombatOnce, augmentCreature, sendDirectDamage).
THEOREM BattlesByTheBook == Spec => BattleByTheBook
<1>1. ASSUME IInv, phase = "attack" => g.running, [Next]_vars, Attacks, vars' # vars,
             \A p \in Players : Plain(g.board[p][lane])
      PROVE  \A p \in Players : ByTheBook(g, g', lane, p)
  <2>1. AttackLane
    BY <1>1, AttackStep
  <2> QED
    BY <1>1, <2>1, PlainCombat DEF AttackLane, Attacks, IInv, Shape
<1> DEFINE Fought == Attacks /\ (\A p \in Players : Plain(g.board[p][lane])) =>
       \A p \in Players :
         LET mine == g.board[p][lane]
             across == g.board[Other(p)][lane]
             after == g'.board[p][lane]
         IN  IF mine.card = NoCard
             THEN g'.health[p] = g.health[p] - (IF Power(across) > 0 THEN Power(across) ELSE 0)
             ELSE /\ g'.health[p] = g.health[p]
                  /\ after.card = (IF Left(mine, across) > 0 THEN mine.card ELSE NoCard)
                  /\ after.card # NoCard => Toughness(after) = Left(mine, across)
<1>2. IInv /\ (phase = "attack" => g.running) /\ [Next]_vars => [Fought]_vars
  BY <1>1 DEF ByTheBook, Lost
<1>3. Spec => [][Fought]_vars
  BY <1>2, MatchInductive, AttackRuns, PTL DEF Spec
<1> QED
  BY <1>3 DEF BattleByTheBook

-----------------------------------------------------------------------------
(* The players' seats exchanged.                                           *)

LEMMA SwapIs ==
  ASSUME NEW S, NEW f \in [Players -> S], NEW p \in Players
  PROVE  /\ SwapSides(f) \in [Players -> S]
         /\ SwapSides(f)[p] = f[Other(p)] /\ SwapSides(f)[Other(p)] = f[p]
         /\ SwapSides(SwapSides(f)) = f
<1>1. /\ SwapSides(f) = [q \in Players |-> f[Other(q)]]
      /\ \A q \in Players : Other(q) \in Players /\ Other(Other(q)) = q
  BY OtherPlayer DEF SwapSides
<1>2. SwapSides(f) \in [Players -> S]
  BY <1>1
<1>3. SwapSides(f)[p] = f[Other(p)] /\ SwapSides(f)[Other(p)] = f[p]
  BY <1>1
<1>4. SwapSides(SwapSides(f)) = [q \in Players |-> SwapSides(f)[Other(q)]]
  BY DEF SwapSides
<1>5. \A q \in Players : SwapSides(f)[Other(q)] = f[q]
  BY <1>1
<1> QED
  BY <1>2, <1>3, <1>4, <1>5

\* One side of a pair changes.
Sets(f, p, v) == [f EXCEPT ![p] = v]

LEMMA SwapSets ==
  ASSUME NEW S, NEW f \in [Players -> S], NEW p \in Players, NEW v
  PROVE  SwapSides(Sets(f, p, v)) = Sets(SwapSides(f), Other(p), v)
<1>1. \A q \in Players : Other(q) \in Players /\ (Other(q) = p <=> q = Other(p))
  BY DEF Other, Players
<1> QED
  BY <1>1 DEF SwapSides, Sets

OtherLoser(loser) == IF loser = NoOne THEN NoOne ELSE Other(loser)

LEMMA MirroredFields ==
  ASSUME NEW h \in GoodGame
  PROVE  /\ Mirrored(h) \in GoodGame
         /\ Mirrored(h).running = h.running /\ Mirrored(h).loser = OtherLoser(h.loser)
         /\ Mirrored(h).health = SwapSides(h.health) /\ Mirrored(h).mana = SwapSides(h.mana)
         /\ Mirrored(h).fatigue = SwapSides(h.fatigue) /\ Mirrored(h).deck = SwapSides(h.deck)
         /\ Mirrored(h).hand = SwapSides(h.hand) /\ Mirrored(h).discard = SwapSides(h.discard)
         /\ Mirrored(h).board = SwapSides(h.board)
<1>1. /\ SwapSides(h.health) \in [Players -> Int] /\ SwapSides(h.mana) \in [Players -> Int]
      /\ SwapSides(h.fatigue) \in [Players -> Nat] /\ SwapSides(h.deck) \in [Players -> Seq(Cards)]
      /\ SwapSides(h.hand) \in [Players -> [Cards -> Nat]]
      /\ SwapSides(h.discard) \in [Players -> [Cards -> Nat]]
      /\ SwapSides(h.board) \in [Players -> Rows]
  BY OtherPlayer DEF GoodGame, SwapSides
<1>2. OtherLoser(h.loser) \in Players \cup {NoOne}
  BY OtherPlayer DEF GoodGame, OtherLoser
<1>3. Mirrored(h) =
        [h EXCEPT !.loser = OtherLoser(h.loser),
                  !.health = SwapSides(h.health), !.mana = SwapSides(h.mana),
                  !.fatigue = SwapSides(h.fatigue), !.deck = SwapSides(h.deck),
                  !.hand = SwapSides(h.hand), !.discard = SwapSides(h.discard),
                  !.board = SwapSides(h.board)]
  BY DEF Mirrored, OtherLoser
<1> QED
  BY <1>1, <1>2, <1>3 DEF GoodGame

\* Two games with the same nine fields are the same.
LEMMA SameGame ==
  ASSUME NEW h \in GoodGame, NEW k \in GoodGame,
         h.running = k.running, h.loser = k.loser, h.health = k.health, h.mana = k.mana,
         h.fatigue = k.fatigue, h.deck = k.deck, h.hand = k.hand, h.discard = k.discard,
         h.board = k.board
  PROVE  h = k
<1> DEFINE parts(j) == [running |-> j.running, loser |-> j.loser, health |-> j.health,
                        mana |-> j.mana, fatigue |-> j.fatigue, deck |-> j.deck,
                        hand |-> j.hand, discard |-> j.discard, board |-> j.board]
<1>1. h = parts(h) /\ k = parts(k)
  BY DEF GoodGame
<1>2. parts(h) = parts(k)
  OBVIOUS
<1> HIDE DEF parts
<1> QED
  BY <1>1, <1>2

LEMMA MirroredGood ==
  ASSUME NEW h, Good(h)
  PROVE  Good(Mirrored(h)) /\ Mirrored(Mirrored(h)) = h
<1>1. h \in GoodGame /\ Mirrored(h) \in GoodGame /\ Mirrored(Mirrored(h)) \in GoodGame
  BY MirroredFields DEF Good
<1>2. Decided(Mirrored(h))
  <2>1. ASSUME NEW p \in Players
        PROVE  Mirrored(h).health[p] = h.health[Other(p)]
    <3>1. h.health \in [Players -> Int]
      BY <2>1, Fields
    <3>2. Mirrored(h).health = SwapSides(h.health)
      BY <1>1, MirroredFields
    <3>3. SwapSides(h.health)[p] = h.health[Other(p)]
      BY <2>1, <3>1, SwapIs
    <3> QED
      BY <3>2, <3>3
  <2>2. ASSUME NEW p \in Players, Mirrored(h).health[p] <= 0
        PROVE  Mirrored(h).loser = p
    <3>1. h.loser = Other(p)
      BY <2>1, <2>2, OtherPlayer DEF Good, Decided
    <3> QED
      BY <1>1, <3>1, MirroredFields, OtherPlayer DEF OtherLoser, Players, NoOne
  <2>3. Mirrored(h).running <=> Mirrored(h).loser = NoOne
    <3>1. h.loser \in Players \cup {NoOne} /\ (h.running <=> h.loser = NoOne)
      BY <1>1 DEF Good, Decided, GoodGame
    <3> QED
      BY <1>1, <3>1, MirroredFields, OtherPlayer DEF OtherLoser, Players, NoOne
  <2> QED
    BY <2>2, <2>3 DEF Decided
<1>3. OtherLoser(OtherLoser(h.loser)) = h.loser
  <2>1. h.loser \in Players \cup {NoOne}
    BY <1>1 DEF GoodGame
  <2> QED
    BY <2>1, OtherPlayer DEF OtherLoser, Players, NoOne
<1>4. /\ SwapSides(SwapSides(h.health)) = h.health /\ SwapSides(SwapSides(h.mana)) = h.mana
      /\ SwapSides(SwapSides(h.fatigue)) = h.fatigue /\ SwapSides(SwapSides(h.deck)) = h.deck
      /\ SwapSides(SwapSides(h.hand)) = h.hand
      /\ SwapSides(SwapSides(h.discard)) = h.discard
      /\ SwapSides(SwapSides(h.board)) = h.board
  <2>1. 0 \in Players
    BY DEF Players
  <2>2. /\ h.health \in [Players -> Int] /\ h.mana \in [Players -> Int]
        /\ h.fatigue \in [Players -> Nat] /\ h.deck \in [Players -> Seq(Cards)]
        /\ h.hand \in [Players -> [Cards -> Nat]] /\ h.discard \in [Players -> [Cards -> Nat]]
        /\ h.board \in [Players -> Rows]
    BY <2>1, Fields
  <2>3. \A S : \A f \in [Players -> S] : SwapSides(SwapSides(f)) = f
    BY <2>1, SwapIs
  <2> QED
    BY <2>2, <2>3
<1>5. Mirrored(Mirrored(h)) = h
  BY <1>1, <1>3, <1>4, MirroredFields, SameGame
<1> QED
  BY <1>1, <1>2, <1>5 DEF Good

\* Changing one field on the other side of the mirror.
LEMMA MirrorHealth ==
  ASSUME NEW h \in GoodGame, NEW x
  PROVE  Mirrored([h EXCEPT !.health = x]) = [Mirrored(h) EXCEPT !.health = SwapSides(x)]
BY DEF GoodGame, Mirrored

LEMMA MirrorMana ==
  ASSUME NEW h \in GoodGame, NEW x
  PROVE  Mirrored([h EXCEPT !.mana = x]) = [Mirrored(h) EXCEPT !.mana = SwapSides(x)]
BY DEF GoodGame, Mirrored

LEMMA MirrorFatigue ==
  ASSUME NEW h \in GoodGame, NEW x
  PROVE  Mirrored([h EXCEPT !.fatigue = x]) = [Mirrored(h) EXCEPT !.fatigue = SwapSides(x)]
BY DEF GoodGame, Mirrored

LEMMA MirrorBoard ==
  ASSUME NEW h \in GoodGame, NEW x
  PROVE  Mirrored([h EXCEPT !.board = x]) = [Mirrored(h) EXCEPT !.board = SwapSides(x)]
BY DEF GoodGame, Mirrored

LEMMA MirrorEndMatch ==
  ASSUME NEW h \in GoodGame, NEW p \in Players
  PROVE  Mirrored(EndMatch(h, p)) = EndMatch(Mirrored(h), Other(p))
<1>1. p # NoOne
  BY DEF Players, NoOne
<1> QED
  BY <1>1 DEF GoodGame, Mirrored, EndMatch

\* What is on one side of the mirror is on the other side of the original.
LEMMA MirrorSide ==
  ASSUME NEW h, Good(h), NEW p \in Players
  PROVE  /\ Mirrored(h).running = h.running
         /\ Mirrored(h).health[Other(p)] = h.health[p]
         /\ Mirrored(h).mana[Other(p)] = h.mana[p]
         /\ Mirrored(h).fatigue[Other(p)] = h.fatigue[p]
         /\ Mirrored(h).deck[Other(p)] = h.deck[p]
         /\ Mirrored(h).hand[Other(p)] = h.hand[p]
         /\ Mirrored(h).discard[Other(p)] = h.discard[p]
         /\ Mirrored(h).board[Other(p)] = h.board[p]
<1>1. /\ h.health \in [Players -> Int] /\ h.mana \in [Players -> Int]
      /\ h.fatigue \in [Players -> Nat] /\ h.deck \in [Players -> Seq(Cards)]
      /\ h.hand \in [Players -> [Cards -> Nat]] /\ h.discard \in [Players -> [Cards -> Nat]]
      /\ h.board \in [Players -> Rows]
  BY Fields
<1>2. \A S : \A f \in [Players -> S] : SwapSides(f)[Other(p)] = f[p]
  BY SwapIs
<1>3. /\ SwapSides(h.health)[Other(p)] = h.health[p] /\ SwapSides(h.mana)[Other(p)] = h.mana[p]
      /\ SwapSides(h.fatigue)[Other(p)] = h.fatigue[p]
      /\ SwapSides(h.deck)[Other(p)] = h.deck[p] /\ SwapSides(h.hand)[Other(p)] = h.hand[p]
      /\ SwapSides(h.discard)[Other(p)] = h.discard[p]
      /\ SwapSides(h.board)[Other(p)] = h.board[p]
  BY <1>1, <1>2
<1>4. h \in GoodGame
  BY DEF Good
<1> QED
  BY <1>3, <1>4, MirroredFields

LEMMA MirrorSets ==
  ASSUME NEW h, Good(h), NEW p \in Players, NEW v
  PROVE  /\ Sets(Mirrored(h).health, Other(p), v) = SwapSides(Sets(h.health, p, v))
         /\ Sets(Mirrored(h).mana, Other(p), v) = SwapSides(Sets(h.mana, p, v))
         /\ Sets(Mirrored(h).fatigue, Other(p), v) = SwapSides(Sets(h.fatigue, p, v))
         /\ Sets(Mirrored(h).deck, Other(p), v) = SwapSides(Sets(h.deck, p, v))
         /\ Sets(Mirrored(h).hand, Other(p), v) = SwapSides(Sets(h.hand, p, v))
         /\ Sets(Mirrored(h).discard, Other(p), v) = SwapSides(Sets(h.discard, p, v))
         /\ Sets(Mirrored(h).board, Other(p), v) = SwapSides(Sets(h.board, p, v))
<1>1. /\ Mirrored(h).health = SwapSides(h.health) /\ Mirrored(h).mana = SwapSides(h.mana)
      /\ Mirrored(h).fatigue = SwapSides(h.fatigue) /\ Mirrored(h).deck = SwapSides(h.deck)
      /\ Mirrored(h).hand = SwapSides(h.hand) /\ Mirrored(h).discard = SwapSides(h.discard)
      /\ Mirrored(h).board = SwapSides(h.board)
  BY MirroredFields DEF Good
<1>2. Sets(SwapSides(h.health), Other(p), v) = SwapSides(Sets(h.health, p, v))
  BY Fields, SwapSets
<1>3. Sets(SwapSides(h.mana), Other(p), v) = SwapSides(Sets(h.mana, p, v))
  BY Fields, SwapSets
<1>4. Sets(SwapSides(h.fatigue), Other(p), v) = SwapSides(Sets(h.fatigue, p, v))
  BY Fields, SwapSets
<1>5. Sets(SwapSides(h.deck), Other(p), v) = SwapSides(Sets(h.deck, p, v))
  BY Fields, SwapSets
<1>6. Sets(SwapSides(h.hand), Other(p), v) = SwapSides(Sets(h.hand, p, v))
  BY Fields, SwapSets
<1>7. Sets(SwapSides(h.discard), Other(p), v) = SwapSides(Sets(h.discard, p, v))
  BY Fields, SwapSets
<1>8. Sets(SwapSides(h.board), Other(p), v) = SwapSides(Sets(h.board, p, v))
  BY Fields, SwapSets
<1> QED
  BY <1>1, <1>2, <1>3, <1>4, <1>5, <1>6, <1>7, <1>8

LEMMA MirrorChanged ==
  ASSUME NEW h, Good(h), NEW p \in Players, NEW n \in Int
  PROVE  Mirrored(Changed(h, p, n)) = Changed(Mirrored(h), Other(p), n)
<1> DEFINE x == Sets(h.health, p, h.health[p] + n)
           y == Sets(Mirrored(h).health, Other(p), h.health[p] + n)
<1>1. y = SwapSides(x)
  BY MirrorSets, Fields
<1>2. Changed(h, p, n) = [h EXCEPT !.health = x]
      /\ Changed(Mirrored(h), Other(p), n) = [Mirrored(h) EXCEPT !.health = y]
  BY MirrorSide DEF Changed, Sets
<1> HIDE DEF x, y
<1> QED
  BY <1>1, <1>2, MirrorHealth DEF Good

LEMMA MirrorAugmentHP ==
  ASSUME NEW h, Good(h), NEW p \in Players, NEW n \in Int
  PROVE  Mirrored(AugmentHP(h, p, n)) = AugmentHP(Mirrored(h), Other(p), n)
<1> DEFINE hurt == Changed(h, p, n)
<1>1. Mirrored(hurt) = Changed(Mirrored(h), Other(p), n)
  BY MirrorChanged
<1>2. Mirrored(h).running = h.running /\ Mirrored(h).health[Other(p)] = h.health[p]
  BY MirrorSide
<1>3. h.health[p] + n \in Int /\ h.running \in BOOLEAN
  BY Fields
<1>4. hurt \in GoodGame
  <2> DEFINE x == [h.health EXCEPT ![p] = h.health[p] + n]
  <2>1. x \in [Players -> Int] /\ h \in GoodGame
    BY <1>3, Fields
  <2>2. hurt = [h EXCEPT !.health = x]
    BY DEF Changed
  <2> HIDE DEF x
  <2> QED
    BY <2>1, <2>2, SetHealth
<1> HIDE DEF hurt
<1>5. Mirrored(EndMatch(hurt, p)) = EndMatch(Mirrored(hurt), Other(p))
  BY <1>4, MirrorEndMatch
<1>6. CASE ~h.running
  BY <1>2, <1>6 DEF AugmentHP
<1>7. CASE h.running /\ h.health[p] + n <= 0
  BY <1>1, <1>2, <1>3, <1>5, <1>7 DEF AugmentHP, hurt
<1>8. CASE h.running /\ h.health[p] + n > 0
  BY <1>1, <1>2, <1>3, <1>8 DEF AugmentHP, hurt
<1> QED
  BY <1>3, <1>6, <1>7, <1>8

LEMMA MirrorSetHP ==
  ASSUME NEW h, Good(h), NEW p \in Players, NEW n \in Int
  PROVE  Mirrored(SetHP(h, p, n)) = SetHP(Mirrored(h), Other(p), n)
<1> DEFINE x == Sets(h.health, p, n)
           y == Sets(Mirrored(h).health, Other(p), n)
<1>1. y = SwapSides(x) /\ h \in GoodGame
  BY MirrorSets, Fields
<1>2. /\ SetHP(h, p, n) = IF h.running THEN [h EXCEPT !.health = x] ELSE h
      /\ SetHP(Mirrored(h), Other(p), n)
           = IF Mirrored(h).running THEN [Mirrored(h) EXCEPT !.health = y] ELSE Mirrored(h)
  BY DEF SetHP, Sets
<1>3. Mirrored(h).running = h.running
  BY MirrorSide
<1> HIDE DEF x, y
<1> QED
  BY <1>1, <1>2, <1>3, MirrorHealth

LEMMA MirrorAugmentMana ==
  ASSUME NEW h, Good(h), NEW p \in Players, NEW n \in Int
  PROVE  Mirrored(AugmentMana(h, p, n)) = AugmentMana(Mirrored(h), Other(p), n)
<1> DEFINE x == Sets(h.mana, p, h.mana[p] + n)
           y == Sets(Mirrored(h).mana, Other(p), h.mana[p] + n)
<1>1. y = SwapSides(x) /\ h \in GoodGame
  BY MirrorSets, Fields
<1>2. /\ AugmentMana(h, p, n) = IF h.running THEN [h EXCEPT !.mana = x] ELSE h
      /\ AugmentMana(Mirrored(h), Other(p), n)
           = IF Mirrored(h).running THEN [Mirrored(h) EXCEPT !.mana = y] ELSE Mirrored(h)
  BY MirrorSide DEF AugmentMana, Sets
<1>3. Mirrored(h).running = h.running
  BY MirrorSide
<1> HIDE DEF x, y
<1> QED
  BY <1>1, <1>2, <1>3, MirrorMana

LEMMA MirrorHandleFatigue ==
  ASSUME NEW h, Good(h), NEW p \in Players
  PROVE  Mirrored(HandleFatigue(h, p)) = HandleFatigue(Mirrored(h), Other(p))
<1> DEFINE hit == AugmentHP(h, p, -h.fatigue[p])
           hitM == AugmentHP(Mirrored(h), Other(p), -h.fatigue[p])
           n == h.fatigue[p] + 1
           x == Sets(hit.fatigue, p, n)
           y == Sets(hitM.fatigue, Other(p), n)
<1>1. h.fatigue[p] \in Nat /\ -h.fatigue[p] \in Int /\ n \in Nat
  BY Fields
<1>2. Good(hit) /\ Mirrored(hit) = hitM
  BY <1>1, AugmentHPGood, MirrorAugmentHP
<1>3. /\ Mirrored(h).running = h.running /\ Mirrored(h).fatigue[Other(p)] = h.fatigue[p]
  BY MirrorSide
<1>4. /\ HandleFatigue(h, p) = IF h.running THEN [hit EXCEPT !.fatigue = x] ELSE h
      /\ HandleFatigue(Mirrored(h), Other(p))
           = IF Mirrored(h).running THEN [hitM EXCEPT !.fatigue = y] ELSE Mirrored(h)
  BY <1>3 DEF HandleFatigue, Sets
<1> HIDE DEF hit, hitM, n
<1>5. y = SwapSides(x) /\ hit \in GoodGame
  BY <1>1, <1>2, MirrorSets, Fields
<1> HIDE DEF x, y
<1> QED
  BY <1>2, <1>3, <1>4, <1>5, MirrorFatigue

LEMMA MirrorDraw ==
  ASSUME NEW h, Good(h), NEW p \in Players
  PROVE  Mirrored(Draw(h, p)) = Draw(Mirrored(h), Other(p))
<1> DEFINE d == h.deck[p]
           n == Len(d)
           rest == SubSeq(d, 1, n - 1)
           more == [h.hand[p] EXCEPT ![d[n]] = h.hand[p][d[n]] + 1]
           x == Sets(h.deck, p, rest)
           y == Sets(h.hand, p, more)
           o == Other(p)
           xm == Sets(Mirrored(h).deck, o, rest)
           ym == Sets(Mirrored(h).hand, o, more)
<1>1. Mirrored(h).deck[o] = d /\ Mirrored(h).hand[o] = h.hand[p]
  BY MirrorSide
<1>2. CASE d = <<>>
  BY <1>1, <1>2, MirrorHandleFatigue DEF Draw
<1>3. CASE d # <<>>
  <2>1. Draw(h, p) = [h EXCEPT !.deck = x, !.hand = y]
    BY <1>3 DEF Draw, Sets
  <2>2. Draw(Mirrored(h), o) = [Mirrored(h) EXCEPT !.deck = xm, !.hand = ym]
    BY <1>1, <1>3 DEF Draw, Sets
  <2> HIDE DEF d, n, rest, more
  <2>3. xm = SwapSides(x) /\ ym = SwapSides(y) /\ h \in GoodGame
    BY MirrorSets, Fields
  <2> HIDE DEF x, y, xm, ym
  <2>4. Mirrored([h EXCEPT !.deck = x, !.hand = y])
          = [Mirrored(h) EXCEPT !.deck = SwapSides(x), !.hand = SwapSides(y)]
    BY <2>3 DEF GoodGame, Mirrored
  <2> QED
    BY <2>1, <2>2, <2>3, <2>4
<1> QED
  BY <1>2, <1>3

\* Creatures: an operation on player p's side of a lane.
LEMMA MirrorWithRow ==
  ASSUME NEW h, Good(h), NEW p \in Players, NEW row
  PROVE  Mirrored(WithRow(h, p, row)) = WithRow(Mirrored(h), Other(p), row)
<1> DEFINE gone(c) == {l \in Lanes : h.board[p][l].card = c /\ row[l].card # c}
           pile == [c \in Cards |-> h.discard[p][c] + Cardinality(gone(c))]
           x == Sets(h.board, p, row)
           y == Sets(h.discard, p, pile)
           xm == Sets(Mirrored(h).board, Other(p), row)
           ym == Sets(Mirrored(h).discard, Other(p), pile)
<1>1. Mirrored(h).board[Other(p)] = h.board[p] /\ Mirrored(h).discard[Other(p)] = h.discard[p]
  BY MirrorSide
<1>2. WithRow(h, p, row) = [h EXCEPT !.board = x, !.discard = y]
  BY DEF WithRow, Sets
<1>3. WithRow(Mirrored(h), Other(p), row) = [Mirrored(h) EXCEPT !.board = xm, !.discard = ym]
  BY <1>1 DEF WithRow, Sets
<1> HIDE DEF gone, pile
<1>4. xm = SwapSides(x) /\ ym = SwapSides(y) /\ h \in GoodGame
  BY MirrorSets, Fields
<1> HIDE DEF x, y, xm, ym
<1>5. Mirrored([h EXCEPT !.board = x, !.discard = y])
        = [Mirrored(h) EXCEPT !.board = SwapSides(x), !.discard = SwapSides(y)]
  BY <1>4 DEF GoodGame, Mirrored
<1> QED
  BY <1>2, <1>3, <1>4, <1>5

PutSlot(h, p, l, slot) == [h EXCEPT !.board[p][l] = slot]

LEMMA MirrorPutSlot ==
  ASSUME NEW h, Good(h), NEW p \in Players, NEW l, NEW slot
  PROVE  Mirrored(PutSlot(h, p, l, slot)) = PutSlot(Mirrored(h), Other(p), l, slot)
<1> DEFINE row == [h.board[p] EXCEPT ![l] = slot]
           x == Sets(h.board, p, row)
           xm == Sets(Mirrored(h).board, Other(p), row)
<1>1. Mirrored(h).board[Other(p)] = h.board[p]
  BY MirrorSide
<1>2. PutSlot(h, p, l, slot) = [h EXCEPT !.board = x]
  BY DEF Sets, PutSlot
<1>3. PutSlot(Mirrored(h), Other(p), l, slot) = [Mirrored(h) EXCEPT !.board = xm]
  BY <1>1 DEF Sets, PutSlot
<1> HIDE DEF row
<1>4. xm = SwapSides(x) /\ h \in GoodGame
  BY MirrorSets, Fields
<1> HIDE DEF x, xm
<1>5. Mirrored([h EXCEPT !.board = x]) = [Mirrored(h) EXCEPT !.board = SwapSides(x)]
  BY <1>4, MirrorBoard
<1> QED
  BY <1>2, <1>3, <1>4, <1>5

\* Who an operation is about, on the other side of the mirror.
Across(target) == IF target \in Players THEN Other(target) ELSE target

LEMMA AcrossIs ==
  ASSUME NEW t
  PROVE  /\ Across(t) \in Players <=> t \in Players
         /\ t \in Players => Across(t) = Other(t)
         /\ Across(Across(t)) = t
BY OtherPlayer DEF Across

LEMMA MirrorAtLane ==
  ASSUME NEW h, Good(h), NEW t, NEW l
  PROVE  /\ AtLane(Mirrored(h), Across(t), l) <=> AtLane(h, t, l)
         /\ t \in Players => (Occupied(Mirrored(h), Other(t), l) <=> Occupied(h, t, l))
BY AcrossIs, MirrorSide DEF AtLane, Occupied

LEMMA MirrorDestroyCreature ==
  ASSUME NEW h, Good(h), NEW t, NEW l
  PROVE  Mirrored(DestroyCreature(h, t, l)) = DestroyCreature(Mirrored(h), Across(t), l)
<1>1. CASE AtLane(h, t, l)
  <2> DEFINE row == [h.board[t] EXCEPT ![l] = Destroyed(h.board[t][l])]
  <2>1. t \in Players /\ Across(t) = Other(t)
    BY <1>1, AcrossIs DEF AtLane
  <2>2. Mirrored(h).board[Other(t)] = h.board[t] /\ AtLane(Mirrored(h), Other(t), l)
    BY <1>1, <2>1, MirrorSide, MirrorAtLane
  <2>3. DestroyCreature(h, t, l) = WithRow(h, t, row)
    BY <1>1 DEF DestroyCreature
  <2>4. DestroyCreature(Mirrored(h), Other(t), l) = WithRow(Mirrored(h), Other(t), row)
    BY <2>2 DEF DestroyCreature
  <2> HIDE DEF row
  <2> QED
    BY <2>1, <2>3, <2>4, MirrorWithRow
<1>2. CASE ~AtLane(h, t, l)
  BY <1>2, MirrorAtLane DEF DestroyCreature
<1> QED
  BY <1>1, <1>2

LEMMA MirrorAugmentCreature ==
  ASSUME NEW h, Good(h), NEW t, NEW l, NEW a
  PROVE  Mirrored(AugmentCreature(h, t, l, a)) = AugmentCreature(Mirrored(h), Across(t), l, a)
<1>1. CASE AtLane(h, t, l)
  <2> DEFINE row == [h.board[t] EXCEPT ![l] = Augmented(h.board[t][l], a)]
  <2>1. t \in Players /\ Across(t) = Other(t)
    BY <1>1, AcrossIs DEF AtLane
  <2>2. Mirrored(h).board[Other(t)] = h.board[t] /\ AtLane(Mirrored(h), Other(t), l)
    BY <1>1, <2>1, MirrorSide, MirrorAtLane
  <2>3. AugmentCreature(h, t, l, a) = WithRow(h, t, row)
    BY <1>1 DEF AugmentCreature
  <2>4. AugmentCreature(Mirrored(h), Other(t), l, a) = WithRow(Mirrored(h), Other(t), row)
    BY <2>2 DEF AugmentCreature
  <2> HIDE DEF row
  <2> QED
    BY <2>1, <2>3, <2>4, MirrorWithRow
<1>2. CASE ~AtLane(h, t, l)
  BY <1>2, MirrorAtLane DEF AugmentCreature
<1> QED
  BY <1>1, <1>2

LEMMA MirrorAugmentAll ==
  ASSUME NEW h, Good(h), NEW t, NEW a
  PROVE  Mirrored(AugmentAll(h, t, a)) = AugmentAll(Mirrored(h), Across(t), a)
<1> DEFINE row == [l \in Lanes |-> IF Occupied(h, t, l) THEN Augmented(h.board[t][l], a)
                                   ELSE h.board[t][l]]
           rowM == [l \in Lanes |-> IF Occupied(Mirrored(h), Other(t), l)
                                    THEN Augmented(Mirrored(h).board[Other(t)][l], a)
                                    ELSE Mirrored(h).board[Other(t)][l]]
<1>1. CASE h.running /\ t \in Players
  <2>1. Across(t) = Other(t) /\ Other(t) \in Players /\ Mirrored(h).running
    BY <1>1, AcrossIs, OtherPlayer, MirrorSide
  <2>2. rowM = row
    BY <1>1, MirrorSide, MirrorAtLane
  <2>3. AugmentAll(h, t, a) = WithRow(h, t, row)
    BY <1>1 DEF AugmentAll
  <2>4. AugmentAll(Mirrored(h), Other(t), a) = WithRow(Mirrored(h), Other(t), rowM)
    BY <2>1 DEF AugmentAll
  <2> HIDE DEF row, rowM
  <2> QED
    BY <1>1, <2>1, <2>2, <2>3, <2>4, MirrorWithRow
<1>2. CASE ~(h.running /\ t \in Players)
  <2>1. ~(Mirrored(h).running /\ Across(t) \in Players)
    BY <1>2, AcrossIs, MirroredFields DEF Good
  <2> QED
    BY <1>2, <2>1 DEF AugmentAll
<1> QED
  BY <1>1, <1>2

\* The operations that change a creature where it stands.
LEMMA MirrorCreature ==
  ASSUME NEW h, Good(h), NEW t, NEW l, NEW x
  PROVE  /\ Mirrored(SetCreature(h, t, l, x)) = SetCreature(Mirrored(h), Across(t), l, x)
         /\ Mirrored(AddCreatureEffect(h, t, l, x))
              = AddCreatureEffect(Mirrored(h), Across(t), l, x)
         /\ Mirrored(RemoveCreatureEffect(h, t, l, x))
              = RemoveCreatureEffect(Mirrored(h), Across(t), l, x)
         /\ Mirrored(SetCreatureRegen(h, t, l, x))
              = SetCreatureRegen(Mirrored(h), Across(t), l, x)
<1>1. CASE AtLane(h, t, l)
  <2> DEFINE slot == h.board[t][l]
             card == Catalog[slot.card]
             s1 == [slot EXCEPT !.augment =
                      <<x[1] - card.power, Smaller(x[2], card.toughness) - card.toughness>>]
             s2 == [slot EXCEPT !.effects = slot.effects \cup {x}]
             s3 == [slot EXCEPT !.effects = slot.effects \ {x}]
             s4 == WithRegen(slot, x)
  <2>1. t \in Players /\ Across(t) = Other(t)
    BY <1>1, AcrossIs DEF AtLane
  <2>2. Mirrored(h).board[Other(t)] = h.board[t] /\ AtLane(Mirrored(h), Other(t), l)
    BY <1>1, <2>1, MirrorSide, MirrorAtLane
  <2>3. /\ SetCreature(h, t, l, x) = PutSlot(h, t, l, s1)
        /\ SetCreature(Mirrored(h), Other(t), l, x) = PutSlot(Mirrored(h), Other(t), l, s1)
    BY <1>1, <2>2 DEF SetCreature, PutSlot
  <2>4. /\ AddCreatureEffect(h, t, l, x) = PutSlot(h, t, l, s2)
        /\ AddCreatureEffect(Mirrored(h), Other(t), l, x) = PutSlot(Mirrored(h), Other(t), l, s2)
    BY <1>1, <2>2 DEF AddCreatureEffect, PutSlot
  <2>5. /\ RemoveCreatureEffect(h, t, l, x) = PutSlot(h, t, l, s3)
        /\ RemoveCreatureEffect(Mirrored(h), Other(t), l, x)
             = PutSlot(Mirrored(h), Other(t), l, s3)
    BY <1>1, <2>2 DEF RemoveCreatureEffect, PutSlot
  <2>6. /\ SetCreatureRegen(h, t, l, x) = IF x > 0 THEN PutSlot(h, t, l, s4) ELSE h
        /\ SetCreatureRegen(Mirrored(h), Other(t), l, x)
             = IF x > 0 THEN PutSlot(Mirrored(h), Other(t), l, s4) ELSE Mirrored(h)
    BY <1>1, <2>2 DEF SetCreatureRegen, PutSlot
  <2> HIDE DEF s1, s2, s3, s4
  <2> QED
    BY <2>1, <2>3, <2>4, <2>5, <2>6, MirrorPutSlot
<1>2. CASE ~AtLane(h, t, l)
  BY <1>2, MirrorAtLane
     DEF SetCreature, AddCreatureEffect, RemoveCreatureEffect, SetCreatureRegen
<1> QED
  BY <1>1, <1>2

\* Card effects.
LEMMA MirrorFinalGambit ==
  ASSUME NEW h, Good(h), NEW p \in Players, NEW n \in Int, n > 0
  PROVE  Mirrored(FinalGambit(h, p, n)) = FinalGambit(Mirrored(h), Other(p), n)
<1> DEFINE set == SetHP(h, p, n)
           setM == SetHP(Mirrored(h), Other(p), n)
           delta == h.health[p] - n
<1>1. Good(set) /\ Mirrored(set) = setM
  BY SetHPGood, MirrorSetHP
<1>2. -delta \in Int
  BY Fields
<1>3. Mirrored(h).health[Other(p)] = h.health[p] /\ Other(p) \in Players
  BY MirrorSide, OtherPlayer
<1>4. /\ FinalGambit(h, p, n) = IF delta # 0 THEN AugmentHP(set, Other(p), -delta) ELSE set
      /\ FinalGambit(Mirrored(h), Other(p), n)
           = IF delta # 0 THEN AugmentHP(setM, Other(Other(p)), -delta) ELSE setM
  BY <1>3 DEF FinalGambit
<1> HIDE DEF set, setM, delta
<1>5. Mirrored(AugmentHP(set, Other(p), -delta)) = AugmentHP(Mirrored(set), Other(Other(p)), -delta)
  BY <1>1, <1>2, <1>3, MirrorAugmentHP
<1> QED
  BY <1>1, <1>4, <1>5

LEMMA MirrorHealthPerCreature ==
  ASSUME NEW h, Good(h), NEW p \in Players, NEW n \in Int
  PROVE  Mirrored(HealthPerCreature(h, p, n)) = HealthPerCreature(Mirrored(h), Other(p), n)
<1> DEFINE S == {l \in Lanes : Occupied(h, p, l)}
           m == CreaturesOwned(h, p)
<1>1. CreaturesOwned(Mirrored(h), Other(p)) = m
  <2>1. {l \in Lanes : Occupied(Mirrored(h), Other(p), l)} = S
    BY MirrorAtLane
  <2> QED
    BY <2>1 DEF CreaturesOwned
<1>2. m \in Nat
  <2>1. S \in SUBSET Lanes
    OBVIOUS
  <2>2. CreaturesOwned(h, p) = Cardinality(S)
    BY DEF CreaturesOwned
  <2> HIDE DEF S
  <2> QED
    BY <2>1, <2>2, LanesFinite
<1> HIDE DEF m
<1>3. m * n \in Int
  BY <1>2
<1>4. Mirrored(AugmentHP(h, p, m * n)) = AugmentHP(Mirrored(h), Other(p), m * n)
  BY <1>3, MirrorAugmentHP
<1> QED
  BY <1>1, <1>4 DEF HealthPerCreature, m

LEMMA MirrorDrawCards ==
  ASSUME NEW h, Good(h), NEW p \in Players, NEW n
  PROVE  Mirrored(DrawCards(h, p, n)) = DrawCards(Mirrored(h), Other(p), n)
<1>1. Good(Draw(h, p)) /\ Mirrored(Draw(h, p)) = Draw(Mirrored(h), Other(p))
  BY DrawGood, MirrorDraw
<1>2. Mirrored(Draw(Draw(h, p), p)) = Draw(Mirrored(Draw(h, p)), Other(p))
  BY <1>1, MirrorDraw
<1> QED
  BY <1>1, <1>2 DEF DrawCards

LEMMA MirrorEffect ==
  ASSUME NEW h, Good(h), NEW e \in Entry, NEW caster \in Players, NEW l, NEW t,
         e.effect \in {6, 11} => e.amount > 0
  PROVE  Mirrored(Effect(h, e, caster, l, t))
           = Effect(Mirrored(h), e, Other(caster), l, Across(t))
<1> DEFINE who == TargetOr(caster, t)
           whoM == TargetOr(Other(caster), Across(t))
           one == Effect(h, e, caster, l, t)
           two == Effect(Mirrored(h), e, Other(caster), l, Across(t))
<1>1. /\ e.effect \in 0 .. 12 /\ e.amount \in Int
  BY DEF Entry
<1>2. who \in Players /\ whoM = Other(who)
  BY AcrossIs DEF TargetOr
<1> HIDE DEF who, whoM
<1>3. CASE e.effect = 0
  <2>1. one = AugmentCreature(h, t, l, e.augment)
        /\ two = AugmentCreature(Mirrored(h), Across(t), l, e.augment)
    BY <1>3 DEF Effect
  <2> QED
    BY <2>1, MirrorAugmentCreature
<1>4. CASE e.effect = 1
  <2>1. one = DestroyCreature(h, t, l) /\ two = DestroyCreature(Mirrored(h), Across(t), l)
    BY <1>4 DEF Effect
  <2> QED
    BY <2>1, MirrorDestroyCreature
<1>5. CASE e.effect = 2
  <2>1. one = AugmentAll(h, t, e.augment) /\ two = AugmentAll(Mirrored(h), Across(t), e.augment)
    BY <1>5 DEF Effect
  <2> QED
    BY <2>1, MirrorAugmentAll
<1>6. CASE e.effect = 3
  <2>1. one = AugmentHP(h, who, e.amount) /\ two = AugmentHP(Mirrored(h), whoM, e.amount)
    BY <1>6 DEF Effect, who, whoM
  <2> QED
    BY <1>1, <1>2, <2>1, MirrorAugmentHP
<1>7. CASE e.effect = 4
  <2>1. one = SetCreature(h, t, l, e.augment)
        /\ two = SetCreature(Mirrored(h), Across(t), l, e.augment)
    BY <1>7 DEF Effect
  <2> QED
    BY <2>1, MirrorCreature
<1>8. CASE e.effect = 5
  <2>1. one = AugmentMana(h, who, e.amount) /\ two = AugmentMana(Mirrored(h), whoM, e.amount)
    BY <1>8 DEF Effect, who, whoM
  <2> QED
    BY <1>1, <1>2, <2>1, MirrorAugmentMana
<1>9. CASE e.effect = 6
  <2>1. one = SetHP(h, caster, e.amount) /\ two = SetHP(Mirrored(h), Other(caster), e.amount)
    BY <1>9 DEF Effect
  <2> QED
    BY <1>1, <2>1, MirrorSetHP
<1>10. CASE e.effect = 7
  <2>1. one = AddCreatureEffect(h, t, l, e.keyword)
        /\ two = AddCreatureEffect(Mirrored(h), Across(t), l, e.keyword)
    BY <1>10 DEF Effect
  <2> QED
    BY <2>1, MirrorCreature
<1>11. CASE e.effect = 8
  <2>1. one = RemoveCreatureEffect(h, t, l, e.keyword)
        /\ two = RemoveCreatureEffect(Mirrored(h), Across(t), l, e.keyword)
    BY <1>11 DEF Effect
  <2> QED
    BY <2>1, MirrorCreature
<1>12. CASE e.effect = 9
  <2>1. one = SetCreatureRegen(h, t, l, e.amount)
        /\ two = SetCreatureRegen(Mirrored(h), Across(t), l, e.amount)
    BY <1>12 DEF Effect
  <2> QED
    BY <2>1, MirrorCreature
<1>13. CASE e.effect = 10
  <2>1. one = HealthPerCreature(h, who, e.amount)
        /\ two = HealthPerCreature(Mirrored(h), whoM, e.amount)
    BY <1>13 DEF Effect, who, whoM
  <2> QED
    BY <1>1, <1>2, <2>1, MirrorHealthPerCreature
<1>14. CASE e.effect = 11
  <2>1. one = FinalGambit(h, who, e.amount) /\ two = FinalGambit(Mirrored(h), whoM, e.amount)
    BY <1>14 DEF Effect, who, whoM
  <2> QED
    BY <1>1, <1>2, <1>14, <2>1, MirrorFinalGambit
<1>15. CASE e.effect = 12
  <2>1. one = DrawCards(h, caster, e.amount)
        /\ two = DrawCards(Mirrored(h), Other(caster), e.amount)
    BY <1>15 DEF Effect
  <2> QED
    BY <2>1, MirrorDrawCards
<1> QED
  BY <1>1, <1>3, <1>4, <1>5, <1>6, <1>7, <1>8, <1>9, <1>10, <1>11, <1>12, <1>13, <1>14, <1>15

LEMMA MirrorApplyEntry ==
  ASSUME NEW h, Good(h), NEW e \in Entry, NEW caster \in Players, NEW l, NEW t, NEW trigger,
         e.effect \in {6, 11} => e.amount > 0
  PROVE  Mirrored(ApplyEntry(h, e, trigger, caster, l, t))
           = ApplyEntry(Mirrored(h), e, trigger, Other(caster), l, Across(t))
<1> DEFINE to == EntryTarget(e, caster, t)
<1>1. EntryTarget(e, Other(caster), Across(t)) = Across(to)
  <2>1. e.target \in {"Self", "Opponent", "Nil"}
    BY DEF Entry
  <2> QED
    BY <2>1, OtherPlayer DEF EntryTarget, Across
<1>2. Applies(Mirrored(h), e, trigger, l, Across(t)) <=> Applies(h, e, trigger, l, t)
  <2>1. CASE t \in Players
    <3>1. Across(t) \in Players /\ Across(t) = Other(t)
      BY <2>1, AcrossIs
    <3>2. Mirrored(h).board[Other(t)] = h.board[t]
      BY <2>1, MirrorSide
    <3> QED
      BY <2>1, <3>1, <3>2 DEF Applies, Occupied
  <2>2. CASE t \notin Players
    BY <2>2, AcrossIs DEF Applies
  <2> QED
    BY <2>1, <2>2
<1> HIDE DEF to
<1>3. Mirrored(Effect(h, e, caster, l, to)) = Effect(Mirrored(h), e, Other(caster), l, Across(to))
  BY MirrorEffect
<1> QED
  BY <1>1, <1>2, <1>3 DEF ApplyEntry, to

LEMMA MirrorTriggerCardEffects ==
  ASSUME NEW h, Good(h), NEW caster \in Players, NEW card \in Cards, NEW l, NEW t, NEW trigger
  PROVE  Mirrored(TriggerCardEffects(h, caster, card, l, t, trigger))
           = TriggerCardEffects(Mirrored(h), Other(caster), card, l, Across(t), trigger)
<1> DEFINE entries == Catalog[card].effects
           Nth(j, n) == IF n \in DOMAIN entries
                        THEN ApplyEntry(j, entries[n], trigger, caster, l, t) ELSE j
           NthM(j, n) == IF n \in DOMAIN entries
                         THEN ApplyEntry(j, entries[n], trigger, Other(caster), l, Across(t))
                         ELSE j
<1>1. ASSUME NEW j, Good(j), NEW n
      PROVE  Good(Nth(j, n)) /\ Mirrored(Nth(j, n)) = NthM(Mirrored(j), n)
  <2>1. CASE n \in DOMAIN entries
    <3> DEFINE e == entries[n]
               to == EntryTarget(e, caster, t)
    <3>1. /\ e \in Entry
          /\ e.effect = 4 => e.augment[2] > 0
          /\ e.effect \in {6, 11} => e.amount > 0
          /\ e.effect = 8 => e.keyword # "Regen"
      BY <2>1, CardEntries
    <3> HIDE DEF e, to
    <3>2. Good(Effect(j, e, caster, l, to))
      BY <1>1, <3>1, EffectGood
    <3>3. Good(ApplyEntry(j, e, trigger, caster, l, t))
      BY <1>1, <3>2 DEF ApplyEntry, to
    <3>4. Mirrored(ApplyEntry(j, e, trigger, caster, l, t))
            = ApplyEntry(Mirrored(j), e, trigger, Other(caster), l, Across(t))
      BY <1>1, <3>1, MirrorApplyEntry
    <3> QED
      BY <2>1, <3>3, <3>4 DEF e
  <2>2. CASE n \notin DOMAIN entries
    BY <1>1, <2>2
  <2> QED
    BY <2>1, <2>2
<1>2. /\ TriggerCardEffects(h, caster, card, l, t, trigger)
           = IF h.running THEN Nth(Nth(h, 1), 2) ELSE h
      /\ TriggerCardEffects(Mirrored(h), Other(caster), card, l, Across(t), trigger)
           = IF Mirrored(h).running THEN NthM(NthM(Mirrored(h), 1), 2) ELSE Mirrored(h)
  BY DEF TriggerCardEffects
<1>3. Mirrored(h).running = h.running
  BY MirrorSide
<1> HIDE DEF Nth, NthM
<1>4. Mirrored(Nth(Nth(h, 1), 2)) = NthM(NthM(Mirrored(h), 1), 2)
  BY <1>1
<1> QED
  BY <1>2, <1>3, <1>4

-----------------------------------------------------------------------------
(* The stages of a combat, on the other side of the mirror.                *)

LEMMA SwapSide ==
  ASSUME NEW f, NEW p \in Players
  PROVE  SwapSides(f)[Other(p)] = f[p] /\ SwapSides(f)[p] = f[Other(p)]
BY OtherPlayer DEF SwapSides

LEMMA MirrorHeal ==
  ASSUME NEW h, Good(h), NEW k, NEW p \in Players, NEW n \in Int
  PROVE  Mirrored(Heal(h, k, p, n)) = Heal(Mirrored(h), SwapSides(k), Other(p), n)
<1>1. SwapSides(k)[Other(p)] = k[p]
  BY SwapSide
<1>2. Mirrored(AugmentHP(h, p, n)) = AugmentHP(Mirrored(h), Other(p), n)
  BY MirrorAugmentHP
<1> QED
  BY <1>1, <1>2 DEF Heal

LEMMA MirrorDirectDamage ==
  ASSUME NEW h, Good(h), NEW k, NEW p \in Players, NEW n \in Int
  PROVE  Mirrored(DirectDamage(h, k, p, n)) = DirectDamage(Mirrored(h), SwapSides(k), Other(p), n)
<1> DEFINE hit == AugmentHP(h, Other(p), -n)
           hitM == AugmentHP(Mirrored(h), Other(Other(p)), -n)
<1>1. Other(p) \in Players /\ -n \in Int
  BY OtherPlayer
<1>2. Good(hit) /\ Mirrored(hit) = hitM
  BY <1>1, AugmentHPGood, MirrorAugmentHP
<1>3. Mirrored(h).running = h.running
  BY MirrorSide
<1>4. /\ DirectDamage(h, k, p, n) = IF h.running /\ n > 0 THEN Heal(hit, k, p, n) ELSE h
      /\ DirectDamage(Mirrored(h), SwapSides(k), Other(p), n)
           = IF Mirrored(h).running /\ n > 0 THEN Heal(hitM, SwapSides(k), Other(p), n)
             ELSE Mirrored(h)
  BY DEF DirectDamage
<1> HIDE DEF hit, hitM
<1>5. Mirrored(Heal(hit, k, p, n)) = Heal(hitM, SwapSides(k), Other(p), n)
  BY <1>2, MirrorHeal
<1> QED
  BY <1>3, <1>4, <1>5

LEMMA MirrorStrike ==
  ASSUME NEW h, Good(h), NEW k, NEW l, NEW p \in Players, NEW n \in Int
  PROVE  Mirrored(Strike(h, k, l, p, n)) = Strike(Mirrored(h), SwapSides(k), l, Other(p), n)
<1> DEFINE a == <<0, -n>>
           hit == AugmentCreature(h, Other(p), l, a)
           hitM == AugmentCreature(Mirrored(h), Other(Other(p)), l, a)
<1>1. Other(p) \in Players /\ a \in Int \X Int
  BY OtherPlayer
<1>2. /\ Strike(h, k, l, p, n) = IF n = 0 THEN h ELSE Heal(hit, k, p, n)
      /\ Strike(Mirrored(h), SwapSides(k), l, Other(p), n)
           = IF n = 0 THEN Mirrored(h) ELSE Heal(hitM, SwapSides(k), Other(p), n)
  BY DEF Strike
<1> HIDE DEF a
<1>3. Good(hit)
  BY <1>1, AugmentCreatureGood
<1>4. Across(Other(p)) = Other(Other(p))
  BY <1>1, AcrossIs
<1>5. Mirrored(hit) = hitM
  BY <1>4, MirrorAugmentCreature
<1> HIDE DEF hit, hitM
<1>6. Mirrored(Heal(hit, k, p, n)) = Heal(hitM, SwapSides(k), Other(p), n)
  BY <1>3, <1>5, MirrorHeal
<1> QED
  BY <1>2, <1>6

LEMMA MirrorTouch ==
  ASSUME NEW h, Good(h), NEW l, NEW p \in Players, NEW kills
  PROVE  Mirrored(Touch(h, l, p, kills)) = Touch(Mirrored(h), l, Other(p), kills)
<1>1. Across(Other(p)) = Other(Other(p))
  BY OtherPlayer, AcrossIs
<1>2. Mirrored(DestroyCreature(h, Other(p), l)) = DestroyCreature(Mirrored(h), Other(Other(p)), l)
  BY <1>1, MirrorDestroyCreature
<1> QED
  BY <1>2 DEF Touch

LEMMA MirrorOnKill ==
  ASSUME NEW h, Good(h), NEW l \in Lanes, NEW p \in Players, NEW fought
  PROVE  Mirrored(OnKill(h, l, p, fought)) = OnKill(Mirrored(h), l, Other(p), fought)
<1> DEFINE card == h.board[p][l].card
<1>1. /\ Mirrored(h).board[Other(p)] = h.board[p]
      /\ Other(p) \in Players /\ Other(Other(p)) = p
  BY MirrorSide, OtherPlayer
<1>2. /\ Occupied(Mirrored(h), Other(p), l) <=> Occupied(h, p, l)
      /\ Occupied(Mirrored(h), p, l) <=> Occupied(h, Other(p), l)
  BY <1>1, MirrorAtLane
<1>3. /\ OnKill(h, l, p, fought)
           = IF fought /\ Occupied(h, p, l) /\ ~Occupied(h, Other(p), l)
             THEN TriggerCardEffects(h, p, card, l, p, "OnKill") ELSE h
      /\ OnKill(Mirrored(h), l, Other(p), fought)
           = IF fought /\ Occupied(h, p, l) /\ ~Occupied(h, Other(p), l)
             THEN TriggerCardEffects(Mirrored(h), Other(p), card, l, Other(p), "OnKill")
             ELSE Mirrored(h)
  BY <1>1, <1>2 DEF OnKill
<1>4. CASE Occupied(h, p, l)
  <2>1. card \in Cards
    BY <1>4, RowFields, SlotFields DEF Occupied
  <2>2. Across(p) = Other(p)
    BY AcrossIs
  <2> HIDE DEF card
  <2>3. Mirrored(TriggerCardEffects(h, p, card, l, p, "OnKill"))
          = TriggerCardEffects(Mirrored(h), Other(p), card, l, Other(p), "OnKill")
    BY <2>1, <2>2, MirrorTriggerCardEffects
  <2> QED
    BY <1>3, <2>3
<1>5. CASE ~Occupied(h, p, l)
  BY <1>3, <1>5
<1> QED
  BY <1>4, <1>5

LEMMA MirrorBlow ==
  ASSUME NEW h, Good(h), NEW k, NEW l, NEW p \in Players
  PROVE  Blow(Mirrored(h), SwapSides(k), l, Other(p)) = Blow(h, k, l, p)
<1>1. /\ Mirrored(h).board[Other(p)] = h.board[p]
      /\ Mirrored(h).board[p] = h.board[Other(p)]
      /\ Other(p) \in Players /\ Other(Other(p)) = p /\ SwapSides(k)[Other(p)] = k[p]
  BY MirrorSide, OtherPlayer, SwapSide
<1> QED
  BY <1>1 DEF Blow, Occupied

\* Only the creature's own side is read or changed.
LEMMA MirrorTickRegen ==
  ASSUME NEW h, Good(h), NEW p \in Players, NEW l \in Lanes
  PROVE  Mirrored(TickRegen(h, p, l)) = TickRegen(Mirrored(h), Other(p), l)
<1> DEFINE slot    == h.board[p][l]
           value   == slot.regen[1]
           left    == slot.regen[2] - 1
           missing == IF slot.augment[2] < 0 THEN -slot.augment[2] ELSE 0
           heal    == Smaller(value, missing)
           due     == left <= 0 /\ heal > 0
           a       == <<0, heal>>
           healed  == IF due THEN AugmentCreature(h, p, l, a) ELSE h
           healedM == IF due THEN AugmentCreature(Mirrored(h), Other(p), l, a) ELSE Mirrored(h)
           regen   == <<value, IF left <= 0 THEN 2 ELSE left>>
           none    == slot.card = NoCard \/ value = 0
           next    == [healed.board[p][l] EXCEPT !.regen = regen]
           nextM   == [healedM.board[Other(p)][l] EXCEPT !.regen = regen]
<1>1. Mirrored(h).board[Other(p)] = h.board[p]
  BY MirrorSide
<1>2. TickRegen(h, p, l) = IF none THEN h ELSE PutSlot(healed, p, l, next)
  BY DEF TickRegen, PutSlot
<1>3. TickRegen(Mirrored(h), Other(p), l)
        = IF none THEN Mirrored(h) ELSE PutSlot(healedM, Other(p), l, nextM)
  BY <1>1 DEF TickRegen, PutSlot
<1>4. heal \in Int
  <2>1. slot \in GoodSlot
    BY RowFields
  <2>2. value \in Int /\ slot.augment[2] \in Int
    BY <2>1 DEF GoodSlot, Slot
  <2> HIDE DEF slot, value
  <2> QED
    BY <2>2 DEF Smaller
<1>5. a \in Int \X Int
  BY <1>4
<1>6. healed = (IF due THEN AugmentCreature(h, p, l, a) ELSE h)
      /\ healedM = (IF due THEN AugmentCreature(Mirrored(h), Other(p), l, a) ELSE Mirrored(h))
  OBVIOUS
<1> HIDE DEF a, due, regen, none, healed, healedM
<1>7. Good(healed) /\ Mirrored(healed) = healedM
  <2>1. Across(p) = Other(p)
    BY AcrossIs
  <2>2. Good(AugmentCreature(h, p, l, a))
    BY <1>5, AugmentCreatureGood
  <2>3. Mirrored(AugmentCreature(h, p, l, a)) = AugmentCreature(Mirrored(h), Other(p), l, a)
    BY <2>1, MirrorAugmentCreature
  <2> QED
    BY <1>6, <2>2, <2>3
<1>8. nextM = next
  BY <1>7, MirrorSide
<1> HIDE DEF next, nextM
<1> QED
  BY <1>2, <1>3, <1>7, <1>8, MirrorPutSlot

-----------------------------------------------------------------------------
(* What one stage of a combat does for one creature changes the other      *)
(* side's row and pile and its own player's health: the two creatures'     *)
(* parts may be taken in either order.                                     *)

Part(h, q, row, n) == [WithRow(h, q, row) EXCEPT !.health = Sets(h.health, Other(q), n)]

Piled(pile, old, row) ==
  [c \in Cards |-> pile[c] + Cardinality({l \in Lanes : old[l].card = c /\ row[l].card # c})]

\* Two matches that differ at most in health, boards and discard piles.
Alike(h, j) == /\ j \in GoodGame
               /\ j.running = h.running /\ j.loser = h.loser
               /\ j.mana = h.mana /\ j.fatigue = h.fatigue
               /\ j.deck = h.deck /\ j.hand = h.hand

LEMMA PiledType ==
  ASSUME NEW pile \in [Cards -> Nat], NEW old, NEW row
  PROVE  Piled(pile, old, row) \in [Cards -> Nat]
<1>1. ASSUME NEW c \in Cards
      PROVE  Cardinality({l \in Lanes : old[l].card = c /\ row[l].card # c}) \in Nat
  BY LanesFinite
<1> QED
  BY <1>1 DEF Piled

LEMMA PartFields ==
  ASSUME NEW h \in GoodGame, NEW q \in Players, NEW row \in Rows, NEW n \in Int
  PROVE  /\ Alike(h, Part(h, q, row, n))
         /\ Part(h, q, row, n).health = Sets(h.health, Other(q), n)
         /\ Part(h, q, row, n).board = Sets(h.board, q, row)
         /\ Part(h, q, row, n).discard
              = Sets(h.discard, q, Piled(h.discard[q], h.board[q], row))
<1> DEFINE x == Sets(h.board, q, row)
           y == Sets(h.discard, q, Piled(h.discard[q], h.board[q], row))
           z == Sets(h.health, Other(q), n)
           mid == [h EXCEPT !.board = x, !.discard = y]
           j == [mid EXCEPT !.health = z]
<1>1. x \in [Players -> Rows]
  BY DEF Sets, GoodGame
<1>2. y \in [Players -> [Cards -> Nat]]
  BY PiledType DEF Sets, GoodGame
<1>3. z \in [Players -> Int]
  BY DEF Sets, GoodGame
<1>4. Part(h, q, row, n) = j
  BY DEF Part, WithRow, Sets, Piled
<1> HIDE DEF x, y, z
<1>5. mid \in GoodGame /\ mid.board = x /\ mid.discard = y
      /\ mid.running = h.running /\ mid.loser = h.loser /\ mid.mana = h.mana
      /\ mid.fatigue = h.fatigue /\ mid.deck = h.deck /\ mid.hand = h.hand
  BY <1>1, <1>2 DEF GoodGame
<1> HIDE DEF mid
<1>6. j \in GoodGame /\ j.board = x /\ j.discard = y /\ j.health = z
      /\ j.running = h.running /\ j.loser = h.loser /\ j.mana = h.mana
      /\ j.fatigue = h.fatigue /\ j.deck = h.deck /\ j.hand = h.hand
  BY <1>3, <1>5 DEF GoodGame
<1> HIDE DEF j
<1> QED
  BY <1>4, <1>6 DEF Alike, x, y, z

LEMMA SetsCommute ==
  ASSUME NEW f, NEW q \in Players, NEW v, NEW w
  PROVE  Sets(Sets(f, q, v), Other(q), w) = Sets(Sets(f, Other(q), w), q, v)
BY OtherPlayer DEF Sets

LEMMA PartsCommute ==
  ASSUME NEW h \in GoodGame, NEW q \in Players, NEW row \in Rows, NEW n \in Int,
         NEW row2 \in Rows, NEW n2 \in Int
  PROVE  Part(Part(h, q, row, n), Other(q), row2, n2)
           = Part(Part(h, Other(q), row2, n2), q, row, n)
<1> DEFINE r == Other(q)
           j == Part(h, q, row, n)
           i == Part(h, r, row2, n2)
           jj == Part(j, r, row2, n2)
           ii == Part(i, q, row, n)
           pq == Piled(h.discard[q], h.board[q], row)
           pr == Piled(h.discard[r], h.board[r], row2)
<1>1. r \in Players /\ Other(r) = q
  BY OtherPlayer
<1>2. /\ h.board \in [Players -> Rows] /\ h.discard \in [Players -> [Cards -> Nat]]
      /\ h.health \in [Players -> Int]
      /\ pq \in [Cards -> Nat] /\ pr \in [Cards -> Nat]
  BY <1>1, PiledType DEF GoodGame
<1> HIDE DEF r
<1>3. /\ Alike(h, j) /\ j.health = Sets(h.health, r, n) /\ j.board = Sets(h.board, q, row)
      /\ j.discard = Sets(h.discard, q, pq)
  BY <1>1, PartFields DEF r
<1>4. /\ Alike(h, i) /\ i.health = Sets(h.health, q, n2) /\ i.board = Sets(h.board, r, row2)
      /\ i.discard = Sets(h.discard, r, pr)
  BY <1>1, PartFields
<1> HIDE DEF j, i, pq, pr
<1>5. /\ j.board[r] = h.board[r] /\ j.discard[r] = h.discard[r]
      /\ i.board[q] = h.board[q] /\ i.discard[q] = h.discard[q]
  BY <1>1, <1>2, <1>3, <1>4 DEF Sets, r, Other, Players
<1>6. /\ Alike(j, jj) /\ jj.health = Sets(j.health, q, n2) /\ jj.board = Sets(j.board, r, row2)
      /\ jj.discard = Sets(j.discard, r, pr)
  BY <1>1, <1>3, <1>5, PartFields DEF Alike, pr
<1>7. /\ Alike(i, ii) /\ ii.health = Sets(i.health, r, n) /\ ii.board = Sets(i.board, q, row)
      /\ ii.discard = Sets(i.discard, q, pq)
  BY <1>1, <1>4, <1>5, PartFields DEF Alike, pq, r
<1> HIDE DEF jj, ii
<1>8. jj.health = ii.health
  <2>1. Sets(Sets(h.health, r, n), q, n2) = Sets(Sets(h.health, q, n2), r, n)
    BY <1>1, <1>2, SetsCommute
  <2> QED
    BY <1>3, <1>4, <1>6, <1>7, <2>1
<1>9. jj.board = ii.board
  <2>1. Sets(Sets(h.board, q, row), r, row2) = Sets(Sets(h.board, r, row2), q, row)
    BY <1>2, SetsCommute DEF r
  <2> QED
    BY <1>3, <1>4, <1>6, <1>7, <2>1
<1>10. jj.discard = ii.discard
  <2>1. Sets(Sets(h.discard, q, pq), r, pr) = Sets(Sets(h.discard, r, pr), q, pq)
    BY <1>2, SetsCommute DEF r
  <2> QED
    BY <1>3, <1>4, <1>6, <1>7, <2>1
<1>11. jj = ii
  BY <1>3, <1>4, <1>6, <1>7, <1>8, <1>9, <1>10, SameGame DEF Alike
<1> QED
  BY <1>11 DEF jj, ii, j, i, r

\* A match that runs, after a part of a combat that ends nothing.
Apart(h, j, q, row, n) ==
  /\ j = Part(h, q, row, n)
  /\ row \in Rows /\ n \in Int

\* Such a part leaves side q's player and the other side's row as they were.
LEMMA PartSides ==
  ASSUME NEW h, Good(h), NEW q \in Players, NEW row, NEW n, NEW j, Good(j),
         Apart(h, j, q, row, n)
  PROVE  /\ j.running = h.running
         /\ j.board[q] = row /\ j.board[Other(q)] = h.board[Other(q)]
         /\ j.health[q] = h.health[q] /\ j.health[Other(q)] = n
<1>1. /\ h \in GoodGame /\ row \in Rows /\ n \in Int
      /\ h.board \in [Players -> Rows] /\ h.health \in [Players -> Int]
  BY Fields DEF Apart
<1>2. Alike(h, j) /\ j.health = Sets(h.health, Other(q), n) /\ j.board = Sets(h.board, q, row)
  BY <1>1, PartFields DEF Apart
<1> QED
  BY <1>1, <1>2, OtherPlayer DEF Sets, Alike

\* A side that keeps its row, and a player who keeps the health.
LEMMA PartNothing ==
  ASSUME NEW h, Good(h), NEW q \in Players
  PROVE  /\ WithRow(h, q, h.board[q]) = h
         /\ Apart(h, h, q, h.board[q], h.health[Other(q)])
<1> DEFINE r == Other(q)
           j == Part(h, q, h.board[q], h.health[r])
           w == WithRow(h, q, h.board[q])
<1>1. /\ h \in GoodGame /\ r \in Players /\ h.health[r] \in Int /\ h.board[q] \in Rows
      /\ h.health \in [Players -> Int] /\ h.board \in [Players -> Rows]
      /\ h.discard \in [Players -> [Cards -> Nat]] /\ h.discard[q] \in [Cards -> Nat]
  BY Fields, OtherPlayer
<1>2. Piled(h.discard[q], h.board[q], h.board[q]) = h.discard[q]
  <2>1. ASSUME NEW c \in Cards
        PROVE  Cardinality({l \in Lanes : h.board[q][l].card = c /\ h.board[q][l].card # c}) = 0
    <3>1. {l \in Lanes : h.board[q][l].card = c /\ h.board[q][l].card # c} = {}
      OBVIOUS
    <3> QED
      BY <3>1, FS_EmptySet
  <2>2. \A c \in Cards : h.discard[q][c] + 0 = h.discard[q][c]
    BY <1>1
  <2>3. Piled(h.discard[q], h.board[q], h.board[q]) = [c \in Cards |-> h.discard[q][c]]
    BY <2>1, <2>2 DEF Piled
  <2> QED
    BY <1>1, <2>3
<1>3. Sets(h.health, r, h.health[r]) = h.health /\ Sets(h.board, q, h.board[q]) = h.board
      /\ Sets(h.discard, q, h.discard[q]) = h.discard
  BY <1>1 DEF Sets
<1>4. w = h
  <2>1. w = [h EXCEPT !.board = Sets(h.board, q, h.board[q]),
                      !.discard = Sets(h.discard, q, Piled(h.discard[q], h.board[q], h.board[q]))]
    BY DEF WithRow, Sets, Piled
  <2>2. [h EXCEPT !.board = h.board, !.discard = h.discard] = h
    BY <1>1 DEF GoodGame
  <2> QED
    BY <1>2, <1>3, <2>1, <2>2
<1> HIDE DEF w
<1>5. j = h
  <2>1. j = [w EXCEPT !.health = Sets(h.health, r, h.health[r])]
    BY DEF Part, w
  <2>2. [h EXCEPT !.health = h.health] = h
    BY <1>1 DEF GoodGame
  <2> QED
    BY <1>3, <1>4, <2>1, <2>2
<1> QED
  BY <1>1, <1>4, <1>5 DEF Apart, w

\* A row of which one creature is struck.
HitRow(row, l, n) == [row EXCEPT ![l] = Struck(row[l], n)]

LEMMA HitRowType ==
  ASSUME NEW row \in Rows, NEW l \in Lanes, NEW n \in Int
  PROVE  HitRow(row, l, n) \in Rows
<1>1. row[l] \in GoodSlot /\ <<0, -n>> \in Int \X Int
  BY DEF Rows
<1>2. Struck(row[l], n) \in GoodSlot
  BY <1>1, AugmentedGood DEF Struck
<1> QED
  BY <1>2 DEF HitRow, Rows

Gain(keys, n) == IF "Lifesteal" \in keys THEN n ELSE 0

\* A creature's blow, in a match that runs: it strikes the row across and may heal
\* its own player; nobody dies of it.
LEMMA StrikeApart ==
  ASSUME NEW h, Good(h), h.running, NEW k, NEW l \in Lanes, NEW p \in Players, NEW n \in Nat
  PROVE  Apart(h, Strike(h, k, l, p, n), Other(p), HitRow(h.board[Other(p)], l, n),
               h.health[p] + Gain(k[p], n))
<1> DEFINE q == Other(p)
           row == HitRow(h.board[q], l, n)
           hit == AugmentCreature(h, q, l, <<0, -n>>)
           w == WithRow(h, q, row)
<1>1. /\ q \in Players /\ Other(q) = p /\ h.board[q] \in Rows /\ row \in Rows
      /\ h.health[p] \in Int /\ h \in GoodGame /\ h.health \in [Players -> Int]
  BY OtherPlayer, Fields, HitRowType
<1>2. h.health[p] > 0
  BY <1>1 DEF Good, Decided, Players, NoOne
<1>3. CASE n = 0
  <2>1. row = h.board[q]
    BY <1>1, <1>3 DEF HitRow, Struck, Rows
  <2>2. h.health[p] + Gain(k[p], n) = h.health[p]
    BY <1>1, <1>3 DEF Gain
  <2>3. Strike(h, k, l, p, n) = h
    BY <1>3 DEF Strike
  <2> HIDE DEF row, q
  <2> QED
    BY <1>1, <2>1, <2>2, <2>3, PartNothing DEF row, q
<1>4. CASE n # 0
  <2>1. hit = w
    <3>1. CASE Occupied(h, q, l)
      <4>1. row = [h.board[q] EXCEPT ![l] = Augmented(h.board[q][l], <<0, -n>>)]
        BY <1>4, <3>1 DEF HitRow, Struck, Occupied
      <4> QED
        BY <1>1, <3>1, <4>1 DEF AugmentCreature, AtLane
    <3>2. CASE ~Occupied(h, q, l)
      <4>1. row = h.board[q]
        BY <1>1, <3>2 DEF HitRow, Struck, Rows, Occupied
      <4>2. hit = h
        BY <3>2 DEF AugmentCreature, AtLane
      <4> HIDE DEF row, q, hit
      <4> QED
        BY <1>1, <4>1, <4>2, PartNothing
    <3> QED
      BY <3>1, <3>2
  <2>2. Strike(h, k, l, p, n) = Heal(hit, k, p, n)
    BY <1>4 DEF Strike
  <2> HIDE DEF hit, row, q
  <2>3. /\ Good(w) /\ w \in GoodGame
    BY <1>1, WithRowGood DEF Good
  <2>4. w.running /\ w.health = h.health
    BY <1>1, WithRowFields
  <2>5. Heal(w, k, p, n) = [w EXCEPT !.health = Sets(h.health, p, h.health[p] + Gain(k[p], n))]
    <3>1. CASE "Lifesteal" \in k[p]
      <4>1. h.health[p] + n > 0
        BY <1>1, <1>2
      <4>2. Heal(w, k, p, n) = Changed(w, p, n)
        BY <1>1, <2>4, <3>1, <4>1 DEF Heal, AugmentHP
      <4> HIDE DEF w
      <4>3. Changed(w, p, n) = [w EXCEPT !.health = Sets(w.health, p, w.health[p] + n)]
        BY DEF Changed, Sets
      <4> QED
        BY <2>4, <3>1, <4>2, <4>3 DEF Gain
    <3>2. CASE "Lifesteal" \notin k[p]
      <4>1. Sets(h.health, p, h.health[p] + Gain(k[p], n)) = h.health
        BY <1>1, <3>2 DEF Gain, Sets
      <4> HIDE DEF w
      <4>2. [w EXCEPT !.health = h.health] = w
        BY <2>3, <2>4 DEF GoodGame
      <4> QED
        BY <3>2, <4>1, <4>2 DEF Heal
    <3> QED
      BY <3>1, <3>2
  <2>6. h.health[p] + Gain(k[p], n) \in Int
    BY <1>1 DEF Gain
  <2> QED
    BY <1>1, <2>1, <2>2, <2>5, <2>6 DEF Apart, Part, w, row, q
<1> QED
  BY <1>3, <1>4

LEMMA TouchApart ==
  ASSUME NEW h, Good(h), h.running, NEW l \in Lanes, NEW p \in Players, NEW kills \in BOOLEAN
  PROVE  Apart(h, Touch(h, l, p, kills), Other(p),
               IF kills /\ Occupied(h, Other(p), l)
               THEN [h.board[Other(p)] EXCEPT ![l] = EmptySlot] ELSE h.board[Other(p)],
               h.health[p])
<1> DEFINE q == Other(p)
           row == [h.board[q] EXCEPT ![l] = EmptySlot]
           w == WithRow(h, q, row)
<1>1. /\ q \in Players /\ Other(q) = p /\ h.board[q] \in Rows /\ row \in Rows
      /\ h.health[p] \in Int /\ h.health \in [Players -> Int]
  BY OtherPlayer, Fields, EmptyIsGood DEF Rows
<1>2. CASE kills /\ Occupied(h, q, l)
  <2>1. Touch(h, l, p, kills) = w
    BY <1>1, <1>2 DEF Touch, DestroyCreature, AtLane, Destroyed
  <2> HIDE DEF row, q
  <2>2. w \in GoodGame /\ w.health = h.health
    BY <1>1, WithRowGood, WithRowFields DEF Good
  <2>3. Sets(h.health, p, h.health[p]) = h.health
    BY <1>1 DEF Sets
  <2> HIDE DEF w
  <2>4. [w EXCEPT !.health = h.health] = w
    BY <2>2 DEF GoodGame
  <2>5. Part(h, q, row, h.health[p]) = w
    BY <1>1, <2>3, <2>4 DEF Part, w
  <2>6. Apart(h, w, q, row, h.health[p])
    BY <1>1, <2>5 DEF Apart
  <2> QED
    BY <1>2, <2>1, <2>6 DEF row, q
<1>3. CASE ~(kills /\ Occupied(h, q, l))
  <2>1. Touch(h, l, p, kills) = h
    BY <1>3 DEF Touch, DestroyCreature, AtLane
  <2>2. Apart(h, h, q, h.board[q], h.health[p])
    BY <1>1, PartNothing
  <2> QED
    BY <1>3, <2>1, <2>2
<1> QED
  BY <1>2, <1>3

\* A row is put in twice, the second time with the same creatures.
LEMMA WithRowAgain ==
  ASSUME NEW h, Good(h), NEW p \in Players, NEW l \in Lanes, NEW row \in Rows, NEW slot,
         slot.card = row[l].card
  PROVE  PutSlot(WithRow(h, p, row), p, l, slot) = WithRow(h, p, [row EXCEPT ![l] = slot])
<1> DEFINE row2 == [row EXCEPT ![l] = slot]
           x == Sets(h.board, p, row)
           x2 == Sets(h.board, p, row2)
           y == Sets(h.discard, p, Piled(h.discard[p], h.board[p], row))
           y2 == Sets(h.discard, p, Piled(h.discard[p], h.board[p], row2))
<1>1. h \in GoodGame /\ h.board \in [Players -> Rows]
  BY Fields
<1>2. \A m \in Lanes : row2[m].card = row[m].card
  BY DEF Rows
<1>3. y2 = y
  <2>1. ASSUME NEW c \in Cards
        PROVE  {m \in Lanes : h.board[p][m].card = c /\ row2[m].card # c}
                 = {m \in Lanes : h.board[p][m].card = c /\ row[m].card # c}
    BY <1>2
  <2> QED
    BY <2>1 DEF Piled
<1>4. WithRow(h, p, row) = [h EXCEPT !.board = x, !.discard = y]
      /\ WithRow(h, p, row2) = [h EXCEPT !.board = x2, !.discard = y2]
  BY DEF WithRow, Sets, Piled
<1>5. Sets(x, p, [x[p] EXCEPT ![l] = slot]) = x2
  BY <1>1 DEF Sets
<1>6. PutSlot([h EXCEPT !.board = x, !.discard = y], p, l, slot)
        = [[h EXCEPT !.board = x, !.discard = y]
             EXCEPT !.board = Sets(x, p, [x[p] EXCEPT ![l] = slot])]
  <2> DEFINE j == [h EXCEPT !.board = x, !.discard = y]
  <2> HIDE DEF x, y
  <2>1. j.board = x
    BY <1>1 DEF GoodGame
  <2> HIDE DEF j
  <2>2. PutSlot(j, p, l, slot)
          = [j EXCEPT !.board = Sets(j.board, p, [j.board[p] EXCEPT ![l] = slot])]
    BY DEF PutSlot, Sets
  <2> QED
    BY <2>1, <2>2 DEF j
<1> HIDE DEF x, x2, y, y2
<1>7. [[h EXCEPT !.board = x, !.discard = y] EXCEPT !.board = x2]
        = [h EXCEPT !.board = x2, !.discard = y]
  BY <1>1 DEF GoodGame
<1> QED
  BY <1>3, <1>4, <1>5, <1>6, <1>7

\* What tickRegen leaves of a lane's side.
TickedSlot(slot) ==
  LET value   == slot.regen[1]
      left    == slot.regen[2] - 1
      missing == IF slot.augment[2] < 0 THEN -slot.augment[2] ELSE 0
      heal    == Smaller(value, missing)
      healed  == IF left <= 0 /\ heal > 0 THEN Augmented(slot, <<0, heal>>) ELSE slot
  IN  IF slot.card = NoCard \/ value = 0 THEN slot
      ELSE [healed EXCEPT !.regen = <<value, IF left <= 0 THEN 2 ELSE left>>]

TickedRow(row, l) == [row EXCEPT ![l] = TickedSlot(row[l])]

LEMMA TickApart ==
  ASSUME NEW h, Good(h), h.running, NEW p \in Players, NEW l \in Lanes
  PROVE  Apart(h, TickRegen(h, p, l), p, TickedRow(h.board[p], l), h.health[Other(p)])
<1> DEFINE slot    == h.board[p][l]
           value   == slot.regen[1]
           left    == slot.regen[2] - 1
           missing == IF slot.augment[2] < 0 THEN -slot.augment[2] ELSE 0
           heal    == Smaller(value, missing)
           a       == <<0, heal>>
           due     == left <= 0 /\ heal > 0
           healed  == IF due THEN AugmentCreature(h, p, l, a) ELSE h
           mid     == IF due THEN Augmented(slot, a) ELSE slot
           regen   == <<value, IF left <= 0 THEN 2 ELSE left>>
           none    == slot.card = NoCard \/ value = 0
           next    == [mid EXCEPT !.regen = regen]
           row     == [h.board[p] EXCEPT ![l] = mid]
           row2    == [row EXCEPT ![l] = next]
<1>1. /\ TickRegen(h, p, l)
           = IF none THEN h
             ELSE PutSlot(healed, p, l, [healed.board[p][l] EXCEPT !.regen = regen])
      /\ TickedSlot(slot) = IF none THEN slot ELSE next
  BY DEF TickRegen, PutSlot, TickedSlot
<1>2. /\ h.board[p] \in Rows /\ slot \in GoodSlot /\ h.board \in [Players -> Rows]
      /\ h.health \in [Players -> Int] /\ h.health[Other(p)] \in Int
      /\ Other(p) \in Players /\ Other(Other(p)) = p
  BY Fields, RowFields, OtherPlayer
<1>3. CASE none
  <2>1. TickedRow(h.board[p], l) = h.board[p]
    BY <1>1, <1>2, <1>3 DEF TickedRow, Rows
  <2> QED
    BY <1>1, <1>3, <2>1, PartNothing
<1>4. CASE ~none
  <2>1. slot.card # NoCard /\ slot.regen \in Nat \X Nat
    BY <1>2, <1>4 DEF GoodSlot, Slot
  <2>2. value \in Nat /\ left \in Int /\ slot.augment[2] \in Int /\ slot.augment \in Int \X Int
    BY <1>2, <2>1 DEF GoodSlot, Slot
  <2>3. TickedRow(h.board[p], l) = row2
    <3>1. TickedRow(h.board[p], l) = [h.board[p] EXCEPT ![l] = next]
      BY <1>1, <1>4 DEF TickedRow
    <3> HIDE DEF mid, next
    <3> QED
      BY <1>2, <3>1 DEF Rows
  <2>4. heal \in Int /\ a \in Int \X Int
    <3> HIDE DEF value, slot
    <3>1. heal \in Int
      BY <2>2 DEF Smaller
    <3> HIDE DEF heal
    <3> QED
      BY <3>1
  <2>5. regen \in Nat \X Nat
    <3> HIDE DEF value, left
    <3> QED
      BY <2>2
  <2>6. /\ healed = (IF due THEN AugmentCreature(h, p, l, a) ELSE h)
        /\ mid = (IF due THEN Augmented(slot, a) ELSE slot)
        /\ TickRegen(h, p, l) = PutSlot(healed, p, l, [healed.board[p][l] EXCEPT !.regen = regen])
    BY <1>1, <1>4
  <2> HIDE DEF due, a, none, healed, mid, regen
  <2>7. mid \in GoodSlot
    BY <1>2, <2>1, <2>4, <2>6, AugmentedGood
  <2>8. row \in Rows /\ row[l] = mid
    BY <1>2, <2>7 DEF Rows
  <2>9. healed = WithRow(h, p, row)
    <3>1. CASE due
      <4>1. AtLane(h, p, l)
        BY <2>1 DEF AtLane, Occupied
      <4> QED
        BY <2>6, <3>1, <4>1 DEF AugmentCreature
    <3>2. CASE ~due
      <4>1. row = h.board[p]
        BY <1>2, <2>6, <3>2 DEF Rows
      <4> QED
        BY <2>6, <3>2, <4>1, PartNothing
    <3> QED
      BY <3>1, <3>2
  <2> HIDE DEF row
  <2>10. healed.board[p][l] = mid
    BY <2>8, <2>9, WithRowBoard
  <2>11. next.card = mid.card /\ next = [healed.board[p][l] EXCEPT !.regen = regen]
    BY <2>7, <2>10 DEF GoodSlot, Slot
  <2> HIDE DEF next
  <2>12. TickRegen(h, p, l) = WithRow(h, p, row2)
    <3>1. TickRegen(h, p, l) = PutSlot(WithRow(h, p, row), p, l, next)
      BY <2>6, <2>9, <2>11
    <3>2. next.card = row[l].card
      BY <2>8, <2>11
    <3> QED
      BY <2>8, <3>1, <3>2, WithRowAgain
  <2>13. row2 \in Rows
    <3>1. Good(TickRegen(h, p, l))
      BY TickRegenGood
    <3>2. TickRegen(h, p, l).board[p] = row2
      <4> HIDE DEF next, row2
      <4> QED
        BY <2>12, WithRowFields
    <3> QED
      BY <3>1, <3>2, Fields
  <2> DEFINE w == WithRow(h, p, row2)
  <2> HIDE DEF row2
  <2>14. w \in GoodGame /\ w.health = h.health
    BY <2>13, WithRowGood, WithRowFields DEF Good
  <2>15. Sets(h.health, Other(p), h.health[Other(p)]) = h.health
    BY <1>2 DEF Sets
  <2> HIDE DEF w
  <2>16. [w EXCEPT !.health = h.health] = w
    BY <2>14 DEF GoodGame
  <2>17. Part(h, p, row2, h.health[Other(p)]) = w
    BY <2>15, <2>16 DEF Part, w
  <2> QED
    BY <1>2, <2>3, <2>12, <2>13, <2>17 DEF Apart, w
<1> QED
  BY <1>3, <1>4

\* The three stages that two creatures take part in, each on its own, in either
\* order.
LEMMA StrikesCommute ==
  ASSUME NEW h, Good(h), h.running, NEW k, NEW l \in Lanes, NEW p \in Players,
         NEW n \in Nat, NEW m \in Nat
  PROVE  Strike(Strike(h, k, l, p, n), k, l, Other(p), m)
           = Strike(Strike(h, k, l, Other(p), m), k, l, p, n)
<1> DEFINE q == Other(p)
           j == Strike(h, k, l, p, n)
           i == Strike(h, k, l, q, m)
           jj == Strike(j, k, l, q, m)
           ii == Strike(i, k, l, p, n)
           rq == HitRow(h.board[q], l, n)
           rp == HitRow(h.board[p], l, m)
           xp == h.health[p] + Gain(k[p], n)
           xq == h.health[q] + Gain(k[q], m)
<1>1. q \in Players /\ Other(q) = p /\ n \in Int /\ m \in Int /\ h \in GoodGame
  BY OtherPlayer, Fields
<1>2. /\ Apart(h, j, q, rq, xp) /\ Good(j)
  BY <1>1, StrikeApart, StrikeGood
<1> HIDE DEF q
<1>3. /\ Apart(h, i, p, rp, xq) /\ Good(i)
  BY <1>1, StrikeApart, StrikeGood
<1> HIDE DEF j, i
<1>4. j.running /\ j.board[p] = h.board[p] /\ j.health[q] = h.health[q]
  BY <1>1, <1>2, PartSides
<1>5. i.running /\ i.board[q] = h.board[q] /\ i.health[p] = h.health[p]
  BY <1>1, <1>3, PartSides DEF q
<1>6. Apart(j, jj, p, HitRow(j.board[p], l, m), j.health[q] + Gain(k[q], m))
  BY <1>1, <1>2, <1>4, StrikeApart
<1>7. Apart(i, ii, q, HitRow(i.board[q], l, n), i.health[p] + Gain(k[p], n))
  BY <1>1, <1>3, <1>5, StrikeApart DEF q
<1> HIDE DEF jj, ii
<1>8. j = Part(h, q, rq, xp) /\ i = Part(h, p, rp, xq)
      /\ rq \in Rows /\ rp \in Rows /\ xp \in Int /\ xq \in Int
  BY <1>2, <1>3 DEF Apart
<1>9. jj = Part(j, p, rp, xq) /\ ii = Part(i, q, rq, xp)
  BY <1>4, <1>5, <1>6, <1>7 DEF Apart
<1> HIDE DEF rp, rq, xp, xq
<1>10. jj = ii
  BY <1>1, <1>8, <1>9, PartsCommute
<1> QED
  BY <1>10 DEF jj, ii, j, i, q

LEMMA TouchesCommute ==
  ASSUME NEW h, Good(h), h.running, NEW l \in Lanes, NEW p \in Players,
         NEW n \in BOOLEAN, NEW m \in BOOLEAN
  PROVE  Touch(Touch(h, l, p, n), l, Other(p), m) = Touch(Touch(h, l, Other(p), m), l, p, n)
<1> DEFINE q == Other(p)
           row(f, r, x) == IF x /\ Occupied(f, r, l) THEN [f.board[r] EXCEPT ![l] = EmptySlot]
                           ELSE f.board[r]
           j == Touch(h, l, p, n)
           i == Touch(h, l, q, m)
           jj == Touch(j, l, q, m)
           ii == Touch(i, l, p, n)
<1>1. q \in Players /\ Other(q) = p /\ h \in GoodGame
  BY OtherPlayer, Fields
<1>2. Apart(h, j, q, row(h, q, n), h.health[p]) /\ Good(j)
  BY <1>1, TouchApart, TouchGood
<1> HIDE DEF q
<1>3. Apart(h, i, p, row(h, p, m), h.health[q]) /\ Good(i)
  BY <1>1, TouchApart, TouchGood
<1> HIDE DEF j, i
<1>4. j.running /\ j.board[p] = h.board[p] /\ j.health[q] = h.health[q]
  BY <1>1, <1>2, PartSides
<1>5. i.running /\ i.board[q] = h.board[q] /\ i.health[p] = h.health[p]
  BY <1>1, <1>3, PartSides DEF q
<1>6. Apart(j, jj, p, row(j, p, m), j.health[q])
  BY <1>1, <1>2, <1>4, TouchApart
<1>7. Apart(i, ii, q, row(i, q, n), i.health[p])
  BY <1>1, <1>3, <1>5, TouchApart DEF q
<1>8. row(j, p, m) = row(h, p, m) /\ row(i, q, n) = row(h, q, n)
  BY <1>4, <1>5 DEF Occupied
<1> HIDE DEF jj, ii, row
<1>9. /\ j = Part(h, q, row(h, q, n), h.health[p]) /\ i = Part(h, p, row(h, p, m), h.health[q])
      /\ row(h, q, n) \in Rows /\ row(h, p, m) \in Rows
      /\ h.health[p] \in Int /\ h.health[q] \in Int
  BY <1>2, <1>3 DEF Apart
<1>10. jj = Part(j, p, row(h, p, m), h.health[q]) /\ ii = Part(i, q, row(h, q, n), h.health[p])
  BY <1>4, <1>5, <1>6, <1>7, <1>8 DEF Apart
<1>11. jj = ii
  BY <1>1, <1>9, <1>10, PartsCommute
<1> QED
  BY <1>11 DEF jj, ii, j, i, q

LEMMA TicksCommute ==
  ASSUME NEW h, Good(h), h.running, NEW p \in Players, NEW l \in Lanes
  PROVE  TickRegen(TickRegen(h, p, l), Other(p), l) = TickRegen(TickRegen(h, Other(p), l), p, l)
<1> DEFINE q == Other(p)
           j == TickRegen(h, p, l)
           i == TickRegen(h, q, l)
           jj == TickRegen(j, q, l)
           ii == TickRegen(i, p, l)
           rp == TickedRow(h.board[p], l)
           rq == TickedRow(h.board[q], l)
<1>1. q \in Players /\ Other(q) = p /\ h \in GoodGame
  BY OtherPlayer, Fields
<1>2. Apart(h, j, p, rp, h.health[q]) /\ Good(j)
  BY <1>1, TickApart, TickRegenGood
<1> HIDE DEF q
<1>3. Apart(h, i, q, rq, h.health[p]) /\ Good(i)
  BY <1>1, TickApart, TickRegenGood
<1> HIDE DEF j, i
<1>4. j.running /\ j.board[q] = h.board[q] /\ j.health[p] = h.health[p]
  BY <1>1, <1>2, PartSides DEF q
<1>5. i.running /\ i.board[p] = h.board[p] /\ i.health[q] = h.health[q]
  BY <1>1, <1>3, PartSides
<1>6. Apart(j, jj, q, TickedRow(j.board[q], l), j.health[p])
  BY <1>1, <1>2, <1>4, TickApart
<1>7. Apart(i, ii, p, TickedRow(i.board[p], l), i.health[q])
  BY <1>1, <1>3, <1>5, TickApart DEF q
<1> HIDE DEF jj, ii
<1>8. j = Part(h, p, rp, h.health[q]) /\ i = Part(h, q, rq, h.health[p])
      /\ rq \in Rows /\ rp \in Rows /\ h.health[p] \in Int /\ h.health[q] \in Int
  BY <1>2, <1>3 DEF Apart
<1>9. jj = Part(j, q, rq, h.health[p]) /\ ii = Part(i, p, rp, h.health[q])
  BY <1>4, <1>5, <1>6, <1>7 DEF Apart
<1> HIDE DEF rp, rq
<1>10. jj = ii
  BY <1>1, <1>8, <1>9, PartsCommute DEF q
<1> QED
  BY <1>10 DEF jj, ii, j, i, q

\* No card effect puts a creature on the board: a lane that is empty stays so.
Bare(h, q, l) == Good(h) /\ ~Occupied(h, q, l)

LEMMA KeepsBare ==
  ASSUME NEW h, NEW q \in Players, NEW l \in Lanes, Bare(h, q, l), NEW j, Good(j), Keeps(h, j)
  PROVE  Bare(j, q, l)
BY DEF Bare, Occupied, Keeps

LEMMA DrawBare ==
  ASSUME NEW h, NEW q \in Players, NEW l \in Lanes, Bare(h, q, l), NEW p \in Players
  PROVE  Bare(Draw(h, p), q, l)
<1>1. Good(h) /\ Good(Draw(h, p))
  BY DrawGood DEF Bare
<1>2. CASE h.deck[p] = <<>>
  <2>1. Keeps(h, Draw(h, p))
    BY <1>1, <1>2, HandleFatigueKeeps, SameCardsKeeps DEF Draw
  <2> QED
    BY <1>1, <2>1, KeepsBare
<1>3. CASE h.deck[p] # <<>>
  <2>1. Draw(h, p).board = h.board
    BY <1>1, <1>3 DEF Draw, Good, GoodGame
  <2> QED
    BY <1>1, <2>1 DEF Bare, Occupied
<1> QED
  BY <1>2, <1>3

LEMMA TriggerBare ==
  ASSUME NEW h, NEW q \in Players, NEW m \in Lanes, Bare(h, q, m),
         NEW caster \in Players, NEW card \in Cards, NEW l, NEW target, NEW trigger
  PROVE  Bare(TriggerCardEffects(h, caster, card, l, target, trigger), q, m)
<1> DEFINE entries == Catalog[card].effects
           Nth(j, n) == IF n \in DOMAIN entries
                        THEN ApplyEntry(j, entries[n], trigger, caster, l, target) ELSE j
<1>1. ASSUME NEW j, Bare(j, q, m), NEW n
      PROVE  Bare(Nth(j, n), q, m)
  <2>1. CASE n \in DOMAIN entries
    <3> DEFINE e == entries[n]
               to == EntryTarget(e, caster, target)
    <3>1. /\ e \in Entry
          /\ e.effect = 4 => e.augment[2] > 0
          /\ e.effect \in {6, 11} => e.amount > 0
          /\ e.effect = 8 => e.keyword # "Regen"
      BY <2>1, CardEntries
    <3> HIDE DEF e, to
    <3>2. Good(j)
      BY <1>1 DEF Bare
    <3>3. Bare(Effect(j, e, caster, l, to), q, m)
      <4>1. CASE e.effect = 12
        BY <1>1, <4>1, DrawBare DEF Effect, DrawCards
      <4>2. CASE e.effect # 12
        BY <1>1, <3>1, <3>2, <4>2, EffectGood, EffectKeeps, KeepsBare
      <4> QED
        BY <4>1, <4>2
    <3>4. Bare(ApplyEntry(j, e, trigger, caster, l, target), q, m)
      BY <1>1, <3>3 DEF ApplyEntry, to
    <3> QED
      BY <2>1, <3>4 DEF e
  <2>2. CASE n \notin DOMAIN entries
    BY <1>1, <2>2
  <2> QED
    BY <2>1, <2>2
<1>2. TriggerCardEffects(h, caster, card, l, target, trigger)
        = IF h.running THEN Nth(Nth(h, 1), 2) ELSE h
  BY DEF TriggerCardEffects
<1> HIDE DEF Nth
<1>3. Bare(Nth(Nth(h, 1), 2), q, m)
  BY <1>1
<1> QED
  BY <1>2, <1>3

\* At most one of two creatures has killed the other.
LEMMA KillsCommute ==
  ASSUME NEW h, Good(h), NEW l \in Lanes, NEW p \in Players, NEW n, NEW m
  PROVE  OnKill(OnKill(h, l, p, n), l, Other(p), m) = OnKill(OnKill(h, l, Other(p), m), l, p, n)
<1>1. ASSUME NEW r \in Players, Occupied(h, r, l), ~Occupied(h, Other(r), l), NEW x, NEW y
      PROVE  /\ OnKill(OnKill(h, l, r, x), l, Other(r), y) = OnKill(h, l, r, x)
             /\ OnKill(h, l, Other(r), y) = h
  <2>1. Other(r) \in Players
    BY OtherPlayer
  <2>2. h.board[r][l].card \in Cards
    BY <1>1, RowFields, SlotFields DEF Occupied
  <2>3. Bare(h, Other(r), l)
    BY <1>1 DEF Bare
  <2>4. Bare(OnKill(h, l, r, x), Other(r), l)
    BY <2>1, <2>2, <2>3, TriggerBare DEF OnKill
  <2> QED
    BY <2>3, <2>4 DEF Bare, OnKill
<1>2. Other(p) \in Players /\ Other(Other(p)) = p
  BY OtherPlayer
<1>3. CASE Occupied(h, p, l) /\ ~Occupied(h, Other(p), l)
  BY <1>1, <1>3
<1>4. CASE Occupied(h, Other(p), l) /\ ~Occupied(h, p, l)
  BY <1>1, <1>2, <1>4
<1>5. CASE ~(Occupied(h, p, l) /\ ~Occupied(h, Other(p), l))
           /\ ~(Occupied(h, Other(p), l) /\ ~Occupied(h, p, l))
  BY <1>2, <1>5 DEF OnKill
<1> QED
  BY <1>3, <1>4, <1>5

\* The overflows and the hits on a player change two healths, each by an amount
\* that does not depend on what it is, until one of them reaches 0.
Healths(h, p, n, m) ==
  [h EXCEPT !.health = [r \in Players |-> IF r = p THEN h.health[r] + n ELSE h.health[r] + m]]

LEMMA AugmentHPGoesOn ==
  ASSUME NEW h, Good(h), NEW p \in Players, NEW n \in Int, AugmentHP(h, p, n).running
  PROVE  h.running /\ AugmentHP(h, p, n) = Healths(h, p, n, 0)
<1>1. h \in GoodGame /\ h.health \in [Players -> Int] /\ h.health[p] \in Int
  BY Fields
<1>2. h.running
  BY DEF AugmentHP
<1>3. ~EndMatch(Changed(h, p, n), p).running
  BY <1>1 DEF EndMatch, Changed, GoodGame
<1>4. AugmentHP(h, p, n) = Changed(h, p, n)
  BY <1>1, <1>2, <1>3 DEF AugmentHP
<1>5. [h.health EXCEPT ![p] = h.health[p] + n]
        = [r \in Players |-> IF r = p THEN h.health[r] + n ELSE h.health[r] + 0]
  BY <1>1
<1> QED
  BY <1>2, <1>4, <1>5 DEF Changed, Healths

LEMMA HealthsFields ==
  ASSUME NEW h \in GoodGame, NEW p \in Players, NEW n \in Int, NEW m \in Int
  PROVE  /\ Healths(h, p, n, m) = Healths(h, Other(p), m, n)
         /\ \A n2 \in Int, m2 \in Int :
              Healths(Healths(h, p, n, m), p, n2, m2) = Healths(h, p, n + n2, m + m2)
<1>1. h.health \in [Players -> Int]
  BY DEF GoodGame
<1>2. Healths(h, p, n, m) = Healths(h, Other(p), m, n)
  <2>1. [r \in Players |-> IF r = p THEN h.health[r] + n ELSE h.health[r] + m]
          = [r \in Players |-> IF r = Other(p) THEN h.health[r] + m ELSE h.health[r] + n]
    BY <1>1 DEF Players, Other
  <2> QED
    BY <2>1 DEF Healths
<1>3. ASSUME NEW n2 \in Int, NEW m2 \in Int
      PROVE  Healths(Healths(h, p, n, m), p, n2, m2) = Healths(h, p, n + n2, m + m2)
  <2> DEFINE x == [r \in Players |-> IF r = p THEN h.health[r] + n ELSE h.health[r] + m]
             j == [h EXCEPT !.health = x]
             y == [r \in Players |-> IF r = p THEN x[r] + n2 ELSE x[r] + m2]
             z == [r \in Players |-> IF r = p THEN h.health[r] + (n + n2)
                                     ELSE h.health[r] + (m + m2)]
  <2>1. y = z
    BY <1>1
  <2>2. Healths(h, p, n + n2, m + m2) = [h EXCEPT !.health = z]
        /\ Healths(h, p, n, m) = j
    BY DEF Healths
  <2>3. j.health = x
    <3> HIDE DEF x
    <3> QED
      BY DEF GoodGame
  <2>4. Healths(j, p, n2, m2) = [j EXCEPT !.health = y]
    <3> HIDE DEF j, x
    <3> QED
      BY <2>3 DEF Healths
  <2> HIDE DEF x, y, z
  <2>5. [j EXCEPT !.health = z] = [h EXCEPT !.health = z]
    BY DEF GoodGame
  <2> QED
    BY <2>1, <2>2, <2>4, <2>5
<1> QED
  BY <1>2, <1>3

LEMMA DirectDamageGoesOn ==
  ASSUME NEW h, Good(h), NEW k, NEW p \in Players, NEW n \in Nat,
         DirectDamage(h, k, p, n).running
  PROVE  h.running /\ DirectDamage(h, k, p, n) = Healths(h, p, Gain(k[p], n), -n)
<1> DEFINE q == Other(p)
           hit == AugmentHP(h, q, -n)
<1>1. q \in Players /\ Other(q) = p /\ h \in GoodGame /\ h.health \in [Players -> Int] /\ -n \in Int
  BY OtherPlayer, Fields
<1>2. CASE n = 0
  <2>1. DirectDamage(h, k, p, n) = h
    BY <1>2 DEF DirectDamage
  <2>2. [r \in Players |-> IF r = p THEN h.health[r] + Gain(k[p], 0) ELSE h.health[r] + (-0)]
          = h.health
    BY <1>1 DEF Gain
  <2>3. [h EXCEPT !.health = h.health] = h
    BY <1>1 DEF GoodGame
  <2> QED
    BY <1>2, <2>1, <2>2, <2>3 DEF Healths
<1>3. CASE n > 0
  <2>1. h.running /\ DirectDamage(h, k, p, n) = Heal(hit, k, p, n)
    <3>1. h.running
      BY DEF DirectDamage
    <3> QED
      BY <1>3, <3>1 DEF DirectDamage
  <2>2. Good(hit)
    BY <1>1, AugmentHPGood
  <2> HIDE DEF hit
  <2>3. CASE "Lifesteal" \in k[p]
    <3>1. Heal(hit, k, p, n) = AugmentHP(hit, p, n)
      BY <2>3 DEF Heal
    <3>2. hit.running /\ AugmentHP(hit, p, n) = Healths(hit, p, n, 0)
      BY <2>1, <2>2, <3>1, AugmentHPGoesOn
    <3>3. hit = Healths(h, q, -n, 0)
      BY <1>1, <3>2, AugmentHPGoesOn DEF hit
    <3>4. hit = Healths(h, p, 0, -n)
      BY <1>1, <3>3, HealthsFields
    <3>5. Healths(hit, p, n, 0) = Healths(h, p, 0 + n, -n + 0)
      BY <1>1, <3>4, HealthsFields
    <3>6. 0 + n = n /\ -n + 0 = -n
      OBVIOUS
    <3> QED
      BY <2>1, <2>3, <3>1, <3>2, <3>5, <3>6 DEF Gain
  <2>4. CASE "Lifesteal" \notin k[p]
    <3>1. Heal(hit, k, p, n) = hit
      BY <2>4 DEF Heal
    <3>2. hit = Healths(h, q, -n, 0)
      BY <1>1, <2>1, <3>1, AugmentHPGoesOn DEF hit
    <3>3. hit = Healths(h, p, 0, -n)
      BY <1>1, <3>2, HealthsFields
    <3> QED
      BY <2>1, <2>4, <3>1, <3>3 DEF Gain
  <2> QED
    BY <2>3, <2>4
<1> QED
  BY <1>2, <1>3

LEMMA OverflowsCommute ==
  ASSUME NEW h, Good(h), NEW k, NEW p \in Players, NEW n \in Nat, NEW m \in Nat,
         DirectDamage(DirectDamage(h, k, p, n), k, Other(p), m).running,
         DirectDamage(DirectDamage(h, k, Other(p), m), k, p, n).running
  PROVE  DirectDamage(DirectDamage(h, k, p, n), k, Other(p), m)
           = DirectDamage(DirectDamage(h, k, Other(p), m), k, p, n)
<1> DEFINE q == Other(p)
           j == DirectDamage(h, k, p, n)
           i == DirectDamage(h, k, q, m)
           gp == Gain(k[p], n)
           gq == Gain(k[q], m)
<1>1. /\ q \in Players /\ Other(q) = p /\ h \in GoodGame /\ gp \in Int /\ gq \in Int
      /\ n \in Int /\ m \in Int /\ -n \in Int /\ -m \in Int
  BY OtherPlayer, Fields DEF Gain
<1> HIDE DEF q, gp, gq
<1>2. Good(j) /\ Good(i)
  BY <1>1, DirectDamageGood
<1> HIDE DEF j, i
<1>3. j.running /\ DirectDamage(j, k, q, m) = Healths(j, q, gq, -m)
  BY <1>1, <1>2, DirectDamageGoesOn DEF j, q, gq
<1>4. i.running /\ DirectDamage(i, k, p, n) = Healths(i, p, gp, -n)
  BY <1>1, <1>2, DirectDamageGoesOn DEF i, q, gp
<1>5. j = Healths(h, p, gp, -n)
  BY <1>3, DirectDamageGoesOn DEF j, gp
<1>6. i = Healths(h, q, gq, -m)
  BY <1>1, <1>4, DirectDamageGoesOn DEF i, gq
<1>7. j \in GoodGame
  BY <1>2 DEF Good
<1>8. Healths(j, q, gq, -m) = Healths(j, p, -m, gq)
  BY <1>1, <1>7, HealthsFields DEF q
<1>9. i = Healths(h, p, -m, gq)
  BY <1>1, <1>6, HealthsFields DEF q
<1>10. Healths(j, p, -m, gq) = Healths(h, p, gp + (-m), -n + gq)
  BY <1>1, <1>5, HealthsFields
<1>11. Healths(i, p, gp, -n) = Healths(h, p, -m + gp, gq + (-n))
  BY <1>1, <1>9, HealthsFields
<1>12. gp + (-m) = -m + gp /\ -n + gq = gq + (-n)
  BY <1>1
<1> QED
  BY <1>3, <1>4, <1>8, <1>10, <1>11, <1>12 DEF j, i, q

\* The stages of a combat, mirrored.  Both orders of a stage's two parts give the
\* same, so a stage that starts with player B's creature is the stage itself.
LEMMA BlowAmounts ==
  ASSUME NEW h, Good(h), NEW k, NEW l \in Lanes, NEW p \in Players
  PROVE  /\ Blow(h, k, l, p).damage \in Nat /\ Blow(h, k, l, p).overflow \in Nat
         /\ Blow(h, k, l, p).kills \in BOOLEAN
<1> DEFINE power == Power(h.board[p][l])
           across == Toughness(h.board[Other(p)][l])
           lethal == IF "Deathtouch" \in k[p] THEN 1 ELSE across
<1>1. power \in Int /\ across \in Int /\ lethal \in Int
  BY PowerType, OtherPlayer
<1>2. /\ Blow(h, k, l, p).damage
           = IF power <= 0 THEN 0 ELSE IF "Deathtouch" \in k[p] THEN 1 ELSE power
      /\ Blow(h, k, l, p).overflow
           = IF "Trample" \in k[p] /\ power > 0 /\ power > lethal THEN power - lethal ELSE 0
      /\ Blow(h, k, l, p).kills = (power > 0 /\ "Deathtouch" \in k[p])
  BY DEF Blow
<1> HIDE DEF power, lethal
<1> QED
  BY <1>1, <1>2

LEMMA Seats == /\ 0 \in Players /\ 1 \in Players /\ Other(0) = 1 /\ Other(1) = 0
               /\ Players = {0, 1}
BY DEF Players, Other

LEMMA MirrorTicks ==
  ASSUME NEW h, Good(h), h.running, NEW l \in Lanes
  PROVE  Mirrored(TickRegen(TickRegen(h, 0, l), 1, l))
           = TickRegen(TickRegen(Mirrored(h), 0, l), 1, l)
<1> DEFINE j == TickRegen(h, 1, l)
<1>1. Good(j) /\ Mirrored(j) = TickRegen(Mirrored(h), 0, l)
  BY Seats, TickRegenGood, MirrorTickRegen
<1>2. TickRegen(TickRegen(h, 0, l), 1, l) = TickRegen(j, 0, l)
  BY Seats, TicksCommute
<1> HIDE DEF j
<1>3. Mirrored(TickRegen(j, 0, l)) = TickRegen(Mirrored(j), 1, l)
  BY <1>1, Seats, MirrorTickRegen
<1> QED
  BY <1>1, <1>2, <1>3

LEMMA MirrorStrikes ==
  ASSUME NEW h, Good(h), h.running, NEW k, NEW l \in Lanes, NEW b,
         b[0].damage \in Nat, b[1].damage \in Nat
  PROVE  Mirrored(Strikes(h, k, l, b)) = Strikes(Mirrored(h), SwapSides(k), l, SwapSides(b))
<1> DEFINE n == b[0].damage
           m == b[1].damage
           j == Strike(h, k, l, 1, m)
<1>1. SwapSides(b)[0] = b[1] /\ SwapSides(b)[1] = b[0] /\ n \in Int /\ m \in Int
  BY Seats, SwapSide
<1>2. /\ Strikes(h, k, l, b) = Strike(Strike(h, k, l, 0, n), k, l, 1, m)
      /\ Strikes(Mirrored(h), SwapSides(k), l, SwapSides(b))
           = Strike(Strike(Mirrored(h), SwapSides(k), l, 0, m), SwapSides(k), l, 1, n)
  BY <1>1 DEF Strikes
<1> HIDE DEF n, m
<1>3. Strike(Strike(h, k, l, 0, n), k, l, 1, m) = Strike(j, k, l, 0, n)
  BY Seats, StrikesCommute DEF n, m
<1>4. Good(j) /\ Mirrored(j) = Strike(Mirrored(h), SwapSides(k), l, 0, m)
  BY <1>1, Seats, StrikeGood, MirrorStrike
<1> HIDE DEF j
<1>5. Mirrored(Strike(j, k, l, 0, n)) = Strike(Mirrored(j), SwapSides(k), l, 1, n)
  BY <1>1, <1>4, Seats, MirrorStrike
<1> QED
  BY <1>2, <1>3, <1>4, <1>5

LEMMA MirrorTouches ==
  ASSUME NEW h, Good(h), h.running, NEW l \in Lanes, NEW b,
         b[0].kills \in BOOLEAN, b[1].kills \in BOOLEAN
  PROVE  Mirrored(Touches(h, l, b)) = Touches(Mirrored(h), l, SwapSides(b))
<1> DEFINE n == b[0].kills
           m == b[1].kills
           j == Touch(h, l, 1, m)
<1>1. SwapSides(b)[0] = b[1] /\ SwapSides(b)[1] = b[0]
  BY Seats, SwapSide
<1>2. /\ Touches(h, l, b) = Touch(Touch(h, l, 0, n), l, 1, m)
      /\ Touches(Mirrored(h), l, SwapSides(b)) = Touch(Touch(Mirrored(h), l, 0, m), l, 1, n)
  BY <1>1 DEF Touches
<1> HIDE DEF n, m
<1>3. Touch(Touch(h, l, 0, n), l, 1, m) = Touch(j, l, 0, n)
  BY Seats, TouchesCommute DEF n, m
<1>4. Good(j) /\ Mirrored(j) = Touch(Mirrored(h), l, 0, m)
  BY Seats, TouchGood, MirrorTouch
<1> HIDE DEF j
<1>5. Mirrored(Touch(j, l, 0, n)) = Touch(Mirrored(j), l, 1, n)
  BY <1>4, Seats, MirrorTouch
<1> QED
  BY <1>2, <1>3, <1>4, <1>5

LEMMA MirrorKills ==
  ASSUME NEW h, Good(h), NEW l \in Lanes, NEW b
  PROVE  Mirrored(Kills(h, l, b)) = Kills(Mirrored(h), l, SwapSides(b))
<1> DEFINE n == b[0].fought
           m == b[1].fought
           j == OnKill(h, l, 1, m)
<1>1. SwapSides(b)[0] = b[1] /\ SwapSides(b)[1] = b[0]
  BY Seats, SwapSide
<1>2. /\ Kills(h, l, b) = OnKill(OnKill(h, l, 0, n), l, 1, m)
      /\ Kills(Mirrored(h), l, SwapSides(b)) = OnKill(OnKill(Mirrored(h), l, 0, m), l, 1, n)
  BY <1>1 DEF Kills
<1> HIDE DEF n, m
<1>3. OnKill(OnKill(h, l, 0, n), l, 1, m) = OnKill(j, l, 0, n)
  BY Seats, KillsCommute
<1>4. Good(j) /\ Mirrored(j) = OnKill(Mirrored(h), l, 0, m)
  BY Seats, OnKillGood, MirrorOnKill
<1> HIDE DEF j
<1>5. Mirrored(OnKill(j, l, 0, n)) = OnKill(Mirrored(j), l, 1, n)
  BY <1>4, Seats, MirrorOnKill
<1> QED
  BY <1>2, <1>3, <1>4, <1>5

\* i is j with the seats exchanged, if both matches go on.
Fair(j, i) == j.running /\ i.running => Mirrored(j) = i

LEMMA FairOverflows ==
  ASSUME NEW h, Good(h), NEW k, NEW b, b[0].overflow \in Nat, b[1].overflow \in Nat
  PROVE  Fair(Overflows(h, k, b), Overflows(Mirrored(h), SwapSides(k), SwapSides(b)))
<1> DEFINE n == b[0].overflow
           m == b[1].overflow
           j == DirectDamage(h, k, 1, m)
           there == DirectDamage(DirectDamage(h, k, 0, n), k, 1, m)
           back == DirectDamage(j, k, 0, n)
<1>1. SwapSides(b)[0] = b[1] /\ SwapSides(b)[1] = b[0] /\ n \in Int /\ m \in Int
  BY Seats, SwapSide
<1>2. /\ Overflows(h, k, b) = there
      /\ Overflows(Mirrored(h), SwapSides(k), SwapSides(b))
           = DirectDamage(DirectDamage(Mirrored(h), SwapSides(k), 0, m), SwapSides(k), 1, n)
  BY <1>1 DEF Overflows
<1> HIDE DEF n, m
<1>3. Good(j) /\ Mirrored(j) = DirectDamage(Mirrored(h), SwapSides(k), 0, m)
  BY <1>1, Seats, DirectDamageGood, MirrorDirectDamage
<1>4. there.running /\ back.running => there = back
  BY Seats, OverflowsCommute DEF n, m
<1> HIDE DEF j
<1>5. Good(back) /\ Mirrored(back) = DirectDamage(Mirrored(j), SwapSides(k), 1, n)
  BY <1>1, <1>3, Seats, DirectDamageGood, MirrorDirectDamage
<1> HIDE DEF back, there
<1>6. Mirrored(back).running = back.running
  BY <1>5, Seats, MirrorSide
<1> QED
  BY <1>2, <1>3, <1>4, <1>5, <1>6 DEF Fair

\* Strikes and touches end no match.
LEMMA StrikesGoOn ==
  ASSUME NEW h, Good(h), h.running, NEW k, NEW l \in Lanes, NEW b,
         b[0].damage \in Nat, b[1].damage \in Nat
  PROVE  Good(Strikes(h, k, l, b)) /\ Strikes(h, k, l, b).running
<1> DEFINE j == Strike(h, k, l, 0, b[0].damage)
           i == Strike(j, k, l, 1, b[1].damage)
<1>1. Good(j) /\ Apart(h, j, 1, HitRow(h.board[1], l, b[0].damage),
                       h.health[0] + Gain(k[0], b[0].damage))
  BY Seats, StrikeGood, StrikeApart
<1>2. j.running
  BY <1>1, Seats, PartSides
<1> HIDE DEF j
<1>3. Good(i) /\ Apart(j, i, 0, HitRow(j.board[0], l, b[1].damage),
                       j.health[1] + Gain(k[1], b[1].damage))
  BY <1>1, <1>2, Seats, StrikeGood, StrikeApart
<1>4. i.running
  BY <1>1, <1>2, <1>3, Seats, PartSides
<1> QED
  BY <1>3, <1>4 DEF Strikes, j

LEMMA FairExchange ==
  ASSUME NEW h, Good(h), h.running, NEW k, NEW l \in Lanes
  PROVE  Fair(Exchange(h, k, l), Exchange(Mirrored(h), SwapSides(k), l))
<1> DEFINE hm == Mirrored(h)
           km == SwapSides(k)
           b == [p \in Players |-> Blow(h, k, l, p)]
           bm == [p \in Players |-> Blow(hm, km, l, p)]
           h1 == Strikes(h, k, l, b)
           h2 == Touches(h1, l, b)
           h3 == Kills(h2, l, b)
           m1 == Strikes(hm, km, l, SwapSides(b))
           m2 == Touches(m1, l, SwapSides(b))
           m3 == Kills(m2, l, SwapSides(b))
<1>1. bm = SwapSides(b)
  <2>1. ASSUME NEW p \in Players
        PROVE  Blow(hm, km, l, p) = b[Other(p)]
    <3>1. Other(p) \in Players /\ Other(Other(p)) = p
      BY OtherPlayer
    <3>2. Blow(hm, km, l, Other(Other(p))) = Blow(h, k, l, Other(p))
      BY <3>1, MirrorBlow
    <3> QED
      BY <3>1, <3>2
  <2> QED
    BY <2>1 DEF SwapSides
<1>2. \A p \in Players : b[p].damage \in Nat /\ b[p].overflow \in Nat /\ b[p].kills \in BOOLEAN
  BY BlowAmounts
<1>3. Exchange(h, k, l) = Overflows(h3, k, b) /\ Exchange(hm, km, l) = Overflows(m3, km, bm)
  BY <1>1 DEF Exchange
<1> HIDE DEF b, bm
<1>4. Good(h1) /\ h1.running /\ Mirrored(h1) = m1
  BY <1>2, Seats, StrikesGoOn, MirrorStrikes
<1> HIDE DEF h1, m1
<1>5. Good(h2) /\ Mirrored(h2) = m2
  <2>1. Good(h2)
    BY <1>4, Seats, TouchGood DEF Touches
  <2>2. Mirrored(h2) = m2
    BY <1>2, <1>4, Seats, MirrorTouches
  <2> QED
    BY <2>1, <2>2
<1> HIDE DEF h2, m2
<1>6. Good(h3) /\ Mirrored(h3) = m3
  BY <1>5, Seats, OnKillGood, MirrorKills DEF Kills
<1> HIDE DEF h3, m3
<1>7. Fair(Overflows(h3, k, b), Overflows(m3, km, SwapSides(b)))
  BY <1>2, <1>6, Seats, FairOverflows
<1> QED
  BY <1>1, <1>3, <1>7

LEMMA FairCombatOnce ==
  ASSUME NEW h, Good(h), NEW k, NEW l \in Lanes
  PROVE  Fair(ResolveCombatOnce(h, k, l), ResolveCombatOnce(Mirrored(h), SwapSides(k), l))
<1> DEFINE hm == Mirrored(h)
           km == SwapSides(k)
           direct(f, p) == /\ Occupied(f, p, l) /\ ~Occupied(f, Other(p), l)
                           /\ Power(f.board[p][l]) > 0
           deal(p) == DirectDamage(h, k, p, Power(h.board[p][l]))
           dealM(p) == DirectDamage(hm, km, p, Power(hm.board[p][l]))
<1>1. ASSUME NEW p \in Players
      PROVE  /\ hm.board[Other(p)] = h.board[p]
             /\ Occupied(hm, Other(p), l) <=> Occupied(h, p, l)
             /\ Mirrored(deal(p)) = dealM(Other(p))
  <2>1. hm.board[Other(p)] = h.board[p]
    BY MirrorSide
  <2>2. Power(h.board[p][l]) \in Int
    BY PowerType
  <2>3. Mirrored(deal(p)) = DirectDamage(hm, km, Other(p), Power(h.board[p][l]))
    BY <2>2, MirrorDirectDamage
  <2> QED
    BY <2>1, <2>3 DEF Occupied
<1>2. hm.running = h.running
  BY Seats, MirrorSide
<1>3. ASSUME NEW p \in Players
      PROVE  direct(hm, Other(p)) <=> direct(h, p)
  BY <1>1, OtherPlayer
<1>4. CASE ~h.running \/ (\A p \in Players : ~Occupied(h, p, l))
  <2>1. ~hm.running \/ (\A p \in Players : ~Occupied(hm, p, l))
    BY <1>1, <1>2, <1>4, Seats
  <2>2. ResolveCombatOnce(h, k, l) = h
    BY <1>4, Seats DEF ResolveCombatOnce
  <2>3. ResolveCombatOnce(hm, km, l) = hm
    BY <2>1, Seats DEF ResolveCombatOnce
  <2> QED
    BY <2>2, <2>3 DEF Fair
<1>5. CASE ~(~h.running \/ (\A p \in Players : ~Occupied(h, p, l)))
  <2>0. ~(~hm.running \/ (\A p \in Players : ~Occupied(hm, p, l)))
    BY <1>1, <1>2, <1>5, Seats
  <2>1. ~(direct(h, 0) /\ direct(h, 1)) /\ ~(direct(hm, 0) /\ direct(hm, 1))
    BY Seats
  <2>2. /\ direct(h, 0) => ResolveCombatOnce(h, k, l) = deal(0)
        /\ ~direct(h, 0) /\ direct(h, 1) => ResolveCombatOnce(h, k, l) = deal(1)
        /\ ~direct(h, 0) /\ ~direct(h, 1) => ResolveCombatOnce(h, k, l) = Exchange(h, k, l)
    <3>1. direct(h, 0) => ResolveCombatOnce(h, k, l) = deal(0)
      BY <1>5, Seats DEF ResolveCombatOnce
    <3>2. ~direct(h, 0) /\ direct(h, 1) => ResolveCombatOnce(h, k, l) = deal(1)
      BY <1>5, Seats DEF ResolveCombatOnce
    <3>3. ~direct(h, 0) /\ ~direct(h, 1) => ResolveCombatOnce(h, k, l) = Exchange(h, k, l)
      BY <1>5, Seats DEF ResolveCombatOnce
    <3> QED
      BY <3>1, <3>2, <3>3
  <2>3. /\ direct(hm, 0) => ResolveCombatOnce(hm, km, l) = dealM(0)
        /\ ~direct(hm, 0) /\ direct(hm, 1) => ResolveCombatOnce(hm, km, l) = dealM(1)
        /\ ~direct(hm, 0) /\ ~direct(hm, 1) => ResolveCombatOnce(hm, km, l) = Exchange(hm, km, l)
    <3> HIDE DEF hm, km
    <3>1. direct(hm, 0) => ResolveCombatOnce(hm, km, l) = dealM(0)
      BY <2>0, Seats DEF ResolveCombatOnce
    <3>2. ~direct(hm, 0) /\ direct(hm, 1) => ResolveCombatOnce(hm, km, l) = dealM(1)
      BY <2>0, Seats DEF ResolveCombatOnce
    <3>3. ~direct(hm, 0) /\ ~direct(hm, 1)
            => ResolveCombatOnce(hm, km, l) = Exchange(hm, km, l)
      BY <2>0, Seats DEF ResolveCombatOnce
    <3> QED
      BY <3>1, <3>2, <3>3
  <2>4. (direct(hm, 1) <=> direct(h, 0)) /\ (direct(hm, 0) <=> direct(h, 1))
    BY <1>3, Seats
  <2>5. Mirrored(deal(0)) = dealM(1) /\ Mirrored(deal(1)) = dealM(0)
    BY <1>1, Seats
  <2>6. Fair(Exchange(h, k, l), Exchange(hm, km, l))
    BY <1>5, FairExchange
  <2> HIDE DEF direct, deal, dealM, hm, km
  <2> QED
    BY <2>1, <2>2, <2>3, <2>4, <2>5, <2>6 DEF Fair, hm, km
<1> QED
  BY <1>4, <1>5

LEMMA FairLaneCombat ==
  ASSUME NEW h, Good(h), NEW l \in Lanes
  PROVE  SameIfBothGoOn(ResolveLaneCombat(h, l), Mirrored(ResolveLaneCombat(Mirrored(h), l)))
<1> DEFINE hm == Mirrored(h)
           k == [p \in Players |-> h.board[p][l].effects]
           km == [p \in Players |-> hm.board[p][l].effects]
           ticked == TickRegen(TickRegen(h, 0, l), 1, l)
           tickedM == TickRegen(TickRegen(hm, 0, l), 1, l)
           twice == \E p \in Players : "Double Strike" \in k[p]
           once == ResolveCombatOnce(ticked, k, l)
           onceM == ResolveCombatOnce(tickedM, km, l)
           first == IF twice THEN once ELSE ticked
           firstM == IF twice THEN onceM ELSE tickedM
           last == ResolveCombatOnce(first, k, l)
           lastM == ResolveCombatOnce(firstM, km, l)
<1>1. Good(hm) /\ hm.running = h.running /\ Mirrored(hm) = h
  BY Seats, MirrorSide, MirroredGood
<1>2. \A p \in Players : hm.board[p] = h.board[Other(p)] /\ hm.board[Other(p)] = h.board[p]
  BY MirrorSide, OtherPlayer
<1>3. km = SwapSides(k)
  BY <1>2, OtherPlayer DEF SwapSides
<1>4. twice <=> \E p \in Players : "Double Strike" \in km[p]
  BY <1>2, OtherPlayer
<1>5. CASE ~h.running \/ (\A p \in Players : ~Occupied(h, p, l))
  <2>1. ~hm.running \/ (\A p \in Players : ~Occupied(hm, p, l))
    BY <1>1, <1>2, <1>5, OtherPlayer DEF Occupied
  <2>2. ResolveLaneCombat(h, l) = h /\ ResolveLaneCombat(hm, l) = hm
    BY <1>5, <2>1 DEF ResolveLaneCombat
  <2> QED
    BY <1>1, <2>2 DEF SameIfBothGoOn
<1>6. CASE ~(~h.running \/ (\A p \in Players : ~Occupied(h, p, l)))
  <2>1. ~(~hm.running \/ (\A p \in Players : ~Occupied(hm, p, l)))
    BY <1>1, <1>2, <1>6, OtherPlayer, Seats DEF Occupied
  <2>2. ResolveLaneCombat(h, l) = last
    BY <1>6 DEF ResolveLaneCombat
  <2>3. ResolveLaneCombat(hm, l) = lastM
    BY <1>4, <2>1 DEF ResolveLaneCombat
  <2>4. Mirrored(ticked) = tickedM
    BY <1>6, MirrorTicks
  <2>5. Good(ticked)
    BY Seats, TickRegenGood
  <2>6. Good(tickedM)
    BY <2>4, <2>5, MirroredGood
  <2> HIDE DEF hm, k, km, ticked, tickedM, twice
  <2>7. Fair(once, onceM) /\ Good(once) /\ Good(onceM)
    BY <1>3, <2>4, <2>5, <2>6, FairCombatOnce, ResolveCombatOnceGood
  <2>8. Fair(first, firstM) /\ Good(first) /\ Good(firstM)
    BY <2>4, <2>5, <2>6, <2>7 DEF Fair
  <2> HIDE DEF first, firstM, once, onceM
  <2>9. (~first.running => ~last.running) /\ (~firstM.running => ~lastM.running)
    BY DEF ResolveCombatOnce
  <2>10. Good(last) /\ Good(lastM)
    BY <2>8, ResolveCombatOnceGood
  <2>11. CASE first.running /\ firstM.running
    <3>1. Mirrored(first) = firstM
      BY <2>8, <2>11 DEF Fair
    <3>2. Fair(last, lastM)
      BY <1>3, <2>8, <3>1, FairCombatOnce
    <3> HIDE DEF last, lastM
    <3>3. Mirrored(lastM).running = lastM.running /\ Mirrored(Mirrored(last)) = last
      BY <2>10, Seats, MirrorSide, MirroredGood
    <3> QED
      BY <2>2, <2>3, <3>2, <3>3 DEF Fair, SameIfBothGoOn, hm
  <2>12. CASE ~(first.running /\ firstM.running)
    <3> HIDE DEF last, lastM
    <3>1. Mirrored(lastM).running = lastM.running
      BY <2>10, Seats, MirrorSide
    <3>2. ~last.running \/ ~Mirrored(lastM).running
      BY <2>9, <2>12, <3>1
    <3> QED
      BY <2>2, <2>3, <3>2 DEF SameIfBothGoOn, hm
  <2> QED
    BY <2>11, <2>12
<1> QED
  BY <1>5, <1>6

\* Whatever the creatures and their keywords, in whatever state of the match: the
\* code resolves player A's strike, touch, kill and overflow before player B's, and
\* only a health that reaches 0 on the way can tell (resolveLaneCombat).
THEOREM CombatFavoursNobody == Spec => CombatIsFair
<1>1. ASSUME IInv, phase = "attack" => g.running, [Next]_vars, Attacks, vars' # vars
      PROVE  SameIfBothGoOn(g', Mirrored(ResolveLaneCombat(Mirrored(g), lane)))
  <2>1. AttackLane
    BY <1>1, AttackStep
  <2> QED
    BY <1>1, <2>1, FairLaneCombat DEF AttackLane, IInv, Shape
<1>2. IInv /\ (phase = "attack" => g.running) /\ [Next]_vars
        => [Attacks => SameIfBothGoOn(g', Mirrored(ResolveLaneCombat(Mirrored(g), lane)))]_vars
  BY <1>1
<1> QED
  BY <1>2, MatchInductive, AttackRuns, PTL DEF Spec, CombatIsFair

=============================================================================
