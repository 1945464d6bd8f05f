----------------------------- MODULE GameRules -----------------------------
(***************************************************************************)
(* The rules of a match, as MatchSession.cpp and TriggerEffects.cpp run    *)
(* them: what every operation of the server does to the authoritative      *)
(* state.  Only the match's own game thread changes that state, so an      *)
(* operation is a function from one state g of the match to the next one;  *)
(* module MatchSession says when the game thread applies which.            *)
(*                                                                         *)
(* Messages to the clients are left out: each of them reports a change     *)
(* that is made here.  A hand and a discard pile are bags of cards (the    *)
(* server never reads their order); a deck is a sequence, drawn from its   *)
(* end.  An optional target that is absent and a target of -1 have the     *)
(* same effect everywhere in the code, and both are -1 here.               *)
(***************************************************************************)
EXTENDS Integers, Sequences, FiniteSets, Functions

CONSTANTS
  Catalog,      \* cardCatalog with each card's effects: [card id -> card]
  LaneCount,    \* board.laneCount, 5 in the code
  HandLimit     \* handLimit, 7 in the code

Players == {0, 1}
Other(p) == 1 - p
Lanes == 0 .. LaneCount - 1
Cards == DOMAIN Catalog
NoCard == 0
NoOne == -1
NoLane == -1

Keywords == {"Double Strike", "Trample", "Deathtouch", "Regen", "Lifesteal"}

\* One CardEffectEntry.  only: the target cards its condition admits.
Entry == [effect : 0 .. 12, amount : Int, augment : Int \X Int,
          keyword : Keywords, target : {"Self", "Opponent", "Nil"},
          trigger : {"OnCast", "OnKill"}, only : SUBSET Nat]

\* aim: what the client lets a player aim the card at (GetValidTargets.cpp).
Card == [type : {"Creature", "Spell"}, cost : Nat, value : Nat,
         power : Nat, toughness : Nat, keywords : SUBSET Keywords, regen : Nat,
         aim : {"none", "creature", "player", "all opponent", "all your"},
         effects : Seq(Entry)]

ASSUME RulesAssumption ==
  /\ Cards \subseteq Nat \ {NoCard}
  /\ IsFiniteSet(Cards)
  /\ Catalog \in [Cards -> Card]
  /\ \A c \in Cards : Catalog[c].type = "Creature" => Catalog[c].toughness > 0
  /\ \A c \in Cards : Catalog[c].regen > 0 => "Regen" \in Catalog[c].keywords
  /\ \A c \in Cards : Len(Catalog[c].effects) <= 2
  /\ \A c \in Cards : \A i \in DOMAIN Catalog[c].effects :
       LET e == Catalog[c].effects[i]
       IN  /\ e.effect = 4 => e.augment[2] > 0         \* no card sets a toughness,
           /\ e.effect \in {6, 11} => e.amount > 0     \* or a health, below 1
           /\ e.effect = 8 => e.keyword # "Regen"      \* or takes regen away
  /\ LaneCount \in Nat \ {0}
  /\ HandLimit \in Nat

-----------------------------------------------------------------------------
(* The state of a match: PlayerState of both players and the ServerBoard.  *)

\* One side of one lane: lanes, augments, continuousEffects and regen.
Slot == [card : Cards \cup {NoCard}, augment : Int \X Int,
         effects : SUBSET Keywords, regen : Nat \X Nat]

EmptySlot == [card |-> NoCard, augment |-> <<0, 0>>, effects |-> {}, regen |-> <<0, 0>>]

Game == [running : BOOLEAN, loser : Players \cup {NoOne},
         health : [Players -> Int], mana : [Players -> Int], fatigue : [Players -> Nat],
         deck : [Players -> Seq(Cards)], hand : [Players -> [Cards -> Nat]],
         discard : [Players -> [Cards -> Nat]], board : [Players -> [Lanes -> Slot]]]

HandSize(g, p) == FoldFunction(+, 0, g.hand[p])
Occupied(g, p, lane) == g.board[p][lane].card # NoCard
CreaturesOwned(g, p) == Cardinality({lane \in Lanes : Occupied(g, p, lane)})

Power(slot) == IF slot.card = NoCard THEN 0 ELSE Catalog[slot.card].power + slot.augment[1]
Toughness(slot) ==
  IF slot.card = NoCard THEN 0 ELSE Catalog[slot.card].toughness + slot.augment[2]

-----------------------------------------------------------------------------
(* Players: endMatch, augmentHP, setHP, augmentMana, draw.                 *)

\* running.exchange(false): only the first call has an effect.
EndMatch(g, loser) ==
  IF g.running THEN [g EXCEPT !.running = FALSE, !.loser = loser] ELSE g

Changed(g, p, amount) == [g EXCEPT !.health[p] = @ + amount]

\* Mutant: a player at exactly 0 plays on.
DiesBelowZero(g, p, amount) ==
  CASE ~g.running -> g
    [] g.running /\ g.health[p] + amount < 0 -> EndMatch(Changed(g, p, amount), p)
    [] g.running /\ g.health[p] + amount >= 0 -> Changed(g, p, amount)

AugmentHP(g, p, amount) ==
  CASE ~g.running -> g
    [] g.running /\ g.health[p] + amount <= 0 -> EndMatch(Changed(g, p, amount), p)
    [] g.running /\ g.health[p] + amount > 0 -> Changed(g, p, amount)

SetHP(g, p, amount) == IF g.running THEN [g EXCEPT !.health[p] = amount] ELSE g

AugmentMana(g, p, amount) == IF g.running THEN [g EXCEPT !.mana[p] = @ + amount] ELSE g

HandleFatigue(g, p) ==
  IF g.running
  THEN [AugmentHP(g, p, -g.fatigue[p]) EXCEPT !.fatigue[p] = g.fatigue[p] + 1]
  ELSE g

\* draw does not look at running, nor at the hand limit.
Draw(g, p) ==
  IF g.deck[p] = <<>> THEN HandleFatigue(g, p)
  ELSE LET size == Len(g.deck[p])
       IN  [g EXCEPT !.deck[p] = SubSeq(@, 1, size - 1),
                     !.hand[p][g.deck[p][size]] = @ + 1]

NaturalDraw(g, p) == IF HandSize(g, p) >= HandLimit THEN g ELSE Draw(g, p)

-----------------------------------------------------------------------------
(* Creatures: augmentCreature, setCreature, destroyCreature and the        *)
(* continuous effects.                                                     *)

AtLane(g, p, lane) == /\ g.running
                      /\ p \in Players
                      /\ lane \in Lanes
                      /\ Occupied(g, p, lane)

\* Player p's side of the board becomes row; a creature that goes, goes to the
\* discard pile.
WithRow(g, p, row) ==
  LET gone(c) == {lane \in Lanes : g.board[p][lane].card = c /\ row[lane].card # c}
  IN  [g EXCEPT !.board[p] = row,
                !.discard[p] = [c \in Cards |-> @[c] + Cardinality(gone(c))]]

\* Mutant: the lane keeps the creature's continuous effects.
KeepsEffects(slot) == [EmptySlot EXCEPT !.effects = slot.effects]

\* destroyCreature clears all four of a lane's arrays.
Destroyed(slot) == EmptySlot

DestroyCreature(g, p, lane) ==
  IF AtLane(g, p, lane)
  THEN WithRow(g, p, [g.board[p] EXCEPT ![lane] = Destroyed(@)])
  ELSE g

\* Mutant: a creature at exactly 0 stays.
StaysAtZero(slot, augment) ==
  LET next == [slot EXCEPT !.augment = <<@[1] + augment[1], @[2] + augment[2]>>]
  IN  IF Toughness(next) < 0 THEN Destroyed(slot) ELSE next

Augmented(slot, augment) ==
  LET next == [slot EXCEPT !.augment = <<@[1] + augment[1], @[2] + augment[2]>>]
  IN  IF Toughness(next) <= 0 THEN Destroyed(slot) ELSE next

AugmentCreature(g, p, lane, augment) ==
  IF AtLane(g, p, lane)
  THEN WithRow(g, p, [g.board[p] EXCEPT ![lane] = Augmented(@, augment)])
  ELSE g

\* Effect 2: augmentCreature on every lane of one side.
AugmentAll(g, p, augment) ==
  IF g.running /\ p \in Players
  THEN WithRow(g, p, [lane \in Lanes |-> IF Occupied(g, p, lane)
                                         THEN Augmented(g.board[p][lane], augment)
                                         ELSE g.board[p][lane]])
  ELSE g

Smaller(a, b) == IF a <= b THEN a ELSE b

\* setCreature never raises a toughness above the card's own, and destroys nothing.
SetCreature(g, p, lane, values) ==
  IF AtLane(g, p, lane)
  THEN LET card == Catalog[g.board[p][lane].card]
       IN  [g EXCEPT !.board[p][lane].augment =
              <<values[1] - card.power, Smaller(values[2], card.toughness) - card.toughness>>]
  ELSE g

AddCreatureEffect(g, p, lane, keyword) ==
  IF AtLane(g, p, lane)
  THEN [g EXCEPT !.board[p][lane].effects = @ \cup {keyword}]
  ELSE g

RemoveCreatureEffect(g, p, lane, keyword) ==
  IF AtLane(g, p, lane)
  THEN [g EXCEPT !.board[p][lane].effects = @ \ {keyword}]
  ELSE g

\* A regen of <<0, 0>> is none; <<v, n>> heals v after n more combats.
MoreRegen(regen, value) ==
  IF regen[1] > 0 THEN <<regen[1] + value, regen[2]>> ELSE <<value, 2>>

WithRegen(slot, value) ==
  [slot EXCEPT !.effects = @ \cup {"Regen"}, !.regen = MoreRegen(@, value)]

SetCreatureRegen(g, p, lane, value) ==
  IF AtLane(g, p, lane) /\ value > 0
  THEN [g EXCEPT !.board[p][lane] = WithRegen(@, value)]
  ELSE g

-----------------------------------------------------------------------------
(* Card effects: TriggerEffects::effects and triggerCardEffects.           *)

\* The player an effect is about: the target, or else the caster.
TargetOr(caster, target) == IF target \in Players THEN target ELSE caster

\* Effect 11: the caster's health becomes amount, and the opponent's changes by
\* what the caster's health changed by.
FinalGambit(g, p, amount) ==
  LET delta == g.health[p] - amount
      set   == SetHP(g, p, amount)
  IN  IF delta # 0 THEN AugmentHP(set, Other(p), -delta) ELSE set

\* Effect 12, for the amounts of the card table.
DrawCards(g, p, amount) == IF amount = 1 THEN Draw(g, p) ELSE Draw(Draw(g, p), p)

HealthPerCreature(g, p, amount) ==
  IF CreaturesOwned(g, p) = 0 THEN g
  ELSE AugmentHP(g, p, CreaturesOwned(g, p) * amount)

Effect(g, e, caster, lane, target) ==
  CASE e.effect = 0  -> AugmentCreature(g, target, lane, e.augment)
    [] e.effect = 1  -> DestroyCreature(g, target, lane)
    [] e.effect = 2  -> AugmentAll(g, target, e.augment)
    [] e.effect = 3  -> AugmentHP(g, TargetOr(caster, target), e.amount)
    [] e.effect = 4  -> SetCreature(g, target, lane, e.augment)
    [] e.effect = 5  -> AugmentMana(g, TargetOr(caster, target), e.amount)
    [] e.effect = 6  -> SetHP(g, caster, e.amount)
    [] e.effect = 7  -> AddCreatureEffect(g, target, lane, e.keyword)
    [] e.effect = 8  -> RemoveCreatureEffect(g, target, lane, e.keyword)
    [] e.effect = 9  -> SetCreatureRegen(g, target, lane, e.amount)
    [] e.effect = 10 -> HealthPerCreature(g, TargetOr(caster, target), e.amount)
    [] e.effect = 11 -> FinalGambit(g, TargetOr(caster, target), e.amount)
    [] e.effect = 12 -> DrawCards(g, caster, e.amount)

\* An entry aimed at a lane whose creature has gone is skipped, unless the
\* entry's own target redirects it; otherwise its condition must admit the card.
Applies(g, e, trigger, lane, target) ==
  /\ e.trigger = trigger
  /\ IF target \in Players /\ lane \in Lanes
     THEN IF Occupied(g, target, lane) THEN g.board[target][lane].card \in e.only
                                       ELSE e.target # "Nil"
     ELSE TRUE

EntryTarget(e, caster, target) ==
  CASE e.target = "Self"     -> caster
    [] e.target = "Opponent" -> Other(caster)
    [] e.target = "Nil"      -> target

ApplyEntry(g, e, trigger, caster, lane, target) ==
  IF Applies(g, e, trigger, lane, target)
  THEN Effect(g, e, caster, lane, EntryTarget(e, caster, target))
  ELSE g

\* No card has more than two entries (RulesAssumption).
TriggerCardEffects(g, caster, card, lane, target, trigger) ==
  LET entries == Catalog[card].effects
      Nth(h, n) == IF n \in DOMAIN entries
                   THEN ApplyEntry(h, entries[n], trigger, caster, lane, target) ELSE h
  IN  IF g.running THEN Nth(Nth(g, 1), 2) ELSE g

-----------------------------------------------------------------------------
(* Combat: resolveLaneCombat.                                              *)

\* What player p's creature does in one exchange of blows: both sides' powers are
\* read before any blow falls.
Blow(g, keywords, lane, p) ==
  LET power == Power(g.board[p][lane])
      lethal == IF "Deathtouch" \in keywords[p] THEN 1
                ELSE Toughness(g.board[Other(p)][lane])
  IN  [fought |-> Occupied(g, p, lane),
       damage |-> IF power <= 0 THEN 0 ELSE IF "Deathtouch" \in keywords[p] THEN 1 ELSE power,
       kills |-> power > 0 /\ "Deathtouch" \in keywords[p],
       overflow |-> IF "Trample" \in keywords[p] /\ power > 0 /\ power > lethal
                    THEN power - lethal ELSE 0]

Heal(g, keywords, p, amount) ==
  IF "Lifesteal" \in keywords[p] THEN AugmentHP(g, p, amount) ELSE g

\* The lambda sendDirectDamage.  keywords: what both sides had at the start.
DirectDamage(g, keywords, p, damage) ==
  IF g.running /\ damage > 0
  THEN Heal(AugmentHP(g, Other(p), -damage), keywords, p, damage)
  ELSE g

Strike(g, keywords, lane, p, damage) ==
  IF damage = 0 THEN g
  ELSE Heal(AugmentCreature(g, Other(p), lane, <<0, -damage>>), keywords, p, damage)

Touch(g, lane, p, kills) == IF kills THEN DestroyCreature(g, Other(p), lane) ELSE g

\* OnKill: p's creature took part, still stands, and nothing stands across.
OnKill(g, lane, p, fought) ==
  IF fought /\ Occupied(g, p, lane) /\ ~Occupied(g, Other(p), lane)
  THEN TriggerCardEffects(g, p, g.board[p][lane].card, lane, p, "OnKill")
  ELSE g

\* Each stage of an exchange, for player A and then for player B.
Strikes(g, keywords, lane, blow) ==
  Strike(Strike(g, keywords, lane, 0, blow[0].damage), keywords, lane, 1, blow[1].damage)
Touches(g, lane, blow) == Touch(Touch(g, lane, 0, blow[0].kills), lane, 1, blow[1].kills)
Kills(g, lane, blow) == OnKill(OnKill(g, lane, 0, blow[0].fought), lane, 1, blow[1].fought)
Overflows(g, keywords, blow) ==
  DirectDamage(DirectDamage(g, keywords, 0, blow[0].overflow), keywords, 1, blow[1].overflow)

\* Mutant: player B's creature strikes only if it outlives player A's blow.
StrikesInTurn(g, keywords, lane) ==
  LET hitA == Strike(g, keywords, lane, 0, Blow(g, keywords, lane, 0).damage)
  IN  Strike(hitA, keywords, lane, 1, Blow(hitA, keywords, lane, 1).damage)

\* The lambda resolveCombatOnce, where two creatures meet or the only one has no
\* power: a creature without power deals nothing, whoever it faces.
Exchange(g, keywords, lane) ==
  LET blow == [p \in Players |-> Blow(g, keywords, lane, p)]
  IN  Overflows(Kills(Touches(Strikes(g, keywords, lane, blow), lane, blow), lane, blow),
                keywords, blow)

ResolveCombatOnce(g, keywords, lane) ==
  LET alone(p) == Occupied(g, p, lane) /\ ~Occupied(g, Other(p), lane)
      direct(p) == alone(p) /\ Power(g.board[p][lane]) > 0
      deal(p) == DirectDamage(g, keywords, p, Power(g.board[p][lane]))
  IN  CASE ~g.running \/ (\A p \in Players : ~Occupied(g, p, lane)) -> g
        [] g.running /\ direct(0) -> deal(0)
        [] g.running /\ direct(1) -> deal(1)
        [] OTHER -> Exchange(g, keywords, lane)

\* The lambda tickRegen: every second combat of a creature heals it.
TickRegen(g, p, lane) ==
  LET slot    == g.board[p][lane]
      value   == slot.regen[1]
      left    == slot.regen[2] - 1
      missing == IF slot.augment[2] < 0 THEN -slot.augment[2] ELSE 0
      heal    == Smaller(value, missing)
      healed  == IF left <= 0 /\ heal > 0 THEN AugmentCreature(g, p, lane, <<0, heal>>) ELSE g
  IN  IF slot.card = NoCard \/ value = 0 THEN g
      ELSE [healed EXCEPT !.board[p][lane].regen = <<value, IF left <= 0 THEN 2 ELSE left>>]

\* Mutant: only player A's creature regenerates.
RegeneratesA(g, lane) ==
  LET keywords == [p \in Players |-> g.board[p][lane].effects]
      ticked   == TickRegen(g, 0, lane)
      first    == IF \E p \in Players : "Double Strike" \in keywords[p]
                  THEN ResolveCombatOnce(ticked, keywords, lane) ELSE ticked
  IN  IF ~g.running \/ (\A p \in Players : ~Occupied(g, p, lane)) THEN g
      ELSE ResolveCombatOnce(first, keywords, lane)

ResolveLaneCombat(g, lane) ==
  LET keywords == [p \in Players |-> g.board[p][lane].effects]
      ticked   == TickRegen(TickRegen(g, 0, lane), 1, lane)
      first    == IF \E p \in Players : "Double Strike" \in keywords[p]
                  THEN ResolveCombatOnce(ticked, keywords, lane) ELSE ticked
  IN  IF ~g.running \/ (\A p \in Players : ~Occupied(g, p, lane)) THEN g
      ELSE ResolveCombatOnce(first, keywords, lane)

-----------------------------------------------------------------------------
(* The players' actions: handleSummon, handleSpell, handleDiscard.         *)

FromHand(g, p, card) == [g EXCEPT !.hand[p][card] = @ - 1]

\* The mana is gone even if the card is no longer in the hand.
Pay(g, p, card) == [g EXCEPT !.mana[p] = @ - Catalog[card].cost]

\* A summoned creature keeps whatever augment the empty lane had.
Summoned(slot, card) ==
  [card |-> card, augment |-> slot.augment, effects |-> Catalog[card].keywords,
   regen |-> IF Catalog[card].regen > 0 THEN <<Catalog[card].regen, 2>> ELSE <<0, 0>>]

\* Mutant: the creature comes although the card is no longer in the hand.
SummonsAnyway(g, p, card, lane) ==
  LET paid  == Pay(g, p, card)
      taken == IF g.hand[p][card] = 0 THEN paid ELSE FromHand(paid, p, card)
  IN  CASE \/ ~g.running \/ lane \notin Lanes
           \/ Occupied(g, p, lane) \/ g.mana[p] < Catalog[card].cost -> g
        [] OTHER -> TriggerCardEffects([taken EXCEPT !.board[p][lane] = Summoned(@, card)],
                                       p, card, NoLane, NoOne, "OnCast")

HandleSummon(g, p, card, lane) ==
  LET paid   == Pay(g, p, card)
      placed == [FromHand(paid, p, card) EXCEPT !.board[p][lane] = Summoned(@, card)]
  IN  CASE \/ ~g.running \/ lane \notin Lanes
           \/ Occupied(g, p, lane) \/ g.mana[p] < Catalog[card].cost -> g
        [] OTHER -> IF g.hand[p][card] = 0 THEN paid
                    ELSE TriggerCardEffects(placed, p, card, NoLane, NoOne, "OnCast")

\* targetIndex as the client sends it: 0 the caster's side, -2 all of it, -3 all
\* of the opponent's, -1 no target.
ServerTargetIndex(p, targetIndex) ==
  CASE targetIndex \in {0, -2} -> p
    [] targetIndex = -1 -> NoOne
    [] OTHER -> Other(p)

HandleSpell(g, p, card, targetLane, targetIndex) ==
  LET paid == Pay(g, p, card)
      target == ServerTargetIndex(p, targetIndex)
  IN  CASE ~g.running \/ g.mana[p] < Catalog[card].cost -> g
        [] OTHER -> IF g.hand[p][card] = 0 THEN paid
                    ELSE TriggerCardEffects(FromHand(paid, p, card), p, card,
                                            targetLane, target, "OnCast")

\* Mutant: a discard that was still in the batch counts after the end of the match.
DiscardsAlways(g, p, card) ==
  LET piled == [g EXCEPT !.discard[p][card] = @ + 1]
      taken == IF g.hand[p][card] > 0 THEN FromHand(piled, p, card) ELSE piled
  IN  AugmentMana(taken, p, Catalog[card].value)

\* The card need not be in the hand: it goes to the pile and pays its value.
HandleDiscard(g, p, card) ==
  LET piled == [g EXCEPT !.discard[p][card] = @ + 1]
      taken == IF g.hand[p][card] > 0 THEN FromHand(piled, p, card) ELSE piled
  IN  IF g.running THEN AugmentMana(taken, p, Catalog[card].value) ELSE g

HandleSurrender(g, p) == EndMatch(g, p)
=============================================================================
