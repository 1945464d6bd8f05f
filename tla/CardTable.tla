----------------------------- MODULE CardTable -----------------------------
(***************************************************************************)
(* The cards of the game: their numbers and keywords (cards/cards.csv),    *)
(* what they can be aimed at (GetValidTargets.cpp reads it in their text)  *)
(* and the effects they trigger (cardToEffectsMap in TriggerEffects.cpp).  *)
(***************************************************************************)
EXTENDS Integers, Sequences

AllCards == 1 .. 47

Spells == {1, 4, 10, 11, 13, 14, 15, 17, 18, 20, 22, 23, 25, 26, 29, 32, 36, 37, 38, 45}

\* <<cost, value, power, toughness>>
Numbers == <<
  <<1, 1, 0, 0>>, <<1, 1, 2, 1>>, <<3, 2, 2, 2>>, <<2, 2, 0, 0>>, <<6, 3, 2, 10>>,
  <<8, 3, 8, 5>>, <<3, 2, 1, 1>>, <<2, 2, 2, 2>>, <<3, 2, 3, 3>>, <<3, 1, 0, 0>>,
  <<2, 1, 0, 0>>, <<2, 2, 2, 3>>, <<2, 2, 0, 0>>, <<1, 1, 0, 0>>, <<2, 2, 0, 0>>,
  <<0, 0, 0, 1>>, <<1, 1, 0, 0>>, <<2, 1, 0, 0>>, <<6, 3, 6, 9>>, <<3, 1, 0, 0>>,
  <<4, 1, 10, 1>>, <<3, 1, 0, 0>>, <<1, 1, 0, 0>>, <<3, 2, 2, 2>>, <<2, 2, 0, 0>>,
  <<5, 3, 0, 0>>, <<3, 1, 3, 1>>, <<2, 1, 8, 1>>, <<6, 3, 0, 0>>, <<4, 2, 3, 4>>,
  <<2, 1, 1, 1>>, <<1, 1, 0, 0>>, <<2, 2, 0, 5>>, <<4, 2, 1, 6>>, <<8, 3, 2, 10>>,
  <<1, 1, 0, 0>>, <<4, 2, 0, 0>>, <<5, 1, 0, 0>>, <<1, 1, 1, 1>>, <<1, 1, 1, 1>>,
  <<3, 1, 1, 2>>, <<6, 2, 3, 3>>, <<3, 2, 2, 2>>, <<1, 1, 1, 1>>, <<2, 1, 0, 0>>,
  <<5, 2, 3, 4>>, <<6, 3, 3, 4>> >>

\* The keywords in a creature's text.
KeywordsOf(c) ==
  {k \in {"Double Strike", "Trample", "Deathtouch", "Regen", "Lifesteal"} :
     c \in CASE k = "Double Strike" -> {6, 30}
             [] k = "Trample"       -> {3, 6, 21, 39}
             [] k = "Deathtouch"    -> {5, 31, 34}
             [] k = "Regen"         -> {6, 33, 35, 40}
             [] k = "Lifesteal"     -> {43, 44}}

\* The number after "regen" in a creature's text.
RegenOf(c) == CASE c \in {6, 40} -> 1 [] c = 33 -> 2 [] c = 35 -> 4 [] OTHER -> 0

\* What the client's card text search finds.
AimOf(c) == CASE c \in {11, 38} -> "all opponent"
              [] c = 26 -> "all your"
              [] c \in {1, 4, 10, 13, 14, 15, 17, 18, 20, 32, 37, 45} -> "creature"
              [] c = 23 -> "player"
              [] OTHER -> "none"

\* CardEffectEntry's defaults, with every target card admitted.
Default == [effect |-> 0, amount |-> 0, augment |-> <<0, 0>>, keyword |-> "Regen",
            target |-> "Nil", trigger |-> "OnCast", only |-> AllCards]
Augments(p, t) == [Default EXCEPT !.augment = <<p, t>>]
Does(effect, amount, target) ==
  [Default EXCEPT !.effect = effect, !.amount = amount, !.target = target]
Splashes(p, t, target) == [Augments(p, t) EXCEPT !.effect = 2, !.target = target]
Grants(keyword) == [Default EXCEPT !.effect = 7, !.keyword = keyword]
OnAKill(e) == [e EXCEPT !.trigger = "OnKill"]
OnlyOn(e, cards) == [e EXCEPT !.only = cards]

EffectsOf(c) ==
  CASE c = 1  -> <<Augments(0, -3)>>
    [] c = 4  -> <<OnlyOn(Augments(3, 3), {3}), OnlyOn(Augments(1, 1), AllCards \ {3})>>
    [] c = 5  -> <<OnAKill(Augments(1, 1))>>
    [] c = 7  -> <<Does(5, -2, "Opponent"), Does(5, 2, "Self")>>
    [] c = 10 -> <<[Augments(0, 1) EXCEPT !.effect = 4]>>
    [] c = 11 -> <<Splashes(0, -1, "Opponent")>>
    [] c = 13 -> <<OnlyOn(Augments(5, -1), {12}), OnlyOn(Augments(1, 1), AllCards \ {12})>>
    [] c = 14 -> <<Augments(2, -1)>>
    [] c = 15 -> <<Grants("Double Strike")>>
    [] c = 17 -> <<Augments(-2, -2)>>
    [] c = 18 -> <<Grants("Trample")>>
    [] c = 20 -> <<Augments(0, 3), Does(9, 2, "Nil")>>
    [] c = 22 -> <<Does(10, -5, "Opponent")>>
    [] c = 23 -> <<Does(3, -5, "Nil"), Does(5, 3, "Nil")>>
    [] c = 24 -> <<Does(3, -2, "Opponent")>>
    [] c = 25 -> <<Does(10, 2, "Self")>>
    [] c = 26 -> <<Splashes(2, 2, "Self")>>
    [] c = 27 -> <<OnAKill(Does(3, -10, "Opponent"))>>
    [] c = 28 -> <<Does(3, -10, "Self")>>
    [] c = 29 -> <<Does(11, 10, "Self")>>
    [] c = 32 -> <<Grants("Deathtouch")>>
    [] c = 36 -> <<Does(12, 2, "Nil")>>
    [] c = 37 -> <<Does(9, 3, "Nil")>>
    [] c = 38 -> <<Does(3, -10, "Self"), Splashes(0, -5, "Opponent")>>
    [] c = 41 -> <<Does(12, 1, "Nil")>>
    [] c = 42 -> <<Does(12, 2, "Nil")>>
    [] c = 45 -> <<Grants("Lifesteal")>>
    [] c = 46 -> <<OnAKill(Does(5, -1, "Opponent")), OnAKill(Does(5, 1, "Self"))>>
    [] c = 47 -> <<Does(5, 2, "Self"), Does(12, 1, "Self")>>
    [] OTHER  -> <<>>

CardOf(c) ==
  [type |-> IF c \in Spells THEN "Spell" ELSE "Creature",
   cost |-> Numbers[c][1], value |-> Numbers[c][2],
   power |-> Numbers[c][3], toughness |-> Numbers[c][4],
   keywords |-> KeywordsOf(c), regen |-> RegenOf(c), aim |-> AimOf(c),
   effects |-> EffectsOf(c)]
=============================================================================
