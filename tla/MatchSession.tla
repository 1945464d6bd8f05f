---------------------------- MODULE MatchSession ----------------------------
(***************************************************************************)
(* One match: its game thread (MatchSession::gameLoop), which owns the     *)
(* state of the game, and the two read threads, which append the players'  *)
(* messages to actionQueue under a mutex and notice that a client has      *)
(* gone.  What each operation does to the game is in GameRules.            *)
(*                                                                         *)
(* The game thread draws and attacks every five seconds; the model says    *)
(* only in which order that can happen: both timers start together, the    *)
(* draw timer is looked at first, so an attack phase follows each draw     *)
(* phase, in the same turn of the loop or in a later one.                  *)
(***************************************************************************)
EXTENDS GameRules

CONSTANTS
  StartHealth,   \* PlayerState::health, 100 in the code
  OpeningHand,   \* cards sendOpeningHands draws, 6 in the code
  Matchups,      \* the pairs of decks that may meet, already shuffled
  Quitters,      \* bound: the players who may surrender or go away
  MaxQueue,      \* bound: messages waiting in both queues
  MaxRounds      \* bound: draw phases

ASSUME SessionAssumption ==
  /\ StartHealth \in Nat \ {0}
  /\ OpeningHand \in Nat
  /\ Matchups \subseteq [Players -> Seq(Cards)]
  /\ Quitters \subseteq Players
  /\ MaxQueue \in Nat
  /\ MaxRounds \in Nat

VARIABLES
  g,            \* players, board and running: the authoritative state
  phase,        \* where the game thread is
  opened,       \* naturalDraws made by sendOpeningHands
  lane,         \* the lane resolveAttackPhase is at
  rounds,       \* draw phases so far
  attackDue,    \* a draw phase has passed since the last attack phase
  actionQueue,  \* messages the read threads have queued
  localQueue,   \* messages processActions has taken
  alive         \* PlayerConnection::isAlive

vars == <<g, phase, opened, lane, rounds, attackDue, actionQueue, localQueue, alive>>

Phases == {"opening", "loop", "actions", "attack", "over"}

Message ==
  [player : Players, type : {"PLAY"}, card : Cards, lane : Lanes,
   targetLane : Lanes \cup {NoLane}, targetIndex : -3 .. 1]
  \cup [player : Players, type : {"DISCARD"}, card : Cards]
  \cup [player : Players, type : {"SURRENDER"}]

TypeOK ==
  /\ g \in Game
  /\ phase \in Phases
  /\ opened \in Nat
  /\ lane \in Lanes
  /\ rounds \in 0 .. MaxRounds
  /\ attackDue \in BOOLEAN
  /\ actionQueue \in Seq(Message)
  /\ localQueue \in Seq(Message)
  /\ alive \in [Players -> BOOLEAN]

NewGame(decks) ==
  [running |-> TRUE, loser |-> NoOne,
   health |-> [p \in Players |-> StartHealth], mana |-> [p \in Players |-> 0],
   fatigue |-> [p \in Players |-> 1], deck |-> decks,
   hand |-> [p \in Players |-> [c \in Cards |-> 0]],
   discard |-> [p \in Players |-> [c \in Cards |-> 0]],
   board |-> [p \in Players |-> [l \in Lanes |-> EmptySlot]]]

Init ==
  /\ \E decks \in Matchups : g = NewGame(decks)
  /\ phase = "opening"
  /\ opened = 0
  /\ lane = 0
  /\ rounds = 0
  /\ attackDue = FALSE
  /\ actionQueue = <<>>
  /\ localQueue = <<>>
  /\ alive = [p \in Players |-> TRUE]

-----------------------------------------------------------------------------
(* The clients and their read threads.                                     *)

\* The client offers a card as long as it sees it in its hand and sees mana for
\* it: it may send a card again before the answer to the first message arrives.
Offered(p, card) == g.hand[p][card] > 0
Affordable(p, card) == Offered(p, card) /\ g.mana[p] >= Catalog[card].cost

\* The targets the client offers for a card: <<targetLane, targetIndex>>.
Targets(p, card) ==
  CASE Catalog[card].aim = "none"         -> {<<NoLane, -1>>}
    [] Catalog[card].aim = "all your"     -> {<<NoLane, -2>>}
    [] Catalog[card].aim = "all opponent" -> {<<NoLane, -3>>}
    [] Catalog[card].aim = "player"       -> {NoLane} \X {0, 1}
    [] Catalog[card].aim = "creature"     ->
         {t \in Lanes \X {0, 1} : Occupied(g, IF t[2] = 0 THEN p ELSE Other(p), t[1])}

\* handlePlayerMessage, called in state Playing only.
Enqueue(m) ==
  /\ g.running
  /\ alive[m.player]
  /\ Len(actionQueue) + Len(localQueue) < MaxQueue
  /\ actionQueue' = Append(actionQueue, m)
  /\ UNCHANGED <<g, phase, opened, lane, rounds, attackDue, localQueue, alive>>

SendPlay(p) ==
  \E card \in Cards, l \in Lanes :
    /\ Affordable(p, card)
    /\ Catalog[card].type = "Spell" => l = 0
    /\ \E t \in Targets(p, card) :
         Enqueue([player |-> p, type |-> "PLAY", card |-> card, lane |-> l,
                  targetLane |-> t[1], targetIndex |-> t[2]])

SendDiscard(p) ==
  \E card \in Cards :
    /\ Offered(p, card)
    /\ Enqueue([player |-> p, type |-> "DISCARD", card |-> card])

SendSurrender(p) ==
  p \in Quitters /\ Enqueue([player |-> p, type |-> "SURRENDER"])

Disconnect(p) ==
  /\ p \in Quitters
  /\ alive[p]
  /\ alive' = [alive EXCEPT ![p] = FALSE]
  /\ UNCHANGED <<g, phase, opened, lane, rounds, attackDue, actionQueue, localQueue>>

-----------------------------------------------------------------------------
(* The game thread.                                                        *)

\* sendOpeningHands: OpeningHand times naturalDraw(0), naturalDraw(1).
OpeningDraws ==
  /\ phase = "opening"
  /\ IF opened < OpeningHand
     THEN /\ g' = NaturalDraw(NaturalDraw(g, 0), 1)
          /\ opened' = opened + 1
          /\ phase' = phase
     ELSE /\ phase' = "loop"
          /\ UNCHANGED <<g, opened>>
  /\ UNCHANGED <<lane, rounds, attackDue, actionQueue, localQueue, alive>>

\* The end of the while loop, and onMatchEnd.
LoopEnds ==
  /\ phase = "loop"
  /\ ~g.running
  /\ phase' = "over"
  /\ UNCHANGED <<g, opened, lane, rounds, attackDue, actionQueue, localQueue, alive>>

\* Mutant: only player A's connection is looked at.
HandleDisconnectA ==
  /\ phase = "loop"
  /\ g.running
  /\ ~alive[0]
  /\ g' = EndMatch(g, 0)
  /\ phase' = "over"
  /\ UNCHANGED <<opened, lane, rounds, attackDue, actionQueue, localQueue, alive>>

\* handleDisconnect: the first dead connection loses, player A's first.
HandleDisconnect ==
  /\ phase = "loop"
  /\ g.running
  /\ \E p \in Players : ~alive[p]
  /\ g' = EndMatch(g, IF ~alive[0] THEN 0 ELSE 1)
  /\ phase' = "over"
  /\ UNCHANGED <<opened, lane, rounds, attackDue, actionQueue, localQueue, alive>>

\* Mutant: all messages but the first are lost.
TakeFirstAction ==
  /\ phase = "loop"
  /\ g.running
  /\ \A p \in Players : alive[p]
  /\ localQueue' = IF actionQueue = <<>> THEN <<>> ELSE <<Head(actionQueue)>>
  /\ actionQueue' = <<>>
  /\ phase' = "actions"
  /\ UNCHANGED <<g, opened, lane, rounds, attackDue, alive>>

\* processActions takes the whole queue under the mutex.
TakeActions ==
  /\ phase = "loop"
  /\ g.running
  /\ \A p \in Players : alive[p]
  /\ localQueue' = actionQueue
  /\ actionQueue' = <<>>
  /\ phase' = "actions"
  /\ UNCHANGED <<g, opened, lane, rounds, attackDue, alive>>

Handled(h, m) ==
  CASE m.type = "DISCARD"   -> HandleDiscard(h, m.player, m.card)
    [] m.type = "SURRENDER" -> HandleSurrender(h, m.player)
    [] m.type = "PLAY"      ->
         IF Catalog[m.card].type = "Creature"
         THEN HandleSummon(h, m.player, m.card, m.lane)
         ELSE HandleSpell(h, m.player, m.card, m.targetLane, m.targetIndex)

\* One turn of the loop of processActions; a surrender drops what is left.
ProcessAction ==
  /\ phase = "actions"
  /\ localQueue # <<>>
  /\ g' = Handled(g, Head(localQueue))
  /\ localQueue' = IF Head(localQueue).type = "SURRENDER" THEN <<>> ELSE Tail(localQueue)
  /\ UNCHANGED <<phase, opened, lane, rounds, attackDue, actionQueue, alive>>

\* The timers: naturalDraw for both players, then the attack phase.
Timers ==
  /\ phase = "actions"
  /\ localQueue = <<>>
  /\ \E draw, attack \in BOOLEAN :
       /\ draw => rounds < MaxRounds
       /\ attack => draw \/ attackDue
       /\ g' = IF draw THEN NaturalDraw(NaturalDraw(g, 0), 1) ELSE g
       /\ rounds' = IF draw THEN rounds + 1 ELSE rounds
       /\ attackDue' = ((draw \/ attackDue) /\ ~attack)
       /\ phase' = IF attack /\ g'.running THEN "attack" ELSE "loop"
  /\ lane' = 0
  /\ UNCHANGED <<opened, actionQueue, localQueue, alive>>

\* Mutant: one lane too many.
AttackPastLastLane ==
  /\ phase = "attack"
  /\ g' = ResolveLaneCombat(g, lane)
  /\ IF lane < LaneCount /\ g'.running
     THEN lane' = lane + 1 /\ phase' = phase
     ELSE lane' = 0 /\ phase' = "loop"
  /\ UNCHANGED <<opened, rounds, attackDue, actionQueue, localQueue, alive>>

\* resolveAttackPhase, one lane at a time, while the match is running.
AttackLane ==
  /\ phase = "attack"
  /\ g' = ResolveLaneCombat(g, lane)
  /\ IF lane + 1 < LaneCount /\ g'.running
     THEN lane' = lane + 1 /\ phase' = phase
     ELSE lane' = 0 /\ phase' = "loop"
  /\ UNCHANGED <<opened, rounds, attackDue, actionQueue, localQueue, alive>>

GameThread == \/ OpeningDraws \/ LoopEnds \/ HandleDisconnect \/ TakeActions
              \/ ProcessAction \/ Timers \/ AttackLane

Client(p) == SendPlay(p) \/ SendDiscard(p) \/ SendSurrender(p) \/ Disconnect(p)

Next == GameThread \/ \E p \in Players : Client(p)

Spec == Init /\ [][Next]_vars

\* The game thread runs until it returns.
FairSpec == Spec /\ WF_vars(GameThread)

-----------------------------------------------------------------------------
(* Properties.                                                             *)

\* A match has at most one loser by health, and it is the player the match was
\* decided against: both players' health never reaches 0 (README: messages are
\* processed sequentially to prevent a draw), and no dead player plays on
\* (augmentHP, endMatch).
OneLoser ==
  /\ \A p \in Players : g.health[p] <= 0 => g.loser = p
  /\ g.running <=> g.loser = NoOne

\* A lane that holds no creature holds nothing of the last one: no augment, no
\* continuous effect, no regen that the next creature there would inherit
\* (destroyCreature, handleSummon).
EmptyLanesAreBare ==
  \A p \in Players, l \in Lanes : ~Occupied(g, p, l) => g.board[p][l] = EmptySlot

\* Every creature on the board has toughness left, whatever lowered it: blows,
\* spells, splashes, or setCreature (augmentCreature, setCreature).
CreaturesStand ==
  \A p \in Players, l \in Lanes : Occupied(g, p, l) => Toughness(g.board[p][l]) > 0

\* The copies of a card that player p can still play or has on the board.
Copies(h, p, card) ==
  Cardinality({i \in DOMAIN h.deck[p] : h.deck[p][i] = card}) + h.hand[p][card]
    + Cardinality({l \in Lanes : h.board[p][l].card = card})

\* No card is ever duplicated: drawing, summoning, casting, discarding and dying
\* move a copy or use it up (draw, handleSummon, handleSpell, handleDiscard).
NoCardAppears ==
  [][\A p \in Players, card \in Cards : Copies(g', p, card) <= Copies(g, p, card)]_vars

\* Once the match is decided its outcome stands: what is still in the queues, the
\* rest of the attack phase and the timers change neither health, fatigue, mana,
\* board nor discard piles (the running checks of every operation).
DecidedStands ==
  [][~g.running => /\ g'.loser = g.loser
                   /\ g'.health = g.health /\ g'.mana = g.mana
                   /\ g'.board = g.board /\ g'.discard = g.discard
                   /\ g'.fatigue = g.fatigue]_vars

SwapSides(f) == [p \in Players |-> f[Other(p)]]
Mirrored(h) ==
  [h EXCEPT !.loser = IF @ = NoOne THEN NoOne ELSE Other(@),
            !.health = SwapSides(@), !.mana = SwapSides(@), !.fatigue = SwapSides(@),
            !.deck = SwapSides(@), !.hand = SwapSides(@), !.discard = SwapSides(@),
            !.board = SwapSides(@)]

\* A step of resolveAttackPhase: the read threads are still.
Attacks == phase = "attack" /\ UNCHANGED <<actionQueue, alive>>

SameIfBothGoOn(a, b) == a.running /\ b.running => a = b

\* Combat favours neither seat: with the players' seats exchanged a lane resolves
\* to the same result, unless one of the two resolutions ends the match, although
\* the code lets player A's creature strike, kill and trample first
\* (resolveLaneCombat).
CombatIsFair ==
  [][Attacks => SameIfBothGoOn(g', Mirrored(ResolveLaneCombat(Mirrored(g), lane)))]_vars

Plain(slot) == /\ slot.effects = {}
               /\ slot.card # NoCard =>
                    \A i \in DOMAIN Catalog[slot.card].effects :
                      Catalog[slot.card].effects[i].trigger # "OnKill"

Left(slot, across) == Toughness(slot) - (IF Power(across) > 0 THEN Power(across) ELSE 0)

\* The battle of the README, for creatures without keywords: two creatures in a
\* lane both strike with the power they started with, and one is destroyed when
\* its toughness reaches 0; a lone creature hits the opponent for its power
\* (resolveCombatOnce).
BattleByTheBook ==
  [][Attacks /\ (\A p \in Players : Plain(g.board[p][lane])) =>
       \A p \in Players :
         LET mine == g.board[p][lane]
             across == g.board[Other(p)][lane]
             after == g'.board[p][lane]
         IN  IF mine.card = NoCard
             THEN g'.health[p] = g.health[p] - (IF Power(across) > 0 THEN Power(across) ELSE 0)
             ELSE /\ g'.health[p] = g.health[p]
                  /\ after.card = (IF Left(mine, across) > 0 THEN mine.card ELSE NoCard)
                  /\ after.card # NoCard => Toughness(after) = Left(mine, across)]_vars

\* A client that goes away ends the match, from any state of the game
\* (gameLoop, handleDisconnect).
GoneEndsMatch == \A p \in Players : ~alive[p] ~> phase = "over"

Surrendering(p) == \E i \in DOMAIN actionQueue : /\ actionQueue[i].player = p
                                                  /\ actionQueue[i].type = "SURRENDER"

\* A surrender that was queued ends the match, whatever is queued before it
\* (handlePlayerMessage, processActions, handleSurrender).
SurrenderEndsMatch == \A p \in Players : Surrendering(p) ~> ~g.running

=============================================================================
