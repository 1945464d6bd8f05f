---------------------------- MODULE ClientBoard ----------------------------
(***************************************************************************)
(* What a game client shows of a match: its own copy of both hands, decks   *)
(* and boards, kept up with the lines that the server sends.                *)
(*                                                                         *)
(*   client/src/states/Playing.cpp            the lines, one after another  *)
(*   client/src/animation/AnimationQueue.cpp  what makes updates wait       *)
(*   client/src/core/Board.cpp                the lanes                     *)
(*                                                                         *)
(* A blocking animation, or a combat, makes the client hold the updates of  *)
(* creatures and health back, while draws, plays and snapshots are applied  *)
(* at once.  One action is one line handled, or the rest of a frame: a frame *)
(* reads one TLS record, a record is one line at most (PlayerConnection.cpp  *)
(* writes each on its own) and a long line takes several frames.            *)
(*                                                                         *)
(* The server is a table that may change in any legal way at any time, one  *)
(* line for each change; GameRules.tla has the rules.  Mana changes at once *)
(* on both sides and is left out, like fatigue, which only snapshots set.   *)
(***************************************************************************)
EXTENDS Integers, FiniteSets, SequencesExt

CONSTANTS
  Local, Remote,    \* the client's player and the other one
  LaneCount,
  Creatures, Spells,
  Decks,            \* for each player, the copies of each card at the start
  Opening,          \* for each player, the cards drawn before the first snapshot
  StartHealth,
  MaxAugment,       \* bound: how far a creature is strengthened
  MaxSent,          \* bound: lines the server sends after the opening
  MaxOnTheWay       \* bound: lines sent and not handled

Players == {Local, Remote}

Lanes == 1 .. LaneCount

Cards == Creatures \cup Spells

Hand == [Cards -> Nat]

ASSUME ClientBoardAssumption ==
  /\ Local # Remote
  /\ Creatures \cap Spells = {}
  /\ Decks \in [Players -> Hand]
  /\ Opening \in [Players -> Seq(Cards)]
  /\ \A p \in Players, c \in Cards :   \* the opening is drawn from the decks
       Cardinality({i \in DOMAIN Opening[p] : Opening[p][i] = c}) <= Decks[p][c]
  /\ LaneCount \in Nat /\ StartHealth \in Nat /\ MaxAugment \in Nat /\ MaxSent \in Nat /\ MaxOnTheWay \in Nat

VARIABLES
  server,       \* the table of the server
  channel,      \* lines sent and not handled
  sent,         \* how many were sent
  over,         \* the server has ended the match
  framed,       \* the client has handled the line of this frame
  table,        \* the table of the client
  held,         \* deferredStatUpdates
  pending,      \* pendingDestroys, the zones
  barrier,      \* combatUpdateBarrierActive
  queued,       \* a blocking animation waits for its start
  active,       \* a blocking animation runs
  animated,     \* animationsEnabled
  ended,        \* the client shows the end of the match
  overtaken     \* history: a line was applied before one that came earlier and that
                \* it depends on

serverVars == <<server, channel, sent, over>>
screenVars == <<held, pending, barrier, queued, active>>
historyVars == <<animated, ended, overtaken>>
vars == <<serverVars, framed, table, screenVars, historyVars>>

-----------------------------------------------------------------------------
(* Tables and lines.                                                       *)

Empty == [card |-> "none"]

\* augment stands for power and toughness, effect for any granted effect.
Creature == [card : Creatures, augment : Nat, effect : BOOLEAN]

Zones == Players \X Lanes

Opposing(z) == <<IF z[1] = Local THEN Remote ELSE Local, z[2]>>

Table == [health : [Players -> Int], hand : [Players -> Hand],
          deck : [Players -> Hand], zone : [Zones -> Creature \cup {Empty}]]

Fresh(c) == [card |-> c, augment |-> 0, effect |-> FALSE]

\* A bag with one card more, and with one less.
With(bag, c) == [bag EXCEPT ![c] = @ + 1]

Less(bag, c) == [bag EXCEPT ![c] = @ - 1]

Draws(t, p, c) ==
  [t EXCEPT !.deck[p] = Less(@, c), !.hand[p] = With(@, c)]

Draw(p, c) == [cmd |-> "DRAW", player |-> p, card |-> c]
Discard(p, c) == [cmd |-> "DISCARD", player |-> p, card |-> c]
Play(p, c, lane) == [cmd |-> "PLAY", player |-> p, card |-> c, lane |-> lane]
Combat(lane) == [cmd |-> "COMBAT", lane |-> lane]
Direct(z) == [cmd |-> "DIRECT", zone |-> z]
Augment(z) == [cmd |-> "AUGMENT", zone |-> z]
EffectAdd(z) == [cmd |-> "EFFECT_ADD", zone |-> z]
EffectRemove(z) == [cmd |-> "EFFECT_REMOVE", zone |-> z]
Destroy(z) == [cmd |-> "DESTROY", zone |-> z]
Hp(p) == [cmd |-> "HP", player |-> p]
MatchOver == [cmd |-> "MATCH_LOST"]
FullState(t) == [cmd |-> "FULL_STATE", table |-> t]

StatUpdates ==
  {Augment(z) : z \in Zones} \cup {EffectAdd(z) : z \in Zones}
    \cup {EffectRemove(z) : z \in Zones} \cup {Destroy(z) : z \in Zones}
    \cup {Hp(p) : p \in Players} \cup {MatchOver}

Lines ==
  StatUpdates \cup {Draw(p, c) : p \in Players, c \in Cards}
    \cup {Discard(p, c) : p \in Players, c \in Cards}
    \cup {Play(p, c, lane) : p \in Players, c \in Cards, lane \in Lanes}
    \cup {Combat(lane) : lane \in Lanes} \cup {Direct(z) : z \in Zones}

\* What a snapshot tells of a table, and all that the player sees of it.
Shown(t) == [health |-> t.health, hand |-> t.hand, zone |-> t.zone]

Holdings(t, p, c) ==
  t.deck[p][c] + t.hand[p][c]
    + Cardinality({z \in Zones : z[1] = p /\ t.zone[z] # Empty /\ t.zone[z].card = c})

\* Types; and cards only move, for a client that has more of a card than the deck
\* had may show it at two places.
TypeOK ==
  /\ server \in Table /\ table \in Table
  /\ \A p \in Players, c \in Cards : Holdings(table, p, c) <= Decks[p][c]
  /\ \A i \in DOMAIN channel :
       channel[i] \in Lines \/ channel[i] = FullState(channel[i].table)
  /\ sent \in 0 .. MaxSent
  /\ held \in Seq(StatUpdates)
  /\ pending \in Seq(Zones)
  /\ <<over, framed, barrier, queued, active, animated, ended, overtaken>>
       \in Seq(BOOLEAN)

-----------------------------------------------------------------------------
(* The start.  No line is lost to Waiting: each is a TLS record of its own  *)
(* and a frame reads at most one, so none comes with MATCH_START.  setup    *)
(* clears all but the barrier, which a match that broke off may have left.  *)

FullDecks ==
  [health |-> [p \in Players |-> StartHealth],
   hand |-> [p \in Players |-> [c \in Cards |-> 0]],
   deck |-> Decks, zone |-> [z \in Zones |-> Empty]]

DrawsAll(t, p) == FoldLeft(LAMBDA u, c : Draws(u, p, c), t, Opening[p])

Opened == DrawsAll(DrawsAll(FullDecks, Local), Remote)

OpeningLines ==
  [i \in DOMAIN Opening[Local] |-> Draw(Local, Opening[Local][i])]
    \o [i \in DOMAIN Opening[Remote] |-> Draw(Remote, Opening[Remote][i])]
    \o <<FullState(Shown(Opened))>>

Init ==
  /\ server = Opened
  /\ channel = OpeningLines
  /\ sent = 0
  /\ over = FALSE
  /\ framed = FALSE
  /\ table = FullDecks
  /\ held = <<>>
  /\ pending = <<>>
  /\ barrier \in BOOLEAN
  /\ queued = FALSE
  /\ active = FALSE
  /\ animated \in BOOLEAN
  /\ ended = FALSE
  /\ overtaken = FALSE

-----------------------------------------------------------------------------
(* The server changes its table and sends the line.                        *)

Sends(t, line) ==
  /\ ~over
  /\ sent < MaxSent
  /\ Len(channel) < MaxOnTheWay
  /\ sent' = sent + 1
  /\ server' = t
  /\ channel' = Append(channel, line)
  /\ over' = (line = MatchOver)
  /\ UNCHANGED <<framed, table, screenVars, historyVars>>

ServerDraws(p, c) ==
  server.deck[p][c] > 0 /\ Sends(Draws(server, p, c), Draw(p, c))

ServerDiscards(p, c) ==
  /\ server.hand[p][c] > 0
  /\ Sends([server EXCEPT !.hand[p] = Less(@, c)], Discard(p, c))

ServerPlays(p, c, lane) ==
  /\ server.hand[p][c] > 0
  /\ \/ /\ c \in Spells
        /\ Sends([server EXCEPT !.hand[p] = Less(@, c)], Play(p, c, lane))
     \/ /\ c \in Creatures
        /\ server.zone[<<p, lane>>] = Empty
        /\ Sends([server EXCEPT !.hand[p] = Less(@, c), !.zone[<<p, lane>>] = Fresh(c)],
                 Play(p, c, lane))

\* What a combat does comes in lines of its own after this one.
ServerFights(z) ==
  /\ server.zone[z] # Empty
  /\ Sends(server, IF server.zone[Opposing(z)] = Empty THEN Direct(z) ELSE Combat(z[2]))

ServerChanges(z) ==
  /\ server.zone[z] # Empty
  /\ \/ /\ server.zone[z].augment < MaxAugment
        /\ Sends([server EXCEPT !.zone[z].augment = @ + 1], Augment(z))
     \/ /\ ~server.zone[z].effect
        /\ Sends([server EXCEPT !.zone[z].effect = TRUE], EffectAdd(z))
     \/ Sends([server EXCEPT !.zone[z].effect = FALSE], EffectRemove(z))
     \/ Sends([server EXCEPT !.zone[z] = Empty], Destroy(z))

ServerHits(p) ==
  server.health[p] > 0 /\ Sends([server EXCEPT !.health[p] = @ - 1], Hp(p))

\* broadcastFullState
ServerSnapshot == Sends(server, FullState(Shown(server)))

ServerEnds == Sends(server, MatchOver)

ServerNext ==
  \/ ServerSnapshot \/ ServerEnds
  \/ \E p \in Players : ServerHits(p)
  \/ \E p \in Players, c \in Cards :
       \/ ServerDraws(p, c) \/ ServerDiscards(p, c)
       \/ \E lane \in Lanes : ServerPlays(p, c, lane)
  \/ \E z \in Zones : ServerFights(z) \/ ServerChanges(z)

-----------------------------------------------------------------------------
(* The client handles a line.                                              *)

Receives(cmd) == ~framed /\ ~ended /\ channel # <<>> /\ Head(channel).cmd = cmd

Line == Head(channel)

Handled == channel' = Tail(channel) /\ framed' = TRUE /\ UNCHANGED <<server, sent, over>>

\* Mutant: a card that is drawn is not looked for in the deck.
DrawsUnchecked ==
  /\ Receives("DRAW")
  /\ Handled
  /\ table' = Draws(table, Line.player, Line.card)
  /\ queued' = (queued \/ (animated /\ Line.player = Local))
  /\ UNCHANGED <<held, pending, barrier, active, historyVars>>

DrawCard ==
  /\ Receives("DRAW")
  /\ Handled
  /\ IF table.deck[Line.player][Line.card] = 0 THEN UNCHANGED <<table, queued>>
     ELSE /\ table' = Draws(table, Line.player, Line.card)
          /\ queued' = (queued \/ (animated /\ Line.player = Local))
  /\ UNCHANGED <<held, pending, barrier, active, historyVars>>

\* The discard's animation does not block.
DiscardCard ==
  /\ Receives("DISCARD")
  /\ Handled
  /\ table' = IF table.hand[Line.player][Line.card] = 0 THEN table
              ELSE [table EXCEPT !.hand[Line.player] = Less(@, Line.card)]
  /\ UNCHANGED <<screenVars, historyVars>>

\* A creature that finds its zone taken is gone: addToPlay only returns false.
PlayCard ==
  /\ Receives("PLAY")
  /\ Handled
  /\ LET z == <<Line.player, Line.lane>>
         inHand == table.hand[Line.player][Line.card] > 0
         summons == inHand /\ Line.card \in Creatures
     IN /\ table' = IF ~inHand THEN table
                    ELSE [table EXCEPT
                      !.hand[Line.player] = Less(@, Line.card),
                      !.zone[z] = IF summons /\ @ = Empty THEN Fresh(Line.card) ELSE @]
        /\ queued' = (queued \/ (animated /\ summons))
        /\ overtaken' = (overtaken \/ Contains(held, Destroy(z)) \/ Contains(pending, z))
  /\ UNCHANGED <<held, pending, barrier, active, animated, ended>>

\* Only the animation and the barrier; a creature that is not there does not move.
ResolveCombat ==
  /\ \/ /\ Receives("COMBAT")
        /\ queued' = (queued \/ (animated /\ \A p \in Players :
                                               table.zone[<<p, Line.lane>>] # Empty))
     \/ Receives("DIRECT") /\ queued' = (queued \/ animated)
  /\ Handled
  /\ barrier' = animated
  /\ UNCHANGED <<table, held, pending, active, historyVars>>

\* What the updates change: the table, the zones to clear, the animations, the end.
Display == [table |-> table, pending |-> pending, queued |-> queued, ended |-> ended]

Cleared(d, z) == [d EXCEPT !.table.zone[z] = Empty, !.queued = @ \/ animated]

\* Mutant: another creature of the same lane that is to die is taken for this one.
DestroyedByLane(d, z) ==
  IF d.table.zone[Opposing(z)] = Empty \/ ~animated THEN Cleared(d, z)
  ELSE IF \E y \in Range(d.pending) : y[2] = z[2] THEN d
  ELSE [d EXCEPT !.pending = Append(@, z)]

\* destroyCreature: in a contested lane the creature stays for 520 ms.
Destroyed(d, z) ==
  IF d.table.zone[Opposing(z)] = Empty \/ ~animated THEN Cleared(d, z)
  ELSE IF Contains(d.pending, z) THEN d
  ELSE [d EXCEPT !.pending = Append(@, z)]

\* An update of a creature that is not there is ignored.
Updated(d, m) ==
  CASE m.cmd = "HP" -> [d EXCEPT !.table.health[m.player] = @ - 1]
    [] m.cmd = "MATCH_LOST" -> [d EXCEPT !.ended = TRUE]
    [] OTHER ->
       IF d.table.zone[m.zone] = Empty THEN d
       ELSE CASE m.cmd = "AUGMENT" -> [d EXCEPT !.table.zone[m.zone].augment = @ + 1]
              [] m.cmd = "EFFECT_ADD" -> [d EXCEPT !.table.zone[m.zone].effect = TRUE]
              [] m.cmd = "EFFECT_REMOVE" -> [d EXCEPT !.table.zone[m.zone].effect = FALSE]
              [] m.cmd = "DESTROY" -> Destroyed(d, m.zone)

Displays(d) ==
  /\ table' = d.table
  /\ pending' = d.pending
  /\ queued' = d.queued
  /\ ended' = d.ended

NextIsUpdate == ~framed /\ ~ended /\ channel # <<>> /\ Line \in StatUpdates

Busy == animated /\ (barrier \/ active)

HoldUpdate ==
  /\ NextIsUpdate
  /\ Busy
  /\ Handled
  /\ held' = Append(held, Line)
  /\ UNCHANGED <<table, pending, barrier, queued, active, historyVars>>

ApplyUpdate ==
  /\ NextIsUpdate
  /\ ~Busy
  /\ Handled
  /\ Displays(Updated(Display, Line))
  /\ UNCHANGED <<held, barrier, active, animated, overtaken>>

-----------------------------------------------------------------------------
(* handleFullStateMessage.                                                 *)

Smaller(m, n) == IF m < n THEN m ELSE n

\* reconcileHand: cards of the hand first, then of the deck; the others are dropped.
HandSynced(t, p, want) ==
  LET fromHand == [c \in Cards |-> Smaller(want[c], t.hand[p][c])]
      fromDeck == [c \in Cards |-> Smaller(want[c] - fromHand[c], t.deck[p][c])]
  IN [t EXCEPT !.hand[p] = [c \in Cards |-> fromHand[c] + fromDeck[c]],
               !.deck[p] = [c \in Cards |-> @[c] - fromDeck[c]]]

\* acquireCard, which looks into the hand first, then applyAugments.
Placed(t, z, creature) ==
  LET p == z[1]  c == creature.card
  IN IF t.hand[p][c] > 0
     THEN [t EXCEPT !.hand[p] = Less(@, c), !.zone[z] = creature]
     ELSE IF t.deck[p][c] > 0
     THEN [t EXCEPT !.deck[p] = Less(@, c), !.zone[z] = creature]
     ELSE [t EXCEPT !.zone[z] = Empty]

\* Mutant: the augments of the snapshot are added to those there are.
ZoneAugmented(t, z, want) ==
  IF want = Empty THEN [t EXCEPT !.zone[z] = Empty]
  ELSE IF t.zone[z] # Empty /\ t.zone[z].card = want.card
  THEN [t EXCEPT !.zone[z] = [want EXCEPT !.augment = @ + t.zone[z].augment]]
  ELSE Placed(t, z, want)

ZoneSynced(t, z, want) ==
  IF want = Empty THEN [t EXCEPT !.zone[z] = Empty]
  ELSE IF t.zone[z] # Empty /\ t.zone[z].card = want.card
  THEN [t EXCEPT !.zone[z] = want]
  ELSE Placed(t, z, want)

Synced(t, snap) ==
  LET hands == HandSynced(HandSynced([t EXCEPT !.health = snap.health],
                                     Local, snap.hand[Local]),
                          Remote, snap.hand[Remote])
      lanes(p) == [lane \in Lanes |-> <<p, lane>>]
  IN FoldLeft(LAMBDA u, z : ZoneSynced(u, z, snap.zone[z]),
              hands, lanes(Local) \o lanes(Remote))

\* A snapshot that finds everything in order changes nothing.
HandleFullState ==
  /\ Receives("FULL_STATE")
  /\ Handled
  /\ table' = Synced(table, Line.table)
  /\ overtaken' = (overtaken \/ held # <<>>)
  /\ UNCHANGED <<screenVars, animated, ended>>

-----------------------------------------------------------------------------
(* The rest of a frame: the animations go on, destroyed creatures whose     *)
(* time has come go, and with no animation running all held updates come.   *)

Flushed(d) == FoldLeft(Updated, d, held)

EndOfFrame ==
  /\ framed \/ ~ended
  /\ framed' = FALSE
  /\ \E waits, runs \in BOOLEAN, due \in 0 .. Len(pending) :
       /\ waits => queued
       /\ runs => active \/ queued
       /\ active' = runs
       /\ LET rest == SubSeq(pending, due + 1, Len(pending))
              gone == FoldLeft(Cleared, [Display EXCEPT !.queued = waits, !.pending = rest],
                               SubSeq(pending, 1, due))
          IN IF held # <<>> /\ ~(animated /\ runs)
             THEN Displays(Flushed(gone)) /\ held' = <<>> /\ barrier' = FALSE
             ELSE Displays(gone) /\ UNCHANGED <<held, barrier>>
  /\ UNCHANGED <<serverVars, animated, overtaken>>

ClientNext ==
  \/ DrawCard \/ DiscardCard \/ PlayCard \/ ResolveCombat
  \/ HoldUpdate \/ ApplyUpdate \/ HandleFullState \/ EndOfFrame

Next == ServerNext \/ ClientNext

Spec == Init /\ [][Next]_vars

-----------------------------------------------------------------------------
(* Properties.                                                             *)

\* Once it has caught up, the client shows the server's table, although updates were
\* held back and creatures died late, as long as no play or snapshot has overtaken
\* a line that it builds upon.
Mirrors ==
  channel = <<>> /\ held = <<>> /\ pending = <<>> /\ ~overtaken =>
    Shown(table) = Shown(server)

\* A snapshot leaves nothing false on the screen, however wrong the client was: the
\* health is right, each creature shown is the server's, with its strength and its
\* effects, and no card is in hand that is not there; a card may be missing.
NothingFalse ==
  [][Receives("FULL_STATE") /\ Len(channel') < Len(channel) =>
       /\ table'.health = Line.table.health
       /\ \A z \in Zones : table'.zone[z] \in {Line.table.zone[z], Empty}
       /\ \A p \in Players, c \in Cards : table'.hand[p][c] <= Line.table.hand[p][c]]_vars

\* README.md:110: "The client checks its local state against the snapshot on receipt
\* and self-corrects any inaccuracies."
SelfCorrects ==
  [][Receives("FULL_STATE") /\ Len(channel') < Len(channel) => Shown(table') = Line.table]_vars

=============================================================================
