# Specifications of the card game

TLA+ models of the multiplayer card game in this repository: its lobby, its
matches, its money, its accounts, its decks, the client's copy of the board and
the life of the game server's threads, with TLC configurations that check them on small
instances and TLAPS proofs of the facts that matter most.

Run TLC with `tlc -config X.cfg M.tla`, where M is the module named in the table
of runs, and TLAPS with `tlapm XProofs.tla`.

## 1. The system

Four programs and three stores:

| part | code | state | operations |
|---|---|---|---|
| Game server: lobby | `server/src/core`, `server/src/net` | `playerQueue`, `pendingMatches`, `activeMatches`, one `PlayerConnection` per client (state, running), `disconnectQueue` | accept a connection, queue, pair, accept a match, start it, end it, disconnect |
| Game server: threads | `server/src/net`, `server/src/main.cpp` | `clients`, `running`, `disconnectRunning`, each connection's SSL object, `running`, `stopped` and read thread | accept, hand-shake, read, send, take down, stop |
| Game server: match | `server/src/game`, `server/src/objects` | health, mana, fatigue, deck, hand, discard pile, lanes with augments, keywords and regen; `actionQueue`; `running` | opening hands, draw, summon, cast, discard, attack phase, triggered effects, surrender, disconnect, end |
| Cards service | `cards/services`, PostgreSQL | `inventories`, `payment_ledgers`, `decks`, `cards` | read and write an inventory, set or add coins, checkout, webhook, checkout status, decks, seed |
| Auth service | `auth/services`, Redis, PostgreSQL | users, sessions (two keys each) | register (with calls to the cards service, and a rollback), login, logout, reset password |
| Client | `client/src` | the screen, the session id, the copy of the board, the deck in the editor, pending pack results, cached coins and copies | what the player clicks; one thread, with blocking HTTP calls |

How they interact: client and game server exchange lines of text over TLS, in
order in each direction; the client and the game server call the services by
HTTP; Stripe calls the cards service. Inside the game server the threads share
memory: one read thread per client, one game thread per match, one thread that
stops disconnected clients, and callbacks (`onPairFound`, `onMatchEnd`,
`onDisconnected`) that cross from the one component into the other.

What is hard about it:

- **Threads of the lobby.** A handler takes a mutex, looks something up, gives
  the mutex up and goes on with what it found (`MatchManager::onAccept`,
  `onPlayerDisconnected`); `queueMutex` is held while messages are sent.
- **Messages that cross.** MATCH_ACCEPT names no match; a QUEUE may arrive while
  the connection still belongs to a match; two PLAY messages may refer to one card.
- **The order of combat.** Two creatures strike "at once", in sequential code,
  through helpers that destroy creatures, trigger effects and end the match.
- **Parallel arrays.** A lane is four arrays that must be cleared together.
- **Money.** Purchases, rewards and the pack screen's flushes write the same row
  from several processes, some atomically, some by reading and saving the row;
  calls time out and are repeated; Stripe repeats webhooks.

- **Two keys for one session.** The auth service looks for a session and then stores
  two Redis keys; a logout deletes both, and each expires on its own.
- **Delete, then insert.** A deck is replaced by two statements outside a transaction,
  while another request, or an instance that starts, fills the same row.
- **Two services for one account.** A registration is undone when the inventory or
  the deck could not be made, and an answer that is lost counts as that.
- **Held updates.** The client holds some lines of a match back while it animates, and
  applies others at once.
- **Taking connections down.** Four kinds of threads open, use, stop and join them.

What makes each part correct: the lobby loses nobody and starts only what both
accepted; a match has one loser and no card from nowhere; a coin is credited once and
is not lost; an account is whole, and a login is refused for a reason; a stored deck is
full and is made of cards the player owns; the client shows what the server
has; the server stops, and takes nothing down that is in use.

`PROJECT.json` lists the hazards at their lines, with the properties that cover
them, or the reason why none does.

## 2. Modules

| module | what it models |
|---|---|
| `Matchmaking` | the lobby, thread by thread: the read threads with their program counters and local variables, `queueMutex`, the mutex of the MatchManager (one action per critical section), the disconnect thread, the game threads as far as the lobby sees them, and the client's Waiting, Found and Playing screens |
| `Lobby` | what the lobby promises: players change seats two by two. `Matchmaking` implements it |
| `MCMatchmaking` | symmetry set for TLC |
| `MatchmakingProofs` | theorems about `Matchmaking`: types, sessions, the queue; nobody is forgotten; nobody is paired with himself; `Matchmaking` implements `Lobby` |
| `GameRules` | what each operation of `MatchSession.cpp` and `TriggerEffects.cpp` does to the state of a match, as operators from one state to the next |
| `MatchSession` | the game thread, the read threads that fill `actionQueue`, and the players |
| `CardTable` | the 47 cards: numbers, keywords, targets, effects |
| `MCMatchSession` | which cards and decks meet in the runs |
| `MatchSessionProofs` | theorems about `GameRules` and `MatchSession` |
| `CardsService` | the inventory row, the payment ledger and the handlers that work on them, one action per database statement |
| `Economy` | the pack screen, the shop, Stripe and match rewards around `CardsService` |
| `EconomyProofs` | theorems about `Economy` |
| `DeckService` | the inventory and deck rows of all users, the handlers of the cards service that work on them, and the fill at start-up, one action per statement |
| `DeckBuilder` | the deck editor of the client around `DeckService` |
| `DeckServiceProofs`, `DeckProofs` | theorems about `DeckService` and what `buildDeckCounts` deals, and about `DeckBuilder` |
| `Accounts` | registration, login and logout: auth service, its table and its two Redis keys, the clients' login screens, around `DeckService` |
| `AccountsProofs` | theorems about `Accounts`: sessions, and whole accounts |
| `ClientBoard` | the client's copy of a match and the lines that keep it up |
| `ClientBoardProofs` | theorems about `ClientBoard` |
| `ServerLife` | the threads of the game server from its start to its shutdown |
| `ServerLifeProofs` | theorems about `ServerLife` |
| `MCDecks`, `MCAccounts`, `MCClientBoard` | symmetry sets and small decks for TLC |

`MatchSession` extends `GameRules`; `Economy` extends `CardsService`; `DeckBuilder` and
`Accounts` both extend `DeckService`, the one for the editor's saves and fills, the
other for the row and the deck a registration asks for. Where the
lobby and the match meet, each module leaves the other open: in `Matchmaking` a
match may end at any time with any winner, in `MatchSession` a client may go away
at any time. Likewise a reward arrives in `Economy` whenever the client is on
neither of the screens that spend or buy. In `ServerLife` a match is a thread that may be
in `send()` at any time, and in `ClientBoard` the server may change its table in any
legal way, one line for each change.

### 2.1 The lobby

`pc[p]` says where client p's read thread is; `who`, `match`, `session` and
`back` are the local variables it carries from one critical section to the next.
A handler that locks twice is two actions, with every other thread free to run in
between. `queueMutex` is a variable, since it is held over calls that send
messages and take the other mutex; the MatchManager's mutex is not, since its
critical sections call nothing that blocks. A `MatchSession` object passes through
phases: built, spawned, running, rewarding (the blocking HTTP request of
`endMatch`), told, left, ended. Connections are never reused: a client that
reconnects is another client.

### 2.2 The match

The state `g` is one record (`GameRules!Game`); an operation such as `HandleSummon(g, ...)`
or `ResolveLaneCombat(g, lane)` returns the next one, with every effect it
triggers, in the order of the code. `MatchSession` decides when each is applied:
`OpeningDraws`, `TakeActions` (the swap of the queues under the mutex),
`ProcessAction` (one message), `Timers`, `AttackLane` (one lane),
`HandleDisconnect`, `LoopEnds`. Finer steps would show nothing more, because only
the game thread writes this state and the read threads only append. Hands and
discard piles are bags: the server never reads their order. The two timers appear
as the order they allow: an attack phase follows each draw phase. A client
sends what its screen offers: a card it sees in its hand and, to play it, sees
mana for, at a target that `GetValidTargets.cpp` accepts. It may send again
before it has the answer.

### 2.3 The economy

A handler is idle, at a statement, or done and waiting for its caller to hear the
answer. PostgreSQL appears by the behaviour the code relies on: READ COMMITTED,
an UPDATE waits for the row lock of an open transaction, an INSERT for an open
transaction with the same unique key, and a transaction that fails leaves nothing
behind. `Fails` is any statement that fails, or a restart of the service. The
client is one thread; while `call` is not "none" it waits. It may give up
waiting, and the handler goes on for nobody. Debouncing, coalescing and backing
off choose when a flush happens; the model lets it happen at any time.
A pack is a function from draws to cards; copies above `maxCardCopies` are
refunded in the order of the draws, as in `openPack`. Quitting the client from the
pack screen is leaving it. The inventory row exists, since registration creates it.

### 2.4 Decks

A handler of `DeckService` reads, deletes and inserts in separate actions, and no
statement here is part of a transaction, so each commits at once; `uid` is the primary
key of both tables, so an INSERT of a second row fails. `filler` is
`FillDecksFromInventories` in an instance that starts while another one serves: it
selects all inventories once and then goes from user to user. `BuildDeckCounts` and
`CountDeckCards` are folds over the catalogue. `DeckBuilder` is the editor:
`call` is the HTTP call its thread is in, and a call follows another where the code
makes it without returning to the event loop. `blind` remembers that a card was added while the
inventory was not loaded, or the cached copies were more than those stored, which
is what `getRemainingCount` and a failed flush of the pack screen allow.
`faults` counts failed statements, lost answers and deletions by a tool.

### 2.5 Accounts

`worker[w].at` says at which statement, Redis command or call a request of the auth service
is. A registration takes a worker of the auth service and then a handler of
`DeckService`, twice; the call ends with the answer or without one (5 seconds), and then
the user is deleted, while the handler may go on. A login is GET of the
user's key, SET of it, SET of the session's; a logout is the middleware's GET, the
handler's GET, DEL of both. Keys expire after 24 hours, in one action each, when
the login that set them is over. Passwords, names and the third of the guards that read the
same key are left out. User ids are serial: `used` are those given. `overlap` remembers
that two logins of one user were between GET and SET at once, or that a user's key
expired before the session's.

### 2.6 The client's board

`server` is the table the server has, `channel` the lines that are sent and not handled,
`table` the client's. `held` are `deferredStatUpdates`; `pending` the zones of
`pendingDestroys`, in which a creature stands for 520 ms more; `barrier`, `queued` and `active`
say whether an update must wait. `EndOfFrame` is the rest of `Playing::update`: any of
the pending creatures may be due, an animation may start or end, and with none
running all held updates are applied. A frame handles one line at most (`framed`): the server writes each
line in an `SSL_write` of its own (`PlayerConnection.cpp:90`), a TLS record, and the client does one
`SSL_read` a frame (`NetworkClient.cpp:271`). For the same reason the lines that follow MATCH_START are
read by Playing and none is lost. `overtaken` is history: a play or a snapshot was applied
before a line that came earlier and that it depends on.

### 2.7 The server's threads

`acceptor`, `disconnector` and `stopper` (the main thread in `stop()`) each have a place and a
connection; `reader[c]` and `sender[c]` are the threads of each connection. One
action is what a thread does between two points at which it may wait or be seen.
`Frees` waits for a write (`writeMutex`) and for no read; `JoinsReader` waits for the
read thread. `misused` records a read or write of an SSL object that was freed.

## 3. Runs

| run | module, specification | bounds | result |
|---|---|---|---|
| `lobby_leave` | MCMatchmaking, Spec | 3 clients, 2 may leave | 1,644,336 states, no error |
| `lobby_refines` | MCMatchmaking, Spec | 3 clients, none leaves, 1 requeue each | 377,244 states, no error |
| `lobby_live` | MCMatchmaking, LiveSpec | 2 clients, both may leave, 1 may be stranded | 14,259 states, no error |
| `server_life` | ServerLife, FairSpec | 2 connections | 21,828 states, no error |
| `match_rules` | MCMatchSession, Spec | 16 cards in 5 pairs of decks of 3, 2 lanes, 2 rounds | 1,163,400 states, no error |
| `match_quit` | MCMatchSession, FairSpec | a spell that decides and a creature in 2 pairs of decks, 1 lane, 1 round, 2 queued messages, both may quit | 92,352 states, no error |
| `economy` | Economy, LiveSpec | 2 handlers, 1 session, 1 card, 1 reward, 1 pack | 497,044 states, no error |
| `credit_lost` | Economy, Spec | 2 handlers, 1 session, no reward, 1 pack | `CreditStands` violated |
| `decks` | MCDecks, Spec | 2 users, 2 handlers, 3 cards, decks of 2, 1 fault | 1,833,139 states, no error |
| `accounts` | MCAccounts, Spec | 2 clients, 2 users, 2 sessions, 2 workers, 1 handler, 1 email, 1 fault | 1,588,462 states, no error |
| `board` | MCClientBoard, Spec | 1 lane, 2 cards, 5 lines after the opening, 3 on the way | 2,066,503 states, no error |
| `board_drift` | MCClientBoard, SmoothSpec | the same | `SelfCorrects` violated |

What they show:

- `lobby_leave`: a session exists only for a match both players accepted; an
  unlocked queue holds at most one player; no client on the Waiting screen is
  forgotten, and no player is paired with himself, although clients disconnect in the
  middle of pairing, accepting and cancelling, which queues the other player again.
  Three clients are the smallest number for which such a player meets somebody new.
- `lobby_refines`: while nobody disconnects or accepts twice, every behaviour of
  the threads is one of `Lobby`, in which a player is offered another player. (With
  two accepts or with a disconnect it is not: see the disagreements below.)
- `lobby_live`: two clients do not wait for ever next to each other; a client that
  is gone is stopped, though its read thread waits for `queueMutex` and is joined by
  another thread; its match leaves `activeMatches`. Stranded clients are those whose
  deck download fails on MATCH_START: they stay on the Waiting screen.
- `match_rules`: at most one player's health is at or below 0, and it is the
  loser's; a lane without a creature has nothing of the last one; no creature
  stands with a toughness of 0; the seats are interchangeable in combat up to the moment the match
  ends; and creatures without keywords fight as the README of the repository
  says. The decks are chosen so that every effect handler is reached: damage,
  healing, augments of one creature and of a side, setting numbers, granted keywords,
  forced draws and discards, mana, double strike, trample, deathtouch, regen
  and lifesteal. Two lanes suffice for effects over a side; a hand limit of 3 and
  decks of 3 reach the full hand and fatigue in two rounds; a health of 5 lets
  matches be decided by combat, by effects and by fatigue.
- `match_quit`: a client that goes away ends the match, and so does a surrender,
  whatever is queued before it. With two messages in one batch, no copy of a card appears and a decided match stays
  decided: the same card sent twice, a card behind a surrender or behind the blow that decides. The
  spell is Equivalent Exchange (5 damage against a health of 2), the creature Vampire Bat: the shortest decks in
  which a batch holds a message behind the decision. `match_rules` has one message on the way, and is there
  for the cards.
- `economy`: a purchase is credited once, whatever webhooks and polls overlap; an
  event Stripe was told is credited is in the ledger; a paid session is credited in
  the end; no coin appears; counts stay within `maxCardCopies`. Two handlers are
  what an overlap takes; every further handler repeats one of them. One session
  suffices, since sessions differ only in the key of the ledger. The prices
  keep what matters about the real ones: a pack costs all a player starts with, and
  a refund is less than a card's share of the price.

- `server_life`: while the server is up no connection is taken down under its read
  thread; `stop()` ends whatever the other threads are doing, and when it has ended
  nothing it ever accepted is open. Two connections are what it takes for one to be in
  the hands of the disconnect thread while another is in the accept thread's or `stop()`'s.
- `decks`: whoever stores a deck, and however saves, fills, deletions and a starting
  instance cross, a stored deck has `DECK_SIZE` cards; it is dealt as the README says;
  a player who came to the queue through Play has one, and owns its cards unless `blind`;
  an instance that has come to the end of its loop has given every user a deck who had an
  inventory when it began. Two handlers are what a crossing takes; three cards
  and decks of two, with rows of no card, one and two, reach decks that are cut, that fit and that
  are filled up; one fault at any statement, because two independent ones only
  combine what each does.
- `accounts`: a registration answered with 201 is a whole account, whatever failed; without a
  fault none is ever half made. A user has one session, and a refused login was refused for a
  session somebody holds, except for what the properties name: a fault,
  two logins between GET and SET, two keys that expire one after the other. Two
  clients that want the same email, two user ids (one may be deleted by a rollback) and two
  sessions reach both races. A history variable keeps the exceptions apart, so the
  properties say that there are no others.
- `board`: when the client has handled all lines and holds none back, it shows the server's
  table, unless a line was overtaken; a snapshot never leaves a false
  creature, health or card on the screen, however wrong the copy was. A line, a snapshot and
  three lines between them are on the way at once; `board_drift` needs a card of which a deck
  has three copies, and one lane is enough since lanes do not
  share anything but the hand. In `board_drift` moreover no frame is long enough for an
  animation to begin and end in it while lines wait (`SmoothSpec`), so that the disagreement owes nothing to a client
  that stands still.

Deadlock is checked for `economy`, `decks` and `accounts`. The lobby may come to rest
when all clients have left or wait for a player, a match when it is over, the client's
board when the bound on lines is reached, the server when it has stopped.

### The violations

Each run disagrees with a sentence of the repository, quoted in `PROJECT.json`.

1. `credit_lost`. The pack screen saves the coins it shows as the new balance. What
   Stripe credited since they were loaded is gone, and its ledger row keeps it from
   being credited again.
2. `board_drift`. A snapshot puts the hands right and then fills the lanes, taking a lane's
   card from the hand before the deck (`Playing.cpp:1117`). A creature dies while the animation of its summon
   runs, so the DESTROY is held back (`:791`); another copy of the card is played into the lane at once, finds the
   zone taken (`Board.cpp:20`) and is in no container any more (`:1217`); a third copy is drawn, and the lane
   is cleared at the end of the animation. The snapshot that follows confirms the third copy in the hand,
   finds the lane empty and takes that copy for it.

Eight more disagreements the models contain. The configurations exclude 3 to 7 by a
bound; 8, 9 and 10 occur in them, and no sentence of the repository says that they should not:

3. The reward of a match is added by reading the row and saving it as a whole (`inventory.service.go:292`);
   a purchase that a webhook credits in between is overwritten, with no pack screen involved: with
   `MaxRewards = 1`, `Start = 0` and `PackCost = 5` TLC finds `CreditStands` violated.
4. A disconnect callback decides under the lock to cancel a pending match and
   acts after giving the lock up (`MatchManager.cpp:69`). If the match is accepted
   by both in between, it starts, and the other player is told MATCH_CANCELLED
   and queued while it plays. When it has won and queues again it stands in the queue
   twice and is paired with itself: nothing that queues a player looks whether it is
   queued already. With two clients, one of which may leave, and `MaxRequeues = 1`,
   TLC finds `TwoDifferentPlayers` violated.
5. The winner is told MATCH_WON before `endMatch` asks the cards service for the
   reward and sets the connection back to Waiting (`MatchSession.cpp:1358`). A QUEUE sent in
   between goes to the match's handler and is lost: with `MaxRequeues = 1` and two
   clients `NobodyForgotten` fails.
6. When both players of a pending match disconnect, one callback queues the other
   player without looking whether it is still alive, after the other's own
   removal from the queue (`MatchManager.cpp:77`).
7. `onAccept` finds the pending match, gives the lock up, takes it again and does not look
   whether the match is still pending (`MatchManager.cpp:49`): with
   `MaxAccepts = 2` two game threads may run one match.
8. A creature whose power is 0 does not attack an empty lane, and its OnKill effect
   fires as if it had killed somebody there (`MatchSession.cpp:1283`).
9. A card that is discarded twice before the first answer arrives is paid for twice,
   and lies in the discard pile twice (`MatchSession.cpp:674`).
10. MATCH_ACCEPT does not say what it accepts (`MatchManager.cpp:38`). A match is cancelled while the accept of
   the other player is on its way; that player is queued and paired again, and its accept counts for the
   new match, before it has seen the offer. TLC reaches this in `lobby_leave`, with one click for each offer.

### Fairness

- Lobby: weak fairness of each read thread's steps in a handler, of the disconnect
  thread, and of the game threads' start, disconnect handling and ending: they are
  operating-system threads that block only on mutexes that are given up again.
  `LiveSpec` adds clients that read their socket. No client is obliged to click,
  and no match is obliged to be decided.
- Server: weak fairness of each thread. That includes that a handshake ends and a
  write is taken, or that the connection breaks: both are done by blocking calls
  without a timeout, so a client that stays connected and silent would hold the accept thread, and
  `stop()` with it, for as long as it likes. `StopEnds` leaves out a disconnect thread that sets
  `disconnectRunning` only after `stop()` has cleared it: it is started with the server, and a
  signal in that instant would leave `stop()` waiting.
- Decks, accounts, board: safety only.
- Match: weak fairness of the game thread, a loop that never blocks for long.
- Economy: weak fairness of each handler and of the answer to Stripe (heard or
  lost); strong fairness of delivering an event that is not acknowledged, because
  Stripe repeats it; and `Fails` does not go on for ever, without which nothing
  can be promised. No fairness for the client: a payment is credited even if
  the client never polls.

## 4. Proofs

The theorems hold for every value of the constants within the named assumptions.

| theorem | states |
|---|---|
| `MatchmakingProofs!TypeCorrect` | TypeOK |
| `MatchmakingProofs!SessionsAreAccepted` | AcceptedByBoth |
| `MatchmakingProofs!QueueIsPairedOff` | NoTwoInQueue |
| `MatchmakingProofs!NobodyForgottenHolds` | NobodyForgotten, when nobody queues a second time and nobody is stranded |
| `MatchmakingProofs!PairsAreTwo` | TwoDifferentPlayers, when nobody queues a second time |
| `MatchmakingProofs!LobbyIsImplemented` | ImplementsLobby, when nobody leaves or accepts twice |
| `MatchmakingProofs!PairsAreTwoWhoStay` | TwoDifferentPlayers, under the same assumption, with requeues |
| `MatchSessionProofs!MatchTypeCorrect` | TypeOK |
| `MatchSessionProofs!AtMostOneLoser` | OneLoser |
| `MatchSessionProofs!NothingInherited` | EmptyLanesAreBare |
| `MatchSessionProofs!NoDeadCreature` | CreaturesStand |
| `MatchSessionProofs!OutcomeIsFinal` | DecidedStands |
| `MatchSessionProofs!CardsAreNeverCopied` | NoCardAppears |
| `MatchSessionProofs!BattlesByTheBook` | BattleByTheBook |
| `MatchSessionProofs!CombatFavoursNobody` | CombatIsFair |
| `EconomyProofs!EconomyTypeCorrect` | TypeOK |
| `EconomyProofs!AckedAreCredited` | AckedIsCredited |
| `EconomyProofs!NoCoinFromNowhere` | NoMinting |
| `ServerLifeProofs!ServerTypeCorrect` | TypeOK |
| `ServerLifeProofs!ReadersAreLeftAlone` | ReadsLive |
| `ServerLifeProofs!NothingIsLeft` | AllClosed |
| `AccountsProofs!UsersHaveOneSession` | OneSession |
| `AccountsProofs!RefusalsAreTrue` | RefusalIsTrue |
| `AccountsProofs!AccountTypes` | TypeOK |
| `AccountsProofs!WelcomedForGood` | AccountsAreWhole |
| `DeckProofs!TypeCorrect` | TypeOK |
| `DeckProofs!DecksAreFull` | DeckIsFull, when the catalogue is not smaller than a deck |
| `DeckProofs!FillIsDocumented` | FillsAsDocumented, under the same assumption |
| `DeckProofs!QueuedWithDeck` | QueuedHasDeck |
| `DeckProofs!OnlyOwnedCards` | OwnedUnlessBlind, when the starter cards are enough for a deck |
| `DeckProofs!FillReachesAll` | FilledAtStart |
| `ClientBoardProofs!TypeCorrect` | TypeOK |
| `ClientBoardProofs!NothingFalseShown` | NothingFalse |
| `ClientBoardProofs!MirrorsServer` | Mirrors |
| `ClientBoardProofs!SnapshotsCorrect` | the part of `README.md:110` that holds: a snapshot is shown exactly, unless something was overtaken |

**Lobby.** `IInv` adds to the three properties what the threads know. A thread
between two critical sections holds the index of a match that exists
(`LocalsOK`): without it nothing could be said of the match it goes on with. The
length of the queue follows from where the holder of `queueMutex` is: two while it
pairs, none while it tells the players (`QueueOK`). One lemma per action shows
that each keeps `IInv`; `removePlayer` on a queue is a recursive function, for which
the lemmas `WithoutOne` and `WithoutShort` show all that is needed, on queues of at most
one player.

`NobodyForgotten` needs `Seating`: whoever is on the Waiting screen is accounted for by a
message, by the thread that is about to queue it, by the queue, or by a match that is
not over (`AllSeated`), and the threads that move it from one of these to the
next know that it was there (`ThreadsKnow`); a client joins once and is new when it
does (`JoinsOnce`, `NewcomersAreNew`). `TwoDifferentPlayers` needs the converse, `OnePlace`: a
client has at most one of these places, and only one place in the queue. Both stop at the two
disagreements of section 3: with a second QUEUE the first fails by item 5 and the second by item 4, and
a client whose deck download fails stays on the Waiting screen with no place at all.

The refinement of `Lobby` is about clients that requeue as often as they like. A client is passed from
hand to hand: its own connect, a message in its box, its read thread, the queue, a pending match,
a game thread, a result in the other box, the result screen. `LInv` says that nobody is in two hands
(`OneAt`), which is more than `Lobby` says, since most hands are no seat; that a connection in a match belongs
to that match only (`OnSessions`); and that an acceptance is under way at most once and then for
a match that is still pending and has not counted it (`OneStage`, `Awaited`). With that no second session is ever
built for a match. `InvSeatsAgree` then reads the refinement mapping off the queue, the pending matches and the
sessions: `EnqueuePlayer` is `Join`, `TryCreateMatch` is `Offer`, the second `OnAccept` of a match is `Begin`,
`BackToWaiting` is `Finish`, and every other step changes no seat. `Leavers = {}` and `MaxAccepts <= 1` are needed:
items 4 and 7 of section 3 are behaviours in which one player's seat changes without the other's. TLC checked each
conjunct of `LInv` with three clients, one requeue and a stranded client before it was proved.

**Match.** Every operation of `GameRules` is shown to preserve `Good`: the types with
a board on which a lane is either bare or holds a creature that stands, and a loser
who is the one whose health is at or below 0, exactly when the match no longer runs.
The operations call each other, so the lemmas follow the call graph from `AugmentHP`
up to `ResolveLaneCombat`, and `MatchInductive` needs one line per action. The proof
depends on `RulesAssumption`: creatures are printed with a toughness above 0, no card
sets a toughness or a health below 1 or takes the regen keyword away, and a card has at most two effects.
The 47 cards satisfy it (TLC evaluates it in every run): a card that set a health to 0
would break `OneLoser`, because `setHP` does not look.

The action properties follow the same call graph. `DecidedStands`: every operation looks at
`running` before it touches what the property names (`Stands`); drawing does not, and a
draw from an empty deck is stopped by the look in `augmentHP`. `NoCardAppears`: an operation
either keeps deck and hand and takes creatures off the board only (`Keeps`), or moves one card
(`Within`, a good state with no more copies than before). `BattleByTheBook`: without keywords each
half of an exchange comes down to one subtraction (`AfterStrike`), and an attack phase is entered
and goes on only while the match runs (`AttackRuns`). A creature without the regen keyword has no regen
left to count, which is why `Good` says so.

`CombatIsFair` compares two resolutions of one lane, of which the code makes one. Every
operation commutes with exchanging the seats (the lemmas `Mirror...`, from `AugmentHP` up to
`TriggerCardEffects` and the stages of a combat), so combat on the mirrored match is the
same combat with player B's creature first. What one creature does in a stage is a new row and
pile on the other side and a new health on its own (`Part`), read from a side that the
other creature's part leaves alone; so ticks, strikes and touches may be taken in either order
(`PartsCommute`). At most one creature has killed the other, and no card effect puts one
on the board (`KillsCommute`). The overflows add to the two healths and commute until one
reaches 0 (`OverflowsCommute`): there the property stops.

**Economy.** Three layers. `Typed`: every variable has its type, and what a handler
works on fits the place it is at. `Once`: no open transaction inserts a session
that is in the ledger, no two insert the same one, and an answer of success on its
way to Stripe is about a session in the ledger. `Money`: no balance that is
stored, shown, read by a handler or about to be written exceeds `Limit`, which is
what the player has been given less the rewards under way. That correction is the
point of the invariant: a reward counts as given when the match is won, so while the
handler works a balance may not already contain it. Then adding it to whatever
old copy was read cannot exceed the new limit. Steps of the client and of Stripe
share one lemma (`Quiet`): to a handler they do nothing, give it up, or give a free one
a request for coins that are on the screen. The assumption is that a pack costs more
than its refunds (500 coins against at most 5 times 10).

**Server threads.** `IInv` says in whose hands each connection is: the accept thread has one
whose reader is not started; the disconnect thread one whose reader has told of its end and that
nobody has stopped (`HandsOK`, `StoppedOK`); `stop()` one that is among no clients any
more; and every open connection is in somebody's hands (`Accounted`). `ReadsLive` needs that
a connection enters the disconnect queue once and only by its own reader (`QueueOK`,
`UntoldOK`); `AllClosed` needs which threads have ended by when (`JoinedOK`).

**Accounts.** The properties are about runs in which nothing fails, so the invariant is an
implication. Always: what a request knows at each place of its handler (`WorkerTypes`).
While nothing has failed: each request belongs to one client that waits for it (`Waiting`), a
session id is known to one client or one login (`Holding`), and the two keys of Redis agree
as far as requests under way allow (`Keys`). While moreover no logins have overlapped
they agree altogether (`Strict`). `RefusalIsTrue` follows from `Keys`, since it
must hold after an overlap too; `OneSession` follows from `Strict`. The handlers of the cards
service and the registration's calls to them touch none of these variables, which one lemma says
(a fault they suffer only makes the implication easier).

The other half is about whole accounts. An id is given once, so one request registers it
(`Requests`); a handler given up on by the auth service goes on for a user whose registration has
ended (`Serving`). `Whole` then follows the registration: what is stored of a user at each place
of the handler, what the roll-back takes away, and that nothing takes away from a user who was welcomed.
The cards service's handlers meet it through the invariant of `DeckServiceProofs`.

**Decks.** `buildDeckCounts` is a fold over the catalogue, and what it deals is shown by well-founded
induction stated of sets of numbers (`SetInduction`): a set with 0, and with n + 1 for each n in it,
has every number, because the numbers outside it would have a smallest. From there: a deal of at most the owned cards, then of one of each in
ascending order, and full whenever the catalogue is not smaller than a deck. `DeckServiceProofs` gives the rows
and the handlers' knowledge of them (`ServiceInv`); `DeckProofs` adds what the editor shows and sends
(`EditorTypes`, `Screens`), who is served by whom (`Handling`), what was stored and from which inventory
(`Stored`, `Rows`, `Owning`), and which users the start-up has passed (`Passed`). Two theorems need an
assumption on the numbers: DeckSize <= MaxCard (30 against 47 cards), and that the starter cards are
enough for a deck (8 cards, 4 of each, against 30). `DECK_SIZE` is an environment variable: a deployment
that sets it above either number has decks that are not full, or that hold cards nobody owns.

**Client board.** `Mirrors` says nothing of a client that has lines to come, so its invariant speaks of the tables
in between. The lines on the way lead from some table to the server's, each line legal for the
table it finds (`Behind`); the server's step adds one at the far end, a handled line takes one off at
the near end. Unless something was overtaken, the near end is what the client shows (`Mirroring`), in two parts.
Health and lanes: the held updates, applied in order to what will show when the creatures that are to die
have gone (`Shows`), end at that table, and each finds its creature on the way (`Waits`). Cards: the client has
the hands and decks of that table (`Follows`), which is why a snapshot finds what it needs. A play is the hard step, since it is applied before updates that came
earlier: it lands in the same place as if it had waited because a lane that ends empty, with no destruction of it held, was
empty all along (`EmptyBefore`, an induction from the last held update to the first). Updates are held only while
something runs that lets them out (`Delays`), so an update that is applied at once passes none.

`TypeCorrect` rests on the snapshot: each of its steps moves a card from hand or deck to a lane or
removes one (`GoodPlaced`, `HandSyncedIs`), so the decks bound what is shown. `NothingFalseShown` is the same walk
through the lanes (`SyncedIs`), for a client in any state. `SnapshotsCorrect` adds the cards in hand: a client with nothing
overtaken finds in its deck every card the snapshot deals it (`SnapshotFits`). The run `board_drift` shows that without
that condition it fails. Held updates, cleared lanes, the lanes of a snapshot and
the opening are folds; each comes with a lemma that gives its values one by one (`FlushRuns`, `ClearRuns`,
`SyncRuns`, `DrawRuns`). The assumption on the constants is that the opening hands are drawn from the decks
(`ClientBoardAssumption`), as `sendOpeningHands` draws them (`MatchSession.cpp:379`).

**Only model-checked.** Liveness, which is beyond this prover as `ENABLED` is: `SomebodyGetsAMatch`, `GoneIsStopped`,
`GoneLeavesMatches`, `StopEnds`, `GoneEndsMatch`, `SurrenderEndsMatch` and `PaidIsCredited`. Every other property
of a passing run is a theorem. No module uses a RECURSIVE operator.

## 5. Where the documentation differs

Seen while modelling; each is a plain difference between a sentence and a constant
or a branch, and needs no run:

- `README.md:76` says the opening hand has 5 cards; `MatchSession.cpp:380` draws 6.
- `README.md:76` says 7 is the maximum hand; card effects draw past it
  (`MatchSession.cpp:389`), only the timed draw observes it.
- `README.md:76` says an empty deck costs fatigue every draw phase; with a full
  hand nothing is drawn and nothing is lost (`MatchSession.cpp:416`).
- Card 29, Final Gambit, sets the caster's health to 10 and damages the opponent by
  the difference; below 10 it raises the caster and heals the opponent
  (`MatchSession.cpp:1062`, `TriggerEffects.cpp:123`).
- `Matchmaker.cpp:9` does not look for duplicates. That nobody is matched with himself
  (`TwoDifferentPlayers`) depends on the states a connection passes through, which one
  race breaks (item 4 of section 3).
- `README.md:175` and the shop promise a balance that includes every payment; the pack
  screen's exact write does not (finding 1).
- `PlayerConnection.cpp:62` says it waits "for writes to finish". `send()` looks at `ssl`
  before it takes the mutex (`:87`), so a write may start after the object is freed;
  `ServerLife` has the step (`SendWrites`).
- `saveDeckCopiesToService` takes any HTTP status for success: a deck the service refused is
  "saved" (`DeckBuilder!SaveHeard`).
- `user.repository.go:47-64` writes a reset token to the columns `password_reset_token` and
  `password_reset_token_expiry`; the columns of `models.User` are `reset_password_token`
  and `password_reset_expiry`. Passwords are not modelled.
- FULL_STATE replaces what the board says of a creature's effects, a regen with its count
  included, by the effects' names (`Playing.cpp`).
- After one failed connection the Connecting screen fails on every later Start Game until the
  client is restarted; `Loading.cpp:87` selects the login screen and goes on loading.
- The receive buffer and the combat barrier of Playing are not cleared between matches
  (`ClientBoard!Init` has the barrier).
- The API pages name other paths for the checkout status than `cards/main.go` does.

## 6. What is not modelled

- Rendering, sound, forms, animation: no state that another part reads.
- Loading and parsing decks, cards and JSON; the texts of messages.
- TLS, HTTP routing, API keys, Stripe's client: their outcomes appear as failures,
  lost answers and repeated deliveries.
- Resetting and changing a password, `GetMe`, and the seed of the card catalogue, which runs
  before anything is served. None of them touches a session, a deck or a row of an inventory.
- A game server that stops while matches run: `ServerLife` stops the connections, and what
  the game threads do to them meanwhile is reduced to `send()`.
- The client's copy of mana, fatigue, regen and discard piles.
- Small parts of handlers that are modelled, each named at its definition: a system that has no thread left for a
  match (`MatchSession.cpp:238`, `StartSession`); counts below 0 and card ids below 1, which no caller sends
  (`ClampCardCount`); an event about a session that is not paid, which the webhook answers and ignores
  (`payments.service.go:280`, `Deliver`); the title's Start Game, which leads to the queue without a save
  (`Title.cpp:198`): `QueuedHasDeck` is about Play. `FillStarts` reads the inventory and the catalogue in one step,
  since the catalogue does not change. A new user whose INSERT was answered by nobody is the one that a
  service leaves that stops one step later (`CallFails`, `WorkerStops`).
- Undefined behaviour outside the mutexes: for the shared random generator of
  `ServerDeck::shuffle` the models let any order of a deck happen; the unlocked look of
  `PlayerConnection::send` is in `ServerLife`.
- `ListInventories` and direct card payments (off by default). Several players at
  once in the economy: every handler works on one player's row, and nothing
  relates two rows.
- Hazards that no property covers and that `PROJECT.json` leaves out for room: mana is
  taken before the card is looked for in the hand (`MatchSession.cpp:561`, in `GameRules`);
  any rise of the balance counts as the payment's arrival (`Payment.cpp:321`, in `Economy`); a
  flush that saves the cards and not the coins keeps the cards as pending
  (`PackOpening.cpp:709`, in `Economy`).

Two copies of a vendored HTTP library (`httplib.h`) are 40,000 of the repository's 61,000
lines, and most of the rest of the client draws. The part of the code that keeps state
another part relies on is a small share of the whole, and it is that part which is modelled.

## 7. Plan

Done, in this order: the lobby, with its abstract specification and proofs; the
match rules; the economy; decks and the editor; accounts; the client's board; the server's
threads; then the theorems about decks, whole accounts, the action properties of a match and the
refinement of `Lobby` and the client's board. Not pursued: a module of the client's other screens, whose state is forms and focus.
