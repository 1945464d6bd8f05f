----------------------------- MODULE DeckProofs -----------------------------
(***************************************************************************)
(* Theorems about DeckBuilder.tla, for any number of users and handlers,   *)
(* any catalogue and any deck size.                                        *)
(*                                                                         *)
(* IInv adds to the invariant of the cards service (DeckServiceProofs):    *)
(*   Handling   at most one handler works for the client, at what the      *)
(*              client's call is about; every other works for nobody;      *)
(*   Screens    the deck in the editor is never too large;                 *)
(*   Stored     while nothing has failed, a save that is over has left a   *)
(*              deck, although DELETE and INSERT of another may cross it;  *)
(*   Owning     decks, and the handlers' copies of decks, are made of cards*)
(*              of the inventory, which never loses any (Rows);            *)
(*   Passed     the fill has gone past no user without a deck.             *)
(***************************************************************************)
EXTENDS DeckBuilder, DeckServiceProofs

EditorTypes ==
  /\ page \in {"title", "editor", "queue"}
  /\ call \in {"none", "deck", "inventory", "save", "refresh"}
  /\ playing \in BOOLEAN
  /\ deckCopies \in [Cards -> 0 .. MaxCopies]
  /\ copies \in [Cards -> 0 .. MaxCopies]
  /\ loaded \in BOOLEAN
  /\ blind \in BOOLEAN

Doing(hd) == hd.at \in {"read", "delete", "insert"}

\* What the client asks for in each of its calls.
AskedBy(c) == IF c = "save" THEN "save" ELSE IF c = "inventory" THEN "inventory" ELSE "get"

\* A handler works for the player: a read or a save of the client, or a deletion.
HandlerOK(hd) ==
  /\ hd.from \in {"client", "nobody"}
  /\ hd.at = "idle" => hd.from = "nobody"
  /\ hd.at = "done" => hd.from = "client"
  /\ Doing(hd) =>
       /\ hd.request.user = Player
       /\ hd.request.does \in {"get", "inventory", "save", "delete"}
       /\ hd.request.does = "save" => CountDeckCards(hd.request.cards) = DeckSize
       /\ hd.request.does = "delete" => hd.from = "nobody" /\ hd.at = "delete"
       /\ hd.at = "delete" => hd.request.does \in {"save", "delete"}
       /\ hd.at = "insert" => hd.request.does = "save"

\* The client's handler does, or has done, what the client's call c is about.
ClientOK(hd, c) ==
  hd.from = "client" =>
    /\ c # "none"
    /\ Doing(hd) => hd.request.does = AskedBy(c)
    /\ hd.at = "done" /\ hd.answer = "yes" /\ c = "deck" => Fits(hd.copy)
    /\ hd.at = "done" /\ hd.answer = "yes" /\ c = "inventory" => hd.copy \in Counts

OneCall == \A g, h \in Handlers : handler[g].from = "client" /\ handler[h].from = "client" => g = h

Handling ==
  /\ \A h \in Handlers : HandlerOK(handler[h]) /\ ClientOK(handler[h], call)
  /\ OneCall

Screens ==
  /\ page = "queue" => call = "none"
  /\ call \in {"save", "refresh"} => page = "editor"
  /\ CountDeckCards(deckCopies) <= DeckSize
  /\ inventories[Player] # NoRow

\* Without a fault a deck that was saved is there.
Stored ==
  faults = 0 =>
    /\ \A h \in Handlers : Doing(handler[h]) /\ handler[h].request.does = "save" =>
         handler[h].from = "client"
    /\ \A h \in Handlers : handler[h].at = "done" /\ call = "save" => decks[Player] # NoRow
    /\ call = "refresh" /\ playing => decks[Player] # NoRow
    /\ page = "queue" => decks[Player] # NoRow

AtMost(d, e) == \A c \in Cards : d[c] <= e[c]

\* The decks a handler works with are made of cards of inv.
OwnedWork(hd, c, inv) ==
  /\ hd.at = "read" /\ hd.request.does = "save" => AtMost(hd.request.cards, inv)
  /\ hd.at \in {"delete", "insert"} /\ hd.request.does = "save" => AtMost(hd.copy, inv)
  /\ hd.from = "client" /\ c = "deck" /\ hd.at = "done" /\ hd.answer = "yes" => AtMost(hd.copy, inv)

Rows ==
  /\ AtMost(StarterCards, inventories[Player])
  /\ filler.at \in {"look", "insert"} /\ filler.rows[Player] # NoRow =>
         /\ AtMost(StarterCards, filler.rows[Player])
         /\ AtMost(filler.rows[Player], inventories[Player])

Owning ==
  ~blind /\ DeckSize <= CountDeckCards(StarterCards) =>
    /\ decks[Player] # NoRow => AtMost(decks[Player], inventories[Player])
    /\ AtMost(deckCopies, inventories[Player])
    /\ \A h \in Handlers : OwnedWork(handler[h], call, inventories[Player])

Inserting(u) == \E h \in Handlers : handler[h].at = "insert" /\ UserOf(h) = u

\* The fill has passed only users who have a deck, or whose deck is being replaced.
Passed ==
  faults = 0 /\ filler.at \in {"look", "insert"} =>
    \A u \in Users :
      filler.rows[u] # NoRow /\ u \notin filler.todo /\ decks[u] = NoRow =>
        Inserting(u) \/ (filler.at = "insert" /\ filler.user = u)

IInv ==
  /\ ServiceInv /\ EditorTypes /\ Handling /\ Screens
  /\ Stored /\ Rows /\ Owning /\ Passed

-----------------------------------------------------------------------------
(***************************************************************************)
(* Lemmas                                                                  *)
(***************************************************************************)

\* The player is a user and the client a caller.
LEMMA PlayerType == Player \in Users /\ "client" \in Callers /\ "nobody" \in Callers
BY DeckBuilderAssumption, DeckServiceAssumption

\* What the invariant says of one handler.
LEMMA HandlerFacts ==
  ASSUME ServiceInv, Handling, NEW h \in Handlers
  PROVE  /\ handler[h] \in Handler /\ Work(handler[h])
         /\ HandlerOK(handler[h]) /\ ClientOK(handler[h], call)
         /\ Doing(handler[h]) => UserOf(h) = Player
         /\ handler[h].at \in {"idle", "read", "delete", "insert", "done"}
         /\ filler \in Filler /\ faults \in 0 .. MaxFaults
         /\ handler \in [Handlers -> Handler]
         /\ inventories \in Table /\ decks \in Table
<1>1. handler[h] \in Handler /\ handler \in [Handlers -> Handler] /\ filler \in Filler
      /\ faults \in 0 .. MaxFaults /\ inventories \in Table /\ decks \in Table
  BY DEF ServiceInv, ServiceTypes
<1>2. handler[h].at \in {"idle", "read", "delete", "insert", "done"}
  BY <1>1 DEF Handler
<1> QED BY <1>1, <1>2 DEF ServiceInv, Handling, HandlerOK, UserOf

\* A free handler works for nobody.
LEMMA IdleOK == HandlerOK(Idle) /\ Idle.from = "nobody" /\ Idle.at = "idle" /\ ~Doing(Idle)
BY DEF HandlerOK, Idle, Doing

\* A handler of the client's call that answers.
LEMMA AnsweredOK ==
  ASSUME NEW hd \in Handler, NEW answer \in Answer, NEW row \in Counts \cup {NoRow}, NEW c,
         filler \in Filler, HandlerOK(hd), ClientOK(hd, c),
         hd.from = "client" /\ answer = "yes" =>
           /\ c = "deck" => Fits(row)
           /\ c = "inventory" => row \in Counts
  PROVE  /\ HandlerOK(Answered(hd, answer, row))
         /\ ClientOK(Answered(hd, answer, row), c)
         /\ ~Doing(Answered(hd, answer, row))
         /\ Answered(hd, answer, row).from = hd.from
         /\ Answered(hd, answer, row).at # "done" => hd.from = "nobody"
         /\ Answered(hd, answer, row).at = "done" =>
              Answered(hd, answer, row).answer = answer /\ Answered(hd, answer, row).copy = row
<1>1. CASE hd.from = "nobody"
  <2>1. Answered(hd, answer, row) = Idle
    BY <1>1 DEF Answered
  <2> QED BY <1>1, <2>1, IdleOK DEF ClientOK
<1>2. CASE hd.from = "client"
  <2> DEFINE new == Answered(hd, answer, row)
  <2>1. new.at = "done" /\ new.from = hd.from /\ new.answer = answer /\ new.copy = row
    BY <1>2, AnsweredWorks
  <2>2. c # "none"
    BY <1>2 DEF ClientOK
  <2> HIDE DEF new
  <2>3. HandlerOK(new) /\ ClientOK(new, c) /\ ~Doing(new)
    BY <1>2, <2>1, <2>2 DEF HandlerOK, ClientOK, Doing
  <2> QED BY <1>2, <2>1, <2>3 DEF new
<1> QED BY <1>1, <1>2 DEF HandlerOK

\* The cards service changes one handler, which stays whom it answers.
LEMMA HandlingKept ==
  ASSUME Handling, NEW h \in Handlers, NEW hd, HandlerOK(hd), ClientOK(hd, call),
         hd.from = "client" => handler[h].from = "client",
         handler \in [Handlers -> Handler], handler' = [handler EXCEPT ![h] = hd], UNCHANGED call
  PROVE  Handling'
<1>1. handler'[h] = hd /\ \A g \in Handlers : g # h => handler'[g] = handler[g]
  OBVIOUS
<1>2. ASSUME NEW g \in Handlers
      PROVE  /\ HandlerOK(handler'[g]) /\ ClientOK(handler'[g], call')
             /\ handler'[g].from = "client" => handler[g].from = "client"
  BY <1>1 DEF Handling
<1>3. (\A g \in Handlers : HandlerOK(handler[g]) /\ ClientOK(handler[g], call))'
  BY <1>2 DEF HandlerOK, ClientOK
<1>4. OneCall'
  BY <1>2 DEF Handling, OneCall
<1> QED BY <1>3, <1>4 DEF Handling

NobodyWaits == \A h \in Handlers : handler[h].from # "client"

\* Outside a call no handler works for the client.
LEMMA NoCallNobody ==
  ASSUME Handling, call = "none"
  PROVE  NobodyWaits
BY DEF Handling, ClientOK, NobodyWaits

\* The client that has heard, or has given up, waits for nobody.
LEMMA HeardNobody ==
  ASSUME ServiceInv, Handling, NEW h \in Handlers, NEW answer, Hears(h, answer)
  PROVE  /\ NobodyWaits'
         /\ \A g \in Handlers : HandlerOK(handler'[g])
         /\ \A g \in Handlers : handler'[g].at # "idle" => handler'[g] = handler[g]
              \/ (g = h /\ handler'[g] = [handler[g] EXCEPT !.from = "nobody"]
                        /\ faults' # 0)
         /\ handler[h].from = "client" /\ handler[h].at # "idle"
         /\ faults' \in 0 .. MaxFaults /\ (faults' = 0 => faults = 0)
         /\ handler[h].at = "done" =>
              answer = handler[h].answer /\ handler'[h] = Idle /\ faults' = faults
         /\ handler[h].at # "done" => answer = "lost" /\ faults' # 0
<1>1. /\ handler[h].from = "client" /\ handler[h].at # "idle" /\ handler \in [Handlers -> Handler]
      /\ faults \in 0 .. MaxFaults
  BY DEF Hears, HearsOf, ServiceInv, ServiceTypes
<1>2. \A g \in Handlers : g # h => handler[g].from # "client"
  BY <1>1 DEF Handling, OneCall
<1>3. CASE handler[h].at = "done"
  <2>1. handler' = [handler EXCEPT ![h] = Idle] /\ faults' = faults /\ answer = handler[h].answer
    BY <1>3 DEF Hears, HearsOf
  <2>2. handler'[h] = Idle /\ \A g \in Handlers : g # h => handler'[g] = handler[g]
    BY <1>1, <2>1
  <2>3. NobodyWaits' /\ \A g \in Handlers : HandlerOK(handler'[g])
    BY <1>2, <2>2, IdleOK DEF NobodyWaits, Handling
  <2> QED BY <1>1, <1>3, <2>1, <2>2, <2>3, IdleOK
<1>4. CASE handler[h].at # "done"
  <2> DEFINE new == [handler[h] EXCEPT !.from = "nobody"]
  <2>1. handler' = [handler EXCEPT ![h] = new] /\ Fault /\ answer = "lost"
    BY <1>4 DEF Hears, HearsOf
  <2>2. handler'[h] = new /\ \A g \in Handlers : g # h => handler'[g] = handler[g]
    BY <1>1, <2>1
  <2>3. new.from = "nobody" /\ new.at = handler[h].at /\ new.request = handler[h].request
    BY <1>1 DEF Handler
  <2>4. faults' \in 0 .. MaxFaults /\ faults' # 0
    BY <1>1, <2>1, FaultType
  <2>5. new = [handler[h] EXCEPT !.from = "nobody"]
    OBVIOUS
  <2> HIDE DEF new
  <2>6. HandlerOK(new)
    BY <1>4, <2>3 DEF Handling, HandlerOK, Doing
  <2>7. NobodyWaits' /\ \A g \in Handlers : HandlerOK(handler'[g])
    BY <1>2, <2>2, <2>3, <2>6 DEF NobodyWaits, Handling
  <2> QED BY <1>1, <1>4, <2>1, <2>2, <2>4, <2>5, <2>7
<1> QED BY <1>3, <1>4

\* So any call may start.
LEMMA NobodyHandling ==
  ASSUME NobodyWaits', \A g \in Handlers : HandlerOK(handler'[g])
  PROVE  Handling'
<1>1. (\A g \in Handlers : HandlerOK(handler[g]) /\ ClientOK(handler[g], call))'
  BY DEF HandlerOK, ClientOK, NobodyWaits
<1>2. OneCall'
  BY DEF NobodyWaits, OneCall
<1> QED BY <1>1, <1>2 DEF Handling

\* A free handler takes the client's request, or a tool's.
LEMMA TakesHandling ==
  ASSUME ServiceInv, Handling, NEW caller \in {"client", "nobody"},
         NEW does \in {"get", "inventory", "save", "delete"}, NEW cards \in Counts \cup {NoRow},
         Takes(caller, Asking(does, Player, cards)),
         does = "save" => CountDeckCards(cards) = DeckSize,
         caller = "client" => does # "delete" /\ NobodyWaits /\ call' # "none" /\ AskedBy(call') = does,
         caller = "nobody" => does = "delete" /\ call' = call
  PROVE  /\ Handling'
         /\ \E h \in Handlers :
              /\ handler[h].at = "idle"
              /\ handler' = [handler EXCEPT ![h] = Working(caller, Asking(does, Player, cards))]
<1> DEFINE new == Working(caller, Asking(does, Player, cards))
<1>1. PICK h \in Handlers : handler[h].at = "idle" /\ handler' = [handler EXCEPT ![h] = new]
  BY DEF Takes
<1>2. /\ new.from = caller /\ new.request.does = does /\ new.request.user = Player
      /\ new.request.cards = cards
      /\ new.at = IF does = "delete" THEN "delete" ELSE "read"
  BY DEF Working, Asking, FirstPlace
<1> HIDE DEF new
<1>3. HandlerOK(new) /\ ClientOK(new, call')
  BY <1>2 DEF HandlerOK, ClientOK, Doing
<1>4. handler'[h] = new /\ \A g \in Handlers : g # h => handler'[g] = handler[g]
  BY <1>1 DEF ServiceInv, ServiceTypes
<1>5. \A g \in Handlers : HandlerOK(handler'[g])
  BY <1>3, <1>4 DEF Handling
<1>6. CASE caller = "client"
  <2>1. \A g \in Handlers : g # h => handler'[g].from # "client"
    BY <1>4, <1>6 DEF NobodyWaits
  <2>2. \A g \in Handlers : ClientOK(handler'[g], call')
    BY <1>3, <1>4, <2>1 DEF ClientOK
  <2>3. (\A g \in Handlers : HandlerOK(handler[g]) /\ ClientOK(handler[g], call))'
    BY <1>5, <2>2 DEF HandlerOK, ClientOK
  <2>4. OneCall'
    BY <2>1 DEF OneCall
  <2> QED BY <1>1, <2>3, <2>4 DEF Handling, new
<1>7. CASE caller = "nobody"
  <2>1. new.from # "client" /\ call' = call
    BY <1>2, <1>7
  <2>2. \A g \in Handlers : ClientOK(handler'[g], call')
    BY <1>3, <1>4, <2>1 DEF Handling
  <2>3. (\A g \in Handlers : HandlerOK(handler[g]) /\ ClientOK(handler[g], call))'
    BY <1>5, <2>2 DEF HandlerOK, ClientOK
  <2>4. OneCall'
    BY <1>4, <2>1 DEF OneCall, Handling
  <2> QED BY <1>1, <2>3, <2>4 DEF Handling, new
<1> QED BY <1>6, <1>7

-----------------------------------------------------------------------------
(***************************************************************************)
(* What one handler's step leaves alone                                    *)
(***************************************************************************)

\* The editor is not touched.
LEMMA SameScreens ==
  ASSUME EditorTypes, Screens, UNCHANGED editorVars, UNCHANGED inventories
  PROVE  EditorTypes' /\ Screens'
BY DEF EditorTypes, Screens, editorVars

\* The inventories are not touched.
LEMMA SameRows ==
  ASSUME Rows, UNCHANGED <<inventories, filler>>
  PROVE  Rows'
BY DEF Rows

\* After a fault Stored and Passed say nothing.
LEMMA FaultyIsStored ==
  ASSUME faults' # 0
  PROVE  Stored' /\ Passed'
BY DEF Stored, Passed

\* A handler of another kind than a save, which leaves the player's deck.
LEMMA StoredKept ==
  ASSUME Stored, NEW h \in Handlers, NEW hd,
         handler \in [Handlers -> Handler], handler' = [handler EXCEPT ![h] = hd],
         UNCHANGED faults, UNCHANGED editorVars,
         decks[Player] # NoRow => decks'[Player] # NoRow,
         faults = 0 /\ Doing(hd) /\ hd.request.does = "save" => hd.from = "client",
         faults = 0 /\ hd.at = "done" /\ call = "save" => decks'[Player] # NoRow
  PROVE  Stored'
<1>1. handler'[h] = hd /\ \A g \in Handlers : g # h => handler'[g] = handler[g]
  OBVIOUS
<1>2. UNCHANGED <<call, playing, page, faults>>
  BY DEF editorVars
<1>3. SUFFICES ASSUME faults = 0 PROVE Stored'
  BY <1>2 DEF Stored
<1>4. ASSUME NEW g \in Handlers
      PROVE  /\ Doing(handler'[g]) /\ handler'[g].request.does = "save" => handler'[g].from = "client"
             /\ handler'[g].at = "done" /\ call = "save" => decks'[Player] # NoRow
  BY <1>1, <1>3 DEF Stored
<1> QED BY <1>2, <1>3, <1>4 DEF Stored, Doing

Owns == ~blind /\ DeckSize <= CountDeckCards(StarterCards)

\* A handler goes on with a deck of owned cards.
LEMMA OwningKept ==
  ASSUME Owning, NEW h \in Handlers, NEW hd,
         handler \in [Handlers -> Handler], handler' = [handler EXCEPT ![h] = hd],
         UNCHANGED editorVars, UNCHANGED inventories,
         Owns => OwnedWork(hd, call, inventories[Player]),
         Owns /\ decks'[Player] # NoRow /\ decks'[Player] # decks[Player] =>
           AtMost(decks'[Player], inventories[Player])
  PROVE  Owning'
<1>1. handler'[h] = hd /\ \A g \in Handlers : g # h => handler'[g] = handler[g]
  OBVIOUS
<1>2. UNCHANGED <<call, blind, deckCopies, inventories>>
  BY DEF editorVars
<1>3. SUFFICES ASSUME Owns PROVE Owning'
  BY <1>2 DEF Owns, Owning
<1>4. decks'[Player] # NoRow => AtMost(decks'[Player], inventories[Player])
  BY <1>3 DEF Owns, Owning
<1>5. \A g \in Handlers : OwnedWork(handler'[g], call, inventories[Player])
  BY <1>1, <1>3 DEF Owns, Owning
<1>6. AtMost(deckCopies, inventories[Player])
  BY <1>3 DEF Owns, Owning
<1> QED BY <1>2, <1>4, <1>5, <1>6 DEF Owning

\* A handler that takes no deck away leaves what the fill has passed.
LEMMA PassedKept ==
  ASSUME Passed, NEW h \in Handlers, NEW hd,
         handler \in [Handlers -> Handler], handler' = [handler EXCEPT ![h] = hd],
         UNCHANGED <<filler, faults>>,
         \A u \in Users : decks'[u] = NoRow =>
           decks[u] = NoRow \/ (hd.at = "insert" /\ hd.request.user = u),
         handler[h].at = "insert" =>
           decks'[UserOf(h)] # NoRow \/ (hd.at = "insert" /\ hd.request.user = UserOf(h))
  PROVE  Passed'
<1>1. handler'[h] = hd /\ \A g \in Handlers : g # h => handler'[g] = handler[g]
  OBVIOUS
<1>2. SUFFICES ASSUME faults = 0, filler.at \in {"look", "insert"}, NEW u \in Users,
                      filler.rows[u] # NoRow, u \notin filler.todo, decks'[u] = NoRow
               PROVE  Inserting(u)' \/ (filler.at = "insert" /\ filler.user = u)
  BY DEF Passed
<1>3. ASSUME NEW g \in Handlers, handler'[g].at = "insert", handler'[g].request.user = u
      PROVE  Inserting(u)'
  BY <1>3 DEF Inserting, UserOf
<1>4. CASE hd.at = "insert" /\ hd.request.user = u
  BY <1>1, <1>3, <1>4
<1>5. CASE decks[u] = NoRow /\ ~(hd.at = "insert" /\ hd.request.user = u)
  <2>1. CASE filler.at = "insert" /\ filler.user = u
    BY <2>1
  <2>2. CASE Inserting(u)
    <3>1. PICK g \in Handlers : handler[g].at = "insert" /\ UserOf(g) = u
      BY <2>2 DEF Inserting
    <3>2. g # h
      BY <1>2, <1>5, <3>1
    <3> QED BY <1>1, <1>3, <3>1, <3>2 DEF UserOf
  <2> QED BY <1>2, <1>5, <2>1, <2>2 DEF Passed
<1> QED BY <1>2, <1>4, <1>5

-----------------------------------------------------------------------------
(***************************************************************************)
(* The cards service's steps                                               *)
(***************************************************************************)

\* The parts of the invariant.
LEMMA Parts ==
  ASSUME IInv
  PROVE  /\ ServiceInv /\ EditorTypes /\ Handling /\ Screens /\ Stored /\ Rows /\ Owning /\ Passed
         /\ handler \in [Handlers -> Handler] /\ filler \in Filler /\ decks \in Table
         /\ inventories \in Table /\ faults \in 0 .. MaxFaults
         /\ inventories[Player] \in Counts /\ Player \in Users
         /\ decks[Player] # NoRow => Fits(decks[Player])
<1>1. ServiceInv /\ Screens /\ Player \in Users
  BY PlayerType DEF IInv
<1> QED BY <1>1 DEF IInv, ServiceInv, ServiceTypes, Table, Screens

\* The steps of a handler, one by one.
LEMMA ReadRowKept ==
  ASSUME IInv, NEW h \in Handlers, ReadRow(h), UNCHANGED editorVars
  PROVE  IInv'
<1>1. /\ ServiceInv /\ Handling /\ handler[h].at = "read" /\ handler[h] \in Handler
      /\ handler[h].request.does \in {"inventory", "get"} /\ filler \in Filler
      /\ HandlerOK(handler[h]) /\ ClientOK(handler[h], call) /\ UserOf(h) = Player
  BY HandlerFacts, Parts DEF ReadRow, Doing
<1> DEFINE row == (IF handler[h].request.does = "get" THEN decks ELSE inventories)[Player]
           answer == IF row = NoRow THEN "no" ELSE "yes"
           hd == Answered(handler[h], answer, row)
<1>2. handler' = [handler EXCEPT ![h] = hd] /\ UNCHANGED <<inventories, decks, filler, faults>>
  BY <1>1 DEF ReadRow
<1>3. row \in Counts \cup {NoRow} /\ answer \in Answer /\ (answer = "yes" <=> row # NoRow)
  BY Parts DEF Table, Answer
<1>4. Doing(handler[h]) /\ (handler[h].from = "client" => handler[h].request.does = AskedBy(call))
  BY <1>1 DEF Doing, ClientOK
<1>5. handler[h].from = "client" /\ answer = "yes" =>
        /\ call = "deck" => Fits(row) /\ row = decks[Player]
        /\ call = "inventory" => row \in Counts
  BY <1>3, <1>4, Parts DEF AskedBy
<1>6. row # NoRow /\ Owns /\ row = decks[Player] => AtMost(row, inventories[Player])
  BY Parts DEF Owning, Owns
<1> HIDE DEF row, answer
<1>7. /\ HandlerOK(hd) /\ ClientOK(hd, call) /\ ~Doing(hd) /\ hd.from = handler[h].from
      /\ hd.at # "done" => handler[h].from = "nobody"
      /\ hd.at = "done" => hd.answer = answer /\ hd.copy = row
  BY <1>1, <1>3, <1>5, AnsweredOK
<1> HIDE DEF hd
<1>8. UNCHANGED call
  BY DEF editorVars
<1>9. Handling'
  BY <1>1, <1>2, <1>7, <1>8, HandlingKept, Parts
<1>10. ServiceInv'
  BY <1>1, ServiceMovesKept DEF ServiceMoves, HandlerStep
<1>11. EditorTypes' /\ Screens' /\ Rows'
  BY <1>2, SameScreens, SameRows, Parts
<1>12. ~(hd.at = "done" /\ call = "save")
  <2>1. hd.at = "done" => hd.from = "client"
    BY <1>7 DEF HandlerOK
  <2> QED BY <1>1, <1>4, <1>7, <2>1 DEF AskedBy
<1>13. Stored'
  BY <1>2, <1>7, <1>12, StoredKept, Parts
<1>14. Owns => OwnedWork(hd, call, inventories[Player])
  BY <1>3, <1>5, <1>6, <1>7 DEF OwnedWork, Doing
<1>15. Owning'
  BY <1>2, <1>14, OwningKept, Parts
<1>16. Passed'
  BY <1>1, <1>2, PassedKept, Parts
<1> QED BY <1>9, <1>10, <1>11, <1>13, <1>15, <1>16 DEF IInv

\* CreateDeck checks the size.
LEMMA SaveStartsKept ==
  ASSUME IInv, NEW h \in Handlers, SaveStarts(h), UNCHANGED editorVars
  PROVE  IInv'
<1>1. /\ ServiceInv /\ Handling /\ handler[h].at = "read" /\ handler[h] \in Handler
      /\ handler[h].request.does = "save" /\ filler \in Filler
      /\ HandlerOK(handler[h]) /\ ClientOK(handler[h], call) /\ UserOf(h) = Player
      /\ Work(handler[h])
  BY HandlerFacts, Parts DEF SaveStarts, Doing
<1>2. CountDeckCards(handler[h].request.cards) = DeckSize /\ Doing(handler[h])
  BY <1>1 DEF HandlerOK, Doing
<1>3. PICK place \in {"insert", "delete"} :
        handler' = [handler EXCEPT ![h].copy = handler[h].request.cards, ![h].at = place]
  BY <1>2 DEF SaveStarts
<1> DEFINE hd == [handler[h] EXCEPT !.copy = handler[h].request.cards, !.at = place]
<1>4. handler' = [handler EXCEPT ![h] = hd] /\ UNCHANGED <<inventories, decks, filler>>
  BY <1>3 DEF SaveStarts
<1>5. hd.at = place /\ hd.copy = handler[h].request.cards /\ hd.request = handler[h].request
      /\ hd.from = handler[h].from
  BY <1>1 DEF Handler
<1> HIDE DEF hd
<1>6. HandlerOK(hd) /\ ClientOK(hd, call) /\ Doing(hd)
  BY <1>1, <1>2, <1>5 DEF HandlerOK, ClientOK, Doing
<1>7. UNCHANGED call /\ (UNCHANGED faults \/ faults' # 0)
  BY <1>2, FaultType, Parts DEF editorVars, SaveStarts
<1>8. Handling'
  BY <1>4, <1>5, <1>6, <1>7, HandlingKept, Parts
<1>9. ServiceInv'
  BY <1>1, ServiceMovesKept DEF ServiceMoves, HandlerStep
<1>10. EditorTypes' /\ Screens' /\ Rows'
  BY <1>4, SameScreens, SameRows, Parts
<1>11. Stored' /\ Passed'
  <2>1. CASE faults' # 0
    BY <2>1, FaultyIsStored
  <2>2. CASE UNCHANGED faults
    <3>1. faults = 0 => handler[h].from = "client"
      BY <1>1, <1>2, Parts DEF Stored
    <3>2. Stored'
      BY <1>4, <1>5, <2>2, <3>1, StoredKept, Parts
    <3> QED BY <1>1, <1>4, <2>2, <3>2, PassedKept, Parts
  <2> QED BY <1>7, <2>1, <2>2
<1>12. Owns => OwnedWork(hd, call, inventories[Player])
  <2>1. Owns => AtMost(handler[h].request.cards, inventories[Player])
    BY <1>1, <1>2, Parts DEF Owning, Owns, OwnedWork
  <2> QED BY <1>5, <2>1 DEF OwnedWork
<1>13. Owning'
  BY <1>4, <1>12, OwningKept, Parts
<1> QED BY <1>8, <1>9, <1>10, <1>11, <1>13 DEF IInv

\* A statement fails.
LEMMA FailsKeptHere ==
  ASSUME IInv, NEW h \in Handlers, Fails(h), UNCHANGED editorVars
  PROVE  IInv'
<1>1. PICK answer \in {"no", "lost"} :
        handler' = [handler EXCEPT ![h] = Answered(handler[h], answer, NoRow)]
  BY DEF Fails, Answers
<1>2. /\ handler[h] \in Handler /\ HandlerOK(handler[h]) /\ ClientOK(handler[h], call)
      /\ answer \in Answer /\ NoRow \in Counts \cup {NoRow} /\ answer # "yes"
  BY HandlerFacts, Parts DEF Answer
<1> DEFINE hd == Answered(handler[h], answer, NoRow)
<1>3. /\ HandlerOK(hd) /\ ClientOK(hd, call) /\ ~Doing(hd) /\ hd.from = handler[h].from
      /\ hd.at = "done" => hd.answer = answer
  BY <1>2, AnsweredOK, Parts
<1>4. handler' = [handler EXCEPT ![h] = hd] /\ UNCHANGED <<inventories, decks, filler>>
  BY <1>1 DEF Fails
<1> HIDE DEF hd
<1>5. UNCHANGED call /\ faults' # 0
  BY FaultType, Parts DEF editorVars, Fails
<1>6. Handling'
  BY <1>3, <1>4, <1>5, HandlingKept, Parts
<1>7. ServiceInv'
  BY FailsKept, Parts
<1>8. EditorTypes' /\ Screens' /\ Rows' /\ Stored' /\ Passed'
  BY <1>4, <1>5, SameScreens, SameRows, FaultyIsStored, Parts
<1>9. OwnedWork(hd, call, inventories[Player])
  BY <1>2, <1>3 DEF OwnedWork, Doing
<1>10. Owning'
  BY <1>4, <1>9, OwningKept, Parts
<1> QED BY <1>6, <1>7, <1>8, <1>10 DEF IInv

\* The DELETE of a save, or of a tool.
LEMMA DeleteRowKept ==
  ASSUME IInv, NEW h \in Handlers, DeleteRow(h), UNCHANGED editorVars
  PROVE  IInv'
<1>1. /\ ServiceInv /\ Handling /\ handler[h].at = "delete" /\ handler[h] \in Handler
      /\ Doing(handler[h]) /\ handler[h].request.does \in {"save", "delete"}
      /\ HandlerOK(handler[h]) /\ ClientOK(handler[h], call) /\ UserOf(h) = Player
  <2>1. handler[h].at = "delete" /\ Doing(handler[h])
    BY DEF DeleteRow, Doing
  <2> QED BY <2>1, HandlerFacts, Parts DEF HandlerOK
<1>2. /\ decks' = [decks EXCEPT ![Player] = NoRow]
      /\ UNCHANGED <<inventories, filler>> /\ UNCHANGED call
  BY <1>1 DEF DeleteRow, editorVars
<1>3. decks'[Player] = NoRow /\ \A u \in Users : u # Player => decks'[u] = decks[u]
  BY <1>2, Parts DEF Table
<1>4. ServiceInv'
  BY <1>1, ServiceMovesKept DEF ServiceMoves, HandlerStep
<1>5. EditorTypes' /\ Screens' /\ Rows'
  BY <1>2, SameScreens, SameRows, Parts
<1>6. CASE handler[h].request.does = "delete"
  <2> DEFINE hd == Answered(handler[h], "yes", NoRow)
  <2>1. handler' = [handler EXCEPT ![h] = hd] /\ faults' # 0
    BY <1>6, FaultType, Parts DEF DeleteRow, Answers
  <2>2. handler[h].from = "nobody"
    BY <1>1, <1>6 DEF HandlerOK
  <2>3. hd = Idle
    BY <2>2 DEF Answered
  <2> HIDE DEF hd
  <2>4. HandlerOK(hd) /\ ClientOK(hd, call) /\ hd.from = "nobody" /\ ~Doing(hd) /\ hd.at = "idle"
    BY <2>3, IdleOK DEF ClientOK
  <2>5. Handling'
    BY <1>2, <2>1, <2>4, HandlingKept, Parts
  <2>6. OwnedWork(hd, call, inventories[Player])
    BY <2>4 DEF OwnedWork, Doing
  <2>7. Owning'
    BY <1>2, <1>3, <2>1, <2>6, OwningKept, Parts
  <2> QED BY <1>4, <1>5, <2>1, <2>5, <2>7, FaultyIsStored DEF IInv
<1>7. CASE handler[h].request.does = "save"
  <2> DEFINE hd == [handler[h] EXCEPT !.at = "insert"]
  <2>1. handler' = [handler EXCEPT ![h] = hd] /\ UNCHANGED faults
    BY <1>7 DEF DeleteRow, Moves
  <2>2. hd.at = "insert" /\ hd.copy = handler[h].copy /\ hd.request = handler[h].request
        /\ hd.from = handler[h].from
    BY <1>1 DEF Handler
  <2> HIDE DEF hd
  <2>3. HandlerOK(hd) /\ ClientOK(hd, call) /\ Doing(hd)
    BY <1>1, <1>7, <2>2 DEF HandlerOK, ClientOK, Doing
  <2>4. Handling'
    BY <1>2, <2>1, <2>2, <2>3, HandlingKept, Parts
  <2>5. Stored'
    <3>1. SUFFICES ASSUME faults = 0 PROVE Stored'
      BY <2>1 DEF Stored
    <3>2. handler[h].from = "client"
      BY <1>1, <1>7, <3>1, Parts DEF Stored
    <3>3. call = "save"
      BY <1>1, <1>7, <3>2 DEF ClientOK, AskedBy
    <3>4. page = "editor"
      BY <3>3, Parts DEF Screens
    <3>5. \A g \in Handlers : handler[g].at = "done" => g = h
      BY <3>2, Parts DEF Handling, HandlerOK, OneCall
    <3>6. \A g \in Handlers : handler'[g].at # "done"
      BY <2>1, <2>2, <3>5, Parts
    <3>7. \A g \in Handlers : Doing(handler'[g]) /\ handler'[g].request.does = "save"
                              => handler'[g].from = "client"
      BY <2>1, <2>2, <3>1, <3>2, Parts DEF Stored
    <3>8. call' = "save" /\ page' = "editor"
      BY <3>3, <3>4 DEF editorVars
    <3> QED BY <3>6, <3>7, <3>8 DEF Stored, Doing
  <2>6. Owns => OwnedWork(hd, call, inventories[Player])
    <3>1. Owns => OwnedWork(handler[h], call, inventories[Player])
      BY Parts DEF Owning, Owns
    <3> QED BY <1>1, <2>2, <3>1 DEF OwnedWork, Doing
  <2>7. Owning'
    BY <1>2, <1>3, <2>1, <2>6, OwningKept, Parts
  <2>8. hd.at = "insert" /\ hd.request.user = Player
    BY <1>1, <2>2 DEF UserOf
  <2>9. Passed'
    BY <1>1, <1>2, <1>3, <2>1, <2>8, PassedKept, Parts
  <2> QED BY <1>4, <1>5, <2>4, <2>5, <2>7, <2>9 DEF IInv
<1> QED BY <1>1, <1>6, <1>7

\* The INSERT of a save.
LEMMA InsertDeckKept ==
  ASSUME IInv, NEW h \in Handlers, InsertDeck(h), UNCHANGED editorVars
  PROVE  IInv'
<1>1. /\ ServiceInv /\ Handling /\ handler[h].at = "insert" /\ handler[h] \in Handler
      /\ Doing(handler[h]) /\ handler[h].request.does = "save"
      /\ HandlerOK(handler[h]) /\ ClientOK(handler[h], call) /\ UserOf(h) = Player
      /\ Fits(handler[h].copy)
  <2>1. handler[h].at = "insert" /\ Doing(handler[h])
    BY DEF InsertDeck, Doing
  <2>2. HandlerOK(handler[h]) /\ Work(handler[h])
    BY HandlerFacts, Parts
  <2>3. handler[h].request.does = "save"
    BY <2>1, <2>2 DEF HandlerOK
  <2> QED BY <2>1, <2>2, <2>3, HandlerFacts, Parts DEF Work
<1>2. PICK answer \in {"yes", "no"} :
        /\ handler' = [handler EXCEPT ![h] = Answered(handler[h], answer, NoRow)]
        /\ IF decks[Player] = NoRow
           THEN decks' = [decks EXCEPT ![Player] = handler[h].copy] ELSE UNCHANGED decks
  BY <1>1 DEF InsertDeck, Answers
<1>3. UNCHANGED <<inventories, filler, faults>> /\ UNCHANGED call
  BY DEF InsertDeck, editorVars
<1>4. /\ decks'[Player] # NoRow
      /\ decks'[Player] # decks[Player] => decks'[Player] = handler[h].copy
      /\ \A u \in Users : decks'[u] = NoRow => decks[u] = NoRow
  BY <1>1, <1>2, Parts, DeckServiceAssumption DEF Table, Fits
<1> DEFINE hd == Answered(handler[h], answer, NoRow)
<1>5. answer \in Answer /\ NoRow \in Counts \cup {NoRow} /\ filler \in Filler
  BY Parts DEF Answer
<1>6. handler[h].from = "client" => call # "deck" /\ call # "inventory"
  BY <1>1 DEF ClientOK, AskedBy
<1>7. /\ HandlerOK(hd) /\ ClientOK(hd, call) /\ ~Doing(hd) /\ hd.from = handler[h].from
  BY <1>1, <1>5, <1>6, AnsweredOK
<1> HIDE DEF hd
<1>8. handler' = [handler EXCEPT ![h] = hd]
  BY <1>2 DEF hd
<1>9. Handling'
  BY <1>3, <1>7, <1>8, HandlingKept, Parts
<1>10. ServiceInv'
  BY <1>1, ServiceMovesKept DEF ServiceMoves, HandlerStep
<1>11. EditorTypes' /\ Screens' /\ Rows'
  BY <1>3, SameScreens, SameRows, Parts
<1>12. Stored'
  BY <1>3, <1>4, <1>7, <1>8, StoredKept, Parts
<1>13. Owns => OwnedWork(hd, call, inventories[Player]) /\ AtMost(handler[h].copy, inventories[Player])
  <2>1. Owns => OwnedWork(handler[h], call, inventories[Player])
    BY Parts DEF Owning, Owns
  <2> QED BY <1>1, <1>6, <1>7, <2>1 DEF OwnedWork, Doing
<1>14. Owning'
  BY <1>3, <1>4, <1>8, <1>13, OwningKept, Parts
<1>15. Passed'
  BY <1>1, <1>3, <1>4, <1>8, PassedKept, Parts
<1> QED BY <1>9, <1>10, <1>11, <1>12, <1>14, <1>15 DEF IInv

\* No handler of this system fills a deck or makes an inventory.
LEMMA HandlerStepKeptHere ==
  ASSUME IInv, NEW h \in Handlers, HandlerStep(h), UNCHANGED editorVars
  PROVE  IInv'
<1>1. ~FillStarts(h) /\ ~InsertInventory(h)
  <2>1. HandlerOK(handler[h])
    BY HandlerFacts, Parts
  <2> QED BY <2>1 DEF HandlerOK, Doing, FillStarts, InsertInventory
<1> QED BY <1>1, ReadRowKept, SaveStartsKept, DeleteRowKept, InsertDeckKept DEF HandlerStep

\* An inventory that is enough for a deck is dealt alone.
LEMMA DealtOwned ==
  ASSUME NEW inventory \in Counts, DeckSize <= CountDeckCards(inventory)
  PROVE  AtMost(BuildDeckCounts(inventory), inventory)
<1>1. PICK owned \in Building :
           /\ CountDeckCards(owned.deck) + owned.remaining = DeckSize
           /\ \A c \in Cards : owned.deck[c] <= inventory[c]
           /\ owned.remaining > 0 => \A c \in Cards : owned.deck[c] = inventory[c]
           /\ \A c \in Cards : BuildDeckCounts(inventory)[c] =
                IF c <= owned.remaining THEN owned.deck[c] + 1 ELSE owned.deck[c]
  BY BuildIs
<1>2. owned.deck \in Counts /\ owned.remaining \in Nat
  BY DEF Building
<1>3. CountDeckCards(owned.deck) \in Nat /\ CountDeckCards(inventory) \in Nat /\ DeckSize \in Nat
  BY <1>2, CountType, DeckServiceAssumption
<1>4. owned.remaining = 0
  <2> SUFFICES ASSUME owned.remaining > 0 PROVE FALSE
    BY <1>2
  <2>1. \A c \in Cards : inventory[c] <= owned.deck[c]
    <3>1. inventory \in [Cards -> Nat]
      BY DEF Counts
    <3> QED BY <1>1, <3>1
  <2>2. CountDeckCards(inventory) <= CountDeckCards(owned.deck)
    BY <1>2, <2>1, CountMonotone
  <2> QED BY <1>1, <1>2, <1>3, <2>2
<1>5. \A c \in Cards : BuildDeckCounts(inventory)[c] = owned.deck[c]
  <2>1. \A c \in Cards : ~(c <= 0)
    BY CardsAreNumbers
  <2> QED BY <1>1, <1>4, <2>1
<1> QED BY <1>1, <1>5 DEF AtMost

\* An inventory with the starter cards is enough.
LEMMA EnoughCards ==
  ASSUME NEW inventory \in Counts, AtMost(StarterCards, inventory),
         DeckSize <= CountDeckCards(StarterCards)
  PROVE  AtMost(BuildDeckCounts(inventory), inventory)
<1>1. CountDeckCards(StarterCards) <= CountDeckCards(inventory)
  BY StarterType, CountMonotone DEF AtMost
<1>2. DeckSize <= CountDeckCards(inventory)
  BY <1>1, StarterType, CountType, DeckServiceAssumption
<1> QED BY <1>2, DealtOwned

\* AtMost orders the decks.
LEMMA AtMostItself ==
  ASSUME NEW d \in Counts
  PROVE  AtMost(d, d)
<1>1. \A c \in Cards : d[c] \in Nat
  BY DEF Counts
<1> QED BY <1>1 DEF AtMost

\* And it is transitive.
LEMMA AtMostOfAtMost ==
  ASSUME NEW d \in Counts, NEW e \in Counts, NEW f \in Counts, AtMost(d, e), AtMost(e, f)
  PROVE  AtMost(d, f)
<1>1. \A c \in Cards : d[c] \in Nat /\ e[c] \in Nat /\ f[c] \in Nat /\ d[c] <= e[c] /\ e[c] <= f[c]
  BY DEF Counts, AtMost
<1> QED BY <1>1 DEF AtMost

\* The fill at start-up.
LEMMA FillerKeptHere ==
  ASSUME IInv, FillerStep \/ FillerStops, UNCHANGED editorVars
  PROVE  IInv'
<1>1. UNCHANGED <<inventories, handler, faults>>
  BY DEF FillerStep, FillerStarts, FillerInserts, FillerEnds, FillerLooks, FillerStops
<1>2. /\ filler.rows \in Table /\ filler.todo \in SUBSET Users /\ filler.user \in Users
      /\ filler.at \in {"off", "look", "insert", "ended"}
      /\ filler.at = "insert" => filler.rows[filler.user] \in Counts
  <2>1. filler.rows \in Table /\ filler.todo \in SUBSET Users /\ filler.user \in Users
        /\ filler.at \in {"off", "look", "insert", "ended"}
    BY Parts DEF Filler
  <2>2. filler.at = "insert" => filler.rows[filler.user] # NoRow
    BY Parts DEF ServiceInv, FillerWork
  <2> QED BY <2>1, <2>2 DEF Table
<1>3. ServiceInv'
  BY Parts, FillerKept
<1>4. EditorTypes' /\ Screens'
  BY <1>1, SameScreens, Parts
<1>5. Handling'
  BY <1>1, Parts DEF Handling, HandlerOK, ClientOK, OneCall, editorVars
<1>6. UNCHANGED <<call, page, playing, blind, deckCopies>>
  BY DEF editorVars
<1>7. SUFFICES ASSUME \A u \in Users : decks[u] # NoRow => decks'[u] # NoRow,
                      Owns /\ decks'[Player] # NoRow /\ decks'[Player] # decks[Player] =>
                        AtMost(decks'[Player], inventories[Player])
               PROVE  IInv'
  <2>1. CASE UNCHANGED decks
    BY <1>7, <2>1
  <2>2. CASE ~UNCHANGED decks
    <3> DEFINE deck == BuildDeckCounts(filler.rows[filler.user])
    <3>1. filler.at = "insert" /\ decks' = [decks EXCEPT ![filler.user] = deck]
      BY <2>2 DEF FillerStep, FillerStarts, FillerInserts, FillerEnds, FillerLooks, FillerStops
    <3>2. deck \in Counts
      BY <1>2, <3>1, BuildIs
    <3>3. filler.user = Player /\ Owns => AtMost(deck, inventories[Player])
      <4> SUFFICES ASSUME filler.user = Player, Owns PROVE AtMost(deck, inventories[Player])
        OBVIOUS
      <4>1. filler.rows[Player] \in Counts
        BY <1>2, <3>1
      <4>2. AtMost(StarterCards, filler.rows[Player]) /\ AtMost(filler.rows[Player], inventories[Player])
        BY <3>1, <4>1, Parts, DeckServiceAssumption DEF Rows
      <4>3. AtMost(deck, filler.rows[Player])
        BY <4>1, <4>2, EnoughCards DEF Owns
      <4> HIDE DEF deck
      <4> QED BY <3>2, <4>1, <4>2, <4>3, AtMostOfAtMost, Parts
    <3> HIDE DEF deck
    <3>4. decks'[filler.user] = deck /\ \A u \in Users : u # filler.user => decks'[u] = decks[u]
      BY <1>2, <3>1, Parts DEF Table
    <3> QED BY <1>7, <3>2, <3>3, <3>4, PlayerType, DeckServiceAssumption
  <2> QED BY <2>1, <2>2
<1>8. Stored'
  <2>1. decks[Player] # NoRow => decks'[Player] # NoRow
    BY <1>7, Parts
  <2> QED BY <1>1, <1>6, <2>1, Parts DEF Stored, Doing
<1>9. Owning'
  <2> SUFFICES ASSUME Owns PROVE Owning'
    BY <1>6 DEF Owning, Owns
  <2>1. decks'[Player] # NoRow => AtMost(decks'[Player], inventories[Player])
    BY <1>7, Parts DEF Owning, Owns
  <2>2. AtMost(deckCopies, inventories[Player])
        /\ \A h \in Handlers : OwnedWork(handler[h], call, inventories[Player])
    BY Parts DEF Owning, Owns
  <2> QED BY <1>1, <1>6, <2>1, <2>2 DEF Owning
<1>10. Rows' /\ Passed'
  <2>1. CASE FillerStarts
    <3> DEFINE new == [filler EXCEPT !.at = "look", !.rows = inventories,
                                     !.todo = {u \in Users : inventories[u] # NoRow}]
    <3>1. filler' = new
      BY <2>1 DEF FillerStarts
    <3>2. new.at = "look" /\ new.rows = inventories /\ new.todo = {u \in Users : inventories[u] # NoRow}
      BY Parts DEF Filler
    <3> HIDE DEF new
    <3>3. Rows'
      BY <1>1, <3>1, <3>2, Parts, AtMostItself DEF Rows
    <3> QED BY <3>1, <3>2, <3>3, <1>1 DEF Passed
  <2>2. CASE FillerInserts
    <3>1. filler.at = "insert"
      BY <2>2 DEF FillerInserts
    <3>2. CASE decks[filler.user] = NoRow
      <4> DEFINE new == [filler EXCEPT !.at = "look"]
                 deck == BuildDeckCounts(filler.rows[filler.user])
      <4>1. filler' = new /\ decks' = [decks EXCEPT ![filler.user] = deck]
        BY <2>2, <3>2 DEF FillerInserts
      <4>2. new.at = "look" /\ new.rows = filler.rows /\ new.todo = filler.todo
        BY Parts DEF Filler
      <4>3. deck \in Counts
        BY <1>2, <3>1, BuildIs
      <4> HIDE DEF new, deck
      <4>4. decks'[filler.user] # NoRow
        BY <1>2, <4>1, <4>3, Parts, DeckServiceAssumption DEF Table
      <4>5. Rows'
        BY <1>1, <3>1, <4>1, <4>2, Parts DEF Rows
      <4>6. Passed'
        <5> SUFFICES ASSUME faults = 0, NEW u \in Users, filler.rows[u] # NoRow,
                            u \notin filler.todo, decks'[u] = NoRow
                     PROVE  Inserting(u)'
          BY <1>1, <4>1, <4>2 DEF Passed
        <5>1. u # filler.user /\ decks[u] = NoRow
          BY <1>7, <4>4
        <5>2. Inserting(u)
          BY <3>1, <5>1, Parts DEF Passed
        <5> QED BY <1>1, <5>2 DEF Inserting, UserOf
      <4> QED BY <4>5, <4>6
    <3>3. CASE decks[filler.user] # NoRow
      <4>1. filler'.at = "off"
        BY <2>2, <3>3 DEF FillerInserts, FillerOff
      <4> QED BY <1>1, <4>1, Parts DEF Rows, Passed
    <3> QED BY <3>2, <3>3
  <2>3. CASE FillerEnds \/ FillerStops
    <3>1. filler'.at \in {"ended", "off"}
      <4>1. CASE FillerEnds
        <5>1. filler' = [filler EXCEPT !.at = "ended", !.rows = NobodyHasOne]
          BY <4>1 DEF FillerEnds
        <5> QED BY <5>1, Parts DEF Filler
      <4>2. CASE FillerStops
        BY <4>2 DEF FillerStops, FillerOff
      <4> QED BY <2>3, <4>1, <4>2
    <3> QED BY <1>1, <3>1, Parts DEF Rows, Passed
  <2>4. ASSUME NEW u \in Users, FillerLooks(u)
        PROVE  Rows' /\ Passed'
    <3>1. u \in filler.todo /\ UNCHANGED decks /\ filler.at = "look"
      BY <2>4 DEF FillerLooks
    <3>2. /\ filler'.rows = filler.rows /\ filler'.todo = filler.todo \ {u}
          /\ decks[u] = NoRow => filler'.at = "insert" /\ filler'.user = u
          /\ decks[u] # NoRow => filler'.at = "look"
      <4>1. CASE decks[u] = NoRow
        <5>1. filler' = [filler EXCEPT !.at = "insert", !.user = u, !.todo = @ \ {u}]
          BY <2>4, <4>1 DEF FillerLooks
        <5> QED BY <4>1, <5>1, Parts DEF Filler
      <4>2. CASE decks[u] # NoRow
        <5>1. filler' = [filler EXCEPT !.todo = @ \ {u}]
          BY <2>4, <4>2 DEF FillerLooks
        <5> QED BY <3>1, <4>2, <5>1, Parts DEF Filler
      <4> QED BY <4>1, <4>2
    <3>3. Rows'
      BY <1>1, <3>1, <3>2, Parts DEF Rows
    <3>4. Passed'
      <4> SUFFICES ASSUME faults = 0, NEW v \in Users, filler.rows[v] # NoRow,
                          v \notin filler.todo \ {u}, decks[v] = NoRow
                   PROVE  Inserting(v)' \/ (filler'.at = "insert" /\ filler'.user = v)
        BY <1>1, <3>1, <3>2 DEF Passed
      <4>1. CASE v = u
        BY <3>2, <4>1
      <4>2. CASE v # u
        <5>1. Inserting(v)
          BY <3>1, <4>2, Parts DEF Passed
        <5> QED BY <1>1, <5>1 DEF Inserting, UserOf
      <4> QED BY <4>1, <4>2
    <3> QED BY <3>3, <3>4
  <2> QED BY <2>1, <2>2, <2>3, <2>4 DEF FillerStep
<1> QED BY <1>3, <1>4, <1>5, <1>8, <1>9, <1>10 DEF IInv

\* All of the cards service.
LEMMA ServiceNextKept ==
  ASSUME IInv, ServiceNext
  PROVE  IInv'
BY FillerKeptHere, HandlerStepKeptHere, FailsKeptHere DEF ServiceNext

-----------------------------------------------------------------------------
(***************************************************************************)
(* The client's steps                                                      *)
(***************************************************************************)

\* The client's thread goes into a call and a free handler takes its request.
LEMMA AskKept ==
  ASSUME IInv, NobodyWaits, NEW does \in {"get", "inventory", "save"},
         NEW cards \in Counts \cup {NoRow},
         Takes("client", Asking(does, Player, cards)),
         UNCHANGED <<inventories, decks, filler, faults, deckCopies, blind>>,
         EditorTypes', page' # "queue", call' # "none", AskedBy(call') = does,
         call' \in {"save", "refresh"} => page' = "editor",
         faults = 0 /\ call' = "refresh" /\ playing' => decks[Player] # NoRow,
         does = "save" =>
           /\ cards \in Counts /\ CountDeckCards(cards) = DeckSize
           /\ Owns => AtMost(cards, inventories[Player])
  PROVE  IInv'
<1>1. Asking(does, Player, cards) \in Request
      /\ Asking(does, Player, cards).does = does /\ Asking(does, Player, cards).cards = cards
  BY PlayerType DEF Asking, Request
<1>2. ServiceInv'
  BY <1>1, PlayerType, Parts, TakesKept
<1>3. /\ Handling'
      /\ \E h \in Handlers :
              /\ handler[h].at = "idle"
              /\ handler' = [handler EXCEPT ![h] = Working("client", Asking(does, Player, cards))]
  BY TakesHandling, Parts
<1>4. PICK h \in Handlers :
              /\ handler[h].at = "idle"
              /\ handler' = [handler EXCEPT ![h] = Working("client", Asking(does, Player, cards))]
  BY <1>3
<1> DEFINE hd == Working("client", Asking(does, Player, cards))
<1>5. hd.at = "read" /\ hd.from = "client" /\ hd.request.does = does /\ hd.request.cards = cards
  BY DEF Working, Asking, FirstPlace
<1>6. handler' = [handler EXCEPT ![h] = hd]
  BY <1>4
<1> HIDE DEF hd
<1>7. handler'[h] = hd /\ \A g \in Handlers : g # h => handler'[g] = handler[g]
  BY <1>6, Parts
<1>8. Screens' /\ Rows'
  BY Parts DEF Screens, Rows
<1>9. Stored'
  <2> SUFFICES ASSUME faults = 0 PROVE Stored'
    BY DEF Stored
  <2>1. \A g \in Handlers : handler'[g].at # "done"
    BY <1>5, <1>7, Parts DEF NobodyWaits, Handling, HandlerOK
  <2>2. \A g \in Handlers : Doing(handler'[g]) /\ handler'[g].request.does = "save"
                            => handler'[g].from = "client"
    BY <1>5, <1>7, Parts DEF Stored
  <2> QED BY <2>1, <2>2 DEF Stored, Doing
<1>10. Owning'
  <2> SUFFICES ASSUME Owns PROVE Owning'
    BY DEF Owning, Owns
  <2>1. OwnedWork(hd, call', inventories[Player])
    BY <1>5 DEF OwnedWork, Doing
  <2>2. ASSUME NEW g \in Handlers, g # h
        PROVE  OwnedWork(handler'[g], call', inventories[Player])
    <3>1. OwnedWork(handler[g], call, inventories[Player]) /\ handler[g].from # "client"
      BY Parts DEF Owning, Owns, NobodyWaits
    <3> QED BY <1>7, <2>2, <3>1 DEF OwnedWork
  <2>3. \A g \in Handlers : OwnedWork(handler'[g], call', inventories[Player])
    BY <1>7, <2>1, <2>2
  <2>4. AtMost(deckCopies, inventories[Player])
        /\ (decks[Player] # NoRow => AtMost(decks[Player], inventories[Player]))
    BY Parts DEF Owning, Owns
  <2> QED BY <2>3, <2>4 DEF Owning
<1>11. Passed'
  BY <1>4, <1>6, PassedKept, Parts
<1> QED BY <1>2, <1>3, <1>8, <1>9, <1>10, <1>11 DEF IInv

\* The client's thread comes out of a call.
LEMMA HeardKept ==
  ASSUME IInv, NEW h \in Handlers, NEW answer, Hears(h, answer),
         UNCHANGED <<inventories, decks, filler, blind>>,
         EditorTypes', Screens',
         Owns => AtMost(deckCopies', inventories[Player]),
         faults = 0 /\ call' = "refresh" /\ playing' /\ handler[h].at = "done" =>
           decks[Player] # NoRow,
         faults = 0 /\ page' = "queue" => decks[Player] # NoRow
  PROVE  IInv'
<1>1. /\ NobodyWaits'
      /\ \A g \in Handlers : HandlerOK(handler'[g])
      /\ \A g \in Handlers : handler'[g].at # "idle" => handler'[g] = handler[g]
              \/ (g = h /\ handler'[g] = [handler[g] EXCEPT !.from = "nobody"]
                        /\ faults' # 0)
      /\ faults' = 0 => faults = 0
      /\ handler[h].at = "done" => handler'[h] = Idle /\ faults' = faults
      /\ handler[h].at # "done" => faults' # 0
  BY HeardNobody, Parts
<1>2. ServiceInv'
  BY HearsKept, Parts DEF Hears
<1>3. Handling'
  BY <1>1, NobodyHandling
<1>4. Rows'
  BY Parts DEF Rows
<1>5. Stored'
  <2> SUFFICES ASSUME faults' = 0 PROVE Stored'
    BY DEF Stored
  <2>1. faults = 0 /\ handler[h].at = "done"
    BY <1>1
  <2>2. \A g \in Handlers : handler'[g].at # "done"
    BY <1>1 DEF NobodyWaits, HandlerOK
  <2>3. ASSUME NEW g \in Handlers, Doing(handler'[g]), handler'[g].request.does = "save"
        PROVE  handler'[g].from = "client"
    <3>1. handler'[g] = handler[g]
      BY <1>1, <2>3 DEF Doing
    <3> QED BY <2>1, <2>3, <3>1, Parts DEF Stored
  <2> QED BY <2>1, <2>2, <2>3 DEF Stored, Doing
<1>6. Owning'
  <2> SUFFICES ASSUME Owns PROVE Owning'
    BY DEF Owning, Owns
  <2>1. ASSUME NEW g \in Handlers
        PROVE  OwnedWork(handler'[g], call', inventories[Player])
    <3>1. OwnedWork(handler[g], call, inventories[Player]) /\ handler'[g].from # "client"
      BY <1>1, Parts DEF Owning, Owns, NobodyWaits
    <3>2. CASE handler'[g].at = "idle"
      BY <3>1, <3>2 DEF OwnedWork, Doing
    <3>3. CASE handler'[g].at # "idle"
      <4>1. handler'[g].at = handler[g].at /\ handler'[g].request = handler[g].request
            /\ handler'[g].copy = handler[g].copy
        BY <1>1, <3>3, Parts DEF Handler
      <4> QED BY <3>1, <4>1 DEF OwnedWork, Doing
    <3> QED BY <3>2, <3>3
  <2>2. decks[Player] # NoRow => AtMost(decks[Player], inventories[Player])
    BY Parts DEF Owning, Owns
  <2> QED BY <2>1, <2>2 DEF Owning
<1>7. Passed'
  <2>1. CASE faults' # 0
    BY <2>1 DEF Passed
  <2>2. CASE faults' = 0
    <3>1. handler[h].at = "done" /\ faults' = faults
      BY <1>1, <2>2
    <3>2. handler' = [handler EXCEPT ![h] = Idle]
      BY <3>1 DEF Hears, HearsOf
    <3> QED BY <3>1, <3>2, PassedKept, Parts
  <2> QED BY <2>1, <2>2
<1> QED BY <1>2, <1>3, <1>4, <1>5, <1>6, <1>7 DEF IInv

\* The player does something outside a call.
LEMMA EditKept ==
  ASSUME IInv, call = "none", UNCHANGED serviceVars, UNCHANGED playing,
         call' \in {"none", "inventory"}, EditorTypes', Screens',
         page' = "queue" => page = "queue",
         ~blind' => ~blind, Owns' => AtMost(deckCopies', inventories[Player])
  PROVE  IInv'
<1>1. NobodyWaits
  BY NoCallNobody, Parts
<1>2. UNCHANGED <<inventories, decks, handler, filler, faults>>
  BY DEF serviceVars
<1>3. ServiceInv' /\ Rows' /\ Passed'
  <2>1. ServiceInv'
    BY <1>2, Parts DEF ServiceInv, ServiceTypes, FillerWork
  <2>2. Rows' /\ Passed'
    BY <1>2, Parts DEF Rows, Passed, Inserting, UserOf
  <2> QED BY <2>1, <2>2
<1>4. Handling'
  BY <1>1, <1>2, NobodyHandling, Parts DEF NobodyWaits, Handling
<1>5. Stored'
  BY <1>1, <1>2, Parts DEF Stored, Doing, NobodyWaits, Handling, HandlerOK
<1>6. Owning'
  <2> SUFFICES ASSUME Owns' PROVE Owning'
    BY DEF Owning, Owns
  <2>1. Owns
    BY DEF Owns
  <2>2. \A g \in Handlers : OwnedWork(handler[g], call', inventories[Player])
    BY <1>1, <2>1, Parts DEF Owning, Owns, NobodyWaits, OwnedWork
  <2>3. decks[Player] # NoRow => AtMost(decks[Player], inventories[Player])
    BY <2>1, Parts DEF Owning, Owns
  <2> QED BY <1>2, <2>2, <2>3 DEF Owning
<1> QED BY <1>3, <1>4, <1>5, <1>6 DEF IInv

\* What came is made into a deck of the editor.
LEMMA ClampedIs ==
  ASSUME NEW d \in Counts
  PROVE  /\ Clamped(d) \in [Cards -> 0 .. MaxCopies]
         /\ Clamped(d) \in Counts
         /\ AtMost(Clamped(d), d)
         /\ CountDeckCards(Clamped(d)) <= CountDeckCards(d)
<1>1. \A c \in Cards : d[c] \in Nat
  BY DEF Counts
<1>2. \A c \in Cards : Smaller(d[c], MaxCopies) \in 0 .. MaxCopies /\ Smaller(d[c], MaxCopies) <= d[c]
                       /\ Smaller(d[c], MaxCopies) \in Nat
  BY <1>1, DeckServiceAssumption DEF Smaller
<1>3. \A c \in Cards : Clamped(d)[c] = Smaller(d[c], MaxCopies)
  BY DEF Clamped
<1>4. Clamped(d) \in [Cards -> 0 .. MaxCopies] /\ Clamped(d) \in Counts
  BY <1>2 DEF Clamped, Counts
<1>5. \A c \in Cards : Clamped(d)[c] <= d[c]
  BY <1>2, <1>3
<1> QED BY <1>4, <1>5, CountMonotone DEF AtMost

\* The empty deck of the editor.
LEMMA NoCardsIs ==
  ASSUME NEW d \in Counts
  PROVE  /\ NoCards \in [Cards -> 0 .. MaxCopies] /\ AtMost(NoCards, d)
         /\ CountDeckCards(NoCards) <= DeckSize
<1>1. \A c \in Cards : d[c] \in Nat /\ NoCards[c] = 0
  BY DEF Counts, NoCards
<1>2. NoCards \in [Cards -> 0 .. MaxCopies]
  BY DeckServiceAssumption DEF NoCards
<1> QED BY <1>1, <1>2, NoCardsCount, DeckServiceAssumption DEF AtMost

\* The deck in the editor is a deck.
LEMMA EditedType ==
  ASSUME EditorTypes
  PROVE  /\ deckCopies \in Counts /\ copies \in Counts
         /\ CountDeckCards(deckCopies) \in Nat
<1>1. 0 .. MaxCopies \subseteq Nat
  OBVIOUS
<1>2. deckCopies \in Counts /\ copies \in Counts
  BY <1>1 DEF EditorTypes, Counts
<1> QED BY <1>2, CountType

\* LoadFromServer of the deck is over.
LEMMA DeckLoadedKept ==
  ASSUME IInv, NEW h \in Handlers, DeckLoaded(h)
  PROVE  IInv'
<1>1. PICK answer \in Answer :
        /\ Hears(h, answer)
        /\ deckCopies' = IF answer = "yes" THEN Clamped(handler[h].copy) ELSE NoCards
  BY DEF DeckLoaded
<1>2. /\ call = "deck" /\ call' \in {"none", "inventory"}
      /\ UNCHANGED <<inventories, decks, filler, page, playing, copies, loaded, blind>>
  BY DEF DeckLoaded
<1>3. /\ handler[h].from = "client"
      /\ answer = "yes" => handler[h].at = "done" /\ handler[h].answer = "yes"
  BY <1>1 DEF Hears, HearsOf
<1>4. answer = "yes" => Fits(handler[h].copy)
  <2>1. ClientOK(handler[h], call)
    BY HandlerFacts, Parts
  <2> QED BY <1>2, <1>3, <2>1 DEF ClientOK
<1>5. answer = "yes" /\ Owns => AtMost(handler[h].copy, inventories[Player])
  <2>1. Owns => OwnedWork(handler[h], call, inventories[Player])
    BY Parts DEF Owning, Owns
  <2> QED BY <1>2, <1>3, <2>1 DEF OwnedWork
<1>6. /\ deckCopies' \in [Cards -> 0 .. MaxCopies]
      /\ CountDeckCards(deckCopies') <= DeckSize
      /\ Owns => AtMost(deckCopies', inventories[Player])
  <2>1. CASE answer = "yes"
    <3> DEFINE d == handler[h].copy
    <3>1. d \in Counts /\ CountDeckCards(d) <= DeckSize
      BY <1>4, <2>1 DEF Fits
    <3>2. Owns => AtMost(d, inventories[Player])
      BY <1>5, <2>1
    <3>3. deckCopies' = Clamped(d)
      BY <1>1, <2>1
    <3> HIDE DEF d
    <3>4. /\ Clamped(d) \in [Cards -> 0 .. MaxCopies] /\ Clamped(d) \in Counts
          /\ AtMost(Clamped(d), d) /\ CountDeckCards(Clamped(d)) <= CountDeckCards(d)
      BY <3>1, ClampedIs
    <3>5. CountDeckCards(Clamped(d)) <= DeckSize
      BY <3>1, <3>4, CountType, DeckServiceAssumption
    <3>6. Owns => AtMost(Clamped(d), inventories[Player])
      BY <3>1, <3>2, <3>4, AtMostOfAtMost, Parts
    <3> QED BY <3>3, <3>4, <3>5, <3>6
  <2>2. CASE answer # "yes"
    BY <1>1, <2>2, NoCardsIs, Parts
  <2> QED BY <2>1, <2>2
<1>7. EditorTypes' /\ Screens'
  BY <1>2, <1>6, Parts DEF EditorTypes, Screens
<1>8. page' # "queue"
  BY <1>2, Parts DEF Screens
<1> QED BY <1>1, <1>2, <1>6, <1>7, <1>8, HeardKept

\* LoadFromServer of the inventory is over.
LEMMA InventoryLoadedKept ==
  ASSUME IInv, NEW h \in Handlers, InventoryLoaded(h)
  PROVE  IInv'
<1>1. PICK answer \in Answer :
        /\ Hears(h, answer)
        /\ loaded' = (answer = "yes")
        /\ copies' = IF answer = "yes" THEN Clamped(handler[h].copy) ELSE NoCards
  BY DEF InventoryLoaded
<1>2. /\ call = "inventory" /\ call' = "none"
      /\ UNCHANGED <<inventories, decks, filler, page, playing, deckCopies, blind>>
  BY DEF InventoryLoaded
<1>3. /\ handler[h].from = "client"
      /\ answer = "yes" => handler[h].at = "done" /\ handler[h].answer = "yes"
  BY <1>1 DEF Hears, HearsOf
<1>4. answer = "yes" => handler[h].copy \in Counts
  <2>1. ClientOK(handler[h], call)
    BY HandlerFacts, Parts
  <2> QED BY <1>2, <1>3, <2>1 DEF ClientOK
<1>5. copies' \in [Cards -> 0 .. MaxCopies]
  BY <1>1, <1>4, ClampedIs, NoCardsIs, Parts
<1>6. EditorTypes' /\ Screens'
  BY <1>1, <1>2, <1>5, Parts DEF EditorTypes, Screens
<1>7. page' # "queue" /\ (Owns => AtMost(deckCopies', inventories[Player]))
  BY <1>2, Parts DEF Screens, Owning, Owns
<1> QED BY <1>1, <1>2, <1>6, <1>7, HeardKept

\* A save that is over with an answer has left a deck, whoever stored it.
LEMMA SaveHeardKept ==
  ASSUME IInv, NEW h \in Handlers, SaveHeard(h)
  PROVE  IInv'
<1>1. PICK answer \in Answer :
        /\ Hears(h, answer)
        /\ call' = IF playing /\ answer = "lost" THEN "none" ELSE "refresh"
  BY DEF SaveHeard
<1>2. /\ call = "save"
      /\ UNCHANGED <<inventories, decks, filler, page, playing, deckCopies, copies, loaded, blind>>
  BY DEF SaveHeard
<1>3. page = "editor" /\ call' \in {"none", "refresh"}
  BY <1>1, <1>2, Parts DEF Screens
<1>4. EditorTypes' /\ Screens'
  BY <1>2, <1>3, Parts DEF EditorTypes, Screens
<1>5. faults = 0 /\ handler[h].at = "done" => decks[Player] # NoRow
  BY <1>2, Parts DEF Stored
<1>6. page' # "queue" /\ (Owns => AtMost(deckCopies', inventories[Player]))
  BY <1>2, <1>3, Parts DEF Owning, Owns
<1> QED BY <1>1, <1>2, <1>4, <1>5, <1>6, HeardKept

\* The read that follows a save is over.
LEMMA RefreshedKept ==
  ASSUME IInv, NEW h \in Handlers, Refreshed(h)
  PROVE  IInv'
<1>1. PICK answer \in Answer : Hears(h, answer)
  BY DEF Refreshed
<1>2. /\ call = "refresh" /\ call' = "none" /\ playing' = FALSE
      /\ page' = IF playing THEN "queue" ELSE page
      /\ UNCHANGED <<inventories, decks, filler, deckCopies, copies, loaded, blind>>
  BY DEF Refreshed
<1>3. page = "editor"
  BY <1>2, Parts DEF Screens
<1>4. EditorTypes' /\ Screens'
  BY <1>2, <1>3, Parts DEF EditorTypes, Screens
<1>5. faults = 0 /\ page' = "queue" => decks[Player] # NoRow
  BY <1>2, <1>3, Parts DEF Stored
<1>6. Owns => AtMost(deckCopies', inventories[Player])
  BY <1>2, Parts DEF Owning, Owns
<1> QED BY <1>1, <1>2, <1>4, <1>5, <1>6, HeardKept

\* The editor opens with a call.
LEMMA EnterEditorKept ==
  ASSUME IInv, EnterEditor
  PROVE  IInv'
<1>1. /\ call = "none" /\ page' = "editor" /\ call' = "deck"
      /\ Takes("client", Asking("get", Player, NoRow))
      /\ UNCHANGED <<inventories, decks, filler, faults, playing, deckCopies, copies, loaded, blind>>
  BY DEF EnterEditor, Asks
<1>2. NobodyWaits
  BY <1>1, NoCallNobody, Parts
<1>3. EditorTypes'
  BY <1>1, Parts DEF EditorTypes
<1> QED BY <1>1, <1>2, <1>3, AskKept DEF AskedBy

\* The calls that follow one another.
LEMMA AsksAgainKept ==
  ASSUME IInv, AskInventory \/ AskRefresh
  PROVE  IInv'
<1>1. UNCHANGED <<inventories, decks, filler, faults>> /\ UNCHANGED editorVars
  BY DEF AskInventory, AskRefresh
<1>2. UNCHANGED <<page, call, playing, deckCopies, copies, loaded, blind>>
  BY <1>1 DEF editorVars
<1>3. EditorTypes' /\ page # "queue"
  BY <1>2, Parts DEF EditorTypes, Screens, AskInventory, AskRefresh
<1>4. CASE AskInventory
  <2>1. /\ call = "inventory" /\ NobodyWaits
        /\ Takes("client", Asking("inventory", Player, NoRow))
    BY <1>4 DEF AskInventory, NobodyWaits
  <2> QED BY <1>1, <1>2, <1>3, <2>1, AskKept DEF AskedBy
<1>5. CASE AskRefresh
  <2>1. /\ call = "refresh" /\ NobodyWaits
        /\ Takes("client", Asking("get", Player, NoRow))
    BY <1>5 DEF AskRefresh, NobodyWaits
  <2>2. page = "editor" /\ (faults = 0 /\ playing => decks[Player] # NoRow)
    BY <2>1, Parts DEF Screens, Stored
  <2> QED BY <1>1, <1>2, <1>3, <2>1, <2>2, AskKept DEF AskedBy
<1> QED BY <1>4, <1>5

\* A save starts, with a deck of the right size only.
LEMMA SaveKept ==
  ASSUME IInv, NEW play \in BOOLEAN, Save(play)
  PROVE  IInv'
<1>1. /\ page = "editor" /\ call = "none" /\ HasFullDeck /\ playing' = play /\ call' = "save"
      /\ Takes("client", Asking("save", Player, deckCopies))
      /\ UNCHANGED <<inventories, decks, filler, faults, page, deckCopies, copies, loaded, blind>>
  BY DEF Save, Asks, AtEditor
<1>2. NobodyWaits
  BY <1>1, NoCallNobody, Parts
<1>3. EditorTypes'
  BY <1>1, Parts DEF EditorTypes
<1>4. deckCopies \in Counts /\ CountDeckCards(deckCopies) = DeckSize
  BY <1>1, EditedType, Parts, DeckServiceAssumption DEF HasFullDeck, Screens
<1>5. Owns => AtMost(deckCopies, inventories[Player])
  BY Parts DEF Owning, Owns
<1> QED BY <1>1, <1>2, <1>3, <1>4, <1>5, AskKept DEF AskedBy

\* A card more: within MaxCopies, the deck size and the copies known.
LEMMA AddCopyKept ==
  ASSUME IInv, NEW c \in Cards, AddCopy(c)
  PROVE  IInv'
<1>1. /\ page = "editor" /\ call = "none" /\ deckCopies[c] < MaxCopies
      /\ CountDeckCards(deckCopies) < DeckSize /\ RemainingCount(c) > 0
      /\ deckCopies' = [deckCopies EXCEPT ![c] = @ + 1]
      /\ blind' = (blind \/ ~loaded \/ copies[c] > inventories[Player][c])
      /\ UNCHANGED serviceVars /\ UNCHANGED <<page, call, playing, copies, loaded>>
  BY DEF AddCopy, AtEditor
<1>2. deckCopies \in [Cards -> 0 .. MaxCopies] /\ copies \in [Cards -> 0 .. MaxCopies]
      /\ deckCopies \in Counts /\ blind \in BOOLEAN
  BY EditedType, Parts DEF EditorTypes
<1>3. deckCopies[c] \in Nat /\ copies[c] \in Nat /\ deckCopies[c] + 1 \in 0 .. MaxCopies
      /\ deckCopies[c] + 1 \in Nat
  BY <1>1, <1>2, DeckServiceAssumption
<1>4. deckCopies' \in [Cards -> 0 .. MaxCopies] /\ deckCopies' \in Counts
  BY <1>1, <1>2, <1>3 DEF Counts
<1>5. /\ deckCopies'[c] = deckCopies[c] + 1
      /\ \A b \in Cards : b # c => deckCopies'[b] = deckCopies[b]
  BY <1>1, <1>2
<1>6. CountDeckCards(deckCopies') <= DeckSize
  <2>1. CountDeckCards(deckCopies') = CountDeckCards(deckCopies) + deckCopies'[c] - deckCopies[c]
    BY <1>2, <1>4, <1>5, CountChanges
  <2>2. CountDeckCards(deckCopies) \in Nat
    BY EditedType, Parts
  <2> QED BY <1>1, <1>3, <1>5, <2>1, <2>2, DeckServiceAssumption
<1>7. EditorTypes' /\ Screens'
  <2>1. blind' \in BOOLEAN
    BY <1>1
  <2>2. UNCHANGED inventories
    BY <1>1 DEF serviceVars
  <2> QED BY <1>1, <1>4, <1>6, <2>1, <2>2, Parts DEF EditorTypes, Screens
<1>8. Owns' => AtMost(deckCopies', inventories[Player])
  <2> SUFFICES ASSUME Owns' PROVE AtMost(deckCopies', inventories[Player])
    OBVIOUS
  <2>1. Owns /\ loaded /\ ~(copies[c] > inventories[Player][c])
    BY <1>1 DEF Owns
  <2>2. AtMost(deckCopies, inventories[Player])
    BY <2>1, Parts DEF Owning, Owns
  <2>3. copies[c] > deckCopies[c]
    BY <1>1, <2>1 DEF RemainingCount
  <2>4. inventories[Player][c] \in Nat
    BY Parts DEF Counts
  <2>5. deckCopies'[c] <= inventories[Player][c]
    BY <1>3, <1>5, <2>1, <2>3, <2>4
  <2> QED BY <1>5, <2>2, <2>5 DEF AtMost
<1>9. UNCHANGED <<call, page, playing>> /\ (~blind' => ~blind)
  BY <1>1
<1> QED BY <1>1, <1>7, <1>8, <1>9, EditKept

\* A card less.
LEMMA RemoveCopyKept ==
  ASSUME IInv, NEW c \in Cards, RemoveCopy(c)
  PROVE  IInv'
<1>1. /\ page = "editor" /\ call = "none" /\ deckCopies[c] > 0
      /\ deckCopies' = [deckCopies EXCEPT ![c] = @ - 1]
      /\ UNCHANGED serviceVars /\ UNCHANGED <<page, call, playing, copies, loaded, blind>>
  BY DEF RemoveCopy, AtEditor
<1>2. deckCopies \in [Cards -> 0 .. MaxCopies] /\ deckCopies \in Counts
      /\ CountDeckCards(deckCopies) \in Nat
  BY EditedType, Parts DEF EditorTypes
<1>3. deckCopies[c] \in Nat /\ deckCopies[c] - 1 \in 0 .. MaxCopies /\ deckCopies[c] - 1 \in Nat
  BY <1>1, <1>2, DeckServiceAssumption
<1>4. deckCopies' \in [Cards -> 0 .. MaxCopies] /\ deckCopies' \in Counts
  BY <1>1, <1>2, <1>3 DEF Counts
<1>5. /\ deckCopies'[c] = deckCopies[c] - 1
      /\ \A b \in Cards : b # c => deckCopies'[b] = deckCopies[b]
      /\ \A b \in Cards : deckCopies[b] \in Nat
  BY <1>1, <1>2
<1>6. AtMost(deckCopies', deckCopies)
  BY <1>3, <1>5 DEF AtMost
<1>7. CountDeckCards(deckCopies') <= DeckSize
  <2>1. CountDeckCards(deckCopies') <= CountDeckCards(deckCopies)
    BY <1>2, <1>4, <1>6, CountMonotone DEF AtMost
  <2>2. CountDeckCards(deckCopies') \in Nat /\ CountDeckCards(deckCopies) <= DeckSize
    BY <1>4, CountType, Parts DEF Screens
  <2> QED BY <1>2, <2>1, <2>2, DeckServiceAssumption
<1>8. EditorTypes' /\ Screens'
  <2>1. UNCHANGED inventories
    BY <1>1 DEF serviceVars
  <2> QED BY <1>1, <1>4, <1>7, <2>1, Parts DEF EditorTypes, Screens
<1>9. Owns' => AtMost(deckCopies', inventories[Player])
  <2> SUFFICES ASSUME Owns' PROVE AtMost(deckCopies', inventories[Player])
    OBVIOUS
  <2>1. AtMost(deckCopies, inventories[Player])
    BY <1>1, Parts DEF Owning, Owns
  <2> QED BY <1>2, <1>4, <1>6, <2>1, AtMostOfAtMost, Parts
<1>10. UNCHANGED <<call, page, playing, blind>>
  BY <1>1
<1> QED BY <1>1, <1>8, <1>9, <1>10, EditKept

\* The deck is cleared, loaded again, or left.
LEMMA OtherEditsKept ==
  ASSUME IInv, Clear \/ LeaveToTitle \/ LoadAgain
  PROVE  IInv'
<1>1. /\ call = "none" /\ UNCHANGED serviceVars /\ UNCHANGED <<playing, copies, loaded, blind>>
      /\ call' \in {"none", "inventory"} /\ page' \in {page, "title"}
      /\ call' = "inventory" => page' = "title"
      /\ deckCopies' \in {deckCopies, NoCards}
  BY DEF Clear, LeaveToTitle, LoadAgain, AtEditor
<1>2. UNCHANGED inventories
  BY <1>1 DEF serviceVars
<1>3. /\ deckCopies' \in [Cards -> 0 .. MaxCopies]
      /\ CountDeckCards(deckCopies') <= DeckSize
      /\ Owns => AtMost(deckCopies', inventories[Player])
  BY <1>1, NoCardsIs, Parts DEF EditorTypes, Screens, Owning, Owns
<1>4. EditorTypes' /\ Screens'
  BY <1>1, <1>2, <1>3, Parts DEF EditorTypes, Screens
<1>5. (page' = "queue" => page = "queue") /\ (~blind' => ~blind) /\ (Owns' => Owns)
  BY <1>1 DEF Owns
<1> QED BY <1>1, <1>3, <1>4, <1>5, EditKept

\* The pack screen changes the inventory under a deck, but takes no card away.
LEMMA KeepCardKept ==
  ASSUME IInv, NEW c \in Cards, KeepCard(c)
  PROVE  IInv'
<1>1. /\ page = "title" /\ call = "none" /\ copies[c] < MaxCopies
      /\ copies' = [copies EXCEPT ![c] = @ + 1]
      /\ UNCHANGED <<decks, handler, filler, faults, page, call, playing, deckCopies, loaded, blind>>
  BY DEF KeepCard
<1>2. /\ inventories' \in Table /\ inventories'[Player] \in Counts
      /\ AtMost(inventories[Player], inventories'[Player])
  <2>1. CASE UNCHANGED inventories
    BY <2>1, AtMostItself, Parts
  <2>2. CASE inventories' = [inventories EXCEPT ![Player][c] = @ + 1]
    <3> DEFINE row == [inventories[Player] EXCEPT ![c] = @ + 1]
    <3>1. inventories' = [inventories EXCEPT ![Player] = row]
      BY <2>2
    <3>2. inventories[Player] \in [Cards -> Nat]
      BY Parts DEF Counts
    <3>3. row \in [Cards -> Nat] /\ row[c] = inventories[Player][c] + 1
          /\ \A b \in Cards : b # c => row[b] = inventories[Player][b]
      BY <3>2
    <3>4. AtMost(inventories[Player], row)
      BY <3>2, <3>3 DEF AtMost
    <3> HIDE DEF row
    <3>5. row \in Counts
      BY <3>3 DEF Counts
    <3>6. inventories' \in Table /\ inventories'[Player] = row
      BY <3>1, <3>5, Parts DEF Table
    <3> QED BY <3>4, <3>5, <3>6
  <2> QED BY <2>1, <2>2 DEF KeepCard
<1>3. copies' \in [Cards -> 0 .. MaxCopies]
  <2>1. copies \in [Cards -> 0 .. MaxCopies]
    BY Parts DEF EditorTypes
  <2>2. copies[c] + 1 \in 0 .. MaxCopies
    BY <1>1, <2>1, DeckServiceAssumption
  <2> QED BY <1>1, <2>1, <2>2
<1>4. inventories'[Player] # NoRow
  BY <1>2, DeckServiceAssumption
<1>5. EditorTypes' /\ Screens'
  BY <1>1, <1>3, <1>4, Parts DEF EditorTypes, Screens
<1>6. ServiceInv'
  BY <1>1, <1>2, Parts DEF ServiceInv, ServiceTypes, FillerWork
<1>7. NobodyWaits
  BY <1>1, NoCallNobody, Parts
<1>8. Handling'
  BY <1>1, <1>7, NobodyHandling, Parts DEF NobodyWaits, Handling
<1>9. Stored' /\ Passed'
  BY <1>1, Parts DEF Stored, Passed, Inserting, UserOf
<1>10. Rows'
  <2>1. AtMost(StarterCards, inventories'[Player])
    BY <1>2, AtMostOfAtMost, StarterType, Parts DEF Rows
  <2>2. ASSUME filler.at \in {"look", "insert"}, filler.rows[Player] # NoRow
        PROVE  /\ AtMost(StarterCards, filler.rows[Player])
               /\ AtMost(filler.rows[Player], inventories'[Player])
    <3>1. filler.rows[Player] \in Counts
      BY <2>2, Parts DEF Filler, Table
    <3>2. AtMost(StarterCards, filler.rows[Player]) /\ AtMost(filler.rows[Player], inventories[Player])
      BY <2>2, Parts DEF Rows
    <3> QED BY <1>2, <3>1, <3>2, AtMostOfAtMost, Parts
  <2> QED BY <1>1, <2>1, <2>2 DEF Rows
<1>11. Owning'
  <2> SUFFICES ASSUME Owns PROVE Owning'
    BY <1>1 DEF Owning, Owns
  <2>1. ASSUME NEW d \in Counts, AtMost(d, inventories[Player])
        PROVE  AtMost(d, inventories'[Player])
    BY <1>2, <2>1, AtMostOfAtMost, Parts
  <2>2. decks[Player] # NoRow => AtMost(decks[Player], inventories'[Player])
    BY <2>1, Parts DEF Owning, Owns, Fits
  <2>3. AtMost(deckCopies, inventories'[Player])
    BY <2>1, EditedType, Parts DEF Owning, Owns
  <2>4. ASSUME NEW g \in Handlers
        PROVE  OwnedWork(handler[g], call, inventories'[Player])
    <3>1. OwnedWork(handler[g], call, inventories[Player]) /\ handler[g].from # "client"
      BY <1>7, Parts DEF Owning, Owns, NobodyWaits
    <3>2. handler[g] \in Handler /\ Work(handler[g]) /\ HandlerOK(handler[g])
      BY HandlerFacts, Parts
    <3>3. handler[g].at \in {"delete", "insert"} /\ handler[g].request.does = "save" =>
            handler[g].copy \in Counts
      BY <3>2 DEF Work, Fits
    <3>4. handler[g].at = "read" /\ handler[g].request.does = "save" =>
            AtMost(handler[g].request.cards, inventories'[Player])
      <4> SUFFICES ASSUME handler[g].at = "read", handler[g].request.does = "save"
                   PROVE  AtMost(handler[g].request.cards, inventories'[Player])
        OBVIOUS
      <4>1. AtMost(handler[g].request.cards, inventories[Player])
        BY <3>1 DEF OwnedWork
      <4>2. handler[g].request.cards \in Counts
        BY <3>2 DEF Work
      <4> QED BY <2>1, <4>1, <4>2
    <3> QED BY <2>1, <3>1, <3>3, <3>4 DEF OwnedWork
  <2> QED BY <1>1, <2>2, <2>3, <2>4 DEF Owning
<1> QED BY <1>5, <1>6, <1>8, <1>9, <1>10, <1>11 DEF IInv

\* All of the client.
LEMMA ClientNextKept ==
  ASSUME IInv, ClientNext
  PROVE  IInv'
BY EnterEditorKept, AsksAgainKept, SaveKept, AddCopyKept, RemoveCopyKept, OtherEditsKept,
   KeepCardKept, DeckLoadedKept, InventoryLoadedKept, SaveHeardKept, RefreshedKept
   DEF ClientNext

\* A tool deletes the deck.
LEMMA DeleteRequestKept ==
  ASSUME IInv, DeleteRequest
  PROVE  IInv'
<1>1. /\ Takes("nobody", Asking("delete", Player, NoRow))
      /\ UNCHANGED <<inventories, decks, filler, faults>> /\ UNCHANGED editorVars
  BY DEF DeleteRequest
<1>2. UNCHANGED <<page, call, playing, deckCopies, copies, loaded, blind>>
  BY <1>1 DEF editorVars
<1> DEFINE request == Asking("delete", Player, NoRow)
<1>3. request \in Request /\ request.does = "delete"
  BY PlayerType DEF Asking, Request
<1>4. ServiceInv'
  <2> HIDE DEF request
  <2>1. Takes("nobody", request)
    BY <1>1 DEF request
  <2> QED BY <1>1, <1>3, <2>1, PlayerType, Parts, TakesKept
<1>5. /\ Handling'
      /\ \E h \in Handlers :
              /\ handler[h].at = "idle"
              /\ handler' = [handler EXCEPT ![h] = Working("nobody", request)]
  BY <1>1, <1>2, TakesHandling, Parts
<1>6. PICK h \in Handlers :
              /\ handler[h].at = "idle"
              /\ handler' = [handler EXCEPT ![h] = Working("nobody", request)]
  BY <1>5
<1> DEFINE hd == Working("nobody", request)
<1>7. hd.at = "delete" /\ hd.from = "nobody" /\ hd.request.does = "delete"
  BY DEF Working, Asking, FirstPlace
<1>8. handler' = [handler EXCEPT ![h] = hd]
  BY <1>6
<1> HIDE DEF hd
<1>9. EditorTypes' /\ Screens' /\ Rows'
  BY <1>1, SameScreens, SameRows, Parts
<1>10. Stored'
  BY <1>1, <1>7, <1>8, StoredKept, Parts
<1>11. Owning'
  <2>1. OwnedWork(hd, call, inventories[Player])
    BY <1>7 DEF OwnedWork
  <2> QED BY <1>1, <1>8, <2>1, OwningKept, Parts
<1>12. Passed'
  BY <1>1, <1>6, <1>8, PassedKept, Parts
<1> QED BY <1>4, <1>5, <1>9, <1>10, <1>11, <1>12 DEF IInv

\* The invariant holds at the start.
LEMMA InitIInv ==
  ASSUME Init
  PROVE  IInv
<1>1. /\ inventories \in [Users -> {NoRow, StarterCards} \cup {[NoCards EXCEPT ![c] = 1] : c \in Cards}]
      /\ inventories[Player] = StarterCards
      /\ decks = NobodyHasOne /\ handler = [h \in Handlers |-> Idle]
      /\ filler = FillerOff /\ faults = 0 /\ page = "title" /\ call = "none"
      /\ playing = FALSE /\ deckCopies = NoCards /\ copies = NoCards
      /\ loaded = FALSE /\ blind = FALSE
  BY DEF Init
<1>2. StarterCards \in Counts /\ NoCards \in Counts /\ CountDeckCards(NoCards) = 0
  BY StarterType, NoCardsCount
<1>3. \A c \in Cards : [NoCards EXCEPT ![c] = 1] \in Counts
  BY <1>2 DEF Counts
<1>4. inventories \in Table
  <2>1. {NoRow, StarterCards} \cup {[NoCards EXCEPT ![c] = 1] : c \in Cards} \subseteq Counts \cup {NoRow}
    BY <1>2, <1>3
  <2> QED BY <1>1, <2>1 DEF Table
<1>5. decks \in Table /\ \A u \in Users : decks[u] = NoRow
  BY <1>1 DEF NobodyHasOne, Table
<1>6. filler \in Filler /\ filler.at = "off" /\ filler.todo = {}
  <2>1. (CHOOSE u \in Users : TRUE) \in Users
    BY PlayerType
  <2>2. NobodyHasOne \in Table
    BY DEF NobodyHasOne, Table
  <2> QED BY <1>1, <2>1, <2>2 DEF FillerOff, Filler
<1>7. \A h \in Handlers : handler[h] = Idle
  BY <1>1
<1>8. Idle \in Handler /\ Work(Idle) /\ Idle.at = "idle" /\ Idle.from = "nobody" /\ HandlerOK(Idle)
      /\ ~Doing(Idle)
  BY <1>6, IdleWorks, IdleOK
<1>9. faults \in 0 .. MaxFaults
  BY <1>1, DeckServiceAssumption
<1>10. ServiceInv
  <2>1. handler \in [Handlers -> Handler]
    BY <1>1, <1>8
  <2> QED BY <1>4, <1>5, <1>6, <1>7, <1>8, <1>9, <2>1 DEF ServiceInv, ServiceTypes, FillerWork
<1>11. EditorTypes /\ Screens
  <2>1. inventories[Player] # NoRow
    BY <1>1, <1>2, DeckServiceAssumption
  <2> QED BY <1>1, <1>2, <2>1, NoCardsIs DEF EditorTypes, Screens
<1>12. Handling
  BY <1>7, <1>8 DEF Handling, ClientOK, OneCall
<1>13. Stored /\ Passed
  BY <1>1, <1>6, <1>7, <1>8 DEF Stored, Passed
<1>14. Rows
  BY <1>1, <1>2, <1>6, AtMostItself DEF Rows
<1>15. Owning
  BY <1>1, <1>2, <1>5, <1>7, <1>8, NoCardsIs, PlayerType DEF Owning, OwnedWork, Doing
<1> QED BY <1>10, <1>11, <1>12, <1>13, <1>14, <1>15 DEF IInv

\* And in a step that changes nothing.
LEMMA StutterKept ==
  ASSUME IInv, UNCHANGED vars
  PROVE  IInv'
<1>1. UNCHANGED <<inventories, decks, handler, filler, faults>> /\ UNCHANGED editorVars
  BY DEF vars, serviceVars
<1>2. UNCHANGED <<page, call, playing, deckCopies, copies, loaded, blind>>
  BY <1>1 DEF editorVars
<1>3. ServiceInv' /\ EditorTypes' /\ Screens' /\ Rows'
  <2>1. ServiceInv'
    BY <1>1, Parts DEF ServiceInv, ServiceTypes, FillerWork
  <2> QED BY <1>1, <2>1, SameScreens, SameRows, Parts
<1>4. Handling' /\ Stored' /\ Passed'
  BY <1>1, <1>2, Parts DEF Handling, OneCall, Stored, Passed, Inserting, UserOf
<1>5. Owning'
  BY <1>1, <1>2, Parts DEF Owning
<1> QED BY <1>3, <1>4, <1>5 DEF IInv

\* So it always holds.
LEMMA IInvKept == Spec => []IInv
<1>1. Init => IInv
  BY InitIInv
<1>2. IInv /\ [Next]_vars => IInv'
  BY ServiceNextKept, ClientNextKept, DeleteRequestKept, StutterKept DEF Next
<1> QED BY <1>1, <1>2, PTL DEF Spec

-----------------------------------------------------------------------------
(***************************************************************************)
(* Theorems                                                                *)
(***************************************************************************)

\* TypeOK of DeckBuilder: objects/Deck.cpp never holds more than maxCopies of a card,
\* and rows, requests and copies of the cards service are decks throughout.
THEOREM TypeCorrect == Spec => []TypeOK
<1>1. IInv => TypeOK
  BY Parts DEF ServiceInv, EditorTypes, TypeOK
<1> QED BY <1>1, IInvKept, PTL

\* DeckIsFull of DeckBuilder: deck.service.go stores no deck of another size than
\* DECK_SIZE, whoever stores it and however saves, fills and the start-up cross.  A
\* catalogue smaller than a deck could not fill one; the code has 47 cards for 30 places.
THEOREM DecksAreFull ==
  ASSUME DeckSize <= MaxCard
  PROVE  Spec => []DeckIsFull
<1>1. IInv => DeckIsFull
  BY Parts DEF ServiceInv, Fits, DeckIsFull
<1> QED BY <1>1, IInvKept, PTL

\* What buildDeckCounts computes, said without its loops.
LEMMA DocumentedFill ==
  ASSUME DeckSize <= MaxCard, NEW inventory \in Counts
  PROVE  /\ CountDeckCards(BuildDeckCounts(inventory)) = DeckSize
         /\ \A c \in Cards : BuildDeckCounts(inventory)[c] > inventory[c] =>
              /\ BuildDeckCounts(inventory)[c] = inventory[c] + 1
              /\ \A d \in Cards :
                   /\ BuildDeckCounts(inventory)[d] >= inventory[d]
                   /\ d < c => BuildDeckCounts(inventory)[d] > inventory[d]
<1> DEFINE deck == BuildDeckCounts(inventory)
<1>1. PICK owned \in Building :
           /\ \A c \in Cards : owned.deck[c] <= inventory[c]
           /\ owned.remaining > 0 => \A c \in Cards : owned.deck[c] = inventory[c]
           /\ \A c \in Cards : deck[c] =
                IF c <= owned.remaining THEN owned.deck[c] + 1 ELSE owned.deck[c]
           /\ CountDeckCards(deck) = DeckSize
  BY BuildIs
<1> HIDE DEF deck
<1>2. owned.remaining \in Nat /\ owned.deck \in [Cards -> Nat] /\ inventory \in [Cards -> Nat]
  BY DEF Building, Counts
<1>3. ASSUME NEW c \in Cards, deck[c] > inventory[c]
      PROVE  /\ deck[c] = inventory[c] + 1
             /\ \A d \in Cards : deck[d] >= inventory[d] /\ (d < c => deck[d] > inventory[d])
  <2>1. c \in Nat /\ c > 0 /\ owned.deck[c] \in Nat /\ inventory[c] \in Nat
    BY <1>2, CardsAreNumbers
  <2>2. c <= owned.remaining /\ owned.remaining > 0
    BY <1>1, <1>2, <1>3, <2>1
  <2>3. \A d \in Cards : owned.deck[d] = inventory[d]
    BY <1>1, <2>2
  <2>4. deck[c] = inventory[c] + 1
    BY <1>1, <2>2, <2>3
  <2>5. ASSUME NEW d \in Cards
        PROVE  deck[d] >= inventory[d] /\ (d < c => deck[d] > inventory[d])
    <3>1. d \in Nat /\ inventory[d] \in Nat
      BY <1>2, CardsAreNumbers
    <3>2. deck[d] = IF d <= owned.remaining THEN inventory[d] + 1 ELSE inventory[d]
      BY <1>1, <2>3
    <3> QED BY <1>2, <2>1, <2>2, <3>1, <3>2
  <2> QED BY <2>4, <2>5
<1> QED BY <1>1, <1>3 DEF deck

\* FillsAsDocumented of DeckBuilder: buildDeckCounts of deck.service.go deals the cards
\* owned first and then the catalogue by ascending id, for every inventory there is.
THEOREM FillIsDocumented ==
  ASSUME DeckSize <= MaxCard
  PROVE  Spec => []FillsAsDocumented
<1>1. ASSUME IInv PROVE FillsAsDocumented
  <2>1. \A u \in Users : inventories[u] # NoRow => inventories[u] \in Counts
    BY <1>1, Parts DEF Table
  <2> QED BY <2>1, DocumentedFill DEF FillsAsDocumented
<1> QED BY <1>1, IInvKept, PTL

\* QueuedHasDeck of DeckBuilder: saveAndPlay of DeckBuilding.cpp goes into the queue
\* only with a deck stored, as long as nothing has failed.
THEOREM QueuedWithDeck == Spec => []QueuedHasDeck
<1>1. IInv => QueuedHasDeck
  BY Parts DEF Stored, QueuedHasDeck
<1> QED BY <1>1, IInvKept, PTL

\* OwnedUnlessBlind of DeckBuilder: no deck of cards the player does not own, if the
\* starter cards are enough for a deck; in the code they are 32 cards for 30 places.
THEOREM OnlyOwnedCards ==
  ASSUME DeckSize <= CountDeckCards(StarterCards)
  PROVE  Spec => []OwnedUnlessBlind
<1>1. IInv => OwnedUnlessBlind
  BY Parts DEF Owning, AtMost, OwnedUnlessBlind
<1> QED BY <1>1, IInvKept, PTL

\* FilledAtStart of DeckBuilder: FillDecksFromInventories reaches its end only when
\* every user of its list has a deck, is being given one, or lost it to a fault.
THEOREM FillReachesAll == Spec => FilledAtStart
<1> DEFINE Step == filler.at = "look" /\ filler'.at = "ended" /\ faults = 0 =>
                     \A u \in Users :
                       filler.rows[u] # NoRow /\ decks[u] = NoRow =>
                         \E h \in Handlers : handler[h].at = "insert" /\ UserOf(h) = u
<1>1. ASSUME IInv, Next, filler.at = "look", filler'.at = "ended", faults = 0
      PROVE  \A u \in Users : filler.rows[u] # NoRow /\ decks[u] = NoRow => Inserting(u)
  <2>1. filler.todo = {}
    <3>1. filler' # filler
      BY <1>1
    <3>2. FillerStep \/ FillerStops
      BY <1>1, <3>1 DEF Next, ServiceNext, ClientNext, DeleteRequest, EnterEditor, Asks,
         AskInventory, AskRefresh, LeaveToTitle, Clear, LoadAgain, Save, AddCopy, RemoveCopy,
         KeepCard, DeckLoaded, InventoryLoaded, SaveHeard, Refreshed, serviceVars, HandlerStep,
         ReadRow, SaveStarts, FillStarts, DeleteRow, InsertDeck, InsertInventory, Fails
    <3>3. ~FillerStops
      BY <1>1 DEF FillerStops, FillerOff
    <3>4. ~FillerStarts /\ ~FillerInserts
      BY <1>1 DEF FillerStarts, FillerInserts
    <3>5. ASSUME NEW u \in Users, FillerLooks(u)
          PROVE  FALSE
      <4>1. filler' \in {[filler EXCEPT !.at = "insert", !.user = u, !.todo = @ \ {u}],
                         [filler EXCEPT !.todo = @ \ {u}]}
        BY <3>5 DEF FillerLooks
      <4>2. [filler EXCEPT !.todo = @ \ {u}].at = "look"
        BY <1>1, Parts DEF Filler
      <4>3. [filler EXCEPT !.at = "insert", !.user = u, !.todo = @ \ {u}].at = "insert"
        BY <1>1, Parts DEF Filler
      <4> QED BY <1>1, <4>1, <4>2, <4>3
    <3> QED BY <3>2, <3>3, <3>4, <3>5 DEF FillerStep, FillerEnds
  <2> QED BY <1>1, <2>1, Parts DEF Passed
<1>2. IInv /\ [Next]_vars => [Step]_vars
  BY <1>1 DEF Inserting
<1>3. Spec => [][Step]_vars
  <2> HIDE DEF Step
  <2> QED BY <1>2, IInvKept, PTL DEF Spec
<1> QED BY <1>3 DEF FilledAtStart
=============================================================================
