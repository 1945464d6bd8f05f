---------------------------- MODULE DeckService ----------------------------
(***************************************************************************)
(* Inventories and decks of all users as the cards service keeps them: one  *)
(* row per user in each table, and the HTTP handlers and the start-up fill  *)
(* that work on the tables at the same time.                                *)
(*                                                                         *)
(*   cards/services/deck.service.go        save, fill, delete and read      *)
(*   cards/services/inventory.service.go   the row made at registration     *)
(*                                                                         *)
(* One action is one statement of the database; no handler here opens a     *)
(* transaction, so each statement commits at once.  uid is the primary key  *)
(* of both tables, so an INSERT of a second row fails.                      *)
(***************************************************************************)
EXTENDS Naturals, FiniteSets, SequencesExt

CONSTANTS
  Users,        \* user ids
  Handlers,     \* requests the service works on at a time
  Callers,      \* who waits for an answer
  MaxCard,      \* the catalogue holds the card ids 1 to MaxCard
  DeckSize,     \* DECK_SIZE
  MaxCopies,    \* maxCardCopies
  Starters,     \* the cards a new player has all copies of
  NoRow,        \* the user has no row in a table
  MaxFaults     \* bound: failed statements, lost answers, deleted decks

Cards == 1 .. MaxCard

Counts == [Cards -> Nat]

ASSUME DeckServiceAssumption ==
  /\ "nobody" \in Callers
  /\ MaxCard \in Nat /\ DeckSize \in Nat \ {0} /\ MaxCopies \in Nat
  /\ MaxFaults \in Nat
  /\ Starters \subseteq Cards
  /\ NoRow \notin Counts

VARIABLES
  inventories,  \* table inventories, the cards of each user
  decks,        \* table decks
  handler,      \* each handler: where it is, whom it answers, its local deck
  filler,       \* FillDecksFromInventories, in an instance that starts
  faults        \* history: statements failed, callers gone, decks deleted

serviceVars == <<inventories, decks, handler, filler, faults>>

Table == [Users -> Counts \cup {NoRow}]

NoCards == [c \in Cards |-> 0]

\* The cards matter in a save's only, and in a creation's.
Request == [does : {"create", "inventory", "save", "fill", "delete", "get"},
            user : Users, cards : Counts \cup {NoRow}]

NoRequest == [does |-> "get", user |-> CHOOSE u \in Users : TRUE, cards |-> NoRow]

\* "yes" is a status below 300 and "no" any other; "lost" is no answer at all.
Answer == {"none", "yes", "no", "lost"}

Handler == [at : {"idle", "read", "delete", "insert", "done"}, from : Callers,
            request : Request, copy : Counts \cup {NoRow}, answer : Answer]

Idle == [at |-> "idle", from |-> "nobody", request |-> NoRequest,
         copy |-> NoRow, answer |-> "none"]

\* rows is what the first SELECT found, todo the users it has not come to yet.
Filler == [at : {"off", "look", "insert", "ended"}, rows : Table,
           todo : SUBSET Users, user : Users]

Fault == faults < MaxFaults /\ faults' = faults + 1

NobodyHasOne == [u \in Users |-> NoRow]

FillerOff == [at |-> "off", rows |-> NobodyHasOne, todo |-> {},
              user |-> CHOOSE u \in Users : TRUE]

ServiceTypes ==
  /\ inventories \in Table
  /\ decks \in Table
  /\ handler \in [Handlers -> Handler]
  /\ filler \in Filler
  /\ faults \in 0 .. MaxFaults

-----------------------------------------------------------------------------
(* What the handlers compute.                                              *)

Smaller(m, n) == IF m < n THEN m ELSE n

\* CountDeckCards: the cards of the catalogue, one by one.
CountDeckCards(cards) == FoldLeft(LAMBDA n, c : n + cards[c], 0, [c \in Cards |-> c])

\* The deck so far and the places left in it, after count copies of c more.
Put(building, c, count) ==
  [deck |-> [building.deck EXCEPT ![c] = @ + count], remaining |-> building.remaining - count]

\* Mutant: the cards owned are not cut to the places that are left.
OverfullDeckCounts(inventory) ==
  FoldLeft(LAMBDA building, c : Put(building, c, inventory[c]),
           [deck |-> NoCards, remaining |-> DeckSize], [c \in Cards |-> c]).deck

\* Mutant: the catalogue is dealt without looking at the inventory.
CatalogueDeckCounts(inventory) ==
  FoldLeft(LAMBDA building, c : Put(building, c, Smaller(building.remaining, 1)),
           [deck |-> NoCards, remaining |-> DeckSize], [c \in Cards |-> c]).deck

\* Cards owned by ascending id, then one of each card of the catalogue.
BuildDeckCounts(inventory) ==
  LET ids == [c \in Cards |-> c]
      owned == FoldLeft(LAMBDA building, c :
                          Put(building, c, Smaller(inventory[c], building.remaining)),
                        [deck |-> NoCards, remaining |-> DeckSize], ids)
  IN FoldLeft(LAMBDA building, c : Put(building, c, Smaller(building.remaining, 1)),
              owned, ids).deck

StarterCards == [c \in Cards |-> IF c \in Starters THEN MaxCopies ELSE 0]

-----------------------------------------------------------------------------
(* A request and its answer.                                               *)

Asking(name, u, cards) == [does |-> name, user |-> u, cards |-> cards]

FirstPlace(name) ==
  CASE name = "create" -> "insert"
    [] name = "delete" -> "delete"
    [] OTHER -> "read"

Working(caller, request) ==
  [at |-> FirstPlace(request.does), from |-> caller, request |-> request,
   copy |-> NoRow, answer |-> "none"]

Takes(caller, request) ==
  \E h \in Handlers :
    /\ handler[h].at = "idle"
    /\ handler' = [handler EXCEPT ![h] = Working(caller, request)]

Answered(hd, answer, row) ==
  IF hd.from = "nobody" THEN Idle
  ELSE [hd EXCEPT !.at = "done", !.request = NoRequest, !.answer = answer, !.copy = row]

Answers(h, answer) == handler' = [handler EXCEPT ![h] = Answered(@, answer, NoRow)]

Moves(h, place) == handler' = [handler EXCEPT ![h].at = place]

\* The caller has heard the answer of h, or it has gone without one: then the
\* handler works on for nobody.
HearsOf(caller, h, answer) ==
  /\ handler[h].from = caller
  /\ handler[h].at # "idle"
  /\ IF handler[h].at = "done"
     THEN /\ answer = handler[h].answer
          /\ handler' = [handler EXCEPT ![h] = Idle]
          /\ UNCHANGED faults
     ELSE /\ answer = "lost"
          /\ handler' = [handler EXCEPT ![h].from = "nobody"]
          /\ Fault

UserOf(h) == handler[h].request.user

-----------------------------------------------------------------------------
(* The handlers.                                                           *)

\* GetInventoryByUserID, GetDeckByUserID, ListDecks: the one row that the caller
\* looks for in the answer.
ReadRow(h) ==
  /\ handler[h].at = "read"
  /\ handler[h].request.does \in {"inventory", "get"}
  /\ LET table == IF handler[h].request.does = "get" THEN decks ELSE inventories
         row == table[UserOf(h)]
     IN handler' = [handler EXCEPT ![h] =
                      Answered(@, IF row = NoRow THEN "no" ELSE "yes", row)]
  /\ UNCHANGED <<inventories, decks, filler, faults>>

\* CreateDeck: the deck must have the right size; a deck there is deleted first.  A
\* SELECT that fails passes for "there is none".
SaveStarts(h) ==
  /\ handler[h].at = "read"
  /\ handler[h].request.does = "save"
  /\ IF CountDeckCards(handler[h].request.cards) # DeckSize
     THEN Answers(h, "no") /\ UNCHANGED faults
     ELSE \E place \in {"insert", "delete"} :
            /\ handler' = [handler EXCEPT ![h].copy = handler[h].request.cards, ![h].at = place]
            /\ \/ /\ place = (IF decks[UserOf(h)] = NoRow THEN "insert" ELSE "delete")
                  /\ UNCHANGED faults
               \/ place = "insert" /\ Fault
  /\ UNCHANGED <<inventories, decks, filler>>

\* FillDeckForUser: nothing to fill from is a 404.  It reads the catalogue next, which
\* nobody changes once the service listens.
FillStarts(h) ==
  /\ handler[h].at = "read"
  /\ handler[h].request.does = "fill"
  /\ IF inventories[UserOf(h)] = NoRow
     THEN Answers(h, "no")
     ELSE handler' = [handler EXCEPT
            ![h].copy = BuildDeckCounts(inventories[UserOf(h)]), ![h].at = "delete"]
  /\ UNCHANGED <<inventories, decks, filler, faults>>

\* DELETE of any row there is, which is all that DeleteDeck does.
DeleteRow(h) ==
  /\ handler[h].at = "delete"
  /\ decks' = [decks EXCEPT ![UserOf(h)] = NoRow]
  /\ IF handler[h].request.does = "delete"
     THEN Answers(h, "yes") /\ Fault
     ELSE Moves(h, "insert") /\ UNCHANGED faults
  /\ UNCHANGED <<inventories, filler>>

\* INSERT of the deck; another one may have been inserted since.
InsertDeck(h) ==
  /\ handler[h].at = "insert"
  /\ handler[h].request.does \in {"save", "fill"}
  /\ IF decks[UserOf(h)] = NoRow
     THEN /\ decks' = [decks EXCEPT ![UserOf(h)] = handler[h].copy]
          /\ Answers(h, "yes")
     ELSE UNCHANGED decks /\ Answers(h, "no")
  /\ UNCHANGED <<inventories, filler, faults>>

\* CreateInventory: the starter cards unless the request names some.
InsertInventory(h) ==
  /\ handler[h].at = "insert"
  /\ handler[h].request.does = "create"
  /\ IF inventories[UserOf(h)] = NoRow
     THEN /\ inventories' = [inventories EXCEPT ![UserOf(h)] =
                               IF handler[h].request.cards = NoRow
                               THEN StarterCards
                               ELSE [c \in Cards |-> Smaller(handler[h].request.cards[c], MaxCopies)]]
          /\ Answers(h, "yes")
     ELSE UNCHANGED inventories /\ Answers(h, "no")
  /\ UNCHANGED <<decks, filler, faults>>

HandlerStep(h) ==
  \/ ReadRow(h) \/ SaveStarts(h) \/ FillStarts(h)
  \/ DeleteRow(h) \/ InsertDeck(h) \/ InsertInventory(h)

\* A statement fails, or the instance stops: what was done stays done.  SaveStarts has
\* the one failure that is not answered.
Fails(h) ==
  /\ handler[h].at \notin {"idle", "done"}
  /\ \E answer \in {"no", "lost"} :
       /\ answer = "no" => ~(handler[h].at = "read" /\ handler[h].request.does = "save")
       /\ Answers(h, answer)
  /\ Fault
  /\ UNCHANGED <<inventories, decks, filler>>

-----------------------------------------------------------------------------
(* The fill at start-up.  Requests come to an instance that has started, so *)
(* the handlers at work meanwhile are those of another instance.            *)

FillerStarts ==
  /\ filler.at = "off"
  /\ filler' = [filler EXCEPT !.at = "look", !.rows = inventories,
                              !.todo = {u \in Users : inventories[u] # NoRow}]
  /\ UNCHANGED <<inventories, decks, handler, faults>>

\* Mutant: the first user who has a deck ends the loop.
FillerStopsAt(u) ==
  /\ filler.at = "look"
  /\ u \in filler.todo
  /\ filler' = IF decks[u] = NoRow
               THEN [filler EXCEPT !.at = "insert", !.user = u, !.todo = @ \ {u}]
               ELSE [filler EXCEPT !.todo = {}]
  /\ UNCHANGED <<inventories, decks, handler, faults>>

\* The next user of the list, in the order the table gave them: one with a deck is
\* passed over.
FillerLooks(u) ==
  /\ filler.at = "look"
  /\ u \in filler.todo
  /\ filler' = IF decks[u] = NoRow
               THEN [filler EXCEPT !.at = "insert", !.user = u, !.todo = @ \ {u}]
               ELSE [filler EXCEPT !.todo = @ \ {u}]
  /\ UNCHANGED <<inventories, decks, handler, faults>>

\* A deck that has come in between makes the INSERT fail, and the fill ends there:
\* "Deck fill failed".
FillerInserts ==
  /\ filler.at = "insert"
  /\ IF decks[filler.user] = NoRow
     THEN /\ decks' = [decks EXCEPT ![filler.user] = BuildDeckCounts(filler.rows[filler.user])]
          /\ filler' = [filler EXCEPT !.at = "look"]
     ELSE UNCHANGED decks /\ filler' = FillerOff
  /\ UNCHANGED <<inventories, handler, faults>>

\* No user is left: the instance listens.
FillerEnds ==
  /\ filler.at = "look"
  /\ filler.todo = {}
  /\ filler' = [filler EXCEPT !.at = "ended", !.rows = NobodyHasOne]
  /\ UNCHANGED <<inventories, decks, handler, faults>>

\* A statement fails; or the instance stops, now or when its time has come.
FillerStops ==
  /\ filler.at # "off"
  /\ filler' = FillerOff
  /\ UNCHANGED <<inventories, decks, handler, faults>>

FillerStep ==
  \/ FillerStarts \/ FillerInserts \/ FillerEnds
  \/ \E u \in Users : FillerLooks(u)

=============================================================================
