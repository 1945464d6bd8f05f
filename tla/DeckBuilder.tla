---------------------------- MODULE DeckBuilder ----------------------------
(***************************************************************************)
(* The deck editor of one player and the deck that is stored (DeckService). *)
(*                                                                         *)
(*   client/src/states/DeckBuilding.cpp   load, edit, save, save and play   *)
(*   client/src/objects/Deck.cpp          size and copies, the calls        *)
(*   client/src/objects/inventory.cpp     the cached copies                 *)
(*                                                                         *)
(* The client has one thread and every HTTP call blocks it: while call is   *)
(* not "none" the player can do nothing else.                               *)
(***************************************************************************)
EXTENDS DeckService

CONSTANTS Player        \* the player at the editor

ASSUME DeckBuilderAssumption == Player \in Users /\ "client" \in Callers

VARIABLES
  page,         \* the title, the editor, or the queue for a match
  call,         \* the HTTP call the client's thread is in
  playing,      \* Play was pressed, not Save
  deckCopies,   \* the deck in the editor
  copies,       \* cached copies of each card
  loaded,       \* the cache has them from the service
  blind         \* history: a card was added without the stored inventory at hand

editorVars == <<page, call, playing, deckCopies, copies, loaded, blind>>
vars == <<serviceVars, editorVars>>

\* Types, and what the editor's limits promise: never more than MaxCopies of a card.
TypeOK ==
  /\ ServiceTypes
  /\ page \in {"title", "editor", "queue"}
  /\ call \in {"none", "deck", "inventory", "save", "refresh"}
  /\ playing \in BOOLEAN
  /\ deckCopies \in [Cards -> 0 .. MaxCopies]
  /\ copies \in [Cards -> 0 .. MaxCopies]
  /\ loaded \in BOOLEAN
  /\ blind \in BOOLEAN

\* The player has the starter cards; another user has them, or a row that was
\* created with one card, or none; the decks are to be filled or have been.
Init ==
  /\ inventories \in
       [Users -> {NoRow, StarterCards} \cup {[NoCards EXCEPT ![c] = 1] : c \in Cards}]
  /\ inventories[Player] = StarterCards
  /\ decks = NobodyHasOne
  /\ handler = [h \in Handlers |-> Idle]
  /\ filler = FillerOff
  /\ faults = 0
  /\ page = "title"
  /\ call = "none"
  /\ playing = FALSE
  /\ deckCopies = NoCards
  /\ copies = NoCards
  /\ loaded = FALSE
  /\ blind = FALSE

-----------------------------------------------------------------------------
(* The client's HTTP calls.                                                *)

Asks(name, does, cards) ==
  /\ call' = name
  /\ Takes("client", Asking(does, Player, cards))
  /\ UNCHANGED faults

\* The call is over; the next one, if any, is an action of its own.
Hears(h, answer) == HearsOf("client", h, answer)

\* parseCardCounts into the cards of the catalogue, MaxCopies of each at most.
Clamped(counts) == [c \in Cards |-> Smaller(counts[c], MaxCopies)]

-----------------------------------------------------------------------------
(* Into the editor: DeckBuilding::refreshFromService.                      *)

EnterEditor ==
  /\ page = "title"
  /\ call = "none"
  /\ page' = "editor"
  /\ Asks("deck", "get", NoRow)
  /\ UNCHANGED <<inventories, decks, filler, playing, deckCopies, copies, loaded, blind>>

\* loadDeckCopiesFromService: no deck is an empty one.  A cache that is loaded is
\* not loaded again.
DeckLoaded(h) ==
  /\ call = "deck"
  /\ \E answer \in Answer :
       /\ Hears(h, answer)
       /\ deckCopies' = IF answer = "yes" THEN Clamped(handler[h].copy) ELSE NoCards
  /\ call' = IF loaded THEN "none" ELSE "inventory"
  /\ UNCHANGED <<inventories, decks, filler, page, playing, copies, loaded, blind>>

\* The call the thread comes to next finds a handler.
AskInventory ==
  /\ call = "inventory"
  /\ \A h \in Handlers : handler[h].from # "client"
  /\ Takes("client", Asking("inventory", Player, NoRow))
  /\ UNCHANGED <<inventories, decks, filler, faults, editorVars>>

\* ensureInventoryAndCoinsLoaded
InventoryLoaded(h) ==
  /\ call = "inventory"
  /\ \E answer \in Answer :
       /\ Hears(h, answer)
       /\ loaded' = (answer = "yes")
       /\ copies' = IF answer = "yes" THEN Clamped(handler[h].copy) ELSE NoCards
  /\ call' = "none"
  /\ UNCHANGED <<inventories, decks, filler, page, playing, deckCopies, blind>>

-----------------------------------------------------------------------------
(* Editing.                                                                *)

AtEditor == page = "editor" /\ call = "none"

\* Mutant: what the player owns is not asked for.
AllowedCount(c) == MaxCopies - deckCopies[c]

\* getRemainingCount: without an inventory any card may be added.
RemainingCount(c) ==
  IF ~loaded THEN MaxCopies - deckCopies[c]
  ELSE IF copies[c] > deckCopies[c] THEN copies[c] - deckCopies[c] ELSE 0

\* A right click, or a card dragged from the collection: Deck::addCopy.
AddCopy(c) ==
  /\ AtEditor
  /\ deckCopies[c] < MaxCopies
  /\ CountDeckCards(deckCopies) < DeckSize
  /\ RemainingCount(c) > 0
  /\ deckCopies' = [deckCopies EXCEPT ![c] = @ + 1]
  /\ blind' = (blind \/ ~loaded \/ copies[c] > inventories[Player][c])
  /\ UNCHANGED <<serviceVars, page, call, playing, copies, loaded>>

\* Mutant: the last copy is not the last.
RemoveAnyCopy(c) ==
  /\ AtEditor
  /\ deckCopies' = [deckCopies EXCEPT ![c] = @ - 1]
  /\ UNCHANGED <<serviceVars, page, call, playing, copies, loaded, blind>>

RemoveCopy(c) ==
  /\ AtEditor
  /\ deckCopies[c] > 0
  /\ deckCopies' = [deckCopies EXCEPT ![c] = @ - 1]
  /\ UNCHANGED <<serviceVars, page, call, playing, copies, loaded, blind>>

Clear ==
  /\ AtEditor
  /\ deckCopies' = NoCards
  /\ UNCHANGED <<serviceVars, page, call, playing, copies, loaded, blind>>

\* Mutant: the size is left to the service to check.
AnySizeIsFull == TRUE

HasFullDeck == CountDeckCards(deckCopies) >= DeckSize

\* Save, or Play: a deck that is not full only gives a message.
Save(play) ==
  /\ AtEditor
  /\ HasFullDeck
  /\ playing' = play
  /\ Asks("save", "save", deckCopies)
  /\ UNCHANGED <<inventories, decks, filler, page, deckCopies, copies, loaded, blind>>

\* Any status is a success to saveDeckCopiesToService: only no answer is a failure,
\* after which Play stays in the editor; else the client's deck is loaded.
SaveHeard(h) ==
  /\ call = "save"
  /\ \E answer \in Answer :
       /\ Hears(h, answer)
       /\ call' = IF playing /\ answer = "lost" THEN "none" ELSE "refresh"
  /\ UNCHANGED <<inventories, decks, filler, page, playing, deckCopies, copies, loaded, blind>>

AskRefresh ==
  /\ call = "refresh"
  /\ \A h \in Handlers : handler[h].from # "client"
  /\ Takes("client", Asking("get", Player, NoRow))
  /\ UNCHANGED <<inventories, decks, filler, faults, editorVars>>

\* refreshPlayerDeckFromService: whatever it finds, Play goes on to Connecting.
Refreshed(h) ==
  /\ call = "refresh"
  /\ \E answer \in Answer : Hears(h, answer)
  /\ call' = "none"
  /\ page' = IF playing THEN "queue" ELSE page
  /\ playing' = FALSE
  /\ UNCHANGED <<inventories, decks, filler, deckCopies, copies, loaded, blind>>

\* To the title, from the editor or after a match; enter() loads the deck anew, so
\* nobody looks at this one again.
LeaveToTitle ==
  /\ page # "title"
  /\ call = "none"
  /\ page' = "title"
  /\ deckCopies' = NoCards
  /\ UNCHANGED <<serviceVars, call, playing, copies, loaded, blind>>

-----------------------------------------------------------------------------
(* Elsewhere in the client: the cached copies are those of the pack screen, *)
(* which keeps a card at once and saves it later, or fails to (Economy.tla  *)
(* has both in detail); Loading and the pack screen load them anew.         *)

KeepCard(c) ==
  /\ page = "title"
  /\ call = "none"
  /\ loaded
  /\ copies[c] < MaxCopies
  /\ copies' = [copies EXCEPT ![c] = @ + 1]
  /\ \E saved \in BOOLEAN :
       inventories' = IF saved /\ inventories[Player][c] < MaxCopies
                      THEN [inventories EXCEPT ![Player][c] = @ + 1] ELSE inventories
  /\ UNCHANGED <<decks, handler, filler, faults, page, call, playing, deckCopies, loaded,
                 blind>>

LoadAgain ==
  /\ page = "title"
  /\ call = "none"
  /\ call' = "inventory"
  /\ UNCHANGED <<serviceVars, page, playing, deckCopies, copies, loaded, blind>>

-----------------------------------------------------------------------------
\* A tool deletes the deck.
DeleteRequest ==
  /\ Takes("nobody", Asking("delete", Player, NoRow))
  /\ UNCHANGED <<inventories, decks, filler, faults, editorVars>>

ServiceNext ==
  /\ FillerStep \/ FillerStops \/ \E h \in Handlers : HandlerStep(h) \/ Fails(h)
  /\ UNCHANGED editorVars

ClientNext ==
  \/ EnterEditor \/ AskInventory \/ AskRefresh \/ LeaveToTitle \/ Clear \/ LoadAgain
  \/ \E play \in BOOLEAN : Save(play)
  \/ \E c \in Cards : AddCopy(c) \/ RemoveCopy(c) \/ KeepCard(c)
  \/ \E h \in Handlers :
       DeckLoaded(h) \/ InventoryLoaded(h) \/ SaveHeard(h) \/ Refreshed(h)

Next == ServiceNext \/ ClientNext \/ DeleteRequest

Spec == Init /\ [][Next]_vars

-----------------------------------------------------------------------------
(* Properties.                                                             *)

\* The game server deals a deck of DECK_SIZE cards: whoever stores one, the editor,
\* a fill or the start-up, and however they cross, no other deck is ever stored.
DeckIsFull == \A u \in Users : decks[u] # NoRow => CountDeckCards(decks[u]) = DeckSize

\* README.md: a fill "prioritizes owned cards first, then fills remaining deck slots
\* from the full catalog in ascending CID order".  Said without the loops: a card the
\* user does not own is dealt only once all owned ones are, at most one more of
\* each, and only after all cards before it.
FillsAsDocumented ==
  \A u \in Users :
    inventories[u] # NoRow =>
      LET deck == BuildDeckCounts(inventories[u])
          beyond(c) == deck[c] > inventories[u][c]
      IN /\ CountDeckCards(deck) = DeckSize
         /\ \A c \in Cards : beyond(c) =>
              /\ deck[c] = inventories[u][c] + 1
              /\ \A d \in Cards : deck[d] >= inventories[u][d] /\ (d < c => beyond(d))

\* A player who has pressed Play in the editor and waits for a match has a deck stored,
\* so that the game server finds one (the title's Start Game saves nothing and is not
\* in this module), unless a statement has failed, an answer was lost or a
\* tool deleted the deck: the gap between DELETE and INSERT alone leaves none.
QueuedHasDeck == page = "queue" /\ faults = 0 => decks[Player] # NoRow

\* README.md: the editor refuses unowned cards.  A player who was dealt owned cards
\* has no others stored, except one that was added while the editor had no
\* inventory, or had copies that a failed save of a pack never stored.
OwnedUnlessBlind ==
  decks[Player] # NoRow /\ ~blind =>
    \A c \in Cards : decks[Player][c] <= inventories[Player][c]

\* A fill that reaches its end has left nobody of its list without a deck, but for
\* those whose deck is being replaced that moment, or was taken by a fault.
FilledAtStart ==
  [][filler.at = "look" /\ filler'.at = "ended" /\ faults = 0 =>
       \A u \in Users :
         filler.rows[u] # NoRow /\ decks[u] = NoRow =>
           \E h \in Handlers : handler[h].at = "insert" /\ UserOf(h) = u]_vars

=============================================================================
