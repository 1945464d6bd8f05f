---------------------------- MODULE CardsService ----------------------------
(***************************************************************************)
(* The coins and cards of one player as the cards service keeps them: the   *)
(* inventory row, the payment ledger, and the HTTP handlers that work on    *)
(* both at the same time.                                                   *)
(*                                                                         *)
(*   cards/services/inventory.service.go   read the row, change the copy,   *)
(*                                         save the whole row               *)
(*   cards/services/payments.service.go    one transaction per purchase     *)
(*                                                                         *)
(* One action is one statement of the database (PostgreSQL under READ       *)
(* COMMITTED, by its documented behaviour: an UPDATE waits for the row lock *)
(* of an open transaction, an INSERT for an open transaction that holds     *)
(* its unique key).  The row exists: registration creates it.               *)
(***************************************************************************)
EXTENDS Naturals, FiniteSets

CONSTANTS
  Handlers,     \* requests the service works on at a time
  Cards,        \* card ids
  Sessions,     \* Stripe checkout sessions of this player
  Bundle,       \* the coins each of them buys
  MaxCopies,    \* maxCardCopies
  Start,        \* coins at registration
  Starters      \* the cards a new player has all copies of

ASSUME CardsServiceAssumption ==
  /\ Starters \subseteq Cards
  /\ IsFiniteSet(Handlers) /\ IsFiniteSet(Sessions)
  /\ Bundle \in Nat
  /\ MaxCopies \in Nat
  /\ Start \in Nat

VARIABLES
  inventory,    \* the row of table inventories
  ledger,       \* the sessions with a row in payment_ledgers
  handler,      \* each handler: where it is, whom it answers, its local copy
  paid          \* the sessions Stripe reports as paid

serviceVars == <<inventory, ledger, handler, paid>>

Row == [coins : Nat, cards : [Cards -> 0 .. MaxCopies]]

Request ==
  [does : {"get"}]
  \cup [does : {"cards"}, cards : [Cards -> Nat]]
  \cup [does : {"set", "add"}, coins : Nat]
  \cup [does : {"poll", "credit"}, session : Sessions]

\* The row a handler holds before it has read one; nobody looks at it.
NoRow == [coins |-> 0, cards |-> [c \in Cards |-> 0]]

Place == {"idle", "status", "read", "save", "insert", "upsert", "commit", "done"}

Caller == {"client", "stripe", "nobody"}

Handler == [at : Place, from : Caller, request : Request, copy : Row, ok : BOOLEAN]

Idle == [at |-> "idle", from |-> "nobody", request |-> [does |-> "get"],
         copy |-> NoRow, ok |-> FALSE]

ServiceTypes ==
  /\ inventory \in Row
  /\ ledger \subseteq Sessions
  /\ handler \in [Handlers -> Handler]
  /\ paid \subseteq Sessions

\* CreateInventory
NewInventory ==
  [coins |-> Start, cards |-> [c \in Cards |-> IF c \in Starters THEN MaxCopies ELSE 0]]

ServiceInit ==
  /\ inventory = NewInventory
  /\ ledger = {}
  /\ handler = [h \in Handlers |-> Idle]
  /\ paid = {}

-----------------------------------------------------------------------------
(* What the handlers compute.                                              *)

\* Mutant: counts are not clamped.
Unclamped(n) == n

\* No count is negative and no card id is below 1 here, as in every request of the
\* client and the game server; the code takes such entries away.
ClampCardCount(n) == IF n > MaxCopies THEN MaxCopies ELSE n

NormalizeInventoryCards(row) ==
  [row EXCEPT !.cards = [c \in Cards |-> ClampCardCount(row.cards[c])]]

\* The row that is saved, given the row that was read.
Updated(row, request) ==
  CASE request.does = "cards" ->
         [row EXCEPT !.cards =
            [c \in Cards |-> ClampCardCount(row.cards[c] + request.cards[c])]]
    [] request.does = "set" -> [row EXCEPT !.coins = request.coins]
    [] request.does = "add" -> [row EXCEPT !.coins = row.coins + request.coins]
    [] OTHER -> NormalizeInventoryCards(row)

-----------------------------------------------------------------------------
(* A request and its answer.                                               *)

FirstPlace(request) ==
  CASE request.does = "poll" -> "status"
    [] request.does = "credit" -> "insert"
    [] OTHER -> "read"

Working(caller, request) ==
  [at |-> FirstPlace(request), from |-> caller, request |-> request,
   copy |-> NoRow, ok |-> FALSE]

\* A free handler takes the request of a caller.
Takes(caller, request) ==
  \E h \in Handlers :
    /\ handler[h].at = "idle"
    /\ handler' = [handler EXCEPT ![h] = Working(caller, request)]

\* The handler after it has answered: it waits until the caller has the answer,
\* unless the caller is not there to take it.  The row matters in a GET's only.
Answered(hd, ok) ==
  IF hd.from = "nobody" THEN Idle
  ELSE [hd EXCEPT !.at = "done", !.ok = ok,
                  !.copy = IF ok /\ hd.request.does = "get" THEN hd.copy ELSE NoRow]

Answers(h, ok) == handler' = [handler EXCEPT ![h] = Answered(handler[h], ok)]

Moves(h, place) == handler' = [handler EXCEPT ![h].at = place]

-----------------------------------------------------------------------------
(* The handlers of the inventory.                                          *)

\* SELECT; a GET of a row in order answers at once.
Read(h) ==
  /\ handler[h].at = "read"
  /\ LET row == NormalizeInventoryCards(inventory)
         quick == handler[h].request.does = "get" /\ row = inventory
         holding == [handler[h] EXCEPT !.copy = inventory, !.at = "save"]
     IN handler' = [handler EXCEPT ![h] =
                      IF quick THEN Answered(holding, TRUE) ELSE holding]
  /\ UNCHANGED <<inventory, ledger, paid>>

\* A transaction past its upsert keeps the row locked until it ends.
RowLocked == \E h \in Handlers : handler[h].at = "commit"

\* UPDATE of every column, from the copy read before.
Save(h) ==
  /\ handler[h].at = "save"
  /\ ~RowLocked
  /\ inventory' = Updated(handler[h].copy, handler[h].request)
  /\ Answers(h, TRUE)
  /\ UNCHANGED <<ledger, paid>>

-----------------------------------------------------------------------------
(* The handlers of payments: applyCoinPurchase, from the webhook or from a  *)
(* poll of the checkout's status.                                          *)

SessionOf(h) == handler[h].request.session

\* GetCheckoutSessionStatus asks Stripe first.
AskStripe(h) ==
  /\ handler[h].at = "status"
  /\ IF SessionOf(h) \in paid THEN Moves(h, "insert") ELSE Answers(h, TRUE)
  /\ UNCHANGED <<inventory, ledger, paid>>

\* An open transaction has inserted the ledger row of this session.
KeyLocked(s) ==
  \E h \in Handlers : handler[h].at \in {"upsert", "commit"} /\ SessionOf(h) = s

\* Mutant: no unique index on event_id.
InsertAgain(h) ==
  /\ handler[h].at = "insert"
  /\ Moves(h, "upsert")
  /\ UNCHANGED <<inventory, ledger, paid>>

\* Mutant: a duplicate is reported without waiting for the transaction that has
\* inserted the key and may still roll back.
InsertNoWait(h) ==
  /\ handler[h].at = "insert"
  /\ IF SessionOf(h) \in ledger \/ KeyLocked(SessionOf(h))
     THEN Answers(h, TRUE) ELSE Moves(h, "upsert")
  /\ UNCHANGED <<inventory, ledger, paid>>

\* tx.Create(&ledger): a duplicate ends the transaction as a success.  (Whether the
\* driver lets COMMIT follow a failed INSERT is its affair; if not, Fails.)
Insert(h) ==
  /\ handler[h].at = "insert"
  /\ ~KeyLocked(SessionOf(h))
  /\ IF SessionOf(h) \in ledger THEN Answers(h, TRUE) ELSE Moves(h, "upsert")
  /\ UNCHANGED <<inventory, ledger, paid>>

\* INSERT ... ON CONFLICT (uid) DO UPDATE SET coins = coins + EXCLUDED.coins
Upsert(h) ==
  /\ handler[h].at = "upsert"
  /\ ~RowLocked
  /\ Moves(h, "commit")
  /\ UNCHANGED <<inventory, ledger, paid>>

\* Both rows become visible at once.
Commit(h) ==
  /\ handler[h].at = "commit"
  /\ ledger' = ledger \cup {SessionOf(h)}
  /\ inventory' = [inventory EXCEPT !.coins = @ + Bundle]
  /\ Answers(h, TRUE)
  /\ UNCHANGED paid

\* Mutant: any error of the first INSERT passes for a duplicate.
FailsAsDuplicate(h) ==
  /\ handler[h].at \notin {"idle", "done"}
  /\ Answers(h, handler[h].at = "insert")
  /\ UNCHANGED <<inventory, ledger, paid>>

\* A statement fails, or the service restarts: what is not committed is undone.
Fails(h) ==
  /\ handler[h].at \notin {"idle", "done"}
  /\ Answers(h, FALSE)
  /\ UNCHANGED <<inventory, ledger, paid>>

ServiceStep(h) ==
  Read(h) \/ Save(h) \/ AskStripe(h) \/ Insert(h) \/ Upsert(h) \/ Commit(h)
=============================================================================
