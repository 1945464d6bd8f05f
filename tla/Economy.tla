------------------------------ MODULE Economy ------------------------------
(***************************************************************************)
(* Coins and cards of one player, end to end: the pack screen and the shop  *)
(* of the client, Stripe, the reward of the game server, and the cards      *)
(* service they all write to (CardsService.tla).                            *)
(*                                                                         *)
(*   client/src/states/PackOpening.cpp   open packs now, save them later    *)
(*   client/src/states/Payment.cpp       check out, then poll               *)
(*   client/src/objects/inventory.cpp    the cached copies and coins        *)
(*   server/src/game/MatchSession.cpp    giveRewards                        *)
(*                                                                         *)
(* The client has one thread and every HTTP call blocks it: while call is   *)
(* not "none" the player can do nothing else.  A call may give up on a      *)
(* handler that goes on working.  Debounce, coalescing and backoff only     *)
(* choose when a flush is tried; here it may be tried at any time.          *)
(***************************************************************************)
EXTENDS CardsService

CONSTANTS
  NoSession,    \* no checkout is awaited
  PackSize,     \* cards in a pack
  PackCost,     \* PackCostCoins
  Refund,       \* RefundCoinsPerExtra
  Reward,       \* coinReward
  MaxRewards,   \* bound: matches won
  MaxSpent      \* bound: no pack is opened once this much was spent

\* A pack always costs something (500 = 5 * 100 against 5 * 10), so there are
\* coins to save whenever there is anything to save.
ASSUME EconomyAssumption ==
  /\ NoSession \notin Sessions
  /\ PackSize \in Nat /\ PackCost \in Nat /\ Refund \in Nat
  /\ Reward \in Nat /\ MaxRewards \in Nat /\ MaxSpent \in Nat
  /\ PackSize * Refund < PackCost

VARIABLES
  screen,       \* Title, PackOpening or Payment
  call,         \* the HTTP call the client's thread is in
  leaving,      \* the screen exit() goes to, or "none"
  shown,        \* Game::packRefundCoins, the coins on the screen
  copies,       \* cached copies of each card
  pendingCards, \* pendingInventoryDelta
  dirty,        \* pendingCoinDelta # 0
  checkout,     \* the session the shop polls for
  checkoutStart,\* shown when that checkout began, 0 while none is polled for
  opened,       \* the checkout sessions opened in a browser
  acked,        \* the sessions whose webhook Stripe saw answered with success
  rewards,      \* matches won
  spent         \* coins the player has spent on packs, refunds deducted

packVars   == <<leaving, copies, pendingCards, dirty>>
shopVars   == <<checkout, checkoutStart>>
clientVars == <<screen, call, shown, packVars, shopVars>>
worldVars  == <<opened, acked, rewards, spent>>
vars == <<serviceVars, clientVars, worldVars>>

Screen == {"title", "packs", "shop"}

Call == {"none", "load", "cards", "coins", "poll", "refresh"}

NoCards == [c \in Cards |-> 0]

\* Types, and the bound every path must keep: no stored, read or shown count of
\* a card is above maxCardCopies, and no balance is negative.
TypeOK ==
  /\ ServiceTypes
  /\ screen \in Screen
  /\ call \in Call
  /\ leaving \in Screen \cup {"none"}
  /\ shown \in Nat
  /\ copies \in [Cards -> 0 .. MaxCopies]
  /\ pendingCards \in [Cards -> Nat]
  /\ dirty \in BOOLEAN
  /\ checkout \in Sessions \cup {NoSession}
  /\ checkoutStart \in Nat
  /\ opened \subseteq Sessions
  /\ acked \subseteq Sessions
  /\ rewards \in 0 .. MaxRewards
  /\ spent \in Nat

\* After Loading: the coins on the screen are the stored ones.
Init ==
  /\ ServiceInit
  /\ screen = "title"
  /\ call = "none"
  /\ leaving = "none"
  /\ shown = Start
  /\ copies = NoCards
  /\ pendingCards = NoCards
  /\ dirty = FALSE
  /\ checkout = NoSession
  /\ checkoutStart = 0
  /\ opened = {}
  /\ acked = {}
  /\ rewards = 0
  /\ spent = 0

-----------------------------------------------------------------------------
(* The client's HTTP calls.                                                *)

Asks(name, request) ==
  /\ call' = name
  /\ Takes("client", request)

\* The handler h that works for the client has answered ok, or it has not
\* answered in time: the call fails, and the handler goes on for nobody.
Hears(h, ok) ==
  /\ handler[h].from = "client"
  /\ IF handler[h].at = "done"
     THEN ok = handler[h].ok /\ handler' = [handler EXCEPT ![h] = Idle]
     ELSE ~ok /\ handler' = [handler EXCEPT ![h].from = "nobody"]

\* The call is over and no other one follows.
Returns(h, ok) == Hears(h, ok) /\ call' = "none"

\* The call is over and the thread makes the next one: a handler that is done
\* is free to take it, else another one does.
GoesOn(h, ok, name, request) ==
  /\ handler[h].from = "client"
  /\ call' = name
  /\ \/ /\ handler[h].at = "done"
        /\ ok = handler[h].ok
        /\ handler' = [handler EXCEPT ![h] = Working("client", request)]
     \/ /\ handler[h].at # "done"
        /\ ~ok
        /\ \E k \in Handlers :
             /\ handler[k].at = "idle"
             /\ handler' = [handler EXCEPT ![h].from = "nobody",
                                           ![k] = Working("client", request)]

GetRow    == [does |-> "get"]
SaveCards == [does |-> "cards", cards |-> pendingCards]
SaveCoins == [does |-> "set", coins |-> shown]

-----------------------------------------------------------------------------
(* The pack screen.                                                        *)

\* PackOpening::enter forgets what was pending and loads the row.
EnterPacks ==
  /\ screen \in {"title", "shop"}
  /\ call = "none"
  /\ screen' = "packs"
  /\ pendingCards' = NoCards
  /\ dirty' = FALSE
  /\ checkout' = NoSession
  /\ checkoutStart' = 0
  /\ Asks("load", GetRow)
  /\ UNCHANGED <<inventory, ledger, paid, leaving, shown, copies, worldVars>>

\* loadInventoryAndCoinsFromService: after a failure the copies are all 0 and
\* the coins shown are what they were.
Loaded(h) ==
  /\ call = "load"
  /\ \E ok \in BOOLEAN :
       /\ Returns(h, ok)
       /\ shown' = IF ok THEN handler[h].copy.coins ELSE shown
       /\ copies' = IF ok THEN handler[h].copy.cards ELSE NoCards
  /\ UNCHANGED <<inventory, ledger, paid, screen, leaving, pendingCards, dirty,
                 shopVars, worldVars>>

\* What comes out of a pack: its i-th card is refunded if the player has, with the
\* cards before it, MaxCopies already; what is kept of a card fills the gap at most.
Refunded(pack) ==
  {i \in 1 .. PackSize :
     copies[pack[i]] + Cardinality({j \in 1 .. (i - 1) : pack[j] = pack[i]}) >= MaxCopies}

Drawn(pack, c) == Cardinality({i \in 1 .. PackSize : pack[i] = c})

Kept(pack) ==
  [c \in Cards |-> IF Drawn(pack, c) > MaxCopies - copies[c]
                   THEN MaxCopies - copies[c] ELSE Drawn(pack, c)]

Price(pack) == PackCost - Refund * Cardinality(Refunded(pack))

\* Only the client's memory changes.
OpenPack ==
  /\ screen = "packs"
  /\ call = "none"
  /\ shown >= PackCost
  /\ spent < MaxSpent
  /\ \E pack \in [1 .. PackSize -> Cards] :
       /\ copies' = [c \in Cards |-> copies[c] + Kept(pack)[c]]
       /\ pendingCards' = [c \in Cards |-> pendingCards[c] + Kept(pack)[c]]
       /\ shown' = shown - Price(pack)
       /\ spent' = spent + Price(pack)
  /\ dirty' = TRUE
  /\ UNCHANGED <<serviceVars, screen, call, leaving, shopVars, opened, acked, rewards>>

\* The first of the two calls that save: the cards if there are any, the coins.
Saves ==
  IF pendingCards = NoCards THEN Asks("coins", SaveCoins) ELSE Asks("cards", SaveCards)

\* tryFlush, on a timer or because a cap was reached.
TryFlush ==
  /\ screen = "packs"
  /\ call = "none"
  /\ dirty
  /\ Saves
  /\ UNCHANGED <<inventory, ledger, paid, screen, shown, packVars, shopVars, worldVars>>

\* leaveState: exit() saves what is pending, then the screen changes.
Leave(next) ==
  /\ screen = "packs"
  /\ call = "none"
  /\ IF dirty
     THEN Saves /\ leaving' = next /\ UNCHANGED screen
     ELSE UNCHANGED <<call, handler, leaving>> /\ screen' = next
  /\ UNCHANGED <<inventory, ledger, paid, shown, copies, pendingCards, dirty,
                 shopVars, worldVars>>

\* The cards are saved, or not: a flush stops at a failure, exit() goes on.
CardsAnswered(h) ==
  /\ call = "cards"
  /\ \E ok \in BOOLEAN :
       IF ok \/ leaving # "none"
       THEN GoesOn(h, ok, "coins", SaveCoins)
       ELSE Returns(h, ok)
  /\ UNCHANGED <<inventory, ledger, paid, screen, shown, packVars, shopVars, worldVars>>

\* Nothing is pending any more after a success, nor when the screen is left.
CoinsAnswered(h) ==
  /\ call = "coins"
  /\ \E ok \in BOOLEAN :
       /\ Returns(h, ok)
       /\ IF ok \/ leaving # "none"
          THEN pendingCards' = NoCards /\ dirty' = FALSE
          ELSE UNCHANGED <<pendingCards, dirty>>
  /\ screen' = IF leaving # "none" THEN leaving ELSE screen
  /\ leaving' = "none"
  /\ UNCHANGED <<inventory, ledger, paid, shown, copies, shopVars, worldVars>>

-----------------------------------------------------------------------------
(* The shop.                                                               *)

EnterShop ==
  /\ screen = "title"
  /\ call = "none"
  /\ screen' = "shop"
  /\ UNCHANGED <<serviceVars, call, shown, packVars, shopVars, worldVars>>

\* Whatever is awaited is forgotten: Payment::enter clears it next time.
LeaveShop ==
  /\ screen = "shop"
  /\ call = "none"
  /\ screen' = "title"
  /\ checkout' = NoSession
  /\ checkoutStart' = 0
  /\ UNCHANGED <<serviceVars, call, shown, packVars, worldVars>>

\* requestCheckoutSession: Stripe makes a session and the browser opens it.
StartCheckout(s) ==
  /\ screen = "shop"
  /\ call = "none"
  /\ s \notin opened
  /\ opened' = opened \cup {s}
  /\ checkout' = s
  /\ checkoutStart' = shown
  /\ UNCHANGED <<serviceVars, screen, call, shown, packVars, acked, rewards, spent>>

\* One poll: the status of the checkout, then the row.
Poll ==
  /\ screen = "shop"
  /\ call = "none"
  /\ checkout # NoSession
  /\ Asks("poll", [does |-> "poll", session |-> checkout])
  /\ UNCHANGED <<inventory, ledger, paid, screen, shown, packVars, shopVars, worldVars>>

\* The answer to the first call is not looked at.
Polled(h) ==
  /\ call = "poll"
  /\ \E ok \in BOOLEAN : GoesOn(h, ok, "refresh", GetRow)
  /\ UNCHANGED <<inventory, ledger, paid, screen, shown, packVars, shopVars, worldVars>>

\* More coins than at the start of the checkout: "Payment confirmed."
Refreshed(h) ==
  /\ call = "refresh"
  /\ \E ok \in BOOLEAN :
       /\ Returns(h, ok)
       /\ IF ok /\ handler[h].copy.coins > checkoutStart
          THEN shown' = handler[h].copy.coins /\ checkout' = NoSession /\ checkoutStart' = 0
          ELSE UNCHANGED <<shown, shopVars>>
  /\ UNCHANGED <<inventory, ledger, paid, screen, packVars, worldVars>>

\* CHECKOUT_POLL_TIMEOUT_MS
StopPolling ==
  /\ screen = "shop"
  /\ call = "none"
  /\ checkout # NoSession
  /\ checkout' = NoSession
  /\ checkoutStart' = 0
  /\ UNCHANGED <<serviceVars, screen, call, shown, packVars, worldVars>>

-----------------------------------------------------------------------------
(* The other writers.                                                      *)

\* The player pays in the browser.
Pay(s) ==
  /\ s \in opened \ paid
  /\ paid' = paid \cup {s}
  /\ UNCHANGED <<inventory, ledger, handler, clientVars, worldVars>>

\* Stripe delivers an event at least once; it may not wait for an answer.  An event of
\* a session that is completed and not yet paid is left out: the code answers 200 and
\* does nothing, so such a session, paid later, is credited by a poll alone.
Deliver(s) ==
  /\ s \in paid
  /\ Takes("stripe", [does |-> "credit", session |-> s])
  /\ UNCHANGED <<inventory, ledger, paid, clientVars, worldVars>>

\* Stripe hears the answer, or it is lost.
StripeHears(h) ==
  /\ handler[h].from = "stripe"
  /\ handler[h].at = "done"
  /\ handler' = [handler EXCEPT ![h] = Idle]
  /\ acked' = IF handler[h].ok THEN acked \cup {SessionOf(h)} ELSE acked
  /\ UNCHANGED <<inventory, ledger, paid, clientVars, opened, rewards, spent>>

AnswerLost(h) ==
  /\ handler[h].from = "stripe"
  /\ handler[h].at = "done"
  /\ handler' = [handler EXCEPT ![h] = Idle]
  /\ UNCHANGED <<inventory, ledger, paid, clientVars, worldVars>>

\* giveRewards at the end of a match, which the client is in (neither of the two
\* screens): one request, whose failure is only logged.
GiveReward ==
  /\ rewards < MaxRewards
  /\ screen = "title"
  /\ rewards' = rewards + 1
  /\ Takes("nobody", [does |-> "add", coins |-> Reward])
  /\ UNCHANGED <<inventory, ledger, paid, clientVars, opened, acked, spent>>

-----------------------------------------------------------------------------
ServiceNext(h) == (ServiceStep(h) \/ Fails(h)) /\ UNCHANGED <<clientVars, worldVars>>

ClientHears ==
  \E h \in Handlers :
    Loaded(h) \/ CardsAnswered(h) \/ CoinsAnswered(h) \/ Polled(h) \/ Refreshed(h)

ClientNext ==
  \/ EnterPacks \/ OpenPack \/ TryFlush
  \/ \E next \in {"title", "shop"} : Leave(next)
  \/ EnterShop \/ LeaveShop \/ Poll \/ StopPolling
  \/ \E s \in Sessions : StartCheckout(s)
  \/ ClientHears

WorldNext ==
  \/ \E s \in Sessions : Pay(s) \/ Deliver(s)
  \/ \E h \in Handlers : StripeHears(h) \/ AnswerLost(h)
  \/ GiveReward

Next == (\E h \in Handlers : ServiceNext(h)) \/ ClientNext \/ WorldNext

Spec == Init /\ [][Next]_vars

\* Handlers run; Stripe waits for an answer and repeats what was not acknowledged
\* (at least once); and the database does not fail for ever.
Fairness ==
  /\ \A h \in Handlers : /\ WF_vars(ServiceNext(h))
                       /\ WF_vars(StripeHears(h) \/ AnswerLost(h))
  /\ \A s \in Sessions : SF_vars(s \notin acked /\ Deliver(s))
  /\ <>[][\A h \in Handlers : ~Fails(h)]_vars

LiveSpec == Spec /\ Fairness

-----------------------------------------------------------------------------
(* Properties.                                                             *)

\* What the player has been given.
Worth == Start + Bundle * Cardinality(ledger) + Reward * rewards

\* No coin comes from nowhere: whatever webhooks, polls, rewards and flushes cross,
\* and however often one is repeated, the stored balance and the one on the
\* screen are at most what was given at the start, bought (once per session) and won.
NoMinting ==
  /\ inventory.coins <= Worth
  /\ shown <= Worth

\* Stripe stops repeating an event once it is answered with success, so a
\* success means that the ledger has the purchase (HandlePaymentWebhook).
AckedIsCredited == acked \subseteq ledger

\* README.md: "exactly-once credit semantics".  What was bought stays: the balance
\* is at least what was given at the start and bought, less what was spent; neither
\* the exact write of the pack screen (SetInventoryCoins) nor the read and save of a
\* reward (AddInventoryCoins) takes it away.
CreditStands == inventory.coins + spent >= Start + Bundle * Cardinality(ledger)

\* A paid session is credited in the end, by the webhook or by a poll.
PaidIsCredited == \A s \in Sessions : s \in paid ~> s \in ledger

=============================================================================
