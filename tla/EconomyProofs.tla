--------------------------- MODULE EconomyProofs ---------------------------
(***************************************************************************)
(* Proofs about Economy.tla, for any number of handlers, cards and checkout *)
(* sessions and any prices.                                                *)
(*                                                                         *)
(* IInv is inductive and has three layers:                                 *)
(*   Typed   every variable has its type, and a handler that works on a    *)
(*           purchase or a reward holds the right request;                  *)
(*   Once    no open transaction inserts a session that is in the ledger,   *)
(*           no two insert the same one, and an answer of success that is   *)
(*           on its way to Stripe is about a session in the ledger;         *)
(*   Money   no balance that is stored, shown, read or about to be written  *)
(*           exceeds Limit, what was given less the rewards under way.      *)
(***************************************************************************)
EXTENDS Economy, FiniteSetTheorems, TLAPS

Fits(hd) ==
  /\ hd.from = "stripe" => hd.request.does = "credit"
  /\ hd.request.does = "add" =>
       hd.from = "nobody" /\ hd.at \in {"read", "save"} /\ hd.request.coins = Reward
  /\ hd.at = "status" => hd.request.does = "poll"
  /\ hd.at \in {"insert", "upsert", "commit"} => hd.request.does \in {"poll", "credit"}
  /\ hd.at \in {"read", "save"} => hd.request.does \notin {"poll", "credit"}

GoodHandler == {hd \in Handler : Fits(hd)}

Typed == TypeOK /\ handler \in [Handlers -> GoodHandler]

-----------------------------------------------------------------------------
(* What the operators on handlers and rows return.                         *)

\* An idle handler is in order.
LEMMA IdleFits == Idle \in GoodHandler
BY CardsServiceAssumption
   DEF GoodHandler, Handler, Fits, Idle, NoRow, Row, Place, Caller, Request

\* So is one that begins to work on a request.
LEMMA WorkingFits ==
  ASSUME NEW caller \in Caller, NEW request \in Request,
         caller = "stripe" => request.does = "credit",
         request.does = "add" => caller = "nobody" /\ request.coins = Reward
  PROVE  Working(caller, request) \in GoodHandler
<1> DEFINE place == FirstPlace(request)
<1>1. place \in Place
  BY DEF FirstPlace, Place
<1>2. request.does = "add" => place = "read"
  BY DEF FirstPlace
<1>3. /\ place = "status" => request.does = "poll"
      /\ place \in {"insert", "upsert", "commit"} => request.does \in {"poll", "credit"}
      /\ place \in {"read", "save"} => request.does \notin {"poll", "credit"}
  BY DEF FirstPlace
<1>4. Working(caller, request)
        = [at |-> place, from |-> caller, request |-> request, copy |-> NoRow, ok |-> FALSE]
  BY DEF Working
<1> HIDE DEF place
<1>5. NoRow \in Row
  BY CardsServiceAssumption DEF NoRow, Row
<1> QED BY <1>1, <1>2, <1>3, <1>4, <1>5 DEF GoodHandler, Handler, Fits

\* And one that has answered.
LEMMA AnsweredFits ==
  ASSUME NEW hd \in GoodHandler, NEW ok \in BOOLEAN
  PROVE  /\ Answered(hd, ok) \in GoodHandler
         /\ hd.from # "nobody" =>
              /\ Answered(hd, ok).at = "done"
              /\ Answered(hd, ok).from = hd.from
              /\ Answered(hd, ok).request = hd.request
              /\ Answered(hd, ok).ok = ok
              /\ Answered(hd, ok).copy \in {hd.copy, NoRow}
         /\ hd.from = "nobody" => Answered(hd, ok) = Idle
<1> DEFINE row == IF ok /\ hd.request.does = "get" THEN hd.copy ELSE NoRow
<1>1. row \in {hd.copy, NoRow}
  OBVIOUS
<1>2. NoRow \in Row
  BY CardsServiceAssumption DEF NoRow, Row
<1>3. row \in Row
  BY <1>1, <1>2 DEF GoodHandler, Handler
<1>4. CASE hd.from = "nobody"
  BY <1>4, IdleFits DEF Answered
<1>5. CASE hd.from # "nobody"
  <2>1. Answered(hd, ok)
          = [at |-> "done", from |-> hd.from, request |-> hd.request, copy |-> row, ok |-> ok]
    BY <1>5 DEF Answered, GoodHandler, Handler
  <2> HIDE DEF row
  <2> QED BY <1>1, <1>3, <1>5, <2>1 DEF GoodHandler, Handler, Fits, Place
<1> QED BY <1>4, <1>5

\* An answer that is not for Stripe does not become one.
LEMMA AnsweredElsewhere ==
  ASSUME NEW hd \in GoodHandler, NEW ok \in BOOLEAN, hd.from # "stripe"
  PROVE  /\ Answered(hd, ok).from # "stripe"
         /\ Answered(hd, ok).at \in {"idle", "done"}
<1>1. CASE hd.from = "nobody"
  BY <1>1, AnsweredFits DEF Idle
<1>2. CASE hd.from # "nobody"
  BY <1>2, AnsweredFits
<1> QED BY <1>1, <1>2

\* What is saved has the type of the row, and its coins are the ones read, the
\* ones asked for, or the ones read and the ones added.
LEMMA UpdatedRow ==
  ASSUME NEW row \in Row, NEW request \in Request
  PROVE  /\ Updated(row, request) \in Row
         /\ Updated(row, request).coins =
              CASE request.does = "set" -> request.coins
                [] request.does = "add" -> row.coins + request.coins
                [] OTHER -> row.coins
<1>1. ASSUME NEW n \in Nat PROVE ClampCardCount(n) \in 0 .. MaxCopies
  BY CardsServiceAssumption DEF ClampCardCount
<1>2. CASE request.does = "cards"
  <2> DEFINE cards == [c \in Cards |-> ClampCardCount(row.cards[c] + request.cards[c])]
  <2>1. request.cards \in [Cards -> Nat]
    BY <1>2 DEF Request
  <2>2. cards \in [Cards -> 0 .. MaxCopies]
    BY <1>1, <2>1, CardsServiceAssumption DEF Row
  <2>3. Updated(row, request) = [row EXCEPT !.cards = cards]
    BY <1>2 DEF Updated
  <2> HIDE DEF cards
  <2> QED BY <1>2, <2>2, <2>3 DEF Row
<1>3. CASE request.does = "set"
  BY <1>3 DEF Updated, Row, Request
<1>4. CASE request.does = "add"
  BY <1>4 DEF Updated, Row, Request
<1>5. CASE request.does \notin {"cards", "set", "add"}
  <2> DEFINE cards == [c \in Cards |-> ClampCardCount(row.cards[c])]
  <2>1. cards \in [Cards -> 0 .. MaxCopies]
    BY <1>1, CardsServiceAssumption DEF Row
  <2>2. Updated(row, request) = [row EXCEPT !.cards = cards]
    BY <1>5 DEF Updated, NormalizeInventoryCards
  <2> HIDE DEF cards
  <2> QED BY <1>5, <2>1, <2>2 DEF Row
<1> QED BY <1>2, <1>3, <1>4, <1>5

-----------------------------------------------------------------------------
(* Types.                                                                  *)

\* A free handler that takes a request in order leaves the handlers in order.
LEMMA TakesFits ==
  ASSUME handler \in [Handlers -> GoodHandler],
         NEW caller \in Caller, NEW request \in Request,
         caller = "stripe" => request.does = "credit",
         request.does = "add" => caller = "nobody" /\ request.coins = Reward,
         Takes(caller, request)
  PROVE  handler' \in [Handlers -> GoodHandler]
BY WorkingFits DEF Takes

\* So does a handler that answers, and one that goes to its next place.
LEMMA AnswersFits ==
  ASSUME handler \in [Handlers -> GoodHandler],
         NEW h \in Handlers, NEW ok \in BOOLEAN, Answers(h, ok)
  PROVE  handler' \in [Handlers -> GoodHandler]
BY AnsweredFits DEF Answers

LEMMA MovesFits ==
  ASSUME handler \in [Handlers -> GoodHandler],
         NEW h \in Handlers, NEW place \in {"insert", "upsert", "commit"},
         handler[h].at \in {"status", "insert", "upsert"}, Moves(h, place)
  PROVE  handler' \in [Handlers -> GoodHandler]
<1>1. [handler[h] EXCEPT !.at = place] \in GoodHandler
  BY DEF GoodHandler, Handler, Fits, Place
<1> QED BY <1>1 DEF Moves

\* The handler whose client has its answer, or has given up on it.
LEMMA HearsFits ==
  ASSUME handler \in [Handlers -> GoodHandler],
         NEW h \in Handlers, NEW ok \in BOOLEAN, Hears(h, ok)
  PROVE  handler' \in [Handlers -> GoodHandler]
<1>1. [handler[h] EXCEPT !.from = "nobody"] \in GoodHandler
  BY DEF GoodHandler, Handler, Fits, Caller
<1> QED BY <1>1, IdleFits DEF Hears

\* The handler of the client's next request.
LEMMA GoesOnFits ==
  ASSUME handler \in [Handlers -> GoodHandler],
         NEW h \in Handlers, NEW ok \in BOOLEAN, NEW name, NEW request \in Request,
         request.does # "add", GoesOn(h, ok, name, request)
  PROVE  handler' \in [Handlers -> GoodHandler]
<1>1. [handler[h] EXCEPT !.from = "nobody"] \in GoodHandler
  BY DEF GoodHandler, Handler, Fits, Caller
<1>2. Working("client", request) \in GoodHandler
  BY WorkingFits DEF Caller
<1> QED BY <1>1, <1>2 DEF GoesOn

\* The requests of the client.
LEMMA ClientRequests ==
  ASSUME TypeOK
  PROVE  /\ GetRow \in Request /\ GetRow.does = "get"
         /\ SaveCards \in Request /\ SaveCards.does = "cards"
         /\ SaveCoins \in Request /\ SaveCoins.does = "set" /\ SaveCoins.coins = shown
         /\ checkout # NoSession =>
              [does |-> "poll", session |-> checkout] \in Request
BY DEF TypeOK, GetRow, SaveCards, SaveCoins, Request

\* What a pack costs is between 0 and PackCost, and the copies stay within bounds.
LEMMA PackBounds ==
  ASSUME TypeOK, NEW pack \in [1 .. PackSize -> Cards]
  PROVE  /\ Price(pack) \in 0 .. PackCost
         /\ \A c \in Cards : Kept(pack)[c] \in 0 .. (MaxCopies - copies[c])
<1>1. PackSize \in Nat /\ PackCost \in Nat /\ Refund \in Nat /\ PackSize * Refund < PackCost
  BY EconomyAssumption
<1>2. IsFiniteSet(1 .. PackSize) /\ Cardinality(1 .. PackSize) = PackSize
  BY <1>1, FS_Interval
<1> DEFINE refunded == Cardinality(Refunded(pack))
<1>3. refunded \in Nat /\ refunded <= PackSize
  <2>1. Refunded(pack) \subseteq 1 .. PackSize
    BY DEF Refunded
  <2> QED BY <1>2, <2>1, FS_Subset, FS_CardinalityType
<1>4. Price(pack) = PackCost - Refund * refunded
  BY DEF Price
<1> HIDE DEF refunded
<1>5. Refund * refunded \in Nat /\ Refund * refunded <= Refund * PackSize
  BY <1>1, <1>3
<1>6. Refund * PackSize = PackSize * Refund
  BY <1>1
<1>7. Price(pack) \in 0 .. PackCost
  BY <1>1, <1>4, <1>5, <1>6
<1>8. ASSUME NEW c \in Cards PROVE Kept(pack)[c] \in 0 .. (MaxCopies - copies[c])
  <2>1. Drawn(pack, c) \in Nat
    BY <1>2, FS_Subset, FS_CardinalityType DEF Drawn
  <2>2. copies[c] \in 0 .. MaxCopies
    BY DEF TypeOK
  <2> QED BY <2>1, <2>2, CardsServiceAssumption DEF Kept
<1> QED BY <1>7, <1>8

\* Every variable has its type at the start.
LEMMA TypedInit == Init => Typed
<1> SUFFICES ASSUME Init PROVE Typed
  OBVIOUS
<1>1. inventory \in Row
  BY CardsServiceAssumption DEF Init, ServiceInit, NewInventory, Row
<1>2. handler \in [Handlers -> GoodHandler]
  BY IdleFits DEF Init, ServiceInit
<1>3. handler \in [Handlers -> Handler]
  BY <1>2 DEF GoodHandler
<1>4. ServiceTypes
  BY <1>1, <1>3 DEF Init, ServiceInit, ServiceTypes
<1>5. copies \in [Cards -> 0 .. MaxCopies] /\ pendingCards \in [Cards -> Nat]
  BY CardsServiceAssumption DEF Init, NoCards
<1>6. shown \in Nat /\ rewards \in 0 .. MaxRewards
  BY CardsServiceAssumption, EconomyAssumption DEF Init
<1> QED BY <1>2, <1>4, <1>5, <1>6 DEF Init, Typed, TypeOK, Screen, Call

\* The handlers are in order exactly when they have their type and fit.
LEMMA GoodIsTyped ==
  ASSUME handler' \in [Handlers -> GoodHandler]
  PROVE  handler' \in [Handlers -> Handler]
BY DEF GoodHandler

\* The service keeps the types.
LEMMA TypedService ==
  ASSUME Typed, NEW h \in Handlers, ServiceNext(h)
  PROVE  Typed'
<1> USE DEF Typed
<1>1. handler[h] \in GoodHandler /\ handler[h] \in Handler
  BY DEF GoodHandler
<1>2. SUFFICES handler' \in [Handlers -> GoodHandler] /\ inventory' \in Row
               /\ ledger' \subseteq Sessions /\ UNCHANGED paid
  BY <1>2, GoodIsTyped
     DEF TypeOK, ServiceTypes, ServiceNext, clientVars, packVars, shopVars, worldVars
<1>3. inventory \in Row /\ ledger \subseteq Sessions
  BY DEF TypeOK, ServiceTypes
<1>4. CASE Read(h)
  <2> DEFINE holding == [handler[h] EXCEPT !.copy = inventory, !.at = "save"]
  <2>1. holding \in GoodHandler
    BY <1>1, <1>3, <1>4 DEF GoodHandler, Handler, Fits, Place, Read
  <2> QED BY <1>3, <1>4, <2>1, AnsweredFits DEF Read
<1>5. CASE Save(h)
  <2>1. Updated(handler[h].copy, handler[h].request) \in Row
    BY <1>1, UpdatedRow DEF Handler
  <2> QED BY <1>3, <1>5, <2>1, AnswersFits DEF Save
<1>6. CASE AskStripe(h)
  BY <1>3, <1>6, AnswersFits, MovesFits DEF AskStripe
<1>7. CASE Insert(h)
  BY <1>3, <1>7, AnswersFits, MovesFits DEF Insert
<1>8. CASE Upsert(h)
  BY <1>3, <1>8, MovesFits DEF Upsert
<1>9. CASE Commit(h)
  <2>1. SessionOf(h) \in Sessions
    BY <1>1, <1>9 DEF Commit, SessionOf, GoodHandler, Handler, Fits, Request
  <2>2. inventory' \in Row
    BY <1>3, <1>9, CardsServiceAssumption DEF Commit, Row
  <2> QED BY <1>3, <1>9, <2>1, <2>2, AnswersFits DEF Commit
<1>10. CASE Fails(h)
  BY <1>3, <1>10, AnswersFits DEF Fails
<1> QED
  BY <1>4, <1>5, <1>6, <1>7, <1>8, <1>9, <1>10 DEF ServiceNext, ServiceStep

\* What the client's screens leave alone.
LEMMA TypedScreens ==
  ASSUME Typed, EnterPacks \/ OpenPack \/ TryFlush \/ (\E next \in {"title", "shop"} : Leave(next))
                \/ EnterShop \/ LeaveShop \/ Poll \/ StopPolling
                \/ (\E s \in Sessions : StartCheckout(s))
  PROVE  Typed'
<1> USE DEF Typed
<1>1. TypeOK /\ "client" \in Caller
  BY DEF Caller
<1>2. SUFFICES TypeOK' /\ handler' \in [Handlers -> GoodHandler]
  OBVIOUS
<1>3. CASE EnterPacks
  <2>1. handler' \in [Handlers -> GoodHandler]
    BY <1>1, <1>3, ClientRequests, TakesFits DEF EnterPacks, Asks
  <2>2. NoCards \in [Cards -> Nat]
    BY DEF NoCards
  <2> QED
    BY <1>3, <2>1, <2>2, GoodIsTyped
       DEF EnterPacks, Asks, TypeOK, ServiceTypes, worldVars, Screen, Call
<1>4. CASE OpenPack
  <2> PICK pack \in [1 .. PackSize -> Cards] :
        /\ copies' = [c \in Cards |-> copies[c] + Kept(pack)[c]]
        /\ pendingCards' = [c \in Cards |-> pendingCards[c] + Kept(pack)[c]]
        /\ shown' = shown - Price(pack)
        /\ spent' = spent + Price(pack)
    BY <1>4 DEF OpenPack
  <2>1. Price(pack) \in 0 .. PackCost
        /\ \A c \in Cards : Kept(pack)[c] \in 0 .. (MaxCopies - copies[c])
    BY <1>1, PackBounds
  <2>2. copies' \in [Cards -> 0 .. MaxCopies]
    BY <2>1, CardsServiceAssumption DEF TypeOK
  <2>3. pendingCards' \in [Cards -> Nat]
    <3>1. \A c \in Cards : pendingCards[c] + Kept(pack)[c] \in Nat
      BY <2>1, CardsServiceAssumption DEF TypeOK
    <3> QED BY <3>1
  <2>4. shown' \in Nat /\ spent' \in Nat
    BY <1>4, <2>1, EconomyAssumption DEF TypeOK, OpenPack
  <2> QED
    BY <1>4, <2>2, <2>3, <2>4
       DEF OpenPack, TypeOK, ServiceTypes, serviceVars, shopVars
<1>5. CASE TryFlush
  <2>1. handler' \in [Handlers -> GoodHandler] /\ call' \in Call
    BY <1>1, <1>5, ClientRequests, TakesFits DEF TryFlush, Saves, Asks, Call
  <2> QED
    BY <1>5, <2>1, GoodIsTyped
       DEF TryFlush, TypeOK, ServiceTypes, packVars, shopVars, worldVars
<1>6. ASSUME NEW next \in {"title", "shop"}, Leave(next)
      PROVE  TypeOK' /\ handler' \in [Handlers -> GoodHandler]
  <2>1. handler' \in [Handlers -> GoodHandler] /\ call' \in Call
    BY <1>1, <1>6, ClientRequests, TakesFits DEF Leave, Saves, Asks, Call, TypeOK
  <2>2. screen' \in Screen /\ leaving' \in Screen \cup {"none"}
    BY <1>6 DEF Leave, TypeOK, Screen
  <2> QED
    BY <1>6, <2>1, <2>2, GoodIsTyped DEF Leave, TypeOK, ServiceTypes, shopVars, worldVars
<1>7. CASE EnterShop
  BY <1>7 DEF EnterShop, TypeOK, ServiceTypes, Screen, serviceVars, packVars, shopVars, worldVars
<1>8. CASE LeaveShop
  BY <1>8 DEF LeaveShop, TypeOK, ServiceTypes, Screen, serviceVars, packVars, worldVars
<1>9. CASE Poll
  <2>1. handler' \in [Handlers -> GoodHandler] /\ call' \in Call
    BY <1>1, <1>9, ClientRequests, TakesFits DEF Poll, Asks, Call
  <2> QED
    BY <1>9, <2>1, GoodIsTyped DEF Poll, TypeOK, ServiceTypes, packVars, shopVars, worldVars
<1>10. CASE StopPolling
  BY <1>10 DEF StopPolling, TypeOK, ServiceTypes, serviceVars, packVars, worldVars
<1>11. ASSUME NEW s \in Sessions, StartCheckout(s)
       PROVE  TypeOK' /\ handler' \in [Handlers -> GoodHandler]
  BY <1>11 DEF StartCheckout, TypeOK, ServiceTypes, serviceVars, packVars
<1> QED BY <1>3, <1>4, <1>5, <1>6, <1>7, <1>8, <1>9, <1>10, <1>11

\* The client's thread keeps the types when a call returns.
LEMMA TypedHears ==
  ASSUME Typed, ClientHears
  PROVE  Typed'
<1> USE DEF Typed
<1>1. TypeOK
  OBVIOUS
<1>2. SUFFICES TypeOK' /\ handler' \in [Handlers -> GoodHandler]
  OBVIOUS
<1>3. PICK h \in Handlers :
        Loaded(h) \/ CardsAnswered(h) \/ CoinsAnswered(h) \/ Polled(h) \/ Refreshed(h)
  BY DEF ClientHears
<1>4. handler[h].copy \in Row /\ handler[h].copy.coins \in Nat
      /\ handler[h].copy.cards \in [Cards -> 0 .. MaxCopies]
  BY DEF GoodHandler, Handler, Row
<1>5. NoCards \in [Cards -> Nat] /\ NoCards \in [Cards -> 0 .. MaxCopies]
  BY CardsServiceAssumption DEF NoCards
<1>6. CASE Loaded(h)
  <2>1. handler' \in [Handlers -> GoodHandler] /\ call' \in Call
    BY <1>6, HearsFits DEF Loaded, Returns, Call
  <2>2. shown' \in Nat /\ copies' \in [Cards -> 0 .. MaxCopies]
    BY <1>4, <1>5, <1>6 DEF Loaded, TypeOK
  <2> QED
    BY <1>6, <2>1, <2>2, GoodIsTyped DEF Loaded, TypeOK, ServiceTypes, shopVars, worldVars
<1>7. CASE CardsAnswered(h)
  <2>1. handler' \in [Handlers -> GoodHandler] /\ call' \in Call
    BY <1>1, <1>7, ClientRequests, HearsFits, GoesOnFits
       DEF CardsAnswered, Returns, GoesOn, Call
  <2> QED
    BY <1>7, <2>1, GoodIsTyped
       DEF CardsAnswered, TypeOK, ServiceTypes, packVars, shopVars, worldVars
<1>8. CASE CoinsAnswered(h)
  <2>1. handler' \in [Handlers -> GoodHandler] /\ call' \in Call
    BY <1>8, HearsFits DEF CoinsAnswered, Returns, Call
  <2>2. screen' \in Screen /\ leaving' \in Screen \cup {"none"}
    BY <1>8 DEF CoinsAnswered, TypeOK
  <2>3. pendingCards' \in [Cards -> Nat] /\ dirty' \in BOOLEAN
    BY <1>5, <1>8 DEF CoinsAnswered, TypeOK
  <2> QED
    BY <1>8, <2>1, <2>2, <2>3, GoodIsTyped
       DEF CoinsAnswered, TypeOK, ServiceTypes, shopVars, worldVars
<1>9. CASE Polled(h)
  <2>1. handler' \in [Handlers -> GoodHandler] /\ call' \in Call
    BY <1>1, <1>9, ClientRequests, GoesOnFits DEF Polled, GoesOn, Call
  <2> QED
    BY <1>9, <2>1, GoodIsTyped
       DEF Polled, TypeOK, ServiceTypes, packVars, shopVars, worldVars
<1>10. CASE Refreshed(h)
  <2>1. handler' \in [Handlers -> GoodHandler] /\ call' \in Call
    BY <1>10, HearsFits DEF Refreshed, Returns, Call
  <2>2. shown' \in Nat /\ checkout' \in Sessions \cup {NoSession} /\ checkoutStart' \in Nat
    BY <1>4, <1>10 DEF Refreshed, TypeOK, shopVars
  <2> QED
    BY <1>10, <2>1, <2>2, GoodIsTyped
       DEF Refreshed, TypeOK, ServiceTypes, packVars, worldVars
<1> QED BY <1>3, <1>6, <1>7, <1>8, <1>9, <1>10

\* Stripe, the browser and the game server keep the types.
LEMMA TypedWorld ==
  ASSUME Typed, WorldNext
  PROVE  Typed'
<1> USE DEF Typed
<1>1. SUFFICES TypeOK' /\ handler' \in [Handlers -> GoodHandler]
  OBVIOUS
<1>2. ASSUME NEW s \in Sessions, Pay(s)
      PROVE  TypeOK' /\ handler' \in [Handlers -> GoodHandler]
  BY <1>2 DEF Pay, TypeOK, ServiceTypes, clientVars, packVars, shopVars, worldVars
<1>3. ASSUME NEW s \in Sessions, Deliver(s)
      PROVE  TypeOK' /\ handler' \in [Handlers -> GoodHandler]
  <2> DEFINE request == [does |-> "credit", session |-> s]
  <2>1. request \in Request /\ request.does = "credit" /\ "stripe" \in Caller
    BY DEF Request, Caller
  <2>2. Takes("stripe", request)
    BY <1>3 DEF Deliver
  <2> HIDE DEF request
  <2>3. handler' \in [Handlers -> GoodHandler]
    BY <2>1, <2>2, TakesFits
  <2> QED
    BY <1>3, <2>3, GoodIsTyped
       DEF Deliver, TypeOK, ServiceTypes, clientVars, packVars, shopVars, worldVars
<1>4. ASSUME NEW h \in Handlers, StripeHears(h)
      PROVE  TypeOK' /\ handler' \in [Handlers -> GoodHandler]
  <2>1. handler' \in [Handlers -> GoodHandler]
    BY <1>4, IdleFits DEF StripeHears
  <2>2. SessionOf(h) \in Sessions
    BY <1>4 DEF StripeHears, SessionOf, GoodHandler, Handler, Fits, Request
  <2>3. acked' \subseteq Sessions
    BY <1>4, <2>2 DEF StripeHears, TypeOK
  <2> QED
    BY <1>4, <2>1, <2>3, GoodIsTyped
       DEF StripeHears, TypeOK, ServiceTypes, clientVars, packVars, shopVars
<1>5. ASSUME NEW h \in Handlers, AnswerLost(h)
      PROVE  TypeOK' /\ handler' \in [Handlers -> GoodHandler]
  <2>1. handler' \in [Handlers -> GoodHandler]
    BY <1>5, IdleFits DEF AnswerLost
  <2> QED
    BY <1>5, <2>1, GoodIsTyped
       DEF AnswerLost, TypeOK, ServiceTypes, clientVars, packVars, shopVars, worldVars
<1>6. CASE GiveReward
  <2> DEFINE request == [does |-> "add", coins |-> Reward]
  <2>1. request \in Request /\ request.does = "add" /\ request.coins = Reward
        /\ "nobody" \in Caller
    BY EconomyAssumption DEF Request, Caller
  <2>2. Takes("nobody", request)
    BY <1>6 DEF GiveReward
  <2> HIDE DEF request
  <2>3. handler' \in [Handlers -> GoodHandler]
    BY <2>1, <2>2, TakesFits
  <2>4. rewards' \in 0 .. MaxRewards
    BY <1>6, EconomyAssumption DEF GiveReward, TypeOK
  <2> QED
    BY <1>6, <2>3, <2>4, GoodIsTyped
       DEF GiveReward, TypeOK, ServiceTypes, clientVars, packVars, shopVars
<1> QED BY <1>2, <1>3, <1>4, <1>5, <1>6 DEF WorldNext

LEMMA TypedNext ==
  ASSUME Typed, [Next]_vars
  PROVE  Typed'
<1>1. CASE Next
  BY <1>1, TypedService, TypedScreens, TypedHears, TypedWorld DEF Next, ClientNext
<1>2. CASE UNCHANGED vars
  BY <1>2 DEF vars, serviceVars, clientVars, packVars, shopVars, worldVars,
              Typed, TypeOK, ServiceTypes
<1> QED BY <1>1, <1>2

\* Every variable keeps its type: no balance is negative, and no stored, read or
\* shown count of a card is above maxCardCopies (ClampCardCount).
THEOREM EconomyTypeCorrect == Spec => []TypeOK
<1>1. Typed => TypeOK
  BY DEF Typed
<1> QED BY <1>1, TypedInit, TypedNext, PTL DEF Spec

-----------------------------------------------------------------------------
(* A session is credited once.                                             *)

InTransaction(h) == handler[h].at \in {"upsert", "commit"}

Once ==
  /\ acked \subseteq ledger
  /\ \A h \in Handlers :
       handler[h].at = "done" /\ handler[h].ok /\ handler[h].from = "stripe"
         => SessionOf(h) \in ledger
  /\ \A h \in Handlers : InTransaction(h) => SessionOf(h) \notin ledger
  /\ \A h, k \in Handlers :
       InTransaction(h) /\ InTransaction(k) /\ SessionOf(h) = SessionOf(k) => h = k

\* What the client, Stripe and the game server do to a handler: nothing, leave it
\* alone with its work, or give a free one a request or its rest.
Quiet(h) ==
  \/ handler'[h] = handler[h]
  \/ handler'[h] = [handler[h] EXCEPT !.from = "nobody"]
  \/ /\ handler[h].at \in {"idle", "done"}
     /\ handler'[h].at \notin {"upsert", "commit", "done"}
     /\ handler'[h].request.does = "set" => handler'[h].request.coins = shown
     /\ handler'[h].request.does = "add" => rewards' # rewards
     /\ handler'[h].copy = NoRow

LEMMA FirstPlaces ==
  ASSUME NEW caller, NEW request
  PROVE  /\ Working(caller, request).at \in {"status", "insert", "read"}
         /\ Working(caller, request).request = request
         /\ Working(caller, request).copy = NoRow
BY DEF Working, FirstPlace

LEMMA TakesQuiet ==
  ASSUME Typed, NEW caller, NEW request, Takes(caller, request),
         request.does = "set" => request.coins = shown,
         request.does = "add" => rewards' # rewards
  PROVE  \A h \in Handlers : Quiet(h)
<1>1. PICK k \in Handlers :
        /\ handler[k].at = "idle"
        /\ handler' = [handler EXCEPT ![k] = Working(caller, request)]
  BY DEF Takes
<1>2. handler'[k] = Working(caller, request)
      /\ \A h \in Handlers \ {k} : handler'[h] = handler[h]
  BY <1>1 DEF Typed
<1> QED BY <1>1, <1>2, FirstPlaces DEF Quiet

LEMMA HearsQuiet ==
  ASSUME Typed, NEW k \in Handlers, NEW ok, Hears(k, ok)
  PROVE  \A h \in Handlers : Quiet(h)
<1>1. \A h \in Handlers \ {k} : handler'[h] = handler[h]
  BY DEF Typed, Hears
<1>2. CASE handler[k].at = "done"
  <2>1. handler'[k] = Idle
    BY <1>2 DEF Typed, Hears
  <2> QED BY <1>1, <1>2, <2>1 DEF Quiet, Idle
<1>3. CASE handler[k].at # "done"
  <2>1. handler'[k] = [handler[k] EXCEPT !.from = "nobody"]
    BY <1>3 DEF Typed, Hears
  <2> QED BY <1>1, <2>1 DEF Quiet
<1> QED BY <1>2, <1>3

LEMMA GoesOnQuiet ==
  ASSUME Typed, NEW k \in Handlers, NEW ok, NEW name, NEW request,
         request.does = "set" => request.coins = shown, request.does # "add",
         GoesOn(k, ok, name, request)
  PROVE  \A h \in Handlers : Quiet(h)
<1>1. CASE /\ handler[k].at = "done"
           /\ handler' = [handler EXCEPT ![k] = Working("client", request)]
  <2>1. handler'[k] = Working("client", request)
        /\ \A h \in Handlers \ {k} : handler'[h] = handler[h]
    BY <1>1 DEF Typed
  <2> QED BY <1>1, <2>1, FirstPlaces DEF Quiet
<1>2. ASSUME handler[k].at # "done", NEW j \in Handlers, handler[j].at = "idle",
             handler' = [handler EXCEPT ![k].from = "nobody",
                                        ![j] = Working("client", request)]
      PROVE  \A h \in Handlers : Quiet(h)
  <2>1. handler'[j] = Working("client", request)
        /\ (k # j => handler'[k] = [handler[k] EXCEPT !.from = "nobody"])
        /\ \A h \in Handlers \ {j, k} : handler'[h] = handler[h]
    BY <1>2 DEF Typed
  <2>2. Quiet(j)
    BY <1>2, <2>1, FirstPlaces DEF Quiet
  <2>3. k # j => Quiet(k)
    BY <2>1 DEF Quiet
  <2>4. \A h \in Handlers \ {j, k} : Quiet(h)
    BY <2>1 DEF Quiet
  <2> QED BY <2>2, <2>3, <2>4
<1> QED BY <1>1, <1>2 DEF GoesOn

\* Every step of the client is quiet.
LEMMA ClientQuiet ==
  ASSUME Typed, ClientNext
  PROVE  /\ \A h \in Handlers : Quiet(h)
         /\ UNCHANGED <<inventory, ledger, paid, acked, rewards>>
<1>1. TypeOK
  BY DEF Typed
<1>2. /\ GetRow.does \notin {"set", "add"} /\ SaveCards.does \notin {"set", "add"}
      /\ SaveCoins.does # "add" /\ SaveCoins.coins = shown
  BY DEF GetRow, SaveCards, SaveCoins
<1>3. ASSUME UNCHANGED handler PROVE \A h \in Handlers : Quiet(h)
  BY <1>3 DEF Quiet
<1>4. CASE EnterPacks
  BY <1>2, <1>4, TakesQuiet DEF EnterPacks, Asks, worldVars
<1>5. CASE OpenPack
  BY <1>3, <1>5 DEF OpenPack, serviceVars
<1>6. CASE TryFlush
  BY <1>2, <1>6, TakesQuiet DEF TryFlush, Saves, Asks, worldVars
<1>7. CASE \E next \in {"title", "shop"} : Leave(next)
  BY <1>2, <1>3, <1>7, TakesQuiet DEF Leave, Saves, Asks, worldVars
<1>8. CASE EnterShop \/ LeaveShop \/ StopPolling
  BY <1>3, <1>8 DEF EnterShop, LeaveShop, StopPolling, serviceVars, worldVars
<1>9. CASE Poll
  BY <1>9, TakesQuiet DEF Poll, Asks, worldVars
<1>10. CASE \E s \in Sessions : StartCheckout(s)
  BY <1>3, <1>10 DEF StartCheckout, serviceVars
<1>11. CASE ClientHears
  <2>1. PICK h \in Handlers :
          Loaded(h) \/ CardsAnswered(h) \/ CoinsAnswered(h) \/ Polled(h) \/ Refreshed(h)
    BY <1>11 DEF ClientHears
  <2>2. CASE Loaded(h)
    BY <2>2, HearsQuiet DEF Loaded, Returns, worldVars
  <2>3. CASE CardsAnswered(h)
    BY <1>2, <2>3, HearsQuiet, GoesOnQuiet DEF CardsAnswered, Returns, worldVars
  <2>4. CASE CoinsAnswered(h)
    BY <2>4, HearsQuiet DEF CoinsAnswered, Returns, worldVars
  <2>5. CASE Polled(h)
    BY <1>2, <2>5, GoesOnQuiet DEF Polled, worldVars
  <2>6. CASE Refreshed(h)
    BY <2>6, HearsQuiet DEF Refreshed, Returns, worldVars
  <2> QED BY <2>1, <2>2, <2>3, <2>4, <2>5, <2>6
<1> QED BY <1>4, <1>5, <1>6, <1>7, <1>8, <1>9, <1>10, <1>11 DEF ClientNext

\* A quiet step keeps Once.
LEMMA OnceQuiet ==
  ASSUME Typed, Once, \A h \in Handlers : Quiet(h), ledger' = ledger, acked' \subseteq ledger
  PROVE  Once'
<1>1. ASSUME NEW h \in Handlers
      PROVE  /\ InTransaction(h)' => InTransaction(h) /\ SessionOf(h)' = SessionOf(h)
             /\ (handler[h].at = "done" /\ handler[h].ok /\ handler[h].from = "stripe")'
                  => /\ handler[h].at = "done" /\ handler[h].ok /\ handler[h].from = "stripe"
                     /\ SessionOf(h)' = SessionOf(h)
  <2>1. handler[h] \in Handler
    BY DEF Typed, GoodHandler
  <2>2. CASE handler'[h] = handler[h]
    BY <2>2 DEF InTransaction, SessionOf
  <2>3. CASE handler'[h] = [handler[h] EXCEPT !.from = "nobody"]
    BY <2>1, <2>3 DEF InTransaction, SessionOf, Handler
  <2>4. CASE handler'[h].at \notin {"upsert", "commit", "done"}
    BY <2>4 DEF InTransaction
  <2> QED BY <2>2, <2>3, <2>4 DEF Quiet
<1> QED BY <1>1 DEF Once

\* What a service step of h can do to the other handlers: nothing.
LEMMA OthersRest ==
  ASSUME Typed, NEW h \in Handlers, ServiceNext(h)
  PROVE  \A k \in Handlers \ {h} : handler'[k] = handler[k]
BY DEF Typed, ServiceNext, ServiceStep, Read, Save, AskStripe, Insert, Upsert, Commit,
       Fails, Answers, Moves

\* The handler that answers leaves its transaction, and tells Stripe what it says.
LEMMA AnswersOut ==
  ASSUME Typed, NEW h \in Handlers, NEW ok \in BOOLEAN, Answers(h, ok)
  PROVE  /\ ~InTransaction(h)'
         /\ (handler[h].at = "done" /\ handler[h].ok /\ handler[h].from = "stripe")'
              => ok /\ SessionOf(h)' = SessionOf(h)
<1>1. handler'[h] = Answered(handler[h], ok)
  BY DEF Typed, Answers
<1>2. CASE handler[h].from = "nobody"
  <2>1. handler'[h] = Idle
    BY <1>1, <1>2, AnsweredFits DEF Typed
  <2> QED BY <2>1 DEF Idle, InTransaction
<1>3. CASE handler[h].from # "nobody"
  <2>1. handler'[h].at = "done" /\ handler'[h].ok = ok
        /\ handler'[h].request = handler[h].request
    BY <1>1, <1>3, AnsweredFits DEF Typed
  <2> QED BY <2>1 DEF InTransaction, SessionOf
<1> QED BY <1>2, <1>3

\* A step of the service keeps Once: the unique key lets one transaction at a time
\* insert a session, and not one that is in the ledger.
LEMMA OnceService ==
  ASSUME Typed, Once, NEW h \in Handlers, ServiceNext(h)
  PROVE  Once'
<1>1. \A k \in Handlers \ {h} : handler'[k] = handler[k]
  BY OthersRest
<1>2. UNCHANGED acked
  BY DEF ServiceNext, worldVars
<1>3. \A k \in Handlers \ {h} : SessionOf(k)' = SessionOf(k)
                               /\ (InTransaction(k)' <=> InTransaction(k))
  BY <1>1 DEF SessionOf, InTransaction
\* h is in no transaction afterwards, and what it tells Stripe is true.
<1>4. ASSUME ledger' = ledger, ~InTransaction(h)',
             (handler[h].at = "done" /\ handler[h].ok /\ handler[h].from = "stripe")'
               => SessionOf(h)' \in ledger
      PROVE  Once'
  BY <1>1, <1>2, <1>3, <1>4 DEF Once
<1>5. CASE Read(h)
  <2> DEFINE holding == [handler[h] EXCEPT !.copy = inventory, !.at = "save"]
  <2>1. ledger' = ledger /\ handler'[h] \in {holding, Answered(holding, TRUE)}
        /\ (handler'[h] # holding => handler[h].request.does = "get")
    BY <1>5 DEF Read, Typed
  <2>2. handler[h] \in GoodHandler /\ handler[h].at = "read" /\ inventory \in Row
    BY <1>5 DEF Read, Typed, TypeOK, ServiceTypes
  <2>3. holding.at = "save" /\ holding.from = handler[h].from
        /\ holding.request = handler[h].request
    BY <2>2 DEF GoodHandler, Handler
  <2>4. holding \in GoodHandler
    BY <2>2, <2>3 DEF GoodHandler, Handler, Fits, Place
  <2> HIDE DEF holding
  <2>5. CASE handler'[h] = holding
    BY <1>4, <2>1, <2>3, <2>5 DEF InTransaction
  <2>6. CASE handler'[h] = Answered(holding, TRUE) /\ handler[h].request.does = "get"
    <3>1. holding.from # "stripe"
      BY <2>3, <2>4, <2>6 DEF GoodHandler, Fits
    <3>2. handler'[h].at \in {"idle", "done"} /\ handler'[h].from # "stripe"
      BY <2>4, <2>6, <3>1, AnsweredElsewhere
    <3> QED BY <1>4, <2>1, <3>2 DEF InTransaction
  <2> QED BY <2>1, <2>5, <2>6
<1>6. CASE Save(h) \/ Fails(h)
  <2>1. ledger' = ledger
    BY <1>6 DEF Save, Fails
  <2>2. CASE Fails(h)
    BY <1>4, <2>1, <2>2, AnswersOut DEF Fails
  <2>3. CASE Save(h)
    <3>1. Answers(h, TRUE) /\ handler[h].at = "save"
      BY <2>3 DEF Save
    <3>2. handler[h].from # "stripe"
      BY <3>1 DEF Typed, GoodHandler, Fits
    <3>3. handler'[h] = Answered(handler[h], TRUE)
      BY <3>1 DEF Answers, Typed
    <3>4. handler'[h].from # "stripe"
      BY <3>2, <3>3, AnsweredElsewhere DEF Typed
    <3> QED BY <1>4, <2>1, <3>1, <3>4, AnswersOut
  <2> QED BY <1>6, <2>2, <2>3
<1>7. CASE AskStripe(h)
  <2>1. ledger' = ledger /\ handler[h].at = "status"
    BY <1>7 DEF AskStripe
  <2>2. CASE Moves(h, "insert")
    <3>1. handler'[h].at = "insert"
      BY <2>2 DEF Moves, Typed, GoodHandler, Handler
    <3> QED BY <1>4, <2>1, <3>1 DEF InTransaction
  <2>3. CASE Answers(h, TRUE) /\ SessionOf(h) \notin paid
    \* Only a poll asks Stripe, and its answer goes to the client.
    <3>1. handler[h] \in GoodHandler
      BY DEF Typed
    <3>2. handler[h].from # "stripe"
      BY <2>1, <3>1 DEF GoodHandler, Fits
    <3>3. handler'[h] = Answered(handler[h], TRUE)
      BY <2>3 DEF Answers, Typed
    <3>4. handler'[h].from # "stripe"
      BY <3>1, <3>2, <3>3, AnsweredElsewhere
    <3> QED BY <1>4, <2>1, <2>3, <3>4, AnswersOut
  <2> QED BY <1>7, <2>2, <2>3 DEF AskStripe
<1>8. CASE Insert(h)
  <2>1. ledger' = ledger /\ handler[h].at = "insert" /\ ~KeyLocked(SessionOf(h))
    BY <1>8 DEF Insert
  <2>2. CASE SessionOf(h) \in ledger
    BY <1>4, <1>8, <2>1, <2>2, AnswersOut DEF Insert
  <2>3. CASE SessionOf(h) \notin ledger
    <3>1. handler'[h] = [handler[h] EXCEPT !.at = "upsert"]
      BY <1>8, <2>3 DEF Insert, Moves, Typed
    <3>2. handler'[h].at = "upsert" /\ SessionOf(h)' = SessionOf(h)
      BY <3>1 DEF Typed, GoodHandler, Handler, SessionOf
    <3>3. \A k \in Handlers : InTransaction(k) => SessionOf(k) # SessionOf(h)
      BY <2>1 DEF KeyLocked, InTransaction
    <3> QED BY <1>1, <1>2, <1>3, <2>1, <2>3, <3>2, <3>3 DEF Once, InTransaction
  <2> QED BY <2>2, <2>3
<1>9. CASE Upsert(h)
  <2>1. ledger' = ledger /\ handler[h].at = "upsert"
    BY <1>9 DEF Upsert
  <2>2. handler'[h] = [handler[h] EXCEPT !.at = "commit"]
    BY <1>9 DEF Upsert, Moves, Typed
  <2>3. handler'[h].at = "commit" /\ SessionOf(h)' = SessionOf(h)
    BY <2>2 DEF Typed, GoodHandler, Handler, SessionOf
  <2> QED BY <1>1, <1>2, <1>3, <2>1, <2>3 DEF Once, InTransaction
<1>10. CASE Commit(h)
  <2>1. ledger' = ledger \cup {SessionOf(h)} /\ InTransaction(h) /\ Answers(h, TRUE)
    BY <1>10 DEF Commit, InTransaction
  <2>2. \A k \in Handlers \ {h} : InTransaction(k) => SessionOf(k) \notin ledger'
    BY <2>1 DEF Once
  <2>3. ~InTransaction(h)'
        /\ ((handler[h].at = "done" /\ handler[h].ok /\ handler[h].from = "stripe")'
              => SessionOf(h)' \in ledger')
    BY <2>1, AnswersOut
  <2> QED BY <1>1, <1>2, <1>3, <2>1, <2>2, <2>3 DEF Once
<1> QED
  BY <1>5, <1>6, <1>7, <1>8, <1>9, <1>10 DEF ServiceNext, ServiceStep

LEMMA OnceNext ==
  ASSUME Typed, Once, [Next]_vars
  PROVE  Once'
<1>1. CASE \E h \in Handlers : ServiceNext(h)
  BY <1>1, OnceService
<1>2. CASE ClientNext
  BY <1>2, ClientQuiet, OnceQuiet DEF Once
<1>3. CASE WorldNext
  <2>1. ASSUME NEW s \in Sessions, Pay(s) PROVE Once'
    <3>1. \A h \in Handlers : Quiet(h)
      BY <2>1 DEF Pay, Quiet
    <3> QED BY <2>1, <3>1, OnceQuiet DEF Pay, worldVars, Once
  <2>2. ASSUME NEW s \in Sessions, Deliver(s) PROVE Once'
    <3>1. \A h \in Handlers : Quiet(h)
      BY <2>2, TakesQuiet DEF Deliver
    <3> QED BY <2>2, <3>1, OnceQuiet DEF Deliver, worldVars, Once
  <2>3. ASSUME NEW h \in Handlers, StripeHears(h) \/ AnswerLost(h) PROVE Once'
    <3>1. handler' = [handler EXCEPT ![h] = Idle] /\ ledger' = ledger
          /\ handler[h].at = "done"
      BY <2>3 DEF StripeHears, AnswerLost
    <3>2. handler'[h] = Idle /\ \A k \in Handlers \ {h} : handler'[k] = handler[k]
      BY <3>1 DEF Typed
    <3>3. \A k \in Handlers : Quiet(k)
      BY <3>1, <3>2 DEF Quiet, Idle
    <3>4. acked' \subseteq ledger
      BY <2>3 DEF StripeHears, AnswerLost, worldVars, Once
    <3> QED BY <3>1, <3>3, <3>4, OnceQuiet
  <2>4. CASE GiveReward
    <3>1. \A h \in Handlers : Quiet(h)
      BY <2>4, TakesQuiet DEF GiveReward
    <3> QED BY <2>4, <3>1, OnceQuiet DEF GiveReward, Once
  <2> QED BY <1>3, <2>1, <2>2, <2>3, <2>4 DEF WorldNext
<1>4. CASE UNCHANGED vars
  <2>1. \A h \in Handlers : Quiet(h)
    BY <1>4 DEF vars, serviceVars, Quiet
  <2> QED BY <1>4, <2>1, OnceQuiet DEF vars, serviceVars, worldVars, Once
<1> QED BY <1>1, <1>2, <1>3, <1>4 DEF Next

\* Whatever is repeated, delayed or lost between Stripe and the service, an event
\* that Stripe no longer repeats is about a purchase in the ledger.
THEOREM AckedAreCredited == Spec => []AckedIsCredited
<1>1. Init => Once
  BY DEF Init, ServiceInit, Once, Idle, InTransaction
<1>2. Once => AckedIsCredited
  BY DEF Once, AckedIsCredited
<1> QED BY <1>1, <1>2, TypedInit, TypedNext, OnceNext, PTL DEF Spec

-----------------------------------------------------------------------------
(* No coin comes from nowhere.                                              *)

\* The rewards under way, and what the player has been given without them.
Adds == {h \in Handlers : handler[h].request.does = "add"}

Bought == Bundle * Cardinality(ledger)
Won    == Reward * rewards
Owed   == Reward * Cardinality(Adds)

Limit == Start + Bought + Won - Owed

\* A handler holds no more coins than that, to save or to answer with.
Modest(h) ==
  /\ handler[h].copy.coins <= Limit
  /\ handler[h].request.does = "set" => handler[h].request.coins <= Limit

Money ==
  /\ inventory.coins <= Limit
  /\ shown <= Limit
  /\ \A h \in Handlers : Modest(h)

LEMMA Monotone ==
  ASSUME NEW price \in Nat, NEW m \in Nat, NEW n \in Nat, m <= n
  PROVE  price * m <= price * n /\ price * m \in Nat
<1>1. PICK d \in Nat : n = m + d
  <2>1. n - m \in Nat /\ n = m + (n - m)
    OBVIOUS
  <2> QED BY <2>1
<1>2. price * n = price * m + price * d /\ price * d \in Nat /\ price * m \in Nat
  BY <1>1
<1> QED BY <1>2

LEMMA LessOwed ==
  ASSUME NEW given \in Nat, NEW m \in Nat, NEW n \in Nat, m <= n
  PROVE  given - n <= given - m
OBVIOUS

LEMMA OneMore ==
  ASSUME NEW price \in Nat, NEW n \in Nat
  PROVE  price * (n + 1) = price * n + price
OBVIOUS

Prices == Start \in Nat /\ Bundle \in Nat /\ Reward \in Nat

LEMMA PricesTyped == Prices
BY CardsServiceAssumption, EconomyAssumption DEF Prices

\* The sums are about finite sets.
Sums ==
  /\ IsFiniteSet(ledger) /\ Cardinality(ledger) \in Nat
  /\ IsFiniteSet(Adds) /\ Cardinality(Adds) \in Nat
  /\ rewards \in Nat
  /\ Bought \in Nat /\ Won \in Nat /\ Owed \in Nat

LEMMA SumsTyped == Typed => Sums
<1> SUFFICES ASSUME Typed PROVE Sums
  OBVIOUS
<1>1. ledger \subseteq Sessions /\ rewards \in Nat
  BY EconomyAssumption DEF Typed, TypeOK, ServiceTypes
<1>2. Adds \subseteq Handlers
  BY DEF Adds
<1>3. IsFiniteSet(ledger) /\ IsFiniteSet(Adds)
  BY <1>1, <1>2, CardsServiceAssumption, FS_Subset
<1>4. Cardinality(ledger) \in Nat /\ Cardinality(Adds) \in Nat
  BY <1>3, FS_CardinalityType
<1>5. Bought \in Nat /\ Won \in Nat /\ Owed \in Nat
  BY <1>1, <1>4, PricesTyped, Monotone DEF Prices, Bought, Won, Owed
<1> QED BY <1>1, <1>3, <1>4, <1>5 DEF Sums

LEMMA SumsAfter == Typed' => Sums'
BY SumsTyped, PTL

\* Money says what it should.
LEMMA MoneyIsBounded ==
  ASSUME Typed, Money
  PROVE  NoMinting
<1>1. Worth = Start + Bought + Won
  BY DEF Worth, Bought, Won
<1>2. Limit = Start + Bought + Won - Owed
  BY DEF Limit
<1>3. inventory.coins \in Nat /\ shown \in Nat
  BY DEF Typed, TypeOK, ServiceTypes, Row
<1>4. Start \in Nat /\ Bought \in Nat /\ Won \in Nat /\ Owed \in Nat
  BY SumsTyped, PricesTyped DEF Sums, Prices
<1>5. inventory.coins <= Limit /\ shown <= Limit
  BY DEF Money
<1> QED BY <1>1, <1>2, <1>3, <1>4, <1>5 DEF NoMinting

\* While no match is won, what the player has been given does not shrink.
LEMMA LimitGrows ==
  ASSUME Typed, Typed', UNCHANGED <<ledger, rewards>>, Adds' \subseteq Adds
  PROVE  Limit <= Limit' /\ Limit \in Int /\ Limit' \in Int
<1>1. Sums /\ Sums'
  BY SumsTyped, SumsAfter
<1>2. Cardinality(Adds') <= Cardinality(Adds)
  BY <1>1, FS_Subset DEF Sums
<1>3. Owed' <= Owed
  <2> DEFINE before == Cardinality(Adds)
             after == Cardinality(Adds')
  <2>1. Owed = Reward * before /\ Owed' = Reward * after
    BY DEF Owed
  <2>2. before \in Nat /\ after \in Nat /\ after <= before
    BY <1>1, <1>2 DEF Sums
  <2> HIDE DEF before, after
  <2> QED BY <2>1, <2>2, PricesTyped, Monotone DEF Prices
<1>4. Bought' = Bought /\ Won' = Won
  BY DEF Bought, Won
<1>5. Limit = Start + Bought + Won - Owed /\ Limit' = Start + Bought + Won - Owed'
  BY <1>4 DEF Limit
<1>6. Start \in Nat /\ Bought \in Nat /\ Won \in Nat /\ Owed \in Nat /\ Owed' \in Nat
  BY <1>1, PricesTyped DEF Sums, Prices
<1>7. Limit \in Int /\ Limit' \in Int
  BY <1>5, <1>6
<1>8. Limit <= Limit'
  <2> DEFINE given == Start + Bought + Won
  <2>1. given \in Nat /\ Limit = given - Owed /\ Limit' = given - Owed'
    BY <1>5, <1>6
  <2> HIDE DEF given
  <2> QED BY <1>3, <1>6, <2>1, LessOwed
<1> QED BY <1>7, <1>8

\* So what was no more than it stays so.
LEMMA StaysModest ==
  ASSUME Typed, Typed', Money, Limit <= Limit', NEW h \in Handlers,
         handler'[h].copy \in {handler[h].copy, NoRow, inventory},
         handler'[h].request.does = "set" =>
           \/ handler'[h].request = handler[h].request
           \/ handler'[h].request.coins = shown
  PROVE  Modest(h)'
<1>1. Limit \in Int /\ Limit' \in Int
  BY SumsTyped, SumsAfter, PricesTyped DEF Limit, Sums, Prices
<1>2. /\ inventory.coins \in Nat /\ shown \in Nat /\ handler[h].copy.coins \in Nat
      /\ handler[h].request.does = "set" => handler[h].request.coins \in Nat
  BY DEF Typed, TypeOK, ServiceTypes, Row, GoodHandler, Handler, Request
<1>3. inventory.coins <= Limit /\ shown <= Limit /\ Modest(h)
  BY DEF Money
<1>4. NoRow.coins = 0 /\ 0 <= Limit
  BY <1>1, <1>2, <1>3 DEF NoRow
<1>5. handler'[h].copy.coins <= Limit /\ handler'[h].copy.coins \in Nat
  BY <1>2, <1>3, <1>4 DEF Modest
<1>6. handler'[h].request.does = "set" =>
        handler'[h].request.coins <= Limit /\ handler'[h].request.coins \in Nat
  BY <1>2, <1>3 DEF Modest
<1> QED BY <1>1, <1>5, <1>6 DEF Modest

\* A quiet step keeps Money, if it is no win and shows no more than it may.
LEMMA MoneyQuiet ==
  ASSUME Typed, Typed', Money, \A h \in Handlers : Quiet(h),
         UNCHANGED <<inventory, ledger, rewards>>, shown' <= Limit
  PROVE  Money'
<1>1. ASSUME NEW h \in Handlers
      PROVE  /\ handler'[h].request.does = "add" => handler[h].request.does = "add"
             /\ handler'[h].copy \in {handler[h].copy, NoRow, inventory}
             /\ handler'[h].request.does = "set" =>
                  \/ handler'[h].request = handler[h].request
                  \/ handler'[h].request.coins = shown
  <2>1. handler[h] \in Handler
    BY DEF Typed, GoodHandler
  <2>2. CASE handler'[h] = handler[h]
    BY <2>2
  <2>3. CASE handler'[h] = [handler[h] EXCEPT !.from = "nobody"]
    <3>1. handler'[h].request = handler[h].request /\ handler'[h].copy = handler[h].copy
      BY <2>1, <2>3 DEF Handler
    <3> QED BY <3>1
  <2>4. CASE /\ handler'[h].request.does = "set" => handler'[h].request.coins = shown
             /\ handler'[h].request.does = "add" => rewards' # rewards
             /\ handler'[h].copy = NoRow
    BY <2>4
  <2> QED BY <2>2, <2>3, <2>4 DEF Quiet
<1>2. Adds' \subseteq Adds
  BY <1>1 DEF Adds
<1>3. Limit <= Limit' /\ Limit \in Int /\ Limit' \in Int
  BY <1>2, LimitGrows
<1>4. \A h \in Handlers : Modest(h)'
  BY <1>1, <1>3, StaysModest
<1>5. inventory.coins \in Nat /\ inventory.coins <= Limit /\ shown' \in Nat
  BY DEF Typed, TypeOK, ServiceTypes, Row, Money
<1> QED BY <1>3, <1>4, <1>5 DEF Money

\* What a service step leaves in the handler: its request or none, and a copy of
\* the row, if any.
LEMMA ServiceHolds ==
  ASSUME Typed, NEW h \in Handlers, ServiceNext(h)
  PROVE  /\ handler'[h].request \in {handler[h].request, Idle.request}
         /\ handler'[h].copy \in {handler[h].copy, NoRow, inventory}
<1>1. handler[h] \in GoodHandler /\ handler[h] \in Handler
  BY DEF Typed, GoodHandler
<1>2. ASSUME NEW ok \in BOOLEAN, Answers(h, ok)
      PROVE  /\ handler'[h].request \in {handler[h].request, Idle.request}
             /\ handler'[h].copy \in {handler[h].copy, NoRow, inventory}
  <2>1. handler'[h] = Answered(handler[h], ok)
    BY <1>2 DEF Answers, Typed
  <2>2. Idle.copy = NoRow
    BY DEF Idle
  <2> QED BY <1>1, <2>1, <2>2, AnsweredFits
<1>3. ASSUME NEW place, Moves(h, place)
      PROVE  /\ handler'[h].request \in {handler[h].request, Idle.request}
             /\ handler'[h].copy \in {handler[h].copy, NoRow, inventory}
  <2>1. handler'[h] = [handler[h] EXCEPT !.at = place]
    BY <1>3 DEF Moves, Typed
  <2> QED BY <1>1, <2>1 DEF Handler
<1>4. CASE Read(h)
  <2> DEFINE holding == [handler[h] EXCEPT !.copy = inventory, !.at = "save"]
  <2>1. handler'[h] \in {holding, Answered(holding, TRUE)}
    BY <1>4 DEF Read, Typed
  <2>2. handler[h].at = "read" /\ inventory \in Row
    BY <1>4 DEF Read, Typed, TypeOK, ServiceTypes
  <2>3. holding.at = "save" /\ holding.from = handler[h].from
        /\ holding.request = handler[h].request /\ holding.copy = inventory
    BY <1>1 DEF Handler
  <2>4. holding \in GoodHandler
    BY <1>1, <2>2, <2>3 DEF GoodHandler, Handler, Fits, Place
  <2>5. Idle.copy = NoRow
    BY DEF Idle
  <2> HIDE DEF holding
  <2> QED BY <2>1, <2>3, <2>4, <2>5, AnsweredFits
<1> QED
  BY <1>2, <1>3, <1>4
     DEF ServiceNext, ServiceStep, Save, AskStripe, Insert, Upsert, Commit, Fails

\* The rewards under way after a service step.
LEMMA ServiceAdds ==
  ASSUME Typed, NEW h \in Handlers, ServiceNext(h)
  PROVE  Adds' \subseteq Adds
<1>1. handler'[h].request.does = "add" => handler[h].request.does = "add"
  BY ServiceHolds DEF Idle
<1> QED BY <1>1, OthersRest DEF Adds

\* A step of the service keeps Money, once it is known what it does to the balance.
LEMMA MoneyRests ==
  ASSUME Typed, Typed', Money, NEW h \in Handlers, ServiceNext(h),
         Limit <= Limit', inventory'.coins <= Limit'
  PROVE  Money'
<1>1. UNCHANGED shown
  BY DEF ServiceNext, clientVars
<1>2. ASSUME NEW k \in Handlers PROVE Modest(k)'
  <2>1. k # h => handler'[k] = handler[k]
    BY OthersRest
  <2>2. /\ handler'[k].copy \in {handler[k].copy, NoRow, inventory}
        /\ handler'[k].request.does = "set" => handler'[k].request = handler[k].request
    BY <2>1, ServiceHolds DEF Idle
  <2> QED BY <2>2, StaysModest
<1>3. Limit \in Int /\ Limit' \in Int /\ shown \in Nat /\ shown <= Limit
  BY SumsTyped, SumsAfter, PricesTyped DEF Limit, Sums, Prices, Money, Typed, TypeOK
<1> QED BY <1>1, <1>2, <1>3 DEF Money

\* A save writes what was read or shown; a reward adds what it was owed.
LEMMA MoneySave ==
  ASSUME Typed, Typed', Money, NEW h \in Handlers, Save(h), ServiceNext(h)
  PROVE  Money'
<1> DEFINE request == handler[h].request
<1>1. request \in Request /\ handler[h].copy \in Row /\ handler[h] \in GoodHandler
  BY DEF Typed, GoodHandler, Handler
<1>2. inventory'.coins = CASE request.does = "set" -> request.coins
                           [] request.does = "add" -> handler[h].copy.coins + request.coins
                           [] OTHER -> handler[h].copy.coins
  BY <1>1, UpdatedRow DEF Save
<1>3. UNCHANGED <<ledger, rewards>>
  BY DEF Save, ServiceNext, worldVars
<1>4. Limit <= Limit' /\ Limit \in Int /\ Limit' \in Int
  BY <1>3, ServiceAdds, LimitGrows
<1>5. /\ handler[h].copy.coins <= Limit /\ handler[h].copy.coins \in Nat
      /\ request.does = "set" => request.coins <= Limit /\ request.coins \in Nat
  BY <1>1 DEF Money, Modest, Row, Request
<1>6. CASE request.does = "add"
  <2>1. handler[h].from = "nobody" /\ request.coins = Reward
    BY <1>1, <1>6 DEF GoodHandler, Fits
  <2>2. handler'[h] = Idle
    BY <1>1, <2>1, AnsweredFits DEF Save, Answers, Typed
  <2>3. Adds' = Adds \ {h} /\ h \in Adds
    BY <1>6, <2>2, OthersRest DEF Adds, Idle
  <2> DEFINE before == Cardinality(Adds)
             after == Cardinality(Adds')
  <2>4. after = before - 1 /\ before \in Nat /\ after \in Nat
    <3>1. IsFiniteSet(Adds) /\ before \in Nat /\ after \in Nat
      BY SumsTyped, SumsAfter DEF Sums
    <3>2. Cardinality(Adds \ {h}) = Cardinality(Adds) - 1
      BY <2>3, <3>1, FS_RemoveElement
    <3> QED BY <2>3, <3>1, <3>2
  <2>5. Owed = Reward * before /\ Owed' = Reward * after
    BY DEF Owed
  <2> HIDE DEF before, after
  <2>6. Owed = Owed' + Reward
    <3>1. before = after + 1
      BY <2>4
    <3> QED BY <2>4, <2>5, <3>1, OneMore, PricesTyped DEF Prices
  <2>7. Limit' = Limit + Reward
    <3>1. Limit = Start + Bought + Won - Owed /\ Limit' = Start + Bought + Won - Owed'
      BY <1>3 DEF Limit, Bought, Won
    <3>2. Start \in Nat /\ Bought \in Nat /\ Won \in Nat /\ Owed \in Nat /\ Owed' \in Nat
          /\ Reward \in Nat
      BY SumsTyped, SumsAfter, PricesTyped DEF Sums, Prices
    <3> QED BY <2>6, <3>1, <3>2
  <2>8. inventory'.coins <= Limit'
    BY <1>2, <1>4, <1>5, <1>6, <2>1, <2>7, PricesTyped DEF Prices
  <2> QED BY <1>4, <2>8, MoneyRests
<1>7. CASE request.does # "add"
  <2>1. inventory'.coins \in Nat /\ inventory'.coins <= Limit
    BY <1>2, <1>5, <1>7
  <2>2. inventory'.coins <= Limit'
    BY <1>4, <2>1
  <2> QED BY <1>4, <2>2, MoneyRests
<1> QED BY <1>6, <1>7

\* A commit credits a session that was not in the ledger.
LEMMA MoneyCommit ==
  ASSUME Typed, Typed', Once, Money, NEW h \in Handlers, Commit(h), ServiceNext(h)
  PROVE  Money'
<1>1. /\ SessionOf(h) \notin ledger
      /\ ledger' = ledger \cup {SessionOf(h)}
      /\ inventory' = [inventory EXCEPT !.coins = @ + Bundle]
      /\ UNCHANGED rewards
  BY DEF Commit, Once, InTransaction, ServiceNext, worldVars
<1> DEFINE before == Cardinality(ledger)
           after == Cardinality(ledger')
<1>2. before \in Nat /\ after = before + 1
  <2>1. IsFiniteSet(ledger) /\ Cardinality(ledger) \in Nat
    BY SumsTyped DEF Sums
  <2> QED BY <1>1, <2>1, FS_AddElement
<1>3. Bought = Bundle * before /\ Bought' = Bundle * after
  BY DEF Bought
<1> HIDE DEF before, after
<1>4. Bought' = Bought + Bundle
  BY <1>2, <1>3, OneMore, PricesTyped DEF Prices
<1>5. Owed' <= Owed
  <2> DEFINE owedBefore == Cardinality(Adds)
             owedAfter == Cardinality(Adds')
  <2>1. owedBefore \in Nat /\ owedAfter \in Nat /\ owedAfter <= owedBefore
    BY SumsTyped, SumsAfter, ServiceAdds, FS_Subset DEF Sums
  <2>2. Owed = Reward * owedBefore /\ Owed' = Reward * owedAfter
    BY DEF Owed
  <2> HIDE DEF owedBefore, owedAfter
  <2> QED BY <2>1, <2>2, PricesTyped, Monotone DEF Prices
<1>6. Limit + Bundle <= Limit' /\ Limit \in Int /\ Limit' \in Int
  <2> DEFINE given == Start + Bought + Won
  <2>1. Start \in Nat /\ Bought \in Nat /\ Won \in Nat /\ Owed \in Nat /\ Owed' \in Nat
        /\ Bundle \in Nat
    BY SumsTyped, SumsAfter, PricesTyped DEF Sums, Prices
  <2>2. Won' = Won
    BY <1>1 DEF Won
  <2>3. Limit = Start + Bought + Won - Owed /\ Limit' = Start + Bought' + Won' - Owed'
    BY DEF Limit
  <2>4. given \in Nat /\ Limit = given - Owed /\ Limit' = given - Owed' + Bundle
    BY <1>4, <2>1, <2>2, <2>3
  <2> HIDE DEF given
  <2>5. given - Owed <= given - Owed'
    BY <1>5, <2>1, <2>4, LessOwed
  <2>6. given - Owed \in Int /\ given - Owed' \in Int
    BY <2>1, <2>4
  <2> DEFINE rest == given - Owed'
  <2>7. Limit <= rest /\ rest \in Int /\ Limit \in Int /\ Limit' = rest + Bundle
    BY <2>4, <2>5, <2>6
  <2> HIDE DEF rest
  <2> QED BY <2>1, <2>7
<1>7. inventory.coins \in Nat /\ inventory.coins <= Limit
      /\ inventory'.coins = inventory.coins + Bundle /\ Bundle \in Nat
  BY <1>1, PricesTyped DEF Prices, Typed, TypeOK, ServiceTypes, Row, Money
<1>8. Limit <= Limit' /\ inventory'.coins <= Limit'
  BY <1>6, <1>7
<1> QED BY <1>8, MoneyRests

\* The service keeps Money.
LEMMA MoneyService ==
  ASSUME Typed, Typed', Once, Money, NEW h \in Handlers, ServiceNext(h)
  PROVE  Money'
<1>1. CASE Save(h)
  BY <1>1, MoneySave
<1>2. CASE Commit(h)
  BY <1>2, MoneyCommit
<1>3. CASE Read(h) \/ AskStripe(h) \/ Insert(h) \/ Upsert(h) \/ Fails(h)
  <2>1. UNCHANGED <<inventory, ledger, rewards>>
    BY <1>3 DEF Read, AskStripe, Insert, Upsert, Fails, ServiceNext, worldVars
  <2>2. Limit <= Limit' /\ Limit \in Int /\ Limit' \in Int
    BY <2>1, ServiceAdds, LimitGrows
  <2>3. inventory.coins \in Nat /\ inventory.coins <= Limit
    BY DEF Typed, TypeOK, ServiceTypes, Row, Money
  <2>4. inventory'.coins <= Limit'
    BY <2>1, <2>2, <2>3
  <2> QED BY <2>2, <2>4, MoneyRests
<1> QED BY <1>1, <1>2, <1>3 DEF ServiceNext, ServiceStep

\* What the client shows it was told by the service, or it has spent the rest.
LEMMA ClientShows ==
  ASSUME Typed, Money, ClientNext
  PROVE  shown' <= Limit
<1>1. shown \in Nat /\ shown <= Limit /\ Limit \in Int
  BY SumsTyped, PricesTyped DEF Typed, TypeOK, Money, Limit, Sums, Prices
<1>2. ASSUME NEW h \in Handlers PROVE handler[h].copy.coins <= Limit
  BY DEF Money, Modest
<1>3. CASE OpenPack
  <2> PICK pack \in [1 .. PackSize -> Cards] : shown' = shown - Price(pack)
    BY <1>3 DEF OpenPack
  <2>1. Price(pack) \in 0 .. PackCost
    BY PackBounds DEF Typed
  <2>2. PackCost \in Nat
    BY EconomyAssumption
  <2>3. Price(pack) \in Nat
    BY <2>1, <2>2
  <2> DEFINE price == Price(pack)
  <2> HIDE DEF price
  <2>4. shown' = shown - price /\ price \in Nat
    BY <2>3 DEF price
  <2> QED BY <1>1, <2>4
<1>4. CASE ClientHears
  BY <1>1, <1>2, <1>4
     DEF ClientHears, Loaded, CardsAnswered, CoinsAnswered, Polled, Refreshed
<1>5. CASE UNCHANGED shown
  BY <1>1, <1>5
<1> QED
  BY <1>3, <1>4, <1>5
     DEF ClientNext, EnterPacks, TryFlush, Leave, EnterShop, LeaveShop, Poll, StopPolling,
         StartCheckout

\* A match that is won owes its reward.
LEMMA MoneyReward ==
  ASSUME Typed, Typed', Money, GiveReward
  PROVE  Money'
<1> DEFINE request == [does |-> "add", coins |-> Reward]
<1>1. UNCHANGED <<inventory, ledger, shown>> /\ rewards' = rewards + 1
  BY DEF GiveReward, clientVars
<1>2. PICK k \in Handlers :
        /\ handler[k].at = "idle"
        /\ handler' = [handler EXCEPT ![k] = Working("nobody", request)]
  BY DEF GiveReward, Takes
<1>3. handler'[k] = Working("nobody", request)
      /\ \A h \in Handlers \ {k} : handler'[h] = handler[h]
  BY <1>2 DEF Typed
<1>4. handler'[k].request = request /\ handler'[k].copy = NoRow
  BY <1>3, FirstPlaces
<1>5. handler[k].request.does # "add"
  BY <1>2 DEF Typed, GoodHandler, Fits
<1>6. Adds' = Adds \cup {k} /\ k \notin Adds
  BY <1>3, <1>4, <1>5 DEF Adds
<1> DEFINE before == Cardinality(Adds)
           after == Cardinality(Adds')
<1>7. before \in Nat /\ after = before + 1
  <2>1. IsFiniteSet(Adds) /\ Cardinality(Adds) \in Nat
    BY SumsTyped DEF Sums
  <2> QED BY <1>6, <2>1, FS_AddElement
<1>8. Owed = Reward * before /\ Owed' = Reward * after
  BY DEF Owed
<1> HIDE DEF before, after
<1>9. Owed' = Owed + Reward
  BY <1>7, <1>8, OneMore, PricesTyped DEF Prices
<1>10. Won' = Won + Reward
  <2>1. rewards \in Nat
    BY SumsTyped DEF Sums
  <2> QED BY <1>1, <2>1, OneMore, PricesTyped DEF Prices, Won
<1>11. Limit' = Limit /\ Limit \in Int
  <2>1. Bought' = Bought
    BY <1>1 DEF Bought
  <2>2. Limit = Start + Bought + Won - Owed /\ Limit' = Start + Bought + Won' - Owed'
    BY <2>1 DEF Limit
  <2>3. Start \in Nat /\ Bought \in Nat /\ Won \in Nat /\ Owed \in Nat /\ Reward \in Nat
    BY SumsTyped, PricesTyped DEF Sums, Prices
  <2> QED BY <1>9, <1>10, <2>2, <2>3
<1>12. ASSUME NEW h \in Handlers PROVE Modest(h)'
  <2>1. CASE h = k
    <3>1. Limit <= Limit'
      BY <1>11
    <3>2. handler'[h].copy = NoRow /\ handler'[h].request.does # "set"
      BY <1>4, <2>1
    <3> QED BY <3>1, <3>2, StaysModest
  <2>2. CASE h # k
    <3>1. handler'[h] = handler[h]
      BY <1>3, <2>2
    <3>2. Modest(h)
      BY DEF Money
    <3> QED BY <1>11, <3>1, <3>2 DEF Modest
  <2> QED BY <2>1, <2>2
<1> QED BY <1>1, <1>11, <1>12 DEF Money

LEMMA MoneyNext ==
  ASSUME Typed, Typed', Once, Money, [Next]_vars
  PROVE  Money'
<1>1. CASE \E h \in Handlers : ServiceNext(h)
  BY <1>1, MoneyService
<1>2. CASE ClientNext
  BY <1>2, ClientQuiet, ClientShows, MoneyQuiet
<1>3. CASE GiveReward
  BY <1>3, MoneyReward
\* Whatever else happens leaves the balances alone.
<1>4. ASSUME \A h \in Handlers : Quiet(h), UNCHANGED <<inventory, ledger, rewards, shown>>
      PROVE  Money'
  BY <1>4, MoneyQuiet DEF Money
<1>5. ASSUME NEW s \in Sessions, Pay(s) PROVE Money'
  BY <1>4, <1>5 DEF Pay, Quiet, clientVars, worldVars
<1>6. ASSUME NEW s \in Sessions, Deliver(s) PROVE Money'
  <2>1. \A h \in Handlers : Quiet(h)
    BY <1>6, TakesQuiet DEF Deliver
  <2> QED BY <1>4, <1>6, <2>1 DEF Deliver, clientVars, worldVars
<1>7. ASSUME NEW h \in Handlers, StripeHears(h) \/ AnswerLost(h) PROVE Money'
  <2>1. handler' = [handler EXCEPT ![h] = Idle] /\ handler[h].at = "done"
    BY <1>7 DEF StripeHears, AnswerLost
  <2>2. handler'[h] = Idle /\ \A k \in Handlers \ {h} : handler'[k] = handler[k]
    BY <2>1 DEF Typed
  <2>3. \A k \in Handlers : Quiet(k)
    BY <2>1, <2>2 DEF Quiet, Idle
  <2> QED BY <1>4, <1>7, <2>3 DEF StripeHears, AnswerLost, clientVars, worldVars
<1>8. CASE UNCHANGED vars
  <2>1. \A h \in Handlers : Quiet(h)
    BY <1>8 DEF vars, serviceVars, Quiet
  <2> QED BY <1>4, <1>8, <2>1 DEF vars, serviceVars, clientVars, worldVars
<1> QED BY <1>1, <1>2, <1>3, <1>5, <1>6, <1>7, <1>8 DEF Next, WorldNext

LEMMA MoneyInit ==
  ASSUME Init
  PROVE  Money
<1>1. inventory.coins = Start /\ shown = Start /\ ledger = {} /\ rewards = 0
  BY DEF Init, ServiceInit, NewInventory
<1>2. Adds = {}
  BY DEF Adds, Init, ServiceInit, Idle
<1>3. Bought = 0 /\ Won = 0 /\ Owed = 0
  <2>1. Cardinality(ledger) = 0 /\ Cardinality(Adds) = 0
    BY <1>1, <1>2, FS_EmptySet
  <2> QED BY <1>1, <2>1, PricesTyped DEF Bought, Won, Owed, Prices
<1>4. Limit = Start /\ Start \in Nat
  BY <1>3, PricesTyped DEF Limit, Prices
<1>5. \A h \in Handlers : Modest(h)
  BY <1>4 DEF Modest, Init, ServiceInit, Idle, NoRow
<1> QED BY <1>1, <1>4, <1>5 DEF Money

IInv == Typed /\ Once /\ Money

\* Whatever webhooks, polls, rewards and flushes cross, and however often one is
\* repeated, the stored balance and the one on the screen are at most what was
\* given at the start, bought (once per session) and won.
THEOREM NoCoinFromNowhere == Spec => []NoMinting
<1>1. Init => IInv
  <2>1. Init => Once
    BY DEF Init, ServiceInit, Once, Idle, InTransaction
  <2> QED BY <2>1, TypedInit, MoneyInit DEF IInv
<1>2. IInv /\ [Next]_vars => IInv'
  BY TypedNext, OnceNext, MoneyNext DEF IInv
<1>3. IInv => NoMinting
  BY MoneyIsBounded DEF IInv
<1> QED BY <1>1, <1>2, <1>3, PTL DEF Spec
=============================================================================
