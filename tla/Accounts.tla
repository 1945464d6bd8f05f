------------------------------ MODULE Accounts ------------------------------
(***************************************************************************)
(* Registration, login and logout: the game clients, the auth service with  *)
(* its table of users and its session keys, and the cards service, which    *)
(* makes the inventory and the deck of a new user (DeckService.tla).        *)
(*                                                                         *)
(*   auth/services/user.service.go      register with rollback, log in      *)
(*   auth/services/session.service.go   two Redis keys for each session     *)
(*   auth/middleware/auth.middleware.go who may ask for a logout            *)
(*   client/src/states/Login.cpp, Register.cpp, core/Game.cpp               *)
(*                                                                         *)
(* One action is one statement of PostgreSQL, one command of Redis, or one  *)
(* call of the cards service.  A client's call blocks its one thread; it    *)
(* may give up on a worker that goes on.                                    *)
(***************************************************************************)
EXTENDS DeckService

CONSTANTS
  Clients,      \* game clients
  Workers,      \* requests the auth service works on at a time
  Emails,       \* the accounts people want to have
  Sessions,     \* session ids; a new one is one that is found nowhere
  NoEmail, NoUser, NoSession, Nobody

ASSUME AccountsAssumption ==
  /\ Workers \cup {"nobody"} \subseteq Callers
  /\ Users # {}
  /\ "nobody" \notin Workers
  /\ NoEmail \notin Emails /\ NoUser \notin Users /\ NoSession \notin Sessions
  /\ Nobody \notin Clients

VARIABLES
  users,        \* table users: the email of each user id, NoEmail if there is no row
  used,         \* the ids that were given: they are serial, none comes twice
  userKey,      \* Redis, "userID:" + id: the session of the user
  sessionKey,   \* Redis, "session:" + id: the user of the session
  worker,       \* each request: where it is, whom it answers, what it knows
  screen,       \* each client: its login screen, the call it is in, or logged in
  session,      \* SessionUtil, each client's session id
  welcomed,     \* history: the users whose registration was answered with 201
  overlap       \* history: two logins of a user were between their GET and SET, or
                \* a user's key expired before the session's that was set after it

authVars == <<users, used, userKey, sessionKey, worker, welcomed, overlap>>
clientVars == <<screen, session>>
vars == <<serviceVars, authVars, clientVars>>

Worker == [at : {"idle", "find", "create", "post inventory", "inventory", "post deck", "deck",
                 "undo", "look", "set user", "set session", "guard", "get", "del", "done"},
           from : Clients \cup {Nobody}, does : {"register", "login", "logout"},
           email : Emails \cup {NoEmail}, user : Users \cup {NoUser},
           session : Sessions \cup {NoSession},
           answer : {"none", "yes", "no", "taken", "unauthorized"}]

Free == [at |-> "idle", from |-> Nobody, does |-> "login", email |-> NoEmail,
         user |-> NoUser, session |-> NoSession, answer |-> "none"]

\* Types: a session key always leads to an id that was given, for one.
TypeOK ==
  /\ ServiceTypes
  /\ users \in [Users -> Emails \cup {NoEmail}]
  /\ used \subseteq Users
  /\ userKey \in [Users -> Sessions \cup {NoSession}]
  /\ sessionKey \in [Sessions -> used \cup {NoUser}]
  /\ worker \in [Workers -> Worker]
  /\ screen \in [Clients -> {"login", "register", "logging in", "in", "logging out"}]
  /\ session \in [Clients -> Sessions \cup {NoSession}]
  /\ welcomed \subseteq used
  /\ overlap \in BOOLEAN

Init ==
  /\ inventories = NobodyHasOne
  /\ decks = NobodyHasOne
  /\ handler = [h \in Handlers |-> Idle]
  /\ filler = FillerOff
  /\ faults = 0
  /\ users = [u \in Users |-> NoEmail]
  /\ used = {}
  /\ userKey = [u \in Users |-> NoSession]
  /\ sessionKey = [s \in Sessions |-> NoUser]
  /\ worker = [w \in Workers |-> Free]
  /\ screen = [c \in Clients |-> "login"]
  /\ session = [c \in Clients |-> NoSession]
  /\ welcomed = {}
  /\ overlap = FALSE

-----------------------------------------------------------------------------
(* A request to the auth service and its answer.                           *)

Accepts(c, request) ==
  \E w \in Workers : worker[w] = Free /\ worker' = [worker EXCEPT ![w] = request]

Goes(w, place) == worker' = [worker EXCEPT ![w].at = place]

\* Only a login's answer carries the session.
Replied(wk, answer) ==
  IF wk.from = Nobody THEN Free
  ELSE [Free EXCEPT !.at = "done", !.from = wk.from, !.does = wk.does, !.answer = answer,
                    !.session = IF wk.does = "login" /\ answer = "yes"
                                THEN wk.session ELSE NoSession]

Replies(w, answer) == worker' = [worker EXCEPT ![w] = Replied(@, answer)]

\* The client has the answer of w, or gives up.
ClientHears(c, w, answer) ==
  /\ worker[w].from = c
  /\ IF worker[w].at = "done"
     THEN /\ answer = worker[w].answer
          /\ worker' = [worker EXCEPT ![w] = Free]
          /\ UNCHANGED faults
     ELSE /\ answer = "none"
          /\ worker' = [worker EXCEPT ![w].from = Nobody]
          /\ Fault

EmailUsed(email) == \E u \in Users : users[u] = email

-----------------------------------------------------------------------------
(* registerUser.                                                           *)

\* FindByEmail; the name, which must be new as well, is left out.
FindForRegister(w) ==
  /\ worker[w].at = "find" /\ worker[w].does = "register"
  /\ IF EmailUsed(worker[w].email) THEN Replies(w, "no") ELSE Goes(w, "create")
  /\ UNCHANGED <<serviceVars, users, used, userKey, sessionKey, welcomed, overlap, clientVars>>

\* Mutant: the id of a user who was deleted comes again.
CreateAgain(w) ==
  /\ worker[w].at = "create"
  /\ ~EmailUsed(worker[w].email)
  /\ \E u \in Users :
       /\ users[u] = NoEmail
       /\ users' = [users EXCEPT ![u] = worker[w].email]
       /\ worker' = [worker EXCEPT ![w].at = "post inventory", ![w].user = u]
  /\ UNCHANGED <<serviceVars, used, userKey, sessionKey, welcomed, overlap, clientVars>>

\* INSERT; the email is unique.
CreateUser(w) ==
  /\ worker[w].at = "create"
  /\ IF EmailUsed(worker[w].email)
     THEN Replies(w, "no") /\ UNCHANGED <<users, used>>
     ELSE \E u \in Users \ used :
            /\ users' = [users EXCEPT ![u] = worker[w].email]
            /\ used' = used \cup {u}
            /\ worker' = [worker EXCEPT ![w].at = "post inventory", ![w].user = u]
  /\ UNCHANGED <<serviceVars, userKey, sessionKey, welcomed, overlap, clientVars>>

\* postWithFallback to the cards service: the inventory, then the deck.
Posts(w, place, does, next) ==
  /\ worker[w].at = place
  /\ Takes(w, Asking(does, worker[w].user, NoRow))
  /\ Goes(w, next)
  /\ UNCHANGED <<inventories, decks, filler, faults, users, used, userKey, sessionKey,
                 welcomed, overlap, clientVars>>

PostInventory(w) == Posts(w, "post inventory", "create", "inventory")

PostDeck(w) == Posts(w, "post deck", "fill", "deck")

\* The answer, or the 5 seconds are over; anything but a success is undone.
InventoryMade(w, h) ==
  /\ worker[w].at = "inventory"
  /\ \E answer \in Answer :
       /\ HearsOf(w, h, answer)
       /\ Goes(w, IF answer = "yes" THEN "post deck" ELSE "undo")
  /\ UNCHANGED <<inventories, decks, filler, users, used, userKey, sessionKey, welcomed,
                 overlap, clientVars>>

\* Mutant: whether the deck was made does not matter.
DeckTried(w, h) ==
  /\ worker[w].at = "deck"
  /\ \E answer \in Answer : HearsOf(w, h, answer)
  /\ Replies(w, "yes")
  /\ welcomed' = welcomed \cup {worker[w].user}
  /\ UNCHANGED <<inventories, decks, filler, users, used, userKey, sessionKey, overlap,
                 clientVars>>

DeckMade(w, h) ==
  /\ worker[w].at = "deck"
  /\ \E answer \in Answer :
       /\ HearsOf(w, h, answer)
       /\ IF answer = "yes"
          THEN Replies(w, "yes") /\ welcomed' = welcomed \cup {worker[w].user}
          ELSE Goes(w, "undo") /\ UNCHANGED welcomed
  /\ UNCHANGED <<inventories, decks, filler, users, used, userKey, sessionKey, overlap,
                 clientVars>>

\* The user is deleted; what the cards service has made stays.
Undo(w) ==
  /\ worker[w].at = "undo"
  /\ users' = [users EXCEPT ![worker[w].user] = NoEmail]
  /\ Replies(w, "no")
  /\ UNCHANGED <<serviceVars, used, userKey, sessionKey, welcomed, overlap, clientVars>>

-----------------------------------------------------------------------------
(* Login and CreateSession.                                                *)

\* The password is right.
FindForLogin(w) ==
  /\ worker[w].at = "find" /\ worker[w].does = "login"
  /\ \/ /\ ~EmailUsed(worker[w].email)
        /\ Replies(w, "no")
     \/ \E u \in Users :
          /\ users[u] = worker[w].email
          /\ worker' = [worker EXCEPT ![w].at = "look", ![w].user = u]
  /\ UNCHANGED <<serviceVars, users, used, userKey, sessionKey, welcomed, overlap, clientVars>>

\* Another login of this user has found no key and has not set one.
Overlaps(w) ==
  \E v \in Workers \ {w} : worker[v].at = "set user" /\ worker[v].user = worker[w].user

\* Mutant: a login replaces the session there is.
LookAndReplace(w) ==
  /\ worker[w].at = "look"
  /\ Goes(w, "set user")
  /\ overlap' = (overlap \/ Overlaps(w))
  /\ UNCHANGED <<serviceVars, users, used, userKey, sessionKey, welcomed, clientVars>>

\* GET userID: "you are already logged in".
LookForSession(w) ==
  /\ worker[w].at = "look"
  /\ IF userKey[worker[w].user] # NoSession
     THEN Replies(w, "taken") /\ UNCHANGED overlap
     ELSE Goes(w, "set user") /\ overlap' = (overlap \/ Overlaps(w))
  /\ UNCHANGED <<serviceVars, users, used, userKey, sessionKey, welcomed, clientVars>>

\* A uuid: nobody knows it yet.
NewSession ==
  {s \in Sessions :
     /\ sessionKey[s] = NoUser
     /\ \A u \in Users : userKey[u] # s
     /\ \A c \in Clients : session[c] # s
     /\ \A w \in Workers : worker[w].session # s}

SetUserKey(w) ==
  /\ worker[w].at = "set user"
  /\ \E s \in NewSession :
       /\ userKey' = [userKey EXCEPT ![worker[w].user] = s]
       /\ worker' = [worker EXCEPT ![w].at = "set session", ![w].session = s]
  /\ UNCHANGED <<serviceVars, users, used, sessionKey, welcomed, overlap, clientVars>>

SetSessionKey(w) ==
  /\ worker[w].at = "set session"
  /\ sessionKey' = [sessionKey EXCEPT ![worker[w].session] = worker[w].user]
  /\ Replies(w, "yes")
  /\ UNCHANGED <<serviceVars, users, used, userKey, welcomed, overlap, clientVars>>

-----------------------------------------------------------------------------
(* Logout and DeleteSession.                                               *)

\* RequireAuth, before the handler: a session that is not there is a 401.
Guard(w) ==
  /\ worker[w].at = "guard"
  /\ IF sessionKey[worker[w].session] = NoUser
     THEN Replies(w, "unauthorized") ELSE Goes(w, "get")
  /\ UNCHANGED <<serviceVars, users, used, userKey, sessionKey, welcomed, overlap, clientVars>>

\* The handler reads the key as well, twice: Logout, then DeleteSession.  A session
\* gone before the first is a 500, one gone between them a success with nothing deleted.
GetSession(w) ==
  /\ worker[w].at = "get"
  /\ IF sessionKey[worker[w].session] = NoUser
     THEN \E answer \in {"no", "yes"} : Replies(w, answer)
     ELSE worker' = [worker EXCEPT ![w].at = "del",
                                   ![w].user = sessionKey[worker[w].session]]
  /\ UNCHANGED <<serviceVars, users, used, userKey, sessionKey, welcomed, overlap, clientVars>>

\* Mutant: only the session's key is deleted.
DeleteOneKey(w) ==
  /\ worker[w].at = "del"
  /\ sessionKey' = [sessionKey EXCEPT ![worker[w].session] = NoUser]
  /\ Replies(w, "yes")
  /\ UNCHANGED <<serviceVars, users, used, userKey, welcomed, overlap, clientVars>>

\* DEL of both keys, even if the user's is that of another session by now.
DeleteKeys(w) ==
  /\ worker[w].at = "del"
  /\ sessionKey' = [sessionKey EXCEPT ![worker[w].session] = NoUser]
  /\ userKey' = [userKey EXCEPT ![worker[w].user] = NoSession]
  /\ Replies(w, "yes")
  /\ UNCHANGED <<serviceVars, users, used, welcomed, overlap, clientVars>>

-----------------------------------------------------------------------------
(* Faults and time.                                                        *)

\* A statement or command fails.  An error of the first SELECT or of GET userID
\* passes for "there is none", and one of the middleware for "no session".  A row
\* that was inserted and whose answer is lost is the user WorkerStops leaves one step
\* later: there, nobody's to undo, and the client back at its login screen.
CallFails(w) ==
  /\ CASE worker[w].at = "look" ->
            Goes(w, "set user") /\ overlap' = (overlap \/ Overlaps(w))
       [] worker[w].at = "guard" -> Replies(w, "unauthorized") /\ UNCHANGED overlap
       [] worker[w].at = "find" /\ worker[w].does = "register" ->
            Goes(w, "create") /\ UNCHANGED overlap
       [] \/ worker[w].at \in {"create", "undo", "set user", "set session", "get", "del"}
          \/ worker[w].at = "find" /\ worker[w].does = "login" ->
            Replies(w, "no") /\ UNCHANGED overlap
       [] OTHER -> FALSE
  /\ \/ UNCHANGED userKey
     \/ /\ worker[w].at = "set user"      \* the key was set, the answer lost
        /\ \E s \in NewSession : userKey' = [userKey EXCEPT ![worker[w].user] = s]
  /\ Fault
  /\ UNCHANGED <<inventories, decks, handler, filler, users, used, sessionKey, welcomed,
                 clientVars>>

\* The instance stops in the middle; whoever waits for it hears nothing, and so
\* does the handler of the cards service that works for it.
WorkerStops(w) ==
  /\ worker[w].at \notin {"idle", "done"}
  /\ Fault
  /\ worker' = [worker EXCEPT ![w] = Replied(@, "none")]
  /\ handler' = [h \in Handlers |->
                   IF handler[h].from # w THEN handler[h]
                   ELSE IF handler[h].at = "done" THEN Idle
                   ELSE [handler[h] EXCEPT !.from = "nobody"]]
  /\ UNCHANGED <<inventories, decks, filler, users, used, userKey, sessionKey, welcomed,
                 overlap, clientVars>>

\* 24 hours after it was set, when the login that did it is long over.  The key of
\* the user is set first.
ExpireUserKey(u) ==
  /\ userKey[u] # NoSession
  /\ \A w \in Workers : worker[w].at = "set session" => worker[w].session # userKey[u]
  /\ userKey' = [userKey EXCEPT ![u] = NoSession]
  /\ overlap' = (overlap \/ \E s \in Sessions : sessionKey[s] = u)
  /\ UNCHANGED <<serviceVars, users, used, sessionKey, worker, welcomed, clientVars>>

ExpireSessionKey(s) ==
  /\ sessionKey[s] # NoUser
  /\ userKey[sessionKey[s]] # s
  /\ sessionKey' = [sessionKey EXCEPT ![s] = NoUser]
  /\ UNCHANGED <<serviceVars, users, used, userKey, worker, welcomed, overlap, clientVars>>

-----------------------------------------------------------------------------
(* The clients.                                                            *)

\* Register::update, Login::update
Enters(c, does, email) ==
  /\ screen[c] = "login"
  /\ screen' = [screen EXCEPT ![c] = IF does = "register" THEN "register" ELSE "logging in"]
  /\ Accepts(c, [Free EXCEPT !.at = "find", !.from = c, !.does = does, !.email = email])
  /\ UNCHANGED <<serviceVars, users, used, userKey, sessionKey, welcomed, overlap, session>>

RegisterHeard(c, w) ==
  /\ screen[c] = "register"
  /\ \E answer \in {"none", "yes", "no"} : ClientHears(c, w, answer)
  /\ screen' = [screen EXCEPT ![c] = "login"]
  /\ UNCHANGED <<inventories, decks, handler, filler, users, used, userKey, sessionKey,
                 welcomed, overlap, session>>

LoginHeard(c, w) ==
  /\ screen[c] = "logging in"
  /\ \E answer \in {"none", "yes", "no", "taken"} :
       /\ ClientHears(c, w, answer)
       /\ IF answer = "yes"
          THEN /\ session' = [session EXCEPT ![c] = worker[w].session]
               /\ screen' = [screen EXCEPT ![c] = "in"]
          ELSE /\ UNCHANGED session
               /\ screen' = [screen EXCEPT ![c] = "login"]
  /\ UNCHANGED <<inventories, decks, handler, filler, users, used, userKey, sessionKey,
                 welcomed, overlap>>

\* endUserSession, at the logout button or when the window is closed.
LogOut(c) ==
  /\ screen[c] \in {"in", "login"}
  /\ session[c] # NoSession
  /\ screen' = [screen EXCEPT ![c] = "logging out"]
  /\ Accepts(c, [Free EXCEPT !.at = "guard", !.from = c, !.does = "logout",
                             !.session = session[c]])
  /\ UNCHANGED <<serviceVars, users, used, userKey, sessionKey, welcomed, overlap, session>>

\* The login screen comes in any case; the id is kept after an error, for a client
\* that goes on, and forgotten by one that was closed.
LogOutHeard(c, w) ==
  /\ screen[c] = "logging out"
  /\ \E answer \in {"none", "yes", "no", "unauthorized"}, closed \in BOOLEAN :
       /\ ClientHears(c, w, answer)
       /\ session' = IF closed \/ answer \in {"yes", "unauthorized"}
                     THEN [session EXCEPT ![c] = NoSession] ELSE session
  /\ screen' = [screen EXCEPT ![c] = "login"]
  /\ UNCHANGED <<inventories, decks, handler, filler, users, used, userKey, sessionKey,
                 welcomed, overlap>>

\* The process dies outside a call.
ClientCrashes(c) ==
  /\ screen[c] \in {"in", "login"}
  /\ session[c] # NoSession
  /\ session' = [session EXCEPT ![c] = NoSession]
  /\ screen' = [screen EXCEPT ![c] = "login"]
  /\ Fault
  /\ UNCHANGED <<inventories, decks, handler, filler, authVars>>

-----------------------------------------------------------------------------
CardsNext ==
  /\ FillerStep \/ FillerStops \/ \E h \in Handlers : HandlerStep(h) \/ Fails(h)
  /\ UNCHANGED <<authVars, clientVars>>

WorkerStep(w) ==
  \/ FindForRegister(w) \/ CreateUser(w) \/ PostInventory(w) \/ PostDeck(w) \/ Undo(w)
  \/ FindForLogin(w) \/ LookForSession(w) \/ SetUserKey(w) \/ SetSessionKey(w)
  \/ Guard(w) \/ GetSession(w) \/ DeleteKeys(w)
  \/ CallFails(w) \/ WorkerStops(w)
  \/ \E h \in Handlers : InventoryMade(w, h) \/ DeckMade(w, h)

ClientNext(c) ==
  \/ \E does \in {"register", "login"}, email \in Emails : Enters(c, does, email)
  \/ \E w \in Workers : RegisterHeard(c, w) \/ LoginHeard(c, w) \/ LogOutHeard(c, w)
  \/ LogOut(c) \/ ClientCrashes(c)

Next ==
  \/ CardsNext
  \/ \E w \in Workers : WorkerStep(w)
  \/ \E c \in Clients : ClientNext(c)
  \/ \E u \in Users : ExpireUserKey(u)
  \/ \E s \in Sessions : ExpireSessionKey(s)

Spec == Init /\ [][Next]_vars

-----------------------------------------------------------------------------
(* Properties.                                                             *)

Registering(u) == \E w \in Workers : worker[w].does = "register" /\ worker[w].user = u

\* A registration answered with 201 is a whole account for good: the user, the
\* inventory and the deck are there, whatever failed or crossed; and without a
\* fault no account is ever left half made.
AccountsAreWhole ==
  \A u \in Users :
    u \in welcomed \/ (users[u] # NoEmail /\ ~Registering(u) /\ faults = 0) =>
      /\ users[u] # NoEmail
      /\ inventories[u] # NoRow
      /\ decks[u] # NoRow

\* A user is logged in once: a second session key of a user comes only from a fault,
\* from two logins between GET and SET, or in the instant between two expiries.
OneSession ==
  \A s, t \in Sessions :
    sessionKey[s] # NoUser /\ sessionKey[s] = sessionKey[t] => s = t \/ overlap \/ faults > 0

\* "you are already logged in" is true: the session that stands in the way is held
\* by a client, or on its way to one or out of Redis, unless something failed.
RefusalIsTrue ==
  \A u \in Users :
    userKey[u] # NoSession /\ faults = 0 =>
      \/ \E c \in Clients : session[c] = userKey[u]
      \/ \E w \in Workers : worker[w].session = userKey[u]

=============================================================================
