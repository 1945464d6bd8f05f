----------------------------- MODULE AccountsProofs -----------------------------
(***************************************************************************)
(* Theorems about Accounts, for any number of clients, workers, handlers,   *)
(* users and sessions.                                                     *)
(*                                                                         *)
(* OneSession and RefusalIsTrue are about runs in which nothing has failed. *)
(* There every request belongs to one client that waits for it (Waiting), a *)
(* session is known to one client or one login (Holding), and the two keys  *)
(* of Redis agree as far as the requests under way allow (Keys).  While no  *)
(* logins overlap they agree altogether (Strict).                          *)
(*                                                                         *)
(* AccountsAreWhole is about all runs.  An id is given once, so what the    *)
(* cards service does for a user it does for one registration (Requests),   *)
(* and for none any more when that has ended (Serving): no handler that     *)
(* was given up on can still delete the deck of a user who is whole.        *)
(***************************************************************************)
EXTENDS Accounts, DeckServiceProofs

Places == {"idle", "find", "create", "post inventory", "inventory", "post deck", "deck",
           "undo", "look", "set user", "set session", "guard", "get", "del", "done"}

Registers == {"create", "post inventory", "inventory", "post deck", "deck", "undo"}

\* What a request knows at each place of its handler.
WorkerTypes ==
  /\ worker \in [Workers -> Worker]
  /\ \A w \in Workers :
       /\ worker[w].at \in {"look", "set user", "set session", "del"} =>
            worker[w].user \in Users
       /\ worker[w].at \in {"set session", "guard", "get", "del"} =>
            worker[w].session \in Sessions
       /\ worker[w].at \in {"look", "set user", "set session"} => worker[w].does = "login"
       /\ worker[w].at \in {"guard", "get", "del"} => worker[w].does = "logout"
       /\ worker[w].at \in Registers => worker[w].does = "register"
       /\ worker[w].at = "find" => worker[w].does # "logout"
       /\ worker[w].session # NoSession =>
            \/ worker[w].at \in {"set session", "done"} /\ worker[w].does = "login"
            \/ worker[w].at \in {"guard", "get", "del"}
       /\ worker[w].at = "idle" => worker[w] = Free
       /\ worker[w].at = "done" /\ worker[w].session # NoSession => worker[w].answer = "yes"

SessionTypes ==
  /\ faults \in Nat
  /\ userKey \in [Users -> Sessions \cup {NoSession}]
  /\ sessionKey \in [Sessions -> Users \cup {NoUser}]
  /\ screen \in [Clients -> {"login", "register", "logging in", "in", "logging out"}]
  /\ session \in [Clients -> Sessions \cup {NoSession}]
  /\ overlap \in BOOLEAN

\* The screen on which a client waits for a request.
WaitsAt(does) ==
  IF does = "register" THEN "register"
  ELSE IF does = "login" THEN "logging in" ELSE "logging out"

WaitsFor ==
  \A w \in Workers :
    worker[w].at # "idle" =>
      worker[w].from \in Clients /\ screen[worker[w].from] = WaitsAt(worker[w].does)

OnePerClient ==
  \A v, w \in Workers : worker[v].at # "idle" /\ worker[v].from = worker[w].from => v = w

Waiting == WaitsFor /\ OnePerClient

ClientsHold ==
  \A c, d \in Clients : session[c] # NoSession /\ session[c] = session[d] => c = d

NotAtClients ==
  \A w \in Workers, c \in Clients :
    worker[w].does = "login" /\ worker[w].session # NoSession =>
      session[c] # worker[w].session

NotAtWorkers ==
  \A v, w \in Workers :
    worker[w].does = "login" /\ worker[w].session # NoSession
      /\ worker[v].session = worker[w].session => v = w

LogoutsHold ==
  \A w \in Workers :
    worker[w].at # "idle" /\ worker[w].does = "logout" =>
      /\ session[worker[w].from] # NoSession
      /\ worker[w].at # "done" => worker[w].session = session[worker[w].from]

Holding == ClientsHold /\ NotAtClients /\ NotAtWorkers /\ LogoutsHold

UserKeys ==
  \A u \in Users : userKey[u] # NoSession =>
    \/ sessionKey[userKey[u]] = u
    \/ \E w \in Workers : /\ worker[w].at = "set session"
                          /\ worker[w].session = userKey[u] /\ worker[w].user = u

SessionKeys ==
  \A s \in Sessions : sessionKey[s] # NoUser =>
    \/ \E c \in Clients : session[c] = s /\ screen[c] \in {"in", "logging out"}
    \/ \E w \in Workers :
         worker[w].does = "login" /\ worker[w].at = "done" /\ worker[w].session = s

KeysToCome ==
  \A w \in Workers :
    /\ worker[w].at = "set session" => sessionKey[worker[w].session] = NoUser
    /\ worker[w].at = "del" => sessionKey[worker[w].session] \in {worker[w].user, NoUser}
    /\ worker[w].at = "done" /\ worker[w].does = "logout" =>
         sessionKey[session[worker[w].from]] = NoUser

Keys == UserKeys /\ SessionKeys /\ KeysToCome

StrictKeys == \A s \in Sessions : sessionKey[s] # NoUser => userKey[sessionKey[s]] = s

StrictWork ==
  \A w \in Workers :
    /\ worker[w].at = "set user" => userKey[worker[w].user] = NoSession
    /\ worker[w].at = "set session" => userKey[worker[w].user] = worker[w].session
    /\ worker[w].at = "del" => sessionKey[worker[w].session] = worker[w].user

OneSetter ==
  \A v, w \in Workers :
    worker[v].at = "set user" /\ worker[w].at = "set user"
      /\ worker[v].user = worker[w].user => v = w

Strict == StrictKeys /\ StrictWork /\ OneSetter

IInv ==
  /\ WorkerTypes /\ SessionTypes
  /\ faults = 0 => Waiting /\ Holding /\ Keys
  /\ faults = 0 /\ ~overlap => Strict

-----------------------------------------------------------------------------
(***************************************************************************)
(* How a step changes a request                                            *)
(***************************************************************************)

Others(w) ==
  /\ worker' \in [Workers -> Worker]
  /\ \A v \in Workers : v # w => worker'[v] = worker[v]

\* The request of w goes to another place of its handler, still without a session.
Moved(w, place) ==
  /\ Others(w)
  /\ worker'[w].at = place
  /\ worker'[w].from = worker[w].from
  /\ worker'[w].does = worker[w].does
  /\ worker'[w].session = worker[w].session

\* It is answered, and the answer carries s; or nobody waits for it.
Done(w, s) ==
  /\ Others(w)
  /\ \/ worker[w].from = Nobody /\ worker'[w] = Free
     \/ /\ worker[w].from # Nobody
        /\ worker'[w].at = "done"
        /\ worker'[w].from = worker[w].from
        /\ worker'[w].does = worker[w].does
        /\ worker'[w].session = s
        /\ s # NoSession => worker'[w].answer = "yes"

LEMMA GoesMoves ==
  ASSUME WorkerTypes, NEW w \in Workers, NEW place \in Places, Goes(w, place)
  PROVE  Moved(w, place) /\ worker'[w].user = worker[w].user
BY DEF WorkerTypes, Worker, Goes, Moved, Others, Places

LEMMA RepliesDone ==
  ASSUME WorkerTypes, NEW w \in Workers,
         NEW answer \in {"none", "yes", "no", "taken", "unauthorized"}, Replies(w, answer)
  PROVE  Done(w, IF worker[w].does = "login" /\ answer = "yes"
                 THEN worker[w].session ELSE NoSession)
<1>1. worker[w] \in Worker /\ Free \in Worker
  BY DEF WorkerTypes, Worker, Free
<1>2. worker' = [worker EXCEPT ![w] = Replied(worker[w], answer)]
  BY DEF Replies
<1>3. Replied(worker[w], answer) \in Worker
  <2>1. CASE worker[w].from = Nobody
    BY <1>1, <2>1 DEF Replied
  <2>2. CASE worker[w].from # Nobody
    <3>1. worker[w].from \in Clients /\ worker[w].does \in {"register", "login", "logout"}
          /\ worker[w].session \in Sessions \cup {NoSession}
      BY <1>1, <2>2 DEF Worker
    <3>2. Replied(worker[w], answer) =
            [at |-> "done", from |-> worker[w].from, does |-> worker[w].does,
             email |-> NoEmail, user |-> NoUser,
             session |-> IF worker[w].does = "login" /\ answer = "yes"
                         THEN worker[w].session ELSE NoSession,
             answer |-> answer]
      BY <2>2 DEF Replied, Free
    <3> QED BY <3>1, <3>2 DEF Worker
  <2> QED BY <2>1, <2>2
<1>4. worker'[w] = Replied(worker[w], answer) /\ Others(w)
  BY <1>2, <1>3 DEF WorkerTypes, Others
<1> QED BY <1>1, <1>4 DEF Done, Replied, Free, Worker

\* What every request at work knows.
LEMMA Knows ==
  ASSUME IInv
  PROVE  /\ NoUser \notin Users /\ NoSession \notin Sessions /\ Nobody \notin Clients
         /\ \A v \in Workers :
              /\ worker[v].at \in {"look", "set user", "set session", "del"} =>
                   worker[v].user \in Users
              /\ worker[v].at \in {"set session", "guard", "get", "del"} =>
                   worker[v].session \in Sessions
BY AccountsAssumption DEF IInv, WorkerTypes

-----------------------------------------------------------------------------
(***************************************************************************)
(* Steps that touch no key and no client                                   *)
(***************************************************************************)

\* Nobody answers, registers or looks for a session differently for the handlers of the
\* cards service, or for a fault.
LEMMA Idles ==
  ASSUME IInv, UNCHANGED <<worker, userKey, sessionKey, screen, session, overlap>>,
         faults' \in Nat, faults' = 0 => faults = 0
  PROVE  IInv'
<1>1. WorkerTypes' /\ SessionTypes'
  BY DEF IInv, WorkerTypes, SessionTypes
<1>2. ASSUME faults' = 0 PROVE Waiting' /\ Holding' /\ Keys'
  <2>1. Waiting /\ Holding /\ Keys
    BY <1>2 DEF IInv
  <2>2. Waiting' /\ Holding'
    BY <2>1 DEF Waiting, WaitsFor, OnePerClient, Holding, ClientsHold, NotAtClients, NotAtWorkers, LogoutsHold
  <2>3. UserKeys' /\ SessionKeys' /\ KeysToCome'
    BY <2>1 DEF Keys, UserKeys, SessionKeys, KeysToCome
  <2> QED BY <2>2, <2>3 DEF Keys
<1>3. faults' = 0 /\ ~overlap' => Strict'
  BY DEF IInv, Strict, StrictKeys, StrictWork, OneSetter
<1> QED BY <1>1, <1>2, <1>3 DEF IInv

\* A request that has no session yet goes on or is answered.
LEMMA WithoutSession ==
  ASSUME IInv, NEW w \in Workers, WorkerTypes',
         worker[w].at \in {"find", "look"} \cup Registers,
         \/ \E place \in {"look", "set user"} \cup Registers : Moved(w, place)
         \/ Done(w, NoSession),
         UNCHANGED <<userKey, sessionKey, screen, session>>,
         faults' \in Nat, faults' = 0 => faults = 0,
         overlap' \in BOOLEAN, overlap => overlap',
         faults' = 0 /\ ~overlap' /\ worker'[w].at = "set user" =>
           /\ userKey[worker'[w].user] = NoSession
           /\ \A v \in Workers :
                v # w => ~(worker[v].at = "set user" /\ worker[v].user = worker'[w].user)
  PROVE  IInv'
<1>1. SessionTypes'
  BY DEF IInv, SessionTypes
<1>2. ASSUME faults' = 0
      PROVE  Waiting' /\ Holding' /\ Keys' /\ (~overlap' => Strict')
  <2>1. /\ WaitsFor /\ OnePerClient /\ ClientsHold /\ NotAtClients /\ NotAtWorkers /\ LogoutsHold
        /\ UserKeys /\ SessionKeys /\ KeysToCome
        /\ ~overlap' => StrictKeys /\ StrictWork /\ OneSetter
    BY <1>2 DEF IInv, Waiting, Holding, Keys, Strict
  <2>2. worker[w].session = NoSession /\ worker[w].does # "logout"
    BY DEF IInv, WorkerTypes, Registers
  <2>3. /\ \A v \in Workers : v # w => worker'[v] = worker[v]
        /\ worker[w].at \notin {"idle", "set user", "set session", "guard", "get", "del", "done"}
        /\ worker'[w].at \notin {"idle", "set session", "guard", "get", "del"}
        /\ worker'[w].from = worker[w].from /\ worker[w].from \in Clients
        /\ worker'[w].does = worker[w].does
        /\ worker'[w].session = NoSession
    BY <2>1, <2>2, AccountsAssumption DEF WaitsFor, Moved, Done, Others, Registers
  <2>4. WaitsFor'
    <3>1. ASSUME NEW v \in Workers, worker'[v].at # "idle"
         PROVE  /\ worker'[v].from \in Clients
                /\ screen'[worker'[v].from] = WaitsAt(worker'[v].does)
      BY <2>1, <2>2, <2>3, <3>1 DEF WaitsFor
    <3> QED BY <3>1 DEF WaitsFor
  <2>5. OnePerClient'
    <3>1. ASSUME NEW v \in Workers, NEW u \in Workers,
                worker'[v].at # "idle", worker'[v].from = worker'[u].from
         PROVE  v = u
      BY <2>1, <2>2, <2>3, <3>1 DEF OnePerClient
    <3> QED BY <3>1 DEF OnePerClient
  <2>6. ClientsHold'
    <3>1. ASSUME NEW b \in Clients, NEW d \in Clients,
                session'[b] # NoSession, session'[b] = session'[d]
         PROVE  b = d
      BY <2>1, <2>2, <2>3, <3>1 DEF ClientsHold
    <3> QED BY <3>1 DEF ClientsHold
  <2>7. NotAtClients'
    <3>1. ASSUME NEW v \in Workers, NEW b \in Clients,
                worker'[v].does = "login", worker'[v].session # NoSession
         PROVE  session'[b] # worker'[v].session
      BY <2>1, <2>2, <2>3, <3>1 DEF NotAtClients
    <3> QED BY <3>1 DEF NotAtClients
  <2>8. NotAtWorkers'
    <3>1. ASSUME NEW v \in Workers, NEW u \in Workers,
                worker'[v].does = "login", worker'[v].session # NoSession,
                worker'[u].session = worker'[v].session
         PROVE  u = v
      BY <2>1, <2>2, <2>3, <3>1 DEF NotAtWorkers
    <3> QED BY <3>1 DEF NotAtWorkers
  <2>9. LogoutsHold'
    <3>1. ASSUME NEW v \in Workers, worker'[v].at # "idle", worker'[v].does = "logout"
         PROVE  /\ session'[worker'[v].from] # NoSession
                /\ worker'[v].at # "done" => worker'[v].session = session'[worker'[v].from]
      BY <2>1, <2>2, <2>3, <3>1 DEF LogoutsHold
    <3> QED BY <3>1 DEF LogoutsHold
  <2>10. UserKeys'
    <3>1. ASSUME NEW u \in Users, userKey'[u] # NoSession, sessionKey'[userKey'[u]] # u
         PROVE  \E v \in Workers : /\ worker'[v].at = "set session"
                                   /\ worker'[v].session = userKey'[u]
                                   /\ worker'[v].user = u
      <4>1. PICK v \in Workers :
              worker[v].at = "set session" /\ worker[v].session = userKey[u] /\ worker[v].user = u
        BY <2>1, <2>3, <3>1 DEF UserKeys
      <4>2. worker'[v] = worker[v]
        BY <2>1, <2>3, <4>1
      <4> QED BY <2>1, <2>3, <3>1, <4>1, <4>2
    <3> QED BY <3>1 DEF UserKeys
  <2>11. SessionKeys'
    <3>1. ASSUME NEW t \in Sessions, sessionKey'[t] # NoUser,
                 \A b \in Clients :
                   ~(session'[b] = t /\ screen'[b] \in {"in", "logging out"})
         PROVE  \E v \in Workers : /\ worker'[v].does = "login" /\ worker'[v].at = "done"
                                   /\ worker'[v].session = t
      <4>1. PICK v \in Workers :
              worker[v].does = "login" /\ worker[v].at = "done" /\ worker[v].session = t
        BY <2>1, <2>3, <3>1 DEF SessionKeys
      <4>2. worker'[v] = worker[v]
        BY <2>1, <2>3, <4>1
      <4> QED BY <2>1, <2>3, <4>1, <4>2
    <3> QED BY <3>1 DEF SessionKeys
  <2>12. KeysToCome'
    <3>1. ASSUME NEW v \in Workers
         PROVE  /\ worker'[v].at = "set session" => sessionKey'[worker'[v].session] = NoUser
                /\ worker'[v].at = "del" =>
                     sessionKey'[worker'[v].session] \in {worker'[v].user, NoUser}
                /\ worker'[v].at = "done" /\ worker'[v].does = "logout" =>
                     sessionKey'[session'[worker'[v].from]] = NoUser
      BY <2>1, <2>2, <2>3, <3>1 DEF KeysToCome
    <3> QED BY <3>1 DEF KeysToCome
  <2>13. ASSUME ~overlap' PROVE Strict'
    <3>1. ASSUME NEW t \in Sessions, sessionKey'[t] # NoUser
         PROVE  userKey'[sessionKey'[t]] = t
      BY <1>2, <2>1, <2>3, <2>13, <3>1 DEF StrictKeys
    <3>2. ASSUME NEW v \in Workers
         PROVE  /\ worker'[v].at = "set user" => userKey'[worker'[v].user] = NoSession
                /\ worker'[v].at = "set session" =>
                     userKey'[worker'[v].user] = worker'[v].session
                /\ worker'[v].at = "del" => sessionKey'[worker'[v].session] = worker'[v].user
      BY <1>2, <2>1, <2>3, <2>13, <3>2 DEF StrictWork
    <3>3. ASSUME NEW v \in Workers, NEW u \in Workers,
                worker'[v].at = "set user", worker'[u].at = "set user",
                worker'[v].user = worker'[u].user
         PROVE  v = u
      BY <1>2, <2>1, <2>3, <2>13, <3>3 DEF OneSetter
    <3> QED BY <3>1, <3>2, <3>3 DEF Strict, StrictKeys, StrictWork, OneSetter
  <2> QED BY <2>4, <2>5, <2>6, <2>7, <2>8, <2>9, <2>10, <2>11, <2>12, <2>13
       DEF Waiting, Holding, Keys
<1> QED BY <1>1, <1>2 DEF IInv

-----------------------------------------------------------------------------
(***************************************************************************)
(* Types and faults                                                        *)
(***************************************************************************)

LEMMA MovedTypes ==
  ASSUME WorkerTypes, NEW w \in Workers, NEW place \in Places, Moved(w, place),
         place \in Registers => worker[w].does = "register",
         place \in {"look", "set user"} => worker[w].does = "login" /\ worker'[w].user \in Users,
         place \in {"look", "set user"} \cup Registers => worker[w].session = NoSession,
         place = "get" => worker[w].at = "guard",
         place \in {"look", "set user", "get"} \cup Registers
  PROVE  WorkerTypes'
<1>1. worker' \in [Workers -> Worker]
  BY DEF Moved, Others
<1>2. ASSUME NEW v \in Workers, v # w PROVE worker'[v] = worker[v]
  BY <1>2 DEF Moved, Others
<1>3. /\ worker'[w].at = place /\ worker'[w].does = worker[w].does
      /\ worker'[w].session = worker[w].session
  BY DEF Moved
<1>4. worker[w].at = "guard" => worker[w].does = "logout" /\ worker[w].session \in Sessions
  BY DEF WorkerTypes
<1> QED BY <1>1, <1>2, <1>3, <1>4 DEF WorkerTypes, Registers

LEMMA DoneTypes ==
  ASSUME WorkerTypes, NEW w \in Workers, NEW s, Done(w, s),
         s # NoSession => worker[w].does = "login"
  PROVE  WorkerTypes'
<1>1. worker' \in [Workers -> Worker]
  BY DEF Done, Others
<1>2. ASSUME NEW v \in Workers, v # w PROVE worker'[v] = worker[v]
  BY <1>2 DEF Done, Others
<1>3. \/ worker'[w] = Free
      \/ /\ worker'[w].at = "done" /\ worker'[w].does = worker[w].does
         /\ worker'[w].session = s
         /\ (s # NoSession => worker'[w].answer = "yes")
  BY DEF Done
<1>4. Free.at = "idle" /\ Free.session = NoSession
  BY DEF Free
<1> QED BY <1>1, <1>2, <1>3, <1>4 DEF WorkerTypes, Registers

\* After a fault nothing is promised but the types.
LEMMA FaultCounts ==
  ASSUME IInv, Fault
  PROVE  faults' \in Nat /\ faults' # 0
<1>1. faults \in Nat
  BY DEF IInv, SessionTypes
<1> QED BY <1>1 DEF Fault

LEMMA AfterFault ==
  ASSUME IInv, WorkerTypes', SessionTypes', Fault
  PROVE  IInv'
BY FaultCounts DEF IInv

\* An answer, or its loss, never takes a fault back.
LEMMA HearsFaults ==
  ASSUME IInv, NEW caller, NEW h, NEW answer, HearsOf(caller, h, answer)
  PROVE  faults' \in Nat /\ (faults' = 0 => faults = 0)
<1>1. faults \in Nat
  BY DEF IInv, SessionTypes
<1>2. faults' = faults \/ faults' = faults + 1
  BY DEF HearsOf, Fault
<1> QED BY <1>1, <1>2

LEMMA FreeFields ==
  Free.at = "idle" /\ Free.from = Nobody /\ Free.session = NoSession /\ Free.does = "login"
BY DEF Free

LEMMA MovesWithUser ==
  ASSUME WorkerTypes, NEW w \in Workers, NEW place \in Places, NEW u \in Users,
         worker' = [worker EXCEPT ![w].at = place, ![w].user = u]
  PROVE  Moved(w, place) /\ worker'[w].user = u
<1>1. worker \in [Workers -> Worker] /\ worker[w] \in Worker
  BY DEF WorkerTypes
<1> DEFINE moved == [worker[w] EXCEPT !.at = place, !.user = u]
<1>2. worker' = [worker EXCEPT ![w] = moved]
  OBVIOUS
<1>3. /\ moved \in Worker /\ moved.at = place /\ moved.user = u
      /\ moved.from = worker[w].from /\ moved.does = worker[w].does
      /\ moved.session = worker[w].session
  BY <1>1 DEF Worker, Places
<1>4. worker'[w] = moved /\ Others(w)
  BY <1>1, <1>2, <1>3 DEF Others
<1> QED BY <1>3, <1>4 DEF Moved

-----------------------------------------------------------------------------
(***************************************************************************)
(* Registration, and the first steps of a login                            *)
(***************************************************************************)

LEMMA FindForRegisterStep ==
  ASSUME IInv, NEW w \in Workers, FindForRegister(w)
  PROVE  IInv'
<1>1. worker[w].at = "find" /\ worker[w].does = "register"
  BY DEF IInv, WorkerTypes, Registers, FindForRegister
<1>2. Moved(w, "create") \/ Done(w, NoSession)
  BY <1>1, GoesMoves, RepliesDone DEF IInv, Places, FindForRegister
<1>3. WorkerTypes'
  BY <1>1, <1>2, MovedTypes, DoneTypes DEF IInv, WorkerTypes, Places, Registers
<1>4. /\ UNCHANGED <<userKey, sessionKey, screen, session, overlap>>
      /\ faults' \in Nat /\ (faults' = 0 => faults = 0) /\ overlap' \in BOOLEAN
  BY DEF IInv, SessionTypes, serviceVars, clientVars, FindForRegister
<1>5. worker'[w].at # "set user"
  BY <1>1, <1>2, FreeFields DEF Moved, Done
<1> QED BY <1>1, <1>2, <1>3, <1>4, <1>5, WithoutSession DEF Registers

LEMMA CreateUserStep ==
  ASSUME IInv, NEW w \in Workers, CreateUser(w)
  PROVE  IInv'
<1>1. worker[w].at = "create" /\ worker[w].does = "register"
  BY DEF IInv, WorkerTypes, Registers, CreateUser
<1>2. Moved(w, "post inventory") \/ Done(w, NoSession)
  <2>1. CASE EmailUsed(worker[w].email)
    BY <1>1, <2>1, RepliesDone DEF IInv, CreateUser
  <2>2. CASE ~EmailUsed(worker[w].email)
    <3>1. PICK u \in Users :
            worker' = [worker EXCEPT ![w].at = "post inventory", ![w].user = u]
      BY <2>2 DEF CreateUser
    <3> QED BY <3>1, MovesWithUser DEF IInv, Places
  <2> QED BY <2>1, <2>2
<1>3. WorkerTypes'
  BY <1>1, <1>2, MovedTypes, DoneTypes DEF IInv, WorkerTypes, Places, Registers
<1>4. /\ UNCHANGED <<userKey, sessionKey, screen, session, overlap>>
      /\ faults' \in Nat /\ (faults' = 0 => faults = 0) /\ overlap' \in BOOLEAN
  BY DEF IInv, SessionTypes, serviceVars, clientVars, CreateUser
<1>5. worker'[w].at # "set user"
  BY <1>1, <1>2, FreeFields DEF Moved, Done
<1> QED BY <1>1, <1>2, <1>3, <1>4, <1>5, WithoutSession DEF Registers

LEMMA PostInventoryStep ==
  ASSUME IInv, NEW w \in Workers, PostInventory(w)
  PROVE  IInv'
<1>1. worker[w].at = "post inventory" /\ worker[w].does = "register"
  BY DEF IInv, WorkerTypes, Registers, PostInventory, Posts
<1>2. Moved(w, "inventory")
  BY <1>1, GoesMoves, RepliesDone DEF IInv, Places, PostInventory, Posts
<1>3. WorkerTypes'
  BY <1>1, <1>2, MovedTypes, DoneTypes DEF IInv, WorkerTypes, Places, Registers
<1>4. /\ UNCHANGED <<userKey, sessionKey, screen, session, overlap>>
      /\ faults' \in Nat /\ (faults' = 0 => faults = 0) /\ overlap' \in BOOLEAN
  BY DEF IInv, SessionTypes, serviceVars, clientVars, PostInventory, Posts
<1>5. worker'[w].at # "set user"
  BY <1>1, <1>2, FreeFields DEF Moved, Done
<1> QED BY <1>1, <1>2, <1>3, <1>4, <1>5, WithoutSession DEF Registers

LEMMA PostDeckStep ==
  ASSUME IInv, NEW w \in Workers, PostDeck(w)
  PROVE  IInv'
<1>1. worker[w].at = "post deck" /\ worker[w].does = "register"
  BY DEF IInv, WorkerTypes, Registers, PostDeck, Posts
<1>2. Moved(w, "deck")
  BY <1>1, GoesMoves, RepliesDone DEF IInv, Places, PostDeck, Posts
<1>3. WorkerTypes'
  BY <1>1, <1>2, MovedTypes, DoneTypes DEF IInv, WorkerTypes, Places, Registers
<1>4. /\ UNCHANGED <<userKey, sessionKey, screen, session, overlap>>
      /\ faults' \in Nat /\ (faults' = 0 => faults = 0) /\ overlap' \in BOOLEAN
  BY DEF IInv, SessionTypes, serviceVars, clientVars, PostDeck, Posts
<1>5. worker'[w].at # "set user"
  BY <1>1, <1>2, FreeFields DEF Moved, Done
<1> QED BY <1>1, <1>2, <1>3, <1>4, <1>5, WithoutSession DEF Registers

LEMMA InventoryMadeStep ==
  ASSUME IInv, NEW w \in Workers, NEW h \in Handlers, InventoryMade(w, h)
  PROVE  IInv'
<1>1. worker[w].at = "inventory" /\ worker[w].does = "register"
  BY DEF IInv, WorkerTypes, Registers, InventoryMade
<1>2. Moved(w, "post deck") \/ Moved(w, "undo")
  BY <1>1, GoesMoves, RepliesDone DEF IInv, Places, InventoryMade
<1>3. WorkerTypes'
  BY <1>1, <1>2, MovedTypes, DoneTypes DEF IInv, WorkerTypes, Places, Registers
<1>4. /\ UNCHANGED <<userKey, sessionKey, screen, session, overlap>>
      /\ faults' \in Nat /\ (faults' = 0 => faults = 0) /\ overlap' \in BOOLEAN
  BY HearsFaults DEF IInv, SessionTypes, serviceVars, clientVars, InventoryMade
<1>5. worker'[w].at # "set user"
  BY <1>1, <1>2, FreeFields DEF Moved, Done
<1> QED BY <1>1, <1>2, <1>3, <1>4, <1>5, WithoutSession DEF Registers

LEMMA DeckMadeStep ==
  ASSUME IInv, NEW w \in Workers, NEW h \in Handlers, DeckMade(w, h)
  PROVE  IInv'
<1>1. worker[w].at = "deck" /\ worker[w].does = "register"
  BY DEF IInv, WorkerTypes, Registers, DeckMade
<1>2. Moved(w, "undo") \/ Done(w, NoSession)
  BY <1>1, GoesMoves, RepliesDone DEF IInv, Places, DeckMade
<1>3. WorkerTypes'
  BY <1>1, <1>2, MovedTypes, DoneTypes DEF IInv, WorkerTypes, Places, Registers
<1>4. /\ UNCHANGED <<userKey, sessionKey, screen, session, overlap>>
      /\ faults' \in Nat /\ (faults' = 0 => faults = 0) /\ overlap' \in BOOLEAN
  BY HearsFaults DEF IInv, SessionTypes, serviceVars, clientVars, DeckMade
<1>5. worker'[w].at # "set user"
  BY <1>1, <1>2, FreeFields DEF Moved, Done
<1> QED BY <1>1, <1>2, <1>3, <1>4, <1>5, WithoutSession DEF Registers

LEMMA UndoStep ==
  ASSUME IInv, NEW w \in Workers, Undo(w)
  PROVE  IInv'
<1>1. worker[w].at = "undo" /\ worker[w].does = "register"
  BY DEF IInv, WorkerTypes, Registers, Undo
<1>2. Done(w, NoSession)
  BY <1>1, GoesMoves, RepliesDone DEF IInv, Places, Undo
<1>3. WorkerTypes'
  BY <1>1, <1>2, MovedTypes, DoneTypes DEF IInv, WorkerTypes, Places, Registers
<1>4. /\ UNCHANGED <<userKey, sessionKey, screen, session, overlap>>
      /\ faults' \in Nat /\ (faults' = 0 => faults = 0) /\ overlap' \in BOOLEAN
  BY DEF IInv, SessionTypes, serviceVars, clientVars, Undo
<1>5. worker'[w].at # "set user"
  BY <1>1, <1>2, FreeFields DEF Moved, Done
<1> QED BY <1>1, <1>2, <1>3, <1>4, <1>5, WithoutSession DEF Registers

LEMMA FindForLoginStep ==
  ASSUME IInv, NEW w \in Workers, FindForLogin(w)
  PROVE  IInv'
<1>1. worker[w].at = "find" /\ worker[w].does = "login"
  BY DEF IInv, WorkerTypes, Registers, FindForLogin
<1>2. (Moved(w, "look") /\ worker'[w].user \in Users) \/ Done(w, NoSession)
  <2>1. CASE Replies(w, "no")
    BY <1>1, <2>1, RepliesDone DEF IInv
  <2>2. ASSUME NEW u \in Users, worker' = [worker EXCEPT ![w].at = "look", ![w].user = u]
        PROVE  Moved(w, "look") /\ worker'[w].user \in Users
    BY <2>2, MovesWithUser DEF IInv, Places
  <2> QED BY <2>1, <2>2 DEF FindForLogin
<1>3. WorkerTypes'
  BY <1>1, <1>2, MovedTypes, DoneTypes DEF IInv, WorkerTypes, Places, Registers
<1>4. /\ UNCHANGED <<userKey, sessionKey, screen, session, overlap>>
      /\ faults' \in Nat /\ (faults' = 0 => faults = 0) /\ overlap' \in BOOLEAN
  BY DEF IInv, SessionTypes, serviceVars, clientVars, FindForLogin
<1>5. worker'[w].at # "set user"
  BY <1>1, <1>2, FreeFields DEF Moved, Done
<1> QED BY <1>1, <1>2, <1>3, <1>4, <1>5, WithoutSession DEF Registers

LEMMA LookForSessionStep ==
  ASSUME IInv, NEW w \in Workers, LookForSession(w)
  PROVE  IInv'
<1>1. worker[w].at = "look" /\ worker[w].does = "login" /\ worker[w].user \in Users
  BY DEF IInv, WorkerTypes, LookForSession
<1>2. /\ UNCHANGED <<userKey, sessionKey, screen, session, faults>>
      /\ faults \in Nat /\ overlap \in BOOLEAN
  BY DEF IInv, SessionTypes, serviceVars, clientVars, LookForSession
<1>3. CASE userKey[worker[w].user] # NoSession
  <2>1. Done(w, NoSession) /\ UNCHANGED overlap
    BY <1>3, RepliesDone DEF IInv, LookForSession
  <2>2. WorkerTypes' /\ worker'[w].at # "set user"
    BY <2>1, DoneTypes, FreeFields DEF IInv, Done
  <2> QED BY <1>1, <1>2, <2>1, <2>2, WithoutSession
<1>4. CASE userKey[worker[w].user] = NoSession
  <2>1. /\ Moved(w, "set user") /\ worker'[w].user = worker[w].user
        /\ overlap' = (overlap \/ Overlaps(w))
    BY <1>4, GoesMoves DEF IInv, LookForSession, Places
  <2>2. WorkerTypes'
    BY <1>1, <2>1, MovedTypes DEF IInv, WorkerTypes, Places, Registers
  <2>3. ~overlap' =>
          \A v \in Workers : v # w => ~(worker[v].at = "set user" /\ worker[v].user = worker'[w].user)
    BY <2>1 DEF Overlaps
  <2>4. overlap' \in BOOLEAN /\ (overlap => overlap')
    BY <1>2, <2>1 DEF Overlaps
  <2> QED BY <1>1, <1>2, <1>4, <2>1, <2>2, <2>3, <2>4, WithoutSession
<1> QED BY <1>3, <1>4

-----------------------------------------------------------------------------
(***************************************************************************)
(* The two keys of a login                                                 *)
(***************************************************************************)

LEMMA SetUserKeyStep ==
  ASSUME IInv, NEW w \in Workers, SetUserKey(w)
  PROVE  IInv'
<1>1. PICK s \in NewSession :
        /\ userKey' = [userKey EXCEPT ![worker[w].user] = s]
        /\ worker' = [worker EXCEPT ![w].at = "set session", ![w].session = s]
  BY DEF SetUserKey
<1>2. /\ worker[w].at = "set user" /\ worker[w].user \in Users /\ worker[w].does = "login"
      /\ s \in Sessions /\ s # NoSession
      /\ UNCHANGED <<sessionKey, screen, session, overlap, faults>>
  BY AccountsAssumption DEF IInv, WorkerTypes, SetUserKey, NewSession, serviceVars, clientVars
<1>3. /\ Others(w)
      /\ worker'[w].at = "set session" /\ worker'[w].session = s
      /\ worker'[w].from = worker[w].from /\ worker'[w].does = "login"
      /\ worker'[w].user = worker[w].user
  <2>1. worker \in [Workers -> Worker] /\ worker[w] \in Worker
    BY DEF IInv, WorkerTypes
  <2> DEFINE moved == [worker[w] EXCEPT !.at = "set session", !.session = s]
  <2>2. worker' = [worker EXCEPT ![w] = moved]
    BY <1>1
  <2>3. /\ moved \in Worker /\ moved.at = "set session" /\ moved.session = s
        /\ moved.from = worker[w].from /\ moved.does = "login"
        /\ moved.user = worker[w].user
    BY <1>2, <2>1 DEF Worker
  <2> QED BY <2>1, <2>2, <2>3 DEF Others
<1>4. /\ \A u \in Users : u # worker[w].user => userKey'[u] = userKey[u]
      /\ userKey'[worker[w].user] = s
  BY <1>1, <1>2 DEF IInv, SessionTypes
<1>5. /\ sessionKey[s] = NoUser
      /\ \A u \in Users : userKey[u] # s
      /\ \A d \in Clients : session[d] # s
      /\ \A v \in Workers : worker[v].session # s
  BY DEF NewSession
<1>6. WorkerTypes'
  BY <1>2, <1>3 DEF IInv, WorkerTypes, Others, Registers
<1>7. SessionTypes'
  BY <1>1, <1>2 DEF IInv, SessionTypes
<1>8. ASSUME faults' = 0
      PROVE  Waiting' /\ Holding' /\ Keys' /\ (~overlap' => Strict')
  <2>1. /\ WaitsFor /\ OnePerClient /\ ClientsHold /\ NotAtClients /\ NotAtWorkers /\ LogoutsHold
        /\ UserKeys /\ SessionKeys /\ KeysToCome
        /\ ~overlap' => StrictKeys /\ StrictWork /\ OneSetter
    BY <1>2, <1>8 DEF IInv, Waiting, Holding, Keys, Strict
  <2>2. \A v \in Workers : v # w => worker'[v] = worker[v]
    BY <1>3 DEF Others
  <2>3. \A v \in Workers :
          /\ worker'[v].from = worker[v].from /\ worker'[v].does = worker[v].does
          /\ worker'[v].at = "idle" <=> worker[v].at = "idle"
    BY <1>2, <1>3, <2>2
  <2>4. WaitsFor'
    <3>1. ASSUME NEW v \in Workers, worker'[v].at # "idle"
         PROVE  /\ worker'[v].from \in Clients
                /\ screen'[worker'[v].from] = WaitsAt(worker'[v].does)
      BY <1>2, <2>1, <2>3, <3>1 DEF WaitsFor
    <3> QED BY <3>1 DEF WaitsFor
  <2>5. OnePerClient'
    <3>1. ASSUME NEW v \in Workers, NEW u \in Workers,
                worker'[v].at # "idle", worker'[v].from = worker'[u].from
         PROVE  v = u
      BY <2>1, <2>3, <3>1 DEF OnePerClient
    <3> QED BY <3>1 DEF OnePerClient
  <2>6. ClientsHold'
    <3>1. ASSUME NEW b \in Clients, NEW d \in Clients,
                session'[b] # NoSession, session'[b] = session'[d]
         PROVE  b = d
      BY <1>2, <1>3, <1>4, <1>5, <2>1, <2>2, <3>1 DEF ClientsHold
    <3> QED BY <3>1 DEF ClientsHold
  <2>7. NotAtClients'
    <3>1. ASSUME NEW v \in Workers, NEW b \in Clients,
                worker'[v].does = "login", worker'[v].session # NoSession
         PROVE  session'[b] # worker'[v].session
      <4>1. CASE v = w
        BY <1>2, <1>3, <1>4, <1>5, <2>1, <2>2, <3>1, <4>1 DEF NotAtClients
      <4>2. CASE v # w
        BY <1>2, <1>3, <1>4, <1>5, <2>1, <2>2, <3>1, <4>2 DEF NotAtClients
      <4> QED BY <4>1, <4>2
    <3> QED BY <3>1 DEF NotAtClients
  <2>8. NotAtWorkers'
    <3>1. ASSUME NEW v \in Workers, NEW u \in Workers,
                worker'[v].does = "login", worker'[v].session # NoSession,
                worker'[u].session = worker'[v].session
         PROVE  u = v
      <4>1. CASE v = w
        BY <1>2, <1>3, <1>4, <1>5, <2>1, <2>2, <3>1, <4>1 DEF NotAtWorkers
      <4>2. CASE u = w
        BY <1>2, <1>3, <1>4, <1>5, <2>1, <2>2, <3>1, <4>2 DEF NotAtWorkers
      <4>3. CASE v # w /\ u # w
        BY <1>2, <1>3, <1>4, <1>5, <2>1, <2>2, <3>1, <4>3 DEF NotAtWorkers
      <4> QED BY <4>1, <4>2, <4>3
    <3> QED BY <3>1 DEF NotAtWorkers
  <2>9. LogoutsHold'
    <3>1. ASSUME NEW v \in Workers, worker'[v].at # "idle", worker'[v].does = "logout"
         PROVE  /\ session'[worker'[v].from] # NoSession
                /\ worker'[v].at # "done" => worker'[v].session = session'[worker'[v].from]
      BY <1>2, <1>3, <1>4, <1>5, <2>1, <2>2, <3>1 DEF LogoutsHold
    <3> QED BY <3>1 DEF LogoutsHold
  <2>10. UserKeys'
    <3>1. ASSUME NEW u \in Users, userKey'[u] # NoSession, sessionKey'[userKey'[u]] # u
         PROVE  \E v \in Workers : /\ worker'[v].at = "set session"
                                   /\ worker'[v].session = userKey'[u]
                                   /\ worker'[v].user = u
      <4>1. CASE u = worker[w].user
        BY <1>3, <1>4, <4>1
      <4>2. CASE u # worker[w].user
        <5>1. PICK v \in Workers :
                /\ worker[v].at = "set session"
                /\ worker[v].session = userKey[u] /\ worker[v].user = u
          BY <1>2, <1>4, <2>1, <3>1, <4>2 DEF UserKeys
        <5>2. worker'[v] = worker[v]
          BY <1>2, <2>2, <5>1
        <5> QED BY <1>4, <4>2, <5>1, <5>2
      <4> QED BY <4>1, <4>2
    <3> QED BY <3>1 DEF UserKeys
  <2>11. SessionKeys'
    <3>1. ASSUME NEW t \in Sessions, sessionKey'[t] # NoUser,
                 \A b \in Clients :
                   ~(session'[b] = t /\ screen'[b] \in {"in", "logging out"})
         PROVE  \E v \in Workers : /\ worker'[v].does = "login" /\ worker'[v].at = "done"
                                   /\ worker'[v].session = t
      <4>1. PICK v \in Workers :
              worker[v].does = "login" /\ worker[v].at = "done" /\ worker[v].session = t
        BY <1>2, <1>3, <1>4, <1>5, <2>1, <2>2, <3>1 DEF SessionKeys
      <4>2. worker'[v] = worker[v]
        BY <1>2, <1>3, <1>4, <1>5, <2>1, <2>2, <4>1
      <4> QED BY <1>2, <1>3, <1>4, <1>5, <2>1, <2>2, <4>1, <4>2
    <3> QED BY <3>1 DEF SessionKeys
  <2>12. KeysToCome'
    <3>1. ASSUME NEW v \in Workers
         PROVE  /\ worker'[v].at = "set session" => sessionKey'[worker'[v].session] = NoUser
                /\ worker'[v].at = "del" =>
                     sessionKey'[worker'[v].session] \in {worker'[v].user, NoUser}
                /\ worker'[v].at = "done" /\ worker'[v].does = "logout" =>
                     sessionKey'[session'[worker'[v].from]] = NoUser
      <4>1. CASE v = w
        BY <1>2, <1>3, <1>4, <1>5, <2>1, <2>2, <3>1, <4>1 DEF KeysToCome
      <4>2. CASE v # w
        BY <1>2, <1>3, <1>4, <1>5, <2>1, <2>2, <3>1, <4>2 DEF KeysToCome
      <4> QED BY <4>1, <4>2
    <3> QED BY <3>1 DEF KeysToCome
  <2>13. ASSUME ~overlap' PROVE Strict'
    <3>1. ASSUME NEW t \in Sessions, sessionKey'[t] # NoUser
         PROVE  userKey'[sessionKey'[t]] = t
      <4>1. sessionKey[t] \in Users /\ userKey[sessionKey[t]] = t
        BY <1>2, <2>1, <2>13, <3>1 DEF StrictKeys, IInv, SessionTypes
      <4>2. userKey[worker[w].user] = NoSession /\ t # NoSession
        BY <1>2, <2>1, <2>13, Knows DEF StrictWork
      <4> QED BY <1>2, <1>4, <4>1, <4>2
    <3>2. ASSUME NEW v \in Workers
         PROVE  /\ worker'[v].at = "set user" => userKey'[worker'[v].user] = NoSession
                /\ worker'[v].at = "set session" =>
                     userKey'[worker'[v].user] = worker'[v].session
                /\ worker'[v].at = "del" => sessionKey'[worker'[v].session] = worker'[v].user
      <4>1. CASE v = w
        BY <1>2, <1>3, <1>4, <4>1
      <4>2. CASE v # w
        <5>1. worker'[v] = worker[v] /\ userKey[worker[w].user] = NoSession
          BY <1>2, <2>1, <2>2, <2>13, <4>2 DEF StrictWork
        <5>2. ASSUME worker[v].at = "set user" PROVE userKey'[worker[v].user] = NoSession
          <6>1. worker[v].user # worker[w].user /\ worker[v].user \in Users
            BY <1>2, <2>1, <2>13, <4>2, <5>2, Knows DEF OneSetter
          <6> QED BY <1>2, <1>4, <2>1, <2>13, <5>2, <6>1 DEF StrictWork
        <5>3. ASSUME worker[v].at = "set session"
              PROVE  userKey'[worker[v].user] = worker[v].session
          <6>1. /\ worker[v].user \in Users /\ worker[v].session # NoSession
                /\ userKey[worker[v].user] = worker[v].session
            BY <1>2, <2>1, <2>13, <5>3, Knows DEF StrictWork
          <6> QED BY <1>4, <5>1, <6>1
        <5>4. worker[v].at = "del" => sessionKey'[worker[v].session] = worker[v].user
          BY <1>2, <2>1, <2>13 DEF StrictWork
        <5> QED BY <5>1, <5>2, <5>3, <5>4
      <4> QED BY <4>1, <4>2
    <3>3. ASSUME NEW v \in Workers, NEW u \in Workers,
                worker'[v].at = "set user", worker'[u].at = "set user",
                worker'[v].user = worker'[u].user
         PROVE  v = u
      BY <1>2, <1>3, <1>4, <1>5, <2>1, <2>2, <2>13, <3>3 DEF OneSetter
    <3> QED BY <3>1, <3>2, <3>3 DEF Strict, StrictKeys, StrictWork, OneSetter
  <2> QED BY <2>4, <2>5, <2>6, <2>7, <2>8, <2>9, <2>10, <2>11, <2>12, <2>13
       DEF Waiting, Holding, Keys
<1> QED BY <1>6, <1>7, <1>8 DEF IInv

LEMMA SetSessionKeyStep ==
  ASSUME IInv, NEW w \in Workers, SetSessionKey(w)
  PROVE  IInv'
<1>1. /\ worker[w].at = "set session" /\ worker[w].does = "login"
      /\ worker[w].user \in Users /\ worker[w].session \in Sessions
      /\ worker[w].session # NoSession /\ worker[w].user # NoUser
  BY AccountsAssumption DEF IInv, WorkerTypes, SetSessionKey
<1>2. /\ Done(w, worker[w].session)
      /\ UNCHANGED <<userKey, screen, session, overlap, faults>>
  BY <1>1, RepliesDone DEF IInv, SetSessionKey, serviceVars, clientVars
<1>3. /\ sessionKey' = [sessionKey EXCEPT ![worker[w].session] = worker[w].user]
      /\ sessionKey'[worker[w].session] = worker[w].user
      /\ \A s \in Sessions : s # worker[w].session => sessionKey'[s] = sessionKey[s]
  BY <1>1 DEF IInv, SessionTypes, SetSessionKey
<1>4. userKey \in [Users -> Sessions \cup {NoSession}]
      /\ session \in [Clients -> Sessions \cup {NoSession}]
  BY DEF IInv, SessionTypes
<1>5. \A v \in Workers :
        worker[v].at \in {"set session", "guard", "get", "del"} => worker[v].session \in Sessions
  BY DEF IInv, WorkerTypes
<1>6. WorkerTypes'
  BY <1>1, <1>2, DoneTypes DEF IInv
<1>7. SessionTypes'
  BY <1>1, <1>2, <1>3 DEF IInv, SessionTypes
<1>8. ASSUME faults' = 0
      PROVE  Waiting' /\ Holding' /\ Keys' /\ (~overlap' => Strict')
  <2>1. /\ WaitsFor /\ OnePerClient /\ ClientsHold /\ NotAtClients /\ NotAtWorkers /\ LogoutsHold
        /\ UserKeys /\ SessionKeys /\ KeysToCome
        /\ ~overlap' => StrictKeys /\ StrictWork /\ OneSetter
    BY <1>2, <1>8 DEF IInv, Waiting, Holding, Keys, Strict
  <2>2. /\ worker[w].from \in Clients
        /\ \A v \in Workers : v # w => worker'[v] = worker[v]
        /\ worker'[w].at = "done" /\ worker'[w].from = worker[w].from
        /\ worker'[w].does = "login" /\ worker'[w].session = worker[w].session
    BY <1>1, <1>2, <2>1, AccountsAssumption DEF Done, Others, WaitsFor
  <2>3. sessionKey[worker[w].session] = NoUser
    BY <1>1, <2>1 DEF KeysToCome
  <2>31. \A v \in Workers :
          /\ worker'[v].from = worker[v].from /\ worker'[v].does = worker[v].does
          /\ worker'[v].at = "idle" <=> worker[v].at = "idle"
    BY <1>1, <2>2
  <2>32. \A v \in Workers :
           worker'[v].does = worker[v].does /\ worker'[v].session = worker[v].session
    BY <1>1, <2>2
  <2>4. WaitsFor'
    <3>1. ASSUME NEW v \in Workers, worker'[v].at # "idle"
         PROVE  /\ worker'[v].from \in Clients
                /\ screen'[worker'[v].from] = WaitsAt(worker'[v].does)
      BY <1>2, <2>1, <2>31, <3>1 DEF WaitsFor
    <3> QED BY <3>1 DEF WaitsFor
  <2>5. OnePerClient'
    <3>1. ASSUME NEW v \in Workers, NEW u \in Workers,
                worker'[v].at # "idle", worker'[v].from = worker'[u].from
         PROVE  v = u
      BY <2>1, <2>31, <3>1 DEF OnePerClient
    <3> QED BY <3>1 DEF OnePerClient
  <2>6. ClientsHold'
    <3>1. ASSUME NEW b \in Clients, NEW d \in Clients,
                session'[b] # NoSession, session'[b] = session'[d]
         PROVE  b = d
      BY <1>1, <1>2, <1>3, <1>4, <1>5, <2>1, <2>2, <2>3, <3>1 DEF ClientsHold
    <3> QED BY <3>1 DEF ClientsHold
  <2>7. NotAtClients'
    <3>1. ASSUME NEW v \in Workers, NEW b \in Clients,
                worker'[v].does = "login", worker'[v].session # NoSession
         PROVE  session'[b] # worker'[v].session
      <4>1. CASE v = w
        BY <1>1, <1>2, <1>3, <1>4, <1>5, <2>1, <2>2, <2>3, <3>1, <4>1 DEF NotAtClients
      <4>2. CASE v # w
        BY <1>1, <1>2, <1>3, <1>4, <1>5, <2>1, <2>2, <2>3, <3>1, <4>2 DEF NotAtClients
      <4> QED BY <4>1, <4>2
    <3> QED BY <3>1 DEF NotAtClients
  <2>8. NotAtWorkers'
    <3>1. ASSUME NEW v \in Workers, NEW u \in Workers,
                worker'[v].does = "login", worker'[v].session # NoSession,
                worker'[u].session = worker'[v].session
         PROVE  u = v
      BY <2>1, <2>32, <3>1 DEF NotAtWorkers
    <3> QED BY <3>1 DEF NotAtWorkers
  <2>9. LogoutsHold'
    <3>1. ASSUME NEW v \in Workers, worker'[v].at # "idle", worker'[v].does = "logout"
         PROVE  /\ session'[worker'[v].from] # NoSession
                /\ worker'[v].at # "done" => worker'[v].session = session'[worker'[v].from]
      BY <1>1, <1>2, <1>3, <1>4, <1>5, <2>1, <2>2, <2>3, <3>1 DEF LogoutsHold
    <3> QED BY <3>1 DEF LogoutsHold
  <2>10. UserKeys'
    <3>1. ASSUME NEW u \in Users, userKey'[u] # NoSession, sessionKey'[userKey'[u]] # u
         PROVE  \E v \in Workers : /\ worker'[v].at = "set session"
                                   /\ worker'[v].session = userKey'[u]
                                   /\ worker'[v].user = u
      <4>1. userKey[u] # worker[w].session \/ u # worker[w].user
        BY <1>2, <1>3, <3>1
      <4>2. sessionKey[userKey[u]] # u
        BY <1>2, <1>3, <1>4, <2>3, <3>1, AccountsAssumption
      <4>3. PICK v \in Workers :
              worker[v].at = "set session" /\ worker[v].session = userKey[u] /\ worker[v].user = u
        BY <1>2, <2>1, <3>1, <4>2 DEF UserKeys
      <4>4. v # w
        BY <4>1, <4>3
      <4> QED BY <1>2, <2>2, <4>3, <4>4
    <3> QED BY <3>1 DEF UserKeys
  <2>11. SessionKeys'
    <3>1. ASSUME NEW t \in Sessions, sessionKey'[t] # NoUser,
                 \A b \in Clients :
                   ~(session'[b] = t /\ screen'[b] \in {"in", "logging out"})
         PROVE  \E v \in Workers : /\ worker'[v].does = "login" /\ worker'[v].at = "done"
                                   /\ worker'[v].session = t
      <4>1. CASE t = worker[w].session
        BY <2>2, <4>1
      <4>2. CASE t # worker[w].session
        <5>1. PICK v \in Workers :
                worker[v].does = "login" /\ worker[v].at = "done" /\ worker[v].session = t
          BY <1>2, <1>3, <2>1, <3>1, <4>2 DEF SessionKeys
        <5>2. worker'[v] = worker[v]
          BY <1>1, <2>2, <5>1
        <5> QED BY <5>1, <5>2
      <4> QED BY <4>1, <4>2
    <3> QED BY <3>1 DEF SessionKeys
  <2>12. KeysToCome'
    <3>1. ASSUME NEW v \in Workers, v # w PROVE worker'[v] = worker[v]
      BY <2>2, <3>1
    <3>2. ASSUME NEW v \in Workers, worker'[v].at = "set session"
         PROVE  sessionKey'[worker'[v].session] = NoUser
      <4>1. v # w /\ worker[v].at = "set session" /\ worker[v].session # worker[w].session
        BY <1>1, <2>1, <2>2, <3>1, <3>2 DEF NotAtWorkers
      <4> QED BY <1>3, <2>1, <3>1, <4>1, Knows DEF KeysToCome
    <3>3. ASSUME NEW v \in Workers, worker'[v].at = "del"
         PROVE  sessionKey'[worker'[v].session] \in {worker'[v].user, NoUser}
      <4>1. v # w /\ worker[v].at = "del" /\ worker[v].session # worker[w].session
        BY <1>1, <2>1, <2>2, <3>1, <3>3 DEF NotAtWorkers
      <4> QED BY <1>3, <2>1, <3>1, <4>1, Knows DEF KeysToCome
    <3>4. ASSUME NEW v \in Workers, worker'[v].at = "done", worker'[v].does = "logout"
         PROVE  sessionKey'[session'[worker'[v].from]] = NoUser
      <4>1. v # w /\ worker[v].at = "done" /\ worker[v].does = "logout"
        BY <2>2, <3>1, <3>4
      <4>2. worker[v].from \in Clients
        BY <2>1, <4>1 DEF WaitsFor
      <4>3. session[worker[v].from] \in Sessions
        BY <1>4, <2>1, <4>1, <4>2 DEF LogoutsHold
      <4>4. session[worker[v].from] # worker[w].session
        BY <1>1, <2>1, <4>2 DEF NotAtClients
      <4> QED BY <1>2, <1>3, <2>1, <3>1, <4>1, <4>3, <4>4 DEF KeysToCome
    <3> QED BY <3>2, <3>3, <3>4 DEF KeysToCome
  <2>13. ASSUME ~overlap' PROVE Strict'
    <3>1. ASSUME NEW t \in Sessions, sessionKey'[t] # NoUser
         PROVE  userKey'[sessionKey'[t]] = t
      <4>1. CASE t = worker[w].session
        BY <1>1, <1>2, <1>3, <2>1, <2>13, <3>1, <4>1 DEF StrictKeys, StrictWork
      <4>2. CASE t # worker[w].session
        BY <1>1, <1>2, <1>3, <2>1, <2>13, <3>1, <4>2 DEF StrictKeys, StrictWork
      <4> QED BY <4>1, <4>2
    <3>2. ASSUME NEW v \in Workers
         PROVE  /\ worker'[v].at = "set user" => userKey'[worker'[v].user] = NoSession
                /\ worker'[v].at = "set session" =>
                     userKey'[worker'[v].user] = worker'[v].session
                /\ worker'[v].at = "del" => sessionKey'[worker'[v].session] = worker'[v].user
      <4>1. CASE v = w
        BY <2>2, <4>1
      <4>2. CASE v # w
        <5>1. worker'[v] = worker[v]
          BY <2>2, <4>2
        <5>2. /\ worker[v].at = "set user" => userKey'[worker[v].user] = NoSession
              /\ worker[v].at = "set session" =>
                   userKey'[worker[v].user] = worker[v].session
          BY <1>2, <2>1, <2>13 DEF StrictWork
        <5>3. ASSUME worker[v].at = "del"
              PROVE  sessionKey'[worker[v].session] = worker[v].user
          <6>1. worker[v].session # worker[w].session /\ worker[v].session \in Sessions
            BY <1>1, <2>1, <4>2, <5>3, Knows DEF NotAtWorkers
          <6> QED BY <1>2, <1>3, <2>1, <2>13, <5>3, <6>1 DEF StrictWork
        <5> QED BY <5>1, <5>2, <5>3
      <4> QED BY <4>1, <4>2
    <3>3. ASSUME NEW v \in Workers, NEW u \in Workers,
                worker'[v].at = "set user", worker'[u].at = "set user",
                worker'[v].user = worker'[u].user
         PROVE  v = u
      BY <1>1, <1>2, <1>3, <1>4, <1>5, <2>1, <2>2, <2>3, <2>13, <3>3 DEF OneSetter
    <3> QED BY <3>1, <3>2, <3>3 DEF Strict, StrictKeys, StrictWork, OneSetter
  <2> QED BY <2>4, <2>5, <2>6, <2>7, <2>8, <2>9, <2>10, <2>11, <2>12, <2>13
       DEF Waiting, Holding, Keys
<1> QED BY <1>6, <1>7, <1>8 DEF IInv

-----------------------------------------------------------------------------
(***************************************************************************)
(* A logout                                                                *)
(***************************************************************************)

\* A logout goes on, or its answer is that there is no such session.
LEMMA LogoutGoesOn ==
  ASSUME IInv, NEW w \in Workers, WorkerTypes',
         worker[w].at \in {"guard", "get"},
         \/ Moved(w, "get")
         \/ Moved(w, "del") /\ worker'[w].user = sessionKey[worker[w].session]
         \/ Done(w, NoSession) /\ sessionKey[worker[w].session] = NoUser,
         UNCHANGED <<userKey, sessionKey, screen, session, overlap, faults>>
  PROVE  IInv'
<1>1. SessionTypes'
  BY DEF IInv, SessionTypes
<1>2. worker[w].does = "logout" /\ worker[w].session \in Sessions
  BY DEF IInv, WorkerTypes
<1>3. ASSUME faults' = 0
      PROVE  Waiting' /\ Holding' /\ Keys' /\ (~overlap' => Strict')
  <2>1. /\ WaitsFor /\ OnePerClient /\ ClientsHold /\ NotAtClients /\ NotAtWorkers /\ LogoutsHold
        /\ UserKeys /\ SessionKeys /\ KeysToCome
        /\ ~overlap' => StrictKeys /\ StrictWork /\ OneSetter
    BY <1>3 DEF IInv, Waiting, Holding, Keys, Strict
  <2>2. /\ \A v \in Workers : v # w => worker'[v] = worker[v]
        /\ worker'[w].at \notin {"idle", "set user", "set session"}
        /\ worker'[w].from = worker[w].from /\ worker[w].from \in Clients
        /\ worker'[w].does = "logout"
        /\ worker'[w].session \in {worker[w].session, NoSession}
    BY <1>2, <2>1, AccountsAssumption DEF WaitsFor, Moved, Done, Others
  <2>3. /\ worker'[w].at # "done" => worker'[w].session = worker[w].session
        /\ worker'[w].at = "del" => worker'[w].user = sessionKey[worker[w].session]
        /\ worker'[w].at = "done" => sessionKey[worker[w].session] = NoUser
    BY <1>2, <2>2, AccountsAssumption DEF Moved, Done
  <2>31. worker[w].session = session[worker[w].from]
    BY <1>2, <2>1 DEF LogoutsHold
  <2>4. WaitsFor'
    <3>1. ASSUME NEW v \in Workers, worker'[v].at # "idle"
         PROVE  /\ worker'[v].from \in Clients
                /\ screen'[worker'[v].from] = WaitsAt(worker'[v].does)
      <4>1. CASE v = w
        BY <1>2, <2>1, <2>2, <3>1, <4>1 DEF WaitsFor
      <4>2. CASE v # w
        BY <1>2, <2>1, <2>2, <3>1, <4>2 DEF WaitsFor
      <4> QED BY <4>1, <4>2
    <3> QED BY <3>1 DEF WaitsFor
  <2>5. OnePerClient'
    <3>1. ASSUME NEW v \in Workers, NEW u \in Workers,
                worker'[v].at # "idle", worker'[v].from = worker'[u].from
         PROVE  v = u
      <4>1. CASE v = w
        BY <1>2, <2>1, <2>2, <3>1, <4>1 DEF OnePerClient
      <4>2. CASE u = w
        BY <1>2, <2>1, <2>2, <3>1, <4>2 DEF OnePerClient
      <4>3. CASE v # w /\ u # w
        BY <1>2, <2>1, <2>2, <3>1, <4>3 DEF OnePerClient
      <4> QED BY <4>1, <4>2, <4>3
    <3> QED BY <3>1 DEF OnePerClient
  <2>6. ClientsHold'
    <3>1. ASSUME NEW b \in Clients, NEW d \in Clients,
                session'[b] # NoSession, session'[b] = session'[d]
         PROVE  b = d
      BY <1>2, <2>1, <2>2, <3>1 DEF ClientsHold
    <3> QED BY <3>1 DEF ClientsHold
  <2>7. NotAtClients'
    <3>1. ASSUME NEW v \in Workers, NEW b \in Clients,
                worker'[v].does = "login", worker'[v].session # NoSession
         PROVE  session'[b] # worker'[v].session
      <4>1. CASE v = w
        BY <1>2, <2>1, <2>2, <3>1, <4>1 DEF NotAtClients
      <4>2. CASE v # w
        BY <1>2, <2>1, <2>2, <3>1, <4>2 DEF NotAtClients
      <4> QED BY <4>1, <4>2
    <3> QED BY <3>1 DEF NotAtClients
  <2>8. NotAtWorkers'
    <3>1. ASSUME NEW v \in Workers, NEW u \in Workers,
                worker'[v].does = "login", worker'[v].session # NoSession,
                worker'[u].session = worker'[v].session
         PROVE  u = v
      <4>1. CASE v = w
        BY <1>2, <2>1, <2>2, <3>1, <4>1 DEF NotAtWorkers
      <4>2. CASE u = w
        BY <1>2, <2>1, <2>2, <3>1, <4>2 DEF NotAtWorkers
      <4>3. CASE v # w /\ u # w
        BY <1>2, <2>1, <2>2, <3>1, <4>3 DEF NotAtWorkers
      <4> QED BY <4>1, <4>2, <4>3
    <3> QED BY <3>1 DEF NotAtWorkers
  <2>9. LogoutsHold'
    <3>1. ASSUME NEW v \in Workers, worker'[v].at # "idle", worker'[v].does = "logout"
         PROVE  /\ session'[worker'[v].from] # NoSession
                /\ worker'[v].at # "done" => worker'[v].session = session'[worker'[v].from]
      <4>1. CASE v = w
        BY <1>2, <2>1, <2>2, <2>3, <2>31, <3>1, <4>1 DEF LogoutsHold
      <4>2. CASE v # w
        BY <1>2, <2>1, <2>2, <2>3, <2>31, <3>1, <4>2 DEF LogoutsHold
      <4> QED BY <4>1, <4>2
    <3> QED BY <3>1 DEF LogoutsHold
  <2>10. UserKeys'
    <3>1. ASSUME NEW u \in Users, userKey'[u] # NoSession, sessionKey'[userKey'[u]] # u
         PROVE  \E v \in Workers : /\ worker'[v].at = "set session"
                                   /\ worker'[v].session = userKey'[u]
                                   /\ worker'[v].user = u
      <4>1. PICK v \in Workers :
              worker[v].at = "set session" /\ worker[v].session = userKey[u] /\ worker[v].user = u
        BY <1>2, <2>1, <2>2, <3>1 DEF UserKeys
      <4>2. worker'[v] = worker[v]
        BY <1>2, <2>1, <2>2, <4>1
      <4> QED BY <1>2, <2>1, <2>2, <3>1, <4>1, <4>2
    <3> QED BY <3>1 DEF UserKeys
  <2>11. SessionKeys'
    <3>1. ASSUME NEW t \in Sessions, sessionKey'[t] # NoUser,
                 \A b \in Clients :
                   ~(session'[b] = t /\ screen'[b] \in {"in", "logging out"})
         PROVE  \E v \in Workers : /\ worker'[v].does = "login" /\ worker'[v].at = "done"
                                   /\ worker'[v].session = t
      <4>1. PICK v \in Workers :
              worker[v].does = "login" /\ worker[v].at = "done" /\ worker[v].session = t
        BY <1>2, <2>1, <2>2, <3>1 DEF SessionKeys
      <4>2. worker'[v] = worker[v]
        BY <1>2, <2>1, <2>2, <4>1
      <4> QED BY <1>2, <2>1, <2>2, <4>1, <4>2
    <3> QED BY <3>1 DEF SessionKeys
  <2>12. KeysToCome'
    <3>1. ASSUME NEW v \in Workers
         PROVE  /\ worker'[v].at = "set session" => sessionKey'[worker'[v].session] = NoUser
                /\ worker'[v].at = "del" =>
                     sessionKey'[worker'[v].session] \in {worker'[v].user, NoUser}
                /\ worker'[v].at = "done" /\ worker'[v].does = "logout" =>
                     sessionKey'[session'[worker'[v].from]] = NoUser
      <4>1. CASE v = w
        BY <1>2, <2>1, <2>2, <2>3, <2>31, <3>1, <4>1 DEF KeysToCome
      <4>2. CASE v # w
        BY <1>2, <2>1, <2>2, <2>3, <2>31, <3>1, <4>2 DEF KeysToCome
      <4> QED BY <4>1, <4>2
    <3> QED BY <3>1 DEF KeysToCome
  <2>13. ASSUME ~overlap' PROVE Strict'
    <3>1. ASSUME NEW t \in Sessions, sessionKey'[t] # NoUser
         PROVE  userKey'[sessionKey'[t]] = t
      BY <1>2, <2>1, <2>2, <2>13, <3>1 DEF StrictKeys
    <3>2. ASSUME NEW v \in Workers
         PROVE  /\ worker'[v].at = "set user" => userKey'[worker'[v].user] = NoSession
                /\ worker'[v].at = "set session" =>
                     userKey'[worker'[v].user] = worker'[v].session
                /\ worker'[v].at = "del" => sessionKey'[worker'[v].session] = worker'[v].user
      <4>1. CASE v = w
        BY <1>2, <2>1, <2>2, <2>3, <2>13, <3>2, <4>1 DEF StrictWork
      <4>2. CASE v # w
        BY <1>2, <2>1, <2>2, <2>3, <2>13, <3>2, <4>2 DEF StrictWork
      <4> QED BY <4>1, <4>2
    <3>3. ASSUME NEW v \in Workers, NEW u \in Workers,
                worker'[v].at = "set user", worker'[u].at = "set user",
                worker'[v].user = worker'[u].user
         PROVE  v = u
      BY <2>1, <2>2, <2>13, <3>3 DEF OneSetter
    <3> QED BY <3>1, <3>2, <3>3 DEF Strict, StrictKeys, StrictWork, OneSetter
  <2> QED BY <2>4, <2>5, <2>6, <2>7, <2>8, <2>9, <2>10, <2>11, <2>12, <2>13
       DEF Waiting, Holding, Keys
<1> QED BY <1>1, <1>3 DEF IInv

LEMMA GuardStep ==
  ASSUME IInv, NEW w \in Workers, Guard(w)
  PROVE  IInv'
<1>1. worker[w].at = "guard" /\ worker[w].does = "logout"
  BY DEF IInv, WorkerTypes, Guard
<1>2. \/ Moved(w, "get")
      \/ Done(w, NoSession) /\ sessionKey[worker[w].session] = NoUser
  BY <1>1, GoesMoves, RepliesDone DEF IInv, Places, Guard
<1>3. WorkerTypes'
  BY <1>1, <1>2, MovedTypes, DoneTypes DEF IInv, Places, Registers
<1>4. UNCHANGED <<userKey, sessionKey, screen, session, overlap, faults>>
  BY DEF Guard, serviceVars, clientVars
<1> QED BY <1>1, <1>2, <1>3, <1>4, LogoutGoesOn

LEMMA GetSessionStep ==
  ASSUME IInv, NEW w \in Workers, GetSession(w)
  PROVE  IInv'
<1>1. /\ worker[w].at = "get" /\ worker[w].does = "logout" /\ worker[w].session \in Sessions
      /\ sessionKey[worker[w].session] \in Users \cup {NoUser}
  BY DEF IInv, WorkerTypes, SessionTypes, GetSession
<1>2. UNCHANGED <<userKey, sessionKey, screen, session, overlap, faults>>
  BY DEF GetSession, serviceVars, clientVars
<1>3. CASE sessionKey[worker[w].session] = NoUser
  <2>1. PICK answer \in {"no", "yes"} : Replies(w, answer)
    BY <1>3 DEF GetSession
  <2>2. Done(w, NoSession)
    BY <1>1, <2>1, RepliesDone DEF IInv
  <2>3. WorkerTypes'
    BY <2>2, DoneTypes DEF IInv
  <2> QED BY <1>1, <1>2, <1>3, <2>2, <2>3, LogoutGoesOn
<1>4. CASE sessionKey[worker[w].session] # NoUser
  <2>1. Moved(w, "del") /\ worker'[w].user = sessionKey[worker[w].session]
    BY <1>1, <1>4, MovesWithUser DEF IInv, Places, GetSession
  <2>2. worker'[w].user \in Users
    BY <1>1, <1>4, <2>1
  <2>3. WorkerTypes'
    BY <1>1, <2>1, <2>2 DEF IInv, WorkerTypes, Moved, Others, Registers
  <2> QED BY <1>1, <1>2, <2>1, <2>3, LogoutGoesOn
<1> QED BY <1>3, <1>4

LEMMA DeleteKeysStep ==
  ASSUME IInv, NEW w \in Workers, DeleteKeys(w)
  PROVE  IInv'
<1>1. /\ worker[w].at = "del" /\ worker[w].does = "logout"
      /\ worker[w].session \in Sessions /\ worker[w].user \in Users
  BY DEF IInv, WorkerTypes, DeleteKeys
<1>2. Done(w, NoSession) /\ UNCHANGED <<screen, session, overlap, faults>>
  BY <1>1, RepliesDone DEF IInv, DeleteKeys, serviceVars, clientVars
<1>3. /\ sessionKey' = [sessionKey EXCEPT ![worker[w].session] = NoUser]
      /\ sessionKey'[worker[w].session] = NoUser
      /\ \A t \in Sessions : t # worker[w].session => sessionKey'[t] = sessionKey[t]
  BY <1>1 DEF IInv, SessionTypes, DeleteKeys
<1>4. /\ userKey' = [userKey EXCEPT ![worker[w].user] = NoSession]
      /\ userKey'[worker[w].user] = NoSession
      /\ \A u \in Users : u # worker[w].user => userKey'[u] = userKey[u]
  BY <1>1 DEF IInv, SessionTypes, DeleteKeys
<1>5. /\ userKey \in [Users -> Sessions \cup {NoSession}]
      /\ session \in [Clients -> Sessions \cup {NoSession}]
      /\ sessionKey \in [Sessions -> Users \cup {NoUser}]
  BY DEF IInv, SessionTypes
<1>6. WorkerTypes'
  BY <1>2, DoneTypes DEF IInv
<1>7. SessionTypes'
  BY <1>2, <1>3, <1>4 DEF IInv, SessionTypes
<1>8. ASSUME faults' = 0
      PROVE  Waiting' /\ Holding' /\ Keys' /\ (~overlap' => Strict')
  <2>1. /\ WaitsFor /\ OnePerClient /\ ClientsHold /\ NotAtClients /\ NotAtWorkers /\ LogoutsHold
        /\ UserKeys /\ SessionKeys /\ KeysToCome
        /\ ~overlap' => StrictKeys /\ StrictWork /\ OneSetter
    BY <1>2, <1>8 DEF IInv, Waiting, Holding, Keys, Strict
  <2>2. /\ \A v \in Workers : v # w => worker'[v] = worker[v]
        /\ worker'[w].at = "done" /\ worker'[w].session = NoSession
        /\ worker'[w].from = worker[w].from /\ worker[w].from \in Clients
        /\ worker'[w].does = "logout"
    BY <1>1, <1>2, <2>1, AccountsAssumption DEF WaitsFor, Done, Others
  <2>3. worker[w].session = session[worker[w].from]
    BY <1>1, <2>1 DEF LogoutsHold
  <2>4. WaitsFor'
    <3>1. ASSUME NEW v \in Workers, worker'[v].at # "idle"
         PROVE  /\ worker'[v].from \in Clients
                /\ screen'[worker'[v].from] = WaitsAt(worker'[v].does)
      <4>1. CASE v = w
        BY <1>1, <1>2, <2>1, <2>2, <3>1, <4>1 DEF WaitsFor
      <4>2. CASE v # w
        BY <1>1, <1>2, <2>1, <2>2, <3>1, <4>2 DEF WaitsFor
      <4> QED BY <4>1, <4>2
    <3> QED BY <3>1 DEF WaitsFor
  <2>5. OnePerClient'
    <3>1. ASSUME NEW v \in Workers, NEW u \in Workers,
                worker'[v].at # "idle", worker'[v].from = worker'[u].from
         PROVE  v = u
      <4>1. CASE v = w
        BY <1>1, <1>2, <2>1, <2>2, <3>1, <4>1 DEF OnePerClient
      <4>2. CASE u = w
        BY <1>1, <1>2, <2>1, <2>2, <3>1, <4>2 DEF OnePerClient
      <4>3. CASE v # w /\ u # w
        BY <1>1, <1>2, <2>1, <2>2, <3>1, <4>3 DEF OnePerClient
      <4> QED BY <4>1, <4>2, <4>3
    <3> QED BY <3>1 DEF OnePerClient
  <2>6. ClientsHold'
    <3>1. ASSUME NEW b \in Clients, NEW d \in Clients,
                session'[b] # NoSession, session'[b] = session'[d]
         PROVE  b = d
      BY <1>1, <1>2, <2>1, <2>2, <3>1 DEF ClientsHold
    <3> QED BY <3>1 DEF ClientsHold
  <2>7. NotAtClients'
    <3>1. ASSUME NEW v \in Workers, NEW b \in Clients,
                worker'[v].does = "login", worker'[v].session # NoSession
         PROVE  session'[b] # worker'[v].session
      <4>1. CASE v = w
        BY <1>1, <1>2, <2>1, <2>2, <3>1, <4>1 DEF NotAtClients
      <4>2. CASE v # w
        BY <1>1, <1>2, <2>1, <2>2, <3>1, <4>2 DEF NotAtClients
      <4> QED BY <4>1, <4>2
    <3> QED BY <3>1 DEF NotAtClients
  <2>8. NotAtWorkers'
    <3>1. ASSUME NEW v \in Workers, NEW u \in Workers,
                worker'[v].does = "login", worker'[v].session # NoSession,
                worker'[u].session = worker'[v].session
         PROVE  u = v
      <4>1. CASE v = w
        BY <1>1, <1>2, <2>1, <2>2, <3>1, <4>1 DEF NotAtWorkers
      <4>2. CASE u = w
        BY <1>1, <1>2, <2>1, <2>2, <3>1, <4>2 DEF NotAtWorkers
      <4>3. CASE v # w /\ u # w
        BY <1>1, <1>2, <2>1, <2>2, <3>1, <4>3 DEF NotAtWorkers
      <4> QED BY <4>1, <4>2, <4>3
    <3> QED BY <3>1 DEF NotAtWorkers
  <2>9. LogoutsHold'
    <3>1. ASSUME NEW v \in Workers, worker'[v].at # "idle", worker'[v].does = "logout"
         PROVE  /\ session'[worker'[v].from] # NoSession
                /\ worker'[v].at # "done" => worker'[v].session = session'[worker'[v].from]
      <4>1. CASE v = w
        BY <1>1, <1>2, <2>1, <2>2, <3>1, <4>1 DEF LogoutsHold
      <4>2. CASE v # w
        BY <1>1, <1>2, <2>1, <2>2, <3>1, <4>2 DEF LogoutsHold
      <4> QED BY <4>1, <4>2
    <3> QED BY <3>1 DEF LogoutsHold
  <2>10. UserKeys'
    <3>1. ASSUME NEW u \in Users, userKey'[u] # NoSession, sessionKey'[userKey'[u]] # u
         PROVE  \E v \in Workers : /\ worker'[v].at = "set session"
                                   /\ worker'[v].session = userKey'[u]
                                   /\ worker'[v].user = u
      <4>1. u # worker[w].user /\ userKey'[u] = userKey[u] /\ userKey[u] \in Sessions
        BY <1>4, <1>5, <3>1
      <4>2. sessionKey[worker[w].session] # u
        BY <1>1, <2>1, <4>1, Knows DEF KeysToCome
      <4>3. sessionKey[userKey[u]] # u
        BY <1>3, <3>1, <4>1, <4>2
      <4>4. PICK v \in Workers :
              worker[v].at = "set session" /\ worker[v].session = userKey[u] /\ worker[v].user = u
        BY <2>1, <3>1, <4>1, <4>3 DEF UserKeys
      <4> QED BY <1>1, <2>2, <4>1, <4>4
    <3> QED BY <3>1 DEF UserKeys
  <2>11. SessionKeys'
    <3>1. ASSUME NEW t \in Sessions, sessionKey'[t] # NoUser,
                 \A b \in Clients :
                   ~(session'[b] = t /\ screen'[b] \in {"in", "logging out"})
         PROVE  \E v \in Workers : /\ worker'[v].does = "login" /\ worker'[v].at = "done"
                                   /\ worker'[v].session = t
      <4>1. sessionKey[t] # NoUser
        BY <1>3, <3>1
      <4>2. PICK v \in Workers :
              worker[v].does = "login" /\ worker[v].at = "done" /\ worker[v].session = t
        BY <1>2, <2>1, <3>1, <4>1 DEF SessionKeys
      <4> QED BY <1>1, <2>2, <4>2
    <3> QED BY <3>1 DEF SessionKeys
  <2>12. KeysToCome'
    <3>1. \A t \in Sessions : sessionKey'[t] \in {sessionKey[t], NoUser}
      BY <1>3
    <3>2. ASSUME NEW v \in Workers, worker'[v].at = "set session"
         PROVE  sessionKey'[worker'[v].session] = NoUser
      BY <2>1, <2>2, <3>1, <3>2, Knows DEF KeysToCome
    <3>3. ASSUME NEW v \in Workers, worker'[v].at = "del"
         PROVE  sessionKey'[worker'[v].session] \in {worker'[v].user, NoUser}
      BY <2>1, <2>2, <3>1, <3>3, Knows DEF KeysToCome
    <3>4. ASSUME NEW v \in Workers, worker'[v].at = "done", worker'[v].does = "logout"
         PROVE  sessionKey'[session'[worker'[v].from]] = NoUser
      <4>1. CASE v = w
        BY <1>2, <1>3, <2>2, <2>3, <4>1
      <4>2. CASE v # w
        <5>1. worker'[v] = worker[v]
          BY <2>2, <4>2
        <5>2. worker[v].from \in Clients
          BY <2>1, <3>4, <5>1 DEF WaitsFor
        <5>3. session[worker[v].from] \in Sessions
          BY <1>5, <2>1, <3>4, <5>1, <5>2 DEF LogoutsHold
        <5> QED BY <1>2, <2>1, <3>1, <3>4, <5>1, <5>3 DEF KeysToCome
      <4> QED BY <4>1, <4>2
    <3> QED BY <3>2, <3>3, <3>4 DEF KeysToCome
  <2>13. ASSUME ~overlap' PROVE Strict'
    <3>1. ASSUME NEW t \in Sessions, sessionKey'[t] # NoUser
         PROVE  userKey'[sessionKey'[t]] = t
      <4>1. /\ sessionKey[t] # NoUser /\ sessionKey[t] \in Users
            /\ t # worker[w].session /\ userKey[sessionKey[t]] = t
        BY <1>2, <1>3, <1>5, <2>1, <2>13, <3>1 DEF StrictKeys
      <4>2. userKey[worker[w].user] = worker[w].session
        BY <1>1, <1>2, <2>1, <2>13, Knows DEF StrictKeys, StrictWork
      <4> QED BY <1>3, <1>4, <4>1, <4>2
    <3>2. ASSUME NEW v \in Workers
         PROVE  /\ worker'[v].at = "set user" => userKey'[worker'[v].user] = NoSession
                /\ worker'[v].at = "set session" =>
                     userKey'[worker'[v].user] = worker'[v].session
                /\ worker'[v].at = "del" => sessionKey'[worker'[v].session] = worker'[v].user
      <4>1. CASE v = w
        BY <2>2, <4>1
      <4>2. CASE v # w
        <5>1. worker'[v] = worker[v] /\ userKey[worker[w].user] = worker[w].session
          BY <1>1, <1>2, <2>1, <2>2, <2>13, <4>2, Knows DEF StrictKeys, StrictWork
        <5>2. ASSUME worker[v].at = "set user" PROVE userKey'[worker[v].user] = NoSession
          BY <1>2, <1>4, <2>1, <2>13, <5>2, Knows DEF StrictWork
        <5>3. ASSUME worker[v].at = "set session"
              PROVE  userKey'[worker[v].user] = worker[v].session
          <6>1. worker[v].session \in Sessions /\ worker[v].does = "login"
            BY <5>3 DEF IInv, WorkerTypes
          <6>2. worker[v].session # worker[w].session
            BY <1>1, <2>1, <4>2, <6>1, Knows DEF NotAtWorkers
          <6>3. worker[v].user \in Users /\ userKey[worker[v].user] = worker[v].session
            BY <1>2, <2>1, <2>13, <5>3, Knows DEF StrictWork
          <6> QED BY <1>4, <5>1, <6>2, <6>3
        <5>4. ASSUME worker[v].at = "del"
              PROVE  sessionKey'[worker[v].session] = worker[v].user
          <6>1. worker[v].does = "logout" /\ worker[v].session \in Sessions
            BY <5>4 DEF IInv, WorkerTypes
          <6>2. /\ worker[v].session = session[worker[v].from] /\ worker[v].from \in Clients
                /\ worker[v].from # worker[w].from
            BY <2>1, <4>2, <5>4, <6>1 DEF LogoutsHold, WaitsFor, OnePerClient
          <6>3. worker[v].session # worker[w].session
            BY <2>1, <2>2, <2>3, <6>1, <6>2, Knows DEF ClientsHold
          <6> QED BY <1>2, <1>3, <2>1, <2>13, <5>4, <6>1, <6>3 DEF StrictWork
        <5> QED BY <5>1, <5>2, <5>3, <5>4
      <4> QED BY <4>1, <4>2
    <3>3. ASSUME NEW v \in Workers, NEW u \in Workers,
                worker'[v].at = "set user", worker'[u].at = "set user",
                worker'[v].user = worker'[u].user
         PROVE  v = u
      BY <1>2, <2>1, <2>2, <2>13, <3>3 DEF OneSetter
    <3> QED BY <3>1, <3>2, <3>3 DEF Strict, StrictKeys, StrictWork, OneSetter
  <2> QED BY <2>4, <2>5, <2>6, <2>7, <2>8, <2>9, <2>10, <2>11, <2>12, <2>13
       DEF Waiting, Holding, Keys
<1> QED BY <1>6, <1>7, <1>8 DEF IInv

-----------------------------------------------------------------------------
(***************************************************************************)
(* The clients                                                             *)
(***************************************************************************)

\* A client that is in no call starts one, on a request that was free.
LEMMA Asks ==
  ASSUME IInv, NEW c \in Clients, NEW w \in Workers, NEW request \in Worker,
         NEW place \in {"register", "logging in", "logging out"},
         worker[w] = Free, worker' = [worker EXCEPT ![w] = request],
         screen[c] \in {"in", "login"}, screen' = [screen EXCEPT ![c] = place],
         request.from = c, place = WaitsAt(request.does),
         \/ /\ request.at = "find" /\ request.does # "logout"
            /\ request.session = NoSession /\ screen[c] = "login"
         \/ /\ request.at = "guard" /\ request.does = "logout"
            /\ request.session = session[c] /\ session[c] # NoSession,
         UNCHANGED <<userKey, sessionKey, session, overlap, faults>>
  PROVE  IInv'
<1>1. /\ \A v \in Workers : v # w => worker'[v] = worker[v]
      /\ worker'[w] = request /\ worker' \in [Workers -> Worker]
      /\ session[c] \in Sessions \cup {NoSession}
  BY DEF IInv, WorkerTypes, SessionTypes
<1>2. /\ \A b \in Clients : b # c => screen'[b] = screen[b]
      /\ screen'[c] = place
      /\ screen' \in [Clients -> {"login", "register", "logging in", "in", "logging out"}]
  BY DEF IInv, SessionTypes
<1>3. WorkerTypes'
  BY <1>1 DEF IInv, WorkerTypes, Registers
<1>4. SessionTypes'
  BY <1>2 DEF IInv, SessionTypes
<1>5. /\ worker[w].at = "idle" /\ worker[w].from = Nobody /\ worker[w].session = NoSession
      /\ Nobody \notin Clients
  BY FreeFields, AccountsAssumption
<1>6. ASSUME faults' = 0
      PROVE  Waiting' /\ Holding' /\ Keys' /\ (~overlap' => Strict')
  <2>1. /\ WaitsFor /\ OnePerClient /\ ClientsHold /\ NotAtClients /\ NotAtWorkers /\ LogoutsHold
        /\ UserKeys /\ SessionKeys /\ KeysToCome
        /\ ~overlap' => StrictKeys /\ StrictWork /\ OneSetter
    BY <1>5, <1>6 DEF IInv, Waiting, Holding, Keys, Strict
  <2>2. \A v \in Workers : worker[v].at # "idle" => worker[v].from # c /\ v # w
    BY <1>5, <2>1 DEF WaitsFor, WaitsAt
  <2>3. \A v \in Workers : worker[v].from # c
    BY <1>5, <2>2, FreeFields DEF IInv, WorkerTypes
  <2>4. WaitsFor'
    <3>1. ASSUME NEW v \in Workers, worker'[v].at # "idle"
         PROVE  /\ worker'[v].from \in Clients
                /\ screen'[worker'[v].from] = WaitsAt(worker'[v].does)
      <4>1. CASE v = w
        BY <1>1, <1>2, <4>1
      <4>2. CASE v # w
        <5>1. worker'[v] = worker[v] /\ worker[v].from \in Clients /\ worker[v].from # c
          BY <1>1, <2>1, <2>3, <3>1, <4>2 DEF WaitsFor
        <5> QED BY <1>2, <2>1, <3>1, <5>1 DEF WaitsFor
      <4> QED BY <4>1, <4>2
    <3> QED BY <3>1 DEF WaitsFor
  <2>5. OnePerClient'
    <3>1. ASSUME NEW v \in Workers, NEW u \in Workers,
                worker'[v].at # "idle", worker'[v].from = worker'[u].from
         PROVE  v = u
      <4>1. CASE v = w
        BY <1>1, <1>5, <2>1, <2>3, <3>1, <4>1 DEF OnePerClient
      <4>2. CASE u = w
        BY <1>1, <1>5, <2>1, <2>3, <3>1, <4>2 DEF OnePerClient
      <4>3. CASE v # w /\ u # w
        BY <1>1, <1>5, <2>1, <2>3, <3>1, <4>3 DEF OnePerClient
      <4> QED BY <4>1, <4>2, <4>3
    <3> QED BY <3>1 DEF OnePerClient
  <2>6. ClientsHold'
    <3>1. ASSUME NEW b \in Clients, NEW d \in Clients,
                session'[b] # NoSession, session'[b] = session'[d]
         PROVE  b = d
      BY <1>1, <1>5, <2>1, <3>1 DEF ClientsHold
    <3> QED BY <3>1 DEF ClientsHold
  <2>7. NotAtClients'
    <3>1. ASSUME NEW v \in Workers, NEW b \in Clients,
                worker'[v].does = "login", worker'[v].session # NoSession
         PROVE  session'[b] # worker'[v].session
      <4>1. CASE v = w
        BY <1>1, <1>5, <2>1, <3>1, <4>1 DEF NotAtClients
      <4>2. CASE v # w
        BY <1>1, <1>5, <2>1, <3>1, <4>2 DEF NotAtClients
      <4> QED BY <4>1, <4>2
    <3> QED BY <3>1 DEF NotAtClients
  <2>8. NotAtWorkers'
    <3>1. ASSUME NEW v \in Workers, NEW u \in Workers,
                worker'[v].does = "login", worker'[v].session # NoSession,
                worker'[u].session = worker'[v].session
         PROVE  u = v
      <4>1. CASE v = w
        BY <1>1, <1>5, <2>1, <3>1, <4>1 DEF NotAtWorkers
      <4>2. CASE u = w
        <5>1. ASSUME v # w PROVE FALSE
          <6>1. worker'[v] = worker[v]
            BY <1>1, <5>1
          <6>2. session[c] # worker[v].session
            BY <2>1, <3>1, <6>1 DEF NotAtClients
          <6>3. request.session = worker[v].session
            BY <1>1, <3>1, <4>2, <6>1
          <6> QED BY <3>1, <6>1, <6>2, <6>3
        <5> QED BY <4>2, <5>1
      <4>3. CASE v # w /\ u # w
        BY <1>1, <1>5, <2>1, <3>1, <4>3 DEF NotAtWorkers
      <4> QED BY <4>1, <4>2, <4>3
    <3> QED BY <3>1 DEF NotAtWorkers
  <2>9. LogoutsHold'
    <3>1. ASSUME NEW v \in Workers, worker'[v].at # "idle", worker'[v].does = "logout"
         PROVE  /\ session'[worker'[v].from] # NoSession
                /\ worker'[v].at # "done" => worker'[v].session = session'[worker'[v].from]
      <4>1. CASE v = w
        BY <1>1, <1>5, <2>1, <3>1, <4>1 DEF LogoutsHold
      <4>2. CASE v # w
        BY <1>1, <1>5, <2>1, <3>1, <4>2 DEF LogoutsHold
      <4> QED BY <4>1, <4>2
    <3> QED BY <3>1 DEF LogoutsHold
  <2>10. UserKeys'
    <3>1. ASSUME NEW u \in Users, userKey'[u] # NoSession, sessionKey'[userKey'[u]] # u
         PROVE  \E v \in Workers : /\ worker'[v].at = "set session"
                                   /\ worker'[v].session = userKey'[u]
                                   /\ worker'[v].user = u
      <4>1. PICK v \in Workers :
              worker[v].at = "set session" /\ worker[v].session = userKey[u] /\ worker[v].user = u
        BY <1>1, <1>5, <2>1, <3>1 DEF UserKeys
      <4>2. worker'[v] = worker[v]
        BY <1>1, <1>5, <2>1, <4>1
      <4> QED BY <1>1, <1>5, <2>1, <3>1, <4>1, <4>2
    <3> QED BY <3>1 DEF UserKeys
  <2>11. SessionKeys'
    <3>1. ASSUME NEW t \in Sessions, sessionKey'[t] # NoUser,
                 \A b \in Clients :
                   ~(session'[b] = t /\ screen'[b] \in {"in", "logging out"})
         PROVE  \E v \in Workers : /\ worker'[v].does = "login" /\ worker'[v].at = "done"
                                   /\ worker'[v].session = t
      <4>1. session[c] = t => screen[c] = "login"
        <5>1. CASE request.does = "logout"
          BY <1>2, <3>1, <5>1 DEF WaitsAt
        <5>2. CASE request.does # "logout"
          BY <5>2
        <5> QED BY <5>1, <5>2
      <4>2. ~ \E b \in Clients : session[b] = t /\ screen[b] \in {"in", "logging out"}
        BY <1>2, <3>1, <4>1
      <4>3. PICK v \in Workers :
              worker[v].does = "login" /\ worker[v].at = "done" /\ worker[v].session = t
        BY <2>1, <3>1, <4>2 DEF SessionKeys
      <4> QED BY <1>1, <1>5, <4>3
    <3> QED BY <3>1 DEF SessionKeys
  <2>12. KeysToCome'
    <3>1. ASSUME NEW v \in Workers
         PROVE  /\ worker'[v].at = "set session" => sessionKey'[worker'[v].session] = NoUser
                /\ worker'[v].at = "del" =>
                     sessionKey'[worker'[v].session] \in {worker'[v].user, NoUser}
                /\ worker'[v].at = "done" /\ worker'[v].does = "logout" =>
                     sessionKey'[session'[worker'[v].from]] = NoUser
      <4>1. CASE v = w
        BY <1>1, <1>5, <2>1, <3>1, <4>1 DEF KeysToCome
      <4>2. CASE v # w
        BY <1>1, <1>5, <2>1, <3>1, <4>2 DEF KeysToCome
      <4> QED BY <4>1, <4>2
    <3> QED BY <3>1 DEF KeysToCome
  <2>13. ASSUME ~overlap' PROVE Strict'
    <3>1. ASSUME NEW t \in Sessions, sessionKey'[t] # NoUser
         PROVE  userKey'[sessionKey'[t]] = t
      BY <2>1, <2>13, <3>1 DEF StrictKeys
    <3>2. ASSUME NEW v \in Workers
         PROVE  /\ worker'[v].at = "set user" => userKey'[worker'[v].user] = NoSession
                /\ worker'[v].at = "set session" =>
                     userKey'[worker'[v].user] = worker'[v].session
                /\ worker'[v].at = "del" => sessionKey'[worker'[v].session] = worker'[v].user
      <4>1. CASE v = w
        BY <1>1, <1>5, <2>1, <2>13, <3>2, <4>1 DEF StrictWork
      <4>2. CASE v # w
        BY <1>1, <1>5, <2>1, <2>13, <3>2, <4>2 DEF StrictWork
      <4> QED BY <4>1, <4>2
    <3>3. ASSUME NEW v \in Workers, NEW u \in Workers,
                worker'[v].at = "set user", worker'[u].at = "set user",
                worker'[v].user = worker'[u].user
         PROVE  v = u
      BY <1>1, <1>5, <2>1, <2>13, <3>3 DEF OneSetter
    <3> QED BY <3>1, <3>2, <3>3 DEF Strict, StrictKeys, StrictWork, OneSetter
  <2> QED BY <2>4, <2>5, <2>6, <2>7, <2>8, <2>9, <2>10, <2>11, <2>12, <2>13
       DEF Waiting, Holding, Keys
<1> QED BY <1>3, <1>4, <1>6 DEF IInv

LEMMA EntersStep ==
  ASSUME IInv, NEW c \in Clients, NEW does \in {"register", "login"}, NEW email \in Emails,
         Enters(c, does, email)
  PROVE  IInv'
<1> DEFINE request == [Free EXCEPT !.at = "find", !.from = c, !.does = does, !.email = email]
<1>1. PICK w \in Workers : worker[w] = Free /\ worker' = [worker EXCEPT ![w] = request]
  BY DEF Enters, Accepts
<1>2. /\ request \in Worker /\ request.at = "find" /\ request.from = c
      /\ request.does = does /\ request.session = NoSession
  BY DEF Free, Worker
<1>3. /\ screen[c] = "login" /\ screen' = [screen EXCEPT ![c] = WaitsAt(does)]
      /\ WaitsAt(does) \in {"register", "logging in", "logging out"}
      /\ UNCHANGED <<userKey, sessionKey, session, overlap, faults>>
  BY DEF Enters, WaitsAt, serviceVars
<1> HIDE DEF request
<1> QED BY <1>1, <1>2, <1>3, Asks

LEMMA LogOutStep ==
  ASSUME IInv, NEW c \in Clients, LogOut(c)
  PROVE  IInv'
<1> DEFINE request == [Free EXCEPT !.at = "guard", !.from = c, !.does = "logout",
                                   !.session = session[c]]
<1>1. PICK w \in Workers : worker[w] = Free /\ worker' = [worker EXCEPT ![w] = request]
  BY DEF LogOut, Accepts
<1>2. session[c] \in Sessions \cup {NoSession}
  BY DEF IInv, SessionTypes
<1>3. /\ request \in Worker /\ request.at = "guard" /\ request.from = c
      /\ request.does = "logout" /\ request.session = session[c]
  BY <1>2 DEF Free, Worker
<1>4. /\ screen[c] \in {"in", "login"} /\ session[c] # NoSession
      /\ screen' = [screen EXCEPT ![c] = "logging out"] /\ WaitsAt("logout") = "logging out"
      /\ UNCHANGED <<userKey, sessionKey, session, overlap, faults>>
  BY DEF LogOut, WaitsAt, serviceVars
<1> HIDE DEF request
<1> QED BY <1>1, <1>3, <1>4, Asks

\* A client has its answer: a new session goes from the answer to the client.
LEMMA Heard ==
  ASSUME IInv, NEW c \in Clients, NEW w \in Workers,
         worker[w].at = "done", worker[w].from = c,
         worker' = [worker EXCEPT ![w] = Free],
         NEW place \in {"login", "in"}, screen' = [screen EXCEPT ![c] = place],
         NEW s \in Sessions \cup {NoSession}, session' = [session EXCEPT ![c] = s],
         \/ /\ worker[w].does = "login" => worker[w].session = NoSession
            /\ s \in {session[c], NoSession}
         \/ worker[w].does = "login" /\ s = worker[w].session /\ place = "in",
         UNCHANGED <<userKey, sessionKey, overlap, faults>>
  PROVE  IInv'
<1>1. /\ \A v \in Workers : v # w => worker'[v] = worker[v]
      /\ worker'[w] = Free /\ worker' \in [Workers -> Worker]
      /\ Free.at = "idle" /\ Free.from = Nobody /\ Free.session = NoSession
      /\ Nobody \notin Clients
  <2>1. Free \in Worker
    BY DEF Free, Worker
  <2> QED BY <2>1, FreeFields, AccountsAssumption DEF IInv, WorkerTypes
<1>2. /\ \A b \in Clients : b # c => screen'[b] = screen[b] /\ session'[b] = session[b]
      /\ screen'[c] = place /\ session'[c] = s
      /\ screen' \in [Clients -> {"login", "register", "logging in", "in", "logging out"}]
      /\ session' \in [Clients -> Sessions \cup {NoSession}]
  BY DEF IInv, SessionTypes
<1>3. WorkerTypes'
  BY <1>1 DEF IInv, WorkerTypes, Registers
<1>4. SessionTypes'
  BY <1>2 DEF IInv, SessionTypes
<1>5. NoSession \notin Sessions /\ worker[w].does \in {"register", "login", "logout"}
  BY AccountsAssumption DEF IInv, WorkerTypes, Worker
<1>6. ASSUME faults' = 0
      PROVE  Waiting' /\ Holding' /\ Keys' /\ (~overlap' => Strict')
  <2>1. /\ WaitsFor /\ OnePerClient /\ ClientsHold /\ NotAtClients /\ NotAtWorkers /\ LogoutsHold
        /\ UserKeys /\ SessionKeys /\ KeysToCome
        /\ ~overlap' => StrictKeys /\ StrictWork /\ OneSetter
    BY <1>5, <1>6 DEF IInv, Waiting, Holding, Keys, Strict
  <2>2. \A v \in Workers : worker[v].at # "idle" /\ v # w => worker[v].from # c
    BY <2>1 DEF OnePerClient
  <2>3. /\ screen[c] = WaitsAt(worker[w].does)
        /\ worker[w].does = "logout" => sessionKey[session[c]] = NoUser
    BY <2>1 DEF WaitsFor, KeysToCome
  <2>31. \A b \in Clients : b # c /\ s # NoSession => session[b] # s
    BY <2>1 DEF NotAtClients, ClientsHold
  <2>4. WaitsFor'
    <3>1. ASSUME NEW v \in Workers, worker'[v].at # "idle"
         PROVE  /\ worker'[v].from \in Clients
                /\ screen'[worker'[v].from] = WaitsAt(worker'[v].does)
      <4>1. worker'[v] = worker[v] /\ worker[v].from \in Clients /\ worker[v].from # c
        BY <1>1, <2>1, <2>2, <3>1 DEF WaitsFor
      <4>2. screen'[worker[v].from] = screen[worker[v].from]
        BY <1>2, <4>1
      <4> QED BY <2>1, <3>1, <4>1, <4>2 DEF WaitsFor
    <3> QED BY <3>1 DEF WaitsFor
  <2>5. OnePerClient'
    <3>1. ASSUME NEW v \in Workers, NEW u \in Workers,
                worker'[v].at # "idle", worker'[v].from = worker'[u].from
         PROVE  v = u
      <4>1. CASE v = w
        BY <1>1, <2>1, <3>1, <4>1 DEF OnePerClient, WaitsFor
      <4>2. CASE u = w
        BY <1>1, <2>1, <3>1, <4>2 DEF OnePerClient, WaitsFor
      <4>3. CASE v # w /\ u # w
        BY <1>1, <2>1, <3>1, <4>3 DEF OnePerClient, WaitsFor
      <4> QED BY <4>1, <4>2, <4>3
    <3> QED BY <3>1 DEF OnePerClient
  <2>6. ClientsHold'
    <3>1. ASSUME NEW b \in Clients, NEW d \in Clients,
                 session'[b] # NoSession, session'[b] = session'[d]
         PROVE  b = d
      <4>1. CASE b = c
        BY <1>2, <2>31, <3>1, <4>1
      <4>2. CASE d = c
        BY <1>2, <2>31, <3>1, <4>2
      <4>3. CASE b # c /\ d # c
        BY <1>2, <2>1, <3>1, <4>3 DEF ClientsHold
      <4> QED BY <4>1, <4>2, <4>3
    <3> QED BY <3>1 DEF ClientsHold
  <2>7. NotAtClients'
    <3>1. ASSUME NEW v \in Workers, NEW b \in Clients,
                 worker'[v].does = "login", worker'[v].session # NoSession
         PROVE  session'[b] # worker'[v].session
      <4>1. v # w /\ worker'[v] = worker[v]
        BY <1>1, <3>1
      <4>2. session[b] # worker[v].session /\ session[c] # worker[v].session
        BY <2>1, <3>1, <4>1 DEF NotAtClients
      <4>3. worker[w].session # worker[v].session
        BY <2>1, <3>1, <4>1 DEF NotAtWorkers
      <4> QED BY <1>2, <3>1, <4>1, <4>2, <4>3
    <3> QED BY <3>1 DEF NotAtClients
  <2>8. NotAtWorkers'
    <3>1. ASSUME NEW v \in Workers, NEW u \in Workers,
                worker'[v].does = "login", worker'[v].session # NoSession,
                worker'[u].session = worker'[v].session
         PROVE  u = v
      <4>1. CASE v = w
        BY <1>1, <2>1, <3>1, <4>1 DEF NotAtWorkers
      <4>2. CASE u = w
        BY <1>1, <2>1, <3>1, <4>2 DEF NotAtWorkers
      <4>3. CASE v # w /\ u # w
        BY <1>1, <2>1, <3>1, <4>3 DEF NotAtWorkers
      <4> QED BY <4>1, <4>2, <4>3
    <3> QED BY <3>1 DEF NotAtWorkers
  <2>9. LogoutsHold'
    <3>1. ASSUME NEW v \in Workers, worker'[v].at # "idle", worker'[v].does = "logout"
         PROVE  /\ session'[worker'[v].from] # NoSession
                /\ worker'[v].at # "done" => worker'[v].session = session'[worker'[v].from]
      <4>1. worker'[v] = worker[v] /\ worker[v].from \in Clients /\ worker[v].from # c
        BY <1>1, <2>1, <2>2, <3>1 DEF WaitsFor
      <4>2. session'[worker[v].from] = session[worker[v].from]
        BY <1>2, <4>1
      <4> QED BY <2>1, <3>1, <4>1, <4>2 DEF LogoutsHold
    <3> QED BY <3>1 DEF LogoutsHold
  <2>10. UserKeys'
    <3>1. ASSUME NEW u \in Users, userKey'[u] # NoSession, sessionKey'[userKey'[u]] # u
         PROVE  \E v \in Workers : /\ worker'[v].at = "set session"
                                   /\ worker'[v].session = userKey'[u]
                                   /\ worker'[v].user = u
      <4>1. PICK v \in Workers :
              worker[v].at = "set session" /\ worker[v].session = userKey[u] /\ worker[v].user = u
        BY <1>1, <2>1, <3>1 DEF UserKeys
      <4>2. worker'[v] = worker[v]
        BY <1>1, <2>1, <4>1
      <4> QED BY <1>1, <2>1, <3>1, <4>1, <4>2
    <3> QED BY <3>1 DEF UserKeys
  <2>11. SessionKeys'
    <3>1. ASSUME NEW t \in Sessions, sessionKey'[t] # NoUser,
                 \A b \in Clients :
                   ~(session'[b] = t /\ screen'[b] \in {"in", "logging out"})
         PROVE  \E v \in Workers : /\ worker'[v].does = "login" /\ worker'[v].at = "done"
                                   /\ worker'[v].session = t
      <4>1. ~(session[c] = t /\ screen[c] \in {"in", "logging out"})
        BY <1>5, <2>3, <3>1 DEF WaitsAt
      <4>2. ~ \E b \in Clients : session[b] = t /\ screen[b] \in {"in", "logging out"}
        BY <1>2, <3>1, <4>1
      <4>3. PICK v \in Workers :
              worker[v].does = "login" /\ worker[v].at = "done" /\ worker[v].session = t
        BY <2>1, <3>1, <4>2 DEF SessionKeys
      <4>4. v # w
        BY <1>2, <1>5, <3>1, <4>3
      <4> QED BY <1>1, <4>3, <4>4
    <3> QED BY <3>1 DEF SessionKeys
  <2>12. KeysToCome'
    <3>1. ASSUME NEW v \in Workers
         PROVE  /\ worker'[v].at = "set session" => sessionKey'[worker'[v].session] = NoUser
                /\ worker'[v].at = "del" =>
                     sessionKey'[worker'[v].session] \in {worker'[v].user, NoUser}
                /\ worker'[v].at = "done" /\ worker'[v].does = "logout" =>
                     sessionKey'[session'[worker'[v].from]] = NoUser
      <4>1. CASE v = w
        BY <1>1, <4>1
      <4>2. CASE v # w
        <5>1. worker'[v] = worker[v]
          BY <1>1, <4>2
        <5>2. worker[v].at = "done" => worker[v].from \in Clients /\ worker[v].from # c
          BY <2>1, <2>2, <4>2 DEF WaitsFor
        <5>3. worker[v].at = "done" => session'[worker[v].from] = session[worker[v].from]
          BY <1>2, <5>2
        <5> QED BY <2>1, <5>1, <5>3 DEF KeysToCome
      <4> QED BY <4>1, <4>2
    <3> QED BY <3>1 DEF KeysToCome
  <2>13. ASSUME ~overlap' PROVE Strict'
    <3>1. ASSUME NEW t \in Sessions, sessionKey'[t] # NoUser
         PROVE  userKey'[sessionKey'[t]] = t
      BY <2>1, <2>13, <3>1 DEF StrictKeys
    <3>2. ASSUME NEW v \in Workers
         PROVE  /\ worker'[v].at = "set user" => userKey'[worker'[v].user] = NoSession
                /\ worker'[v].at = "set session" =>
                     userKey'[worker'[v].user] = worker'[v].session
                /\ worker'[v].at = "del" => sessionKey'[worker'[v].session] = worker'[v].user
      <4>1. CASE v = w
        BY <1>1, <2>1, <2>13, <3>2, <4>1 DEF StrictWork
      <4>2. CASE v # w
        BY <1>1, <2>1, <2>13, <3>2, <4>2 DEF StrictWork
      <4> QED BY <4>1, <4>2
    <3>3. ASSUME NEW v \in Workers, NEW u \in Workers,
                worker'[v].at = "set user", worker'[u].at = "set user",
                worker'[v].user = worker'[u].user
         PROVE  v = u
      BY <1>1, <2>1, <2>13, <3>3 DEF OneSetter
    <3> QED BY <3>1, <3>2, <3>3 DEF Strict, StrictKeys, StrictWork, OneSetter
  <2> QED BY <2>4, <2>5, <2>6, <2>7, <2>8, <2>9, <2>10, <2>11, <2>12, <2>13
       DEF Waiting, Holding, Keys
<1> QED BY <1>3, <1>4, <1>6 DEF IInv

\* A client that gives up leaves its request to nobody; that is a fault.
LEMMA GivesUp ==
  ASSUME IInv, NEW c \in Clients, NEW w \in Workers,
         worker[w].from = c, worker' = [worker EXCEPT ![w].from = Nobody],
         SessionTypes', Fault
  PROVE  IInv'
<1>1. worker[w].at # "idle" /\ worker[w] \in Worker /\ worker \in [Workers -> Worker]
  BY FreeFields, AccountsAssumption DEF IInv, WorkerTypes
<1> DEFINE left == [worker[w] EXCEPT !.from = Nobody]
<1>2. worker' = [worker EXCEPT ![w] = left]
  OBVIOUS
<1>3. /\ left \in Worker /\ left.at = worker[w].at /\ left.does = worker[w].does
      /\ left.user = worker[w].user /\ left.session = worker[w].session
      /\ left.answer = worker[w].answer
  BY <1>1 DEF Worker
<1>4. /\ worker' \in [Workers -> Worker] /\ worker'[w] = left
      /\ \A v \in Workers : v # w => worker'[v] = worker[v]
  BY <1>1, <1>2, <1>3
<1> HIDE DEF left
<1>5. ASSUME NEW v \in Workers
      PROVE  /\ worker'[v].at = worker[v].at /\ worker'[v].does = worker[v].does
             /\ worker'[v].user = worker[v].user /\ worker'[v].session = worker[v].session
             /\ worker'[v].answer = worker[v].answer
             /\ worker[v].at = "idle" => worker'[v] = worker[v]
  <2>1. CASE v = w
    BY <1>1, <1>3, <1>4, <2>1
  <2>2. CASE v # w
    BY <1>4, <2>2
  <2> QED BY <2>1, <2>2
<1>6. WorkerTypes'
  <2>1. ASSUME NEW v \in Workers
        PROVE  /\ worker[v].at \in {"look", "set user", "set session", "del"} =>
                    worker'[v].user \in Users
               /\ worker[v].at \in {"set session", "guard", "get", "del"} =>
                    worker'[v].session \in Sessions
               /\ worker[v].at \in {"look", "set user", "set session"} =>
                    worker'[v].does = "login"
               /\ worker[v].at \in {"guard", "get", "del"} => worker'[v].does = "logout"
               /\ worker[v].at \in Registers => worker'[v].does = "register"
               /\ worker[v].at = "find" => worker'[v].does # "logout"
    BY <1>5 DEF IInv, WorkerTypes
  <2>2. ASSUME NEW v \in Workers
        PROVE  /\ worker'[v].session # NoSession =>
                    \/ worker[v].at \in {"set session", "done"} /\ worker'[v].does = "login"
                    \/ worker[v].at \in {"guard", "get", "del"}
               /\ worker[v].at = "idle" => worker'[v] = Free
               /\ worker[v].at = "done" /\ worker'[v].session # NoSession =>
                    worker'[v].answer = "yes"
    BY <1>5 DEF IInv, WorkerTypes
  <2>3. \A v \in Workers : worker'[v].at = worker[v].at
    BY <1>5
  <2> QED BY <1>4, <2>1, <2>2, <2>3 DEF WorkerTypes
<1> QED BY <1>6, AfterFault

\* An answer that comes after a fault.
LEMMA HeardTypes ==
  ASSUME IInv, NEW w \in Workers, worker[w].at = "done",
         worker' = [worker EXCEPT ![w] = Free], SessionTypes', faults' # 0
  PROVE  IInv'
<1>1. worker' \in [Workers -> Worker] /\ worker'[w] = Free
  BY DEF IInv, WorkerTypes, Free, Worker
<1>2. ASSUME NEW v \in Workers, v # w PROVE worker'[v] = worker[v]
  BY <1>2 DEF IInv, WorkerTypes
<1>3. Free.at = "idle" /\ Free.session = NoSession
  BY FreeFields
<1>4. WorkerTypes'
  BY <1>1, <1>2, <1>3 DEF IInv, WorkerTypes, Registers
<1> QED BY <1>4 DEF IInv

LEMMA RegisterHeardStep ==
  ASSUME IInv, NEW c \in Clients, NEW w \in Workers, RegisterHeard(c, w)
  PROVE  IInv'
<1>1. PICK answer \in {"none", "yes", "no"} : ClientHears(c, w, answer)
  BY DEF RegisterHeard
<1>2. /\ screen[c] = "register" /\ screen' = [screen EXCEPT ![c] = "login"]
      /\ UNCHANGED <<userKey, sessionKey, overlap, session>>
  BY DEF RegisterHeard
<1>3. worker[w].from = c
  BY <1>1 DEF ClientHears
<1>4. CASE worker[w].at = "done"
  <2>1. worker' = [worker EXCEPT ![w] = Free] /\ UNCHANGED faults
    BY <1>1, <1>4 DEF ClientHears
  <2>2. ASSUME faults = 0 PROVE worker[w].does # "login"
    BY <1>2, <1>3, <1>4, <2>2 DEF IInv, Waiting, WaitsFor, WaitsAt
  <2>3. worker[w].session # NoSession => worker[w].does = "login"
    BY <1>4 DEF IInv, WorkerTypes
  <2>4. session' = [session EXCEPT ![c] = session[c]] /\ session[c] \in Sessions \cup {NoSession}
    BY <1>2 DEF IInv, SessionTypes
  <2>5. CASE faults = 0
    BY <1>2, <1>3, <1>4, <2>1, <2>2, <2>4, <2>5, Heard
  <2>6. CASE faults # 0
    <3>1. SessionTypes'
      BY <1>2, <2>1 DEF IInv, SessionTypes
    <3> QED BY <1>3, <1>4, <2>1, <2>6, <3>1, HeardTypes DEF IInv
  <2> QED BY <2>5, <2>6
<1>5. CASE worker[w].at # "done"
  <2>1. worker' = [worker EXCEPT ![w].from = Nobody] /\ Fault
    BY <1>1, <1>5 DEF ClientHears
  <2>2. SessionTypes'
    BY <1>2, <2>1, FaultCounts DEF IInv, SessionTypes
  <2> QED BY <1>3, <2>1, <2>2, GivesUp
<1> QED BY <1>4, <1>5

LEMMA LoginHeardStep ==
  ASSUME IInv, NEW c \in Clients, NEW w \in Workers, LoginHeard(c, w)
  PROVE  IInv'
<1>1. PICK answer \in {"none", "yes", "no", "taken"} :
        /\ ClientHears(c, w, answer)
        /\ IF answer = "yes"
           THEN /\ session' = [session EXCEPT ![c] = worker[w].session]
                /\ screen' = [screen EXCEPT ![c] = "in"]
           ELSE UNCHANGED session /\ screen' = [screen EXCEPT ![c] = "login"]
  BY DEF LoginHeard
<1>2. screen[c] = "logging in" /\ UNCHANGED <<userKey, sessionKey, overlap>>
  BY DEF LoginHeard
<1>3. /\ worker[w].from = c
      /\ session[c] \in Sessions \cup {NoSession}
      /\ worker[w].session \in Sessions \cup {NoSession}
  BY <1>1 DEF IInv, SessionTypes, WorkerTypes, Worker, ClientHears
<1>4. PICK s \in Sessions \cup {NoSession}, place \in {"login", "in"} :
        /\ session' = [session EXCEPT ![c] = s] /\ screen' = [screen EXCEPT ![c] = place]
        /\ \/ answer # "yes" /\ s = session[c]
           \/ answer = "yes" /\ s = worker[w].session /\ place = "in"
  <2>1. CASE answer = "yes"
    BY <1>1, <1>3, <2>1
  <2>2. CASE answer # "yes"
    <3>1. session' = [session EXCEPT ![c] = session[c]]
      BY <1>1, <2>2 DEF IInv, SessionTypes
    <3> QED BY <1>1, <1>3, <2>2, <3>1
  <2> QED BY <2>1, <2>2
<1>5. SessionTypes' \/ ~(faults' \in Nat)
  BY <1>2, <1>4 DEF IInv, SessionTypes
<1>6. CASE worker[w].at = "done"
  <2>1. /\ worker' = [worker EXCEPT ![w] = Free] /\ UNCHANGED faults
        /\ answer = worker[w].answer
    BY <1>1, <1>6 DEF ClientHears
  <2>2. worker[w].session # NoSession => answer = "yes"
    BY <1>6, <2>1 DEF IInv, WorkerTypes
  <2>3. CASE faults = 0
    <3>1. worker[w].does = "login"
      BY <1>2, <1>3, <1>6, <2>3 DEF IInv, Waiting, WaitsFor, WaitsAt, WorkerTypes, Worker
    <3> QED BY <1>2, <1>3, <1>4, <1>6, <2>1, <2>2, <3>1, Heard
  <2>4. CASE faults # 0
    BY <1>3, <1>5, <1>6, <2>1, <2>4, HeardTypes DEF IInv, SessionTypes
  <2> QED BY <2>3, <2>4
<1>7. CASE worker[w].at # "done"
  <2>1. worker' = [worker EXCEPT ![w].from = Nobody] /\ Fault
    BY <1>1, <1>7 DEF ClientHears
  <2>2. faults' \in Nat
    BY <2>1, FaultCounts
  <2> QED BY <1>3, <1>5, <2>1, <2>2, GivesUp
<1> QED BY <1>6, <1>7

LEMMA LogOutHeardStep ==
  ASSUME IInv, NEW c \in Clients, NEW w \in Workers, LogOutHeard(c, w)
  PROVE  IInv'
<1>1. PICK answer \in {"none", "yes", "no", "unauthorized"}, closed \in BOOLEAN :
        /\ ClientHears(c, w, answer)
        /\ session' = IF closed \/ answer \in {"yes", "unauthorized"}
                      THEN [session EXCEPT ![c] = NoSession] ELSE session
  BY DEF LogOutHeard
<1>2. /\ screen[c] = "logging out" /\ screen' = [screen EXCEPT ![c] = "login"]
      /\ UNCHANGED <<userKey, sessionKey, overlap>>
  BY DEF LogOutHeard
<1>3. worker[w].from = c /\ session[c] \in Sessions \cup {NoSession}
  BY <1>1 DEF IInv, SessionTypes, ClientHears
<1>4. PICK s \in Sessions \cup {NoSession} :
        s \in {session[c], NoSession} /\ session' = [session EXCEPT ![c] = s]
  <2>1. session = [session EXCEPT ![c] = session[c]]
    BY DEF IInv, SessionTypes
  <2>2. CASE closed \/ answer \in {"yes", "unauthorized"}
    BY <1>1, <2>2
  <2>3. CASE ~(closed \/ answer \in {"yes", "unauthorized"})
    BY <1>1, <1>3, <2>1, <2>3
  <2> QED BY <2>2, <2>3
<1>5. SessionTypes' \/ ~(faults' \in Nat)
  BY <1>2, <1>4 DEF IInv, SessionTypes
<1>6. CASE worker[w].at = "done"
  <2>1. worker' = [worker EXCEPT ![w] = Free] /\ UNCHANGED faults
    BY <1>1, <1>6 DEF ClientHears
  <2>2. CASE faults = 0
    <3>1. worker[w].does # "login"
      BY <1>2, <1>3, <1>6, <2>2 DEF IInv, Waiting, WaitsFor, WaitsAt
    <3> QED BY <1>2, <1>3, <1>4, <1>6, <2>1, <3>1, Heard
  <2>3. CASE faults # 0
    BY <1>3, <1>5, <1>6, <2>1, <2>3, HeardTypes DEF IInv, SessionTypes
  <2> QED BY <2>2, <2>3
<1>7. CASE worker[w].at # "done"
  <2>1. worker' = [worker EXCEPT ![w].from = Nobody] /\ Fault
    BY <1>1, <1>7 DEF ClientHears
  <2>2. faults' \in Nat
    BY <2>1, FaultCounts
  <2> QED BY <1>3, <1>5, <2>1, <2>2, GivesUp
<1> QED BY <1>6, <1>7

LEMMA ClientCrashesStep ==
  ASSUME IInv, NEW c \in Clients, ClientCrashes(c)
  PROVE  IInv'
<1>1. /\ session' = [session EXCEPT ![c] = NoSession] /\ Fault
      /\ screen' = [screen EXCEPT ![c] = "login"]
      /\ UNCHANGED <<userKey, sessionKey, worker, overlap>>
  BY DEF ClientCrashes, authVars
<1>2. WorkerTypes' /\ SessionTypes'
  BY <1>1, FaultCounts DEF IInv, WorkerTypes, SessionTypes
<1> QED BY <1>1, <1>2, AfterFault

-----------------------------------------------------------------------------
(***************************************************************************)
(* Faults and time                                                         *)
(***************************************************************************)

LEMMA CallFailsStep ==
  ASSUME IInv, NEW w \in Workers, CallFails(w)
  PROVE  IInv'
<1>1. Fault /\ UNCHANGED <<sessionKey, screen, session>>
  BY DEF CallFails, clientVars
<1>2. \/ UNCHANGED userKey
      \/ \E s \in Sessions : userKey' = [userKey EXCEPT ![worker[w].user] = s]
  BY DEF CallFails, NewSession
<1>3. overlap' \in BOOLEAN
  BY DEF CallFails, IInv, SessionTypes, Overlaps
<1>4. SessionTypes'
  BY <1>1, <1>2, <1>3, FaultCounts DEF IInv, SessionTypes
<1>5. CASE worker[w].at = "look"
  <2>1. worker[w].does = "login" /\ worker[w].user \in Users /\ Goes(w, "set user")
    BY <1>5 DEF CallFails, IInv, WorkerTypes
  <2>2. Moved(w, "set user") /\ worker'[w].user = worker[w].user
    BY <2>1, GoesMoves DEF IInv, Places
  <2>3. WorkerTypes'
    BY <1>5, <2>1, <2>2, MovedTypes DEF IInv, WorkerTypes, Places, Registers
  <2> QED BY <1>1, <1>4, <2>3, AfterFault
<1>6. CASE worker[w].at = "find" /\ worker[w].does = "register"
  <2>1. Goes(w, "create")
    BY <1>6 DEF CallFails
  <2>2. Moved(w, "create")
    BY <2>1, GoesMoves DEF IInv, Places
  <2>3. WorkerTypes'
    BY <1>6, <2>1, <2>2, MovedTypes DEF IInv, WorkerTypes, Places, Registers
  <2> QED BY <1>1, <1>4, <2>3, AfterFault
<1>7. CASE worker[w].at # "look" /\ ~(worker[w].at = "find" /\ worker[w].does = "register")
  <2>1. \E answer \in {"no", "unauthorized"} : Replies(w, answer)
    BY <1>7 DEF CallFails
  <2>2. Done(w, NoSession)
    BY <2>1, RepliesDone DEF IInv
  <2>3. WorkerTypes'
    BY <2>2, DoneTypes DEF IInv
  <2> QED BY <1>1, <1>4, <2>3, AfterFault
<1> QED BY <1>5, <1>6, <1>7

LEMMA WorkerStopsStep ==
  ASSUME IInv, NEW w \in Workers, WorkerStops(w)
  PROVE  IInv'
<1>1. Fault /\ Replies(w, "none") /\ UNCHANGED <<userKey, sessionKey, overlap, screen, session>>
  BY DEF WorkerStops, Replies, clientVars
<1>2. Done(w, NoSession)
  BY <1>1, RepliesDone DEF IInv
<1>3. WorkerTypes'
  BY <1>2, DoneTypes DEF IInv
<1>4. SessionTypes'
  BY <1>1, FaultCounts DEF IInv, SessionTypes
<1> QED BY <1>1, <1>3, <1>4, AfterFault

LEMMA ExpireUserKeyStep ==
  ASSUME IInv, NEW u \in Users, ExpireUserKey(u)
  PROVE  IInv'
<1>1. /\ userKey' = [userKey EXCEPT ![u] = NoSession]
      /\ overlap' = (overlap \/ \E s \in Sessions : sessionKey[s] = u)
      /\ UNCHANGED <<sessionKey, worker, screen, session, faults>>
      /\ \A w \in Workers : worker[w].at = "set session" => worker[w].session # userKey[u]
  BY DEF ExpireUserKey, serviceVars, clientVars
<1>2. userKey'[u] = NoSession /\ \A x \in Users : x # u => userKey'[x] = userKey[x]
  BY <1>1 DEF IInv, SessionTypes
<1>3. WorkerTypes'
  BY <1>1 DEF IInv, WorkerTypes
<1>4. SessionTypes'
  BY <1>1 DEF IInv, SessionTypes
<1>5. ASSUME faults' = 0 PROVE Waiting' /\ Holding' /\ Keys'
  <2>1. Waiting /\ Holding /\ UserKeys /\ SessionKeys /\ KeysToCome
    BY <1>1, <1>5 DEF IInv, Keys
  <2>2. Waiting'
    BY <1>1, <2>1 DEF Waiting, WaitsFor, OnePerClient
  <2>3. Holding'
    BY <1>1, <2>1 DEF Holding, ClientsHold, NotAtClients, NotAtWorkers, LogoutsHold
  <2>4. SessionKeys' /\ KeysToCome'
    BY <1>1, <2>1 DEF SessionKeys, KeysToCome
  <2>5. UserKeys'
    <3>1. ASSUME NEW x \in Users, userKey'[x] # NoSession
          PROVE  \/ sessionKey[userKey[x]] = x
                 \/ \E v \in Workers : /\ worker[v].at = "set session"
                                       /\ worker[v].session = userKey[x] /\ worker[v].user = x
      BY <1>2, <2>1, <3>1 DEF UserKeys
    <3>2. \A x \in Users : userKey'[x] # NoSession => userKey'[x] = userKey[x]
      BY <1>2
    <3>3. ASSUME NEW x \in Users, userKey'[x] # NoSession
          PROVE  \/ sessionKey'[userKey'[x]] = x
                 \/ \E v \in Workers : /\ worker'[v].at = "set session"
                                       /\ worker'[v].session = userKey'[x]
                                       /\ worker'[v].user = x
      <4>1. userKey'[x] = userKey[x]
        BY <3>2, <3>3
      <4>2. sessionKey' = sessionKey /\ worker' = worker
        BY <1>1
      <4> QED BY <3>1, <3>3, <4>1, <4>2
    <3> QED BY <3>3 DEF UserKeys
  <2> QED BY <2>2, <2>3, <2>4, <2>5 DEF Keys
<1>6. ASSUME faults' = 0, ~overlap' PROVE Strict'
  <2>1. /\ StrictKeys /\ StrictWork /\ OneSetter
        /\ \A s \in Sessions : sessionKey[s] # u
    BY <1>1, <1>6 DEF IInv, Strict
  <2>2. StrictKeys'
    <3>1. ASSUME NEW t \in Sessions, sessionKey[t] # NoUser PROVE userKey'[sessionKey[t]] = t
      <4>1. sessionKey[t] \in Users /\ sessionKey[t] # u
        BY <2>1, <3>1 DEF IInv, SessionTypes
      <4> QED BY <1>2, <2>1, <3>1, <4>1 DEF StrictKeys
    <3> QED BY <1>1, <3>1 DEF StrictKeys
  <2>3. StrictWork'
    <3>1. ASSUME NEW v \in Workers, worker[v].at = "set user"
          PROVE  userKey'[worker[v].user] = NoSession
      BY <1>2, <2>1, <3>1, Knows DEF StrictWork
    <3>2. ASSUME NEW v \in Workers, worker[v].at = "set session"
          PROVE  userKey'[worker[v].user] = worker[v].session
      <4>1. worker[v].user \in Users /\ userKey[worker[v].user] = worker[v].session
        BY <2>1, <3>2, Knows DEF StrictWork
      <4>2. worker[v].user # u
        BY <1>1, <3>2, <4>1
      <4> QED BY <1>2, <4>1, <4>2
    <3> QED BY <1>1, <2>1, <3>1, <3>2 DEF StrictWork
  <2> QED BY <1>1, <2>1, <2>2, <2>3 DEF Strict, OneSetter
<1> QED BY <1>3, <1>4, <1>5, <1>6 DEF IInv

LEMMA ExpireSessionKeyStep ==
  ASSUME IInv, NEW s \in Sessions, ExpireSessionKey(s)
  PROVE  IInv'
<1>1. /\ sessionKey[s] # NoUser /\ userKey[sessionKey[s]] # s
      /\ sessionKey' = [sessionKey EXCEPT ![s] = NoUser]
      /\ UNCHANGED <<userKey, worker, screen, session, overlap, faults>>
  BY DEF ExpireSessionKey, serviceVars, clientVars
<1>2. sessionKey'[s] = NoUser /\ \A t \in Sessions : t # s => sessionKey'[t] = sessionKey[t]
  BY <1>1 DEF IInv, SessionTypes
<1>3. WorkerTypes'
  BY <1>1 DEF IInv, WorkerTypes
<1>4. SessionTypes'
  BY <1>1 DEF IInv, SessionTypes
<1>5. ASSUME faults' = 0 PROVE Waiting' /\ Holding' /\ Keys'
  <2>1. WaitsFor /\ OnePerClient /\ Holding /\ UserKeys /\ SessionKeys /\ KeysToCome
    BY <1>1, <1>5 DEF IInv, Waiting, Keys
  <2>2. Waiting'
    BY <1>1, <2>1 DEF Waiting, WaitsFor, OnePerClient
  <2>3. Holding'
    BY <1>1, <2>1 DEF Holding, ClientsHold, NotAtClients, NotAtWorkers, LogoutsHold
  <2>4. SessionKeys'
    BY <1>1, <1>2, <2>1 DEF SessionKeys
  <2>5. UserKeys'
    <3>1. ASSUME NEW x \in Users, userKey[x] # NoSession, sessionKey[userKey[x]] = x
          PROVE  sessionKey'[userKey[x]] = x
      <4>1. userKey[x] \in Sessions /\ userKey[x] # s
        BY <1>1, <3>1 DEF IInv, SessionTypes
      <4> QED BY <1>2, <3>1, <4>1
    <3> QED BY <1>1, <2>1, <3>1 DEF UserKeys
  <2>6. KeysToCome'
    <3>1. \A t \in Sessions : sessionKey'[t] \in {sessionKey[t], NoUser}
      BY <1>2
    <3>2. ASSUME NEW v \in Workers, worker[v].at \in {"set session", "del"}
          PROVE  worker[v].session \in Sessions
      BY <3>2, Knows
    <3>3. ASSUME NEW v \in Workers, worker[v].at = "done", worker[v].does = "logout"
          PROVE  session[worker[v].from] \in Sessions
      BY <2>1, <3>3 DEF WaitsFor, Holding, LogoutsHold, IInv, SessionTypes
    <3>4. ASSUME NEW v \in Workers
          PROVE  /\ worker[v].at = "set session" => sessionKey'[worker[v].session] = NoUser
                 /\ worker[v].at = "del" =>
                      sessionKey'[worker[v].session] \in {worker[v].user, NoUser}
                 /\ worker[v].at = "done" /\ worker[v].does = "logout" =>
                      sessionKey'[session[worker[v].from]] = NoUser
      BY <2>1, <3>1, <3>2, <3>3 DEF KeysToCome
    <3> QED BY <1>1, <3>4 DEF KeysToCome
  <2> QED BY <2>2, <2>3, <2>4, <2>5, <2>6 DEF Keys
<1>6. ASSUME faults' = 0, ~overlap' PROVE Strict'
  BY <1>1, <1>6 DEF IInv, Strict, StrictKeys
<1> QED BY <1>3, <1>4, <1>5, <1>6 DEF IInv

LEMMA CardsStep ==
  ASSUME IInv, CardsNext
  PROVE  IInv'
<1>1. UNCHANGED <<worker, userKey, sessionKey, screen, session, overlap>>
  BY DEF CardsNext, authVars, clientVars
<1>2. UNCHANGED faults \/ Fault
  <2>1. CASE FillerStep
    BY <2>1 DEF FillerStep, FillerStarts, FillerLooks, FillerInserts, FillerEnds
  <2>2. CASE FillerStops
    BY <2>2 DEF FillerStops
  <2>3. ASSUME NEW h \in Handlers, HandlerStep(h) PROVE UNCHANGED faults \/ Fault
    BY <2>3 DEF HandlerStep, ReadRow, SaveStarts, FillStarts, DeleteRow, InsertDeck,
                InsertInventory
  <2>4. ASSUME NEW h \in Handlers, Fails(h) PROVE Fault
    BY <2>4 DEF Fails
  <2> QED BY <2>1, <2>2, <2>3, <2>4 DEF CardsNext
<1>3. faults' \in Nat /\ (faults' = 0 => faults = 0)
  BY <1>2, FaultCounts DEF IInv, SessionTypes
<1> QED BY <1>1, <1>3, Idles

-----------------------------------------------------------------------------
(***************************************************************************)
(* The theorems                                                            *)
(***************************************************************************)

LEMMA InitIInv ==
  ASSUME Init
  PROVE  IInv
<1>1. worker = [w \in Workers |-> Free] /\ Free \in Worker /\ Free.at = "idle"
      /\ Free.session = NoSession /\ Free.from = Nobody
  BY DEF Init, Free, Worker
<1>2. \A w \in Workers : worker[w] = Free
  BY <1>1
<1>3. WorkerTypes
  BY <1>1, <1>2 DEF WorkerTypes, Registers
<1>4. SessionTypes
  BY DEF Init, SessionTypes
<1>5. Waiting
  BY <1>1, <1>2 DEF Waiting, WaitsFor, OnePerClient
<1>6. Holding
  BY <1>1, <1>2 DEF Init, Holding, ClientsHold, NotAtClients, NotAtWorkers, LogoutsHold
<1>7. Keys
  BY <1>1, <1>2 DEF Init, Keys, UserKeys, SessionKeys, KeysToCome
<1>8. Strict
  BY <1>1, <1>2 DEF Init, Strict, StrictKeys, StrictWork, OneSetter
<1> QED BY <1>3, <1>4, <1>5, <1>6, <1>7, <1>8 DEF IInv

LEMMA NextIInv ==
  ASSUME IInv, [Next]_vars
  PROVE  IInv'
<1>1. CASE UNCHANGED vars
  <2>1. UNCHANGED <<worker, userKey, sessionKey, screen, session, overlap, faults>>
    BY <1>1 DEF vars, serviceVars, authVars, clientVars
  <2> QED BY <2>1, Idles DEF IInv, SessionTypes
<1>2. CASE CardsNext
  BY <1>2, CardsStep
<1>3. ASSUME NEW w \in Workers, WorkerStep(w) PROVE IInv'
  BY <1>3, FindForRegisterStep, CreateUserStep, PostInventoryStep, PostDeckStep, UndoStep,
     FindForLoginStep, LookForSessionStep, SetUserKeyStep, SetSessionKeyStep, GuardStep,
     GetSessionStep, DeleteKeysStep, CallFailsStep, WorkerStopsStep, InventoryMadeStep,
     DeckMadeStep DEF WorkerStep
<1>4. ASSUME NEW c \in Clients, ClientNext(c) PROVE IInv'
  BY <1>4, EntersStep, RegisterHeardStep, LoginHeardStep, LogOutHeardStep, LogOutStep,
     ClientCrashesStep DEF ClientNext
<1>5. ASSUME NEW u \in Users, ExpireUserKey(u) PROVE IInv'
  BY <1>5, ExpireUserKeyStep
<1>6. ASSUME NEW s \in Sessions, ExpireSessionKey(s) PROVE IInv'
  BY <1>6, ExpireSessionKeyStep
<1> QED BY <1>1, <1>2, <1>3, <1>4, <1>5, <1>6 DEF Next

\* The invariant holds in every state of the sessions.
THEOREM AccountsInductive == Spec => []IInv
<1>1. Init => IInv
  BY InitIInv
<1>2. IInv /\ [Next]_vars => IInv'
  BY NextIInv
<1> QED BY <1>1, <1>2, PTL DEF Spec

\* OneSession of Accounts: session.service.go lets no user have two sessions, but after
\* a fault or two logins between GET and SET.
THEOREM UsersHaveOneSession == Spec => []OneSession
<1>1. IInv => OneSession
  <2> SUFFICES ASSUME IInv, NEW s \in Sessions, NEW t \in Sessions,
                      sessionKey[s] # NoUser, sessionKey[s] = sessionKey[t],
                      ~overlap, ~(faults > 0)
               PROVE  s = t
    BY DEF OneSession
  <2>1. faults \in Nat
    BY DEF IInv, SessionTypes
  <2>2. faults = 0
    BY <2>1
  <2> QED BY <2>2 DEF IInv, Strict, StrictKeys
<1> QED BY <1>1, AccountsInductive, PTL

\* RefusalIsTrue of Accounts: while nothing fails, the session for which a login is
\* refused belongs to a client or to a request.
THEOREM RefusalsAreTrue == Spec => []RefusalIsTrue
<1>1. IInv => RefusalIsTrue
  <2> SUFFICES ASSUME IInv, NEW u \in Users, userKey[u] # NoSession, faults = 0
               PROVE  \/ \E c \in Clients : session[c] = userKey[u]
                      \/ \E w \in Workers : worker[w].session = userKey[u]
    BY DEF RefusalIsTrue
  <2>1. UserKeys /\ SessionKeys /\ userKey[u] \in Sessions /\ u # NoUser
    BY AccountsAssumption DEF IInv, Keys, SessionTypes
  <2>2. CASE sessionKey[userKey[u]] = u
    BY <2>1, <2>2 DEF SessionKeys
  <2>3. CASE sessionKey[userKey[u]] # u
    BY <2>1, <2>3 DEF UserKeys
  <2> QED BY <2>2, <2>3
<1> QED BY <1>1, AccountsInductive, PTL

-----------------------------------------------------------------------------
(***************************************************************************)
(* Registrations: what they know, and what works for them                  *)
(***************************************************************************)

Posting == {"post inventory", "inventory", "post deck", "deck", "undo"}

\* What a request knows of the user it registers; given are the ids that were given.
RequestOK(wk, given) ==
  /\ wk.at \in Posting => wk.does = "register" /\ wk.user \in Users
  /\ wk.does = "register" /\ wk.user # NoUser => wk.at \in Posting
  /\ wk.at \in {"find", "create"} => wk.email \in Emails
  /\ wk.user \in given \cup {NoUser}

PostingOK(wk, emails, inv, well) ==
  wk.at \in Posting =>
    /\ emails[wk.user] # NoEmail
    /\ wk.user \notin well
    /\ wk.at \in {"post deck", "deck"} => inv[wk.user] # NoRow

Active(hd) == hd.at \in {"read", "delete", "insert"}

Fills(hd, u) == Active(hd) /\ hd.request.does = "fill" /\ hd.request.user = u

ServesOK(hd, wks, given, inv, dks) ==
  /\ hd.from \in Workers \cup {"nobody"}
  /\ hd.at = "idle" => hd.from = "nobody"
  /\ Active(hd) =>
       /\ hd.request.does \in {"create", "fill"}
       /\ hd.request.user \in given
       /\ hd.at = "delete" => hd.request.does = "fill"
       /\ hd.from \in Workers =>
            /\ wks[hd.from].user = hd.request.user
            /\ wks[hd.from].at = IF hd.request.does = "create" THEN "inventory" ELSE "deck"
  /\ hd.at = "done" =>
       /\ hd.from \in Workers
       /\ wks[hd.from].at \in {"inventory", "deck"}
       /\ hd.answer = "yes" =>
            (IF wks[hd.from].at = "inventory" THEN inv ELSE dks)[wks[hd.from].user] # NoRow

FillOK(hd, wks, well) ==
  Active(hd) /\ hd.request.does = "fill" =>
    /\ hd.request.user \notin well
    /\ hd.from = "nobody" =>
         \A w \in Workers : wks[w].at \in Posting \ {"undo"} => wks[w].user # hd.request.user

Accts ==
  /\ users \in [Users -> Emails \cup {NoEmail}]
  /\ used \subseteq Users
  /\ welcomed \subseteq used
  /\ sessionKey \in [Sessions -> used \cup {NoUser}]
  /\ \A u \in Users : users[u] # NoEmail => u \in used

Requests ==
  /\ \A w \in Workers : RequestOK(worker[w], used) /\ PostingOK(worker[w], users, inventories, welcomed)
  /\ \A v, w \in Workers :
       worker[v].at \in Posting /\ worker[w].at \in Posting /\ worker[v].user = worker[w].user => v = w

Serving ==
  /\ \A h \in Handlers :
       ServesOK(handler[h], worker, used, inventories, decks) /\ FillOK(handler[h], worker, welcomed)
  /\ \A g, h \in Handlers : handler[g].from # "nobody" /\ handler[g].from = handler[h].from => g = h

Whole ==
  /\ \A u \in welcomed : users[u] # NoEmail /\ inventories[u] # NoRow /\ decks[u] # NoRow
  /\ faults = 0 =>
       \A u \in Users : users[u] # NoEmail =>
         u \in welcomed \/ \E w \in Workers : worker[w].at \in Posting /\ worker[w].user = u


\* The invariant of whole accounts.
WholeInv == IInv /\ ServiceInv /\ Accts /\ Requests /\ Serving /\ Whole

\* The parts of the invariant.
LEMMA AllParts ==
  ASSUME WholeInv
  PROVE  /\ IInv /\ ServiceInv /\ Accts /\ Requests /\ Serving /\ Whole
         /\ worker \in [Workers -> Worker] /\ handler \in [Handlers -> Handler]
         /\ filler \in Filler /\ decks \in Table /\ inventories \in Table /\ faults \in 0 .. MaxFaults
         /\ NoEmail \notin Emails /\ NoUser \notin Users /\ "nobody" \notin Workers
         /\ Nobody \notin Clients /\ "nobody" \in Callers /\ Workers \subseteq Callers
BY AccountsAssumption DEF WholeInv, IInv, WorkerTypes, ServiceInv, ServiceTypes

\* What only the requests' handlers know of Free.
LEMMA FreeOK ==
  ASSUME NEW given, NEW emails, NEW inv, NEW well
  PROVE  RequestOK(Free, given) /\ PostingOK(Free, emails, inv, well) /\ Free.at = "idle"
         /\ Free.user = NoUser
BY DEF Free, RequestOK, PostingOK, Posting

\* A request that was answered registers nobody any more.
LEMMA RepliedOK ==
  ASSUME NEW wk, NEW answer, NEW given, NEW emails, NEW inv, NEW well
  PROVE  /\ RequestOK(Replied(wk, answer), given)
         /\ PostingOK(Replied(wk, answer), emails, inv, well)
         /\ Replied(wk, answer).at \notin Posting
<1>1. CASE wk.from = Nobody
  BY <1>1, FreeOK DEF Replied, Posting
<1>2. CASE wk.from # Nobody
  <2>1. Replied(wk, answer).at = "done" /\ Replied(wk, answer).user = NoUser
    BY <1>2 DEF Replied, Free
  <2> QED BY <2>1 DEF RequestOK, PostingOK, Posting
<1> QED BY <1>1, <1>2

\* A step of the auth service or of a client that changes one request and no row of the
\* cards service.
LEMMA QuietStep ==
  ASSUME WholeInv, NEW w \in Workers, NEW new,
         worker' = [worker EXCEPT ![w] = new],
         worker' \in [Workers -> Worker],
         RequestOK(new, used),
         new.at \in Posting => new.at = worker[w].at /\ new.user = worker[w].user,
         worker[w].at \in {"inventory", "deck"} => new.at = worker[w].at,
         worker[w].at \in Posting /\ new.at \notin Posting =>
           faults' # 0 \/ users' = [users EXCEPT ![worker[w].user] = NoEmail],
         \/ UNCHANGED users
         \/ worker[w].at = "undo" /\ new.at \notin Posting
              /\ users' = [users EXCEPT ![worker[w].user] = NoEmail],
         UNCHANGED <<handler, inventories, decks, used, welcomed>>,
         sessionKey' \in [Sessions -> used \cup {NoUser}],
         faults' = 0 => faults = 0
  PROVE  Accts' /\ Requests' /\ Serving' /\ Whole'
<1>1. worker'[w] = new /\ \A v \in Workers : v # w => worker'[v] = worker[v]
  BY AllParts
<1>2. worker[w].at \in Posting => worker[w].user \in Users
  BY AllParts DEF Requests, RequestOK
<1>3. /\ users \in [Users -> Emails \cup {NoEmail}] /\ users' \in [Users -> Emails \cup {NoEmail}]
      /\ \A u \in Users : users'[u] # NoEmail => users[u] # NoEmail
      /\ \A u \in Users : users'[u] # users[u] => worker[w].at = "undo" /\ new.at \notin Posting
                                                  /\ u = worker[w].user
      /\ worker[w].at \in Posting /\ new.at \notin Posting /\ faults' = 0 =>
           users'[worker[w].user] = NoEmail
  BY <1>2, AllParts DEF Accts, Posting
<1>4. Accts'
  BY <1>3, AllParts DEF Accts
<1>5. ASSUME NEW v \in Workers
      PROVE  /\ RequestOK(worker'[v], used)
             /\ PostingOK(worker'[v], users', inventories, welcomed)
             /\ worker'[v].at \in Posting => worker[v].at \in Posting /\ worker'[v].user = worker[v].user
                                             /\ worker'[v].at = worker[v].at
  <2>1. RequestOK(worker[v], used) /\ PostingOK(worker[v], users, inventories, welcomed)
    BY AllParts DEF Requests
  <2>2. RequestOK(worker'[v], used)
        /\ (worker'[v].at \in Posting => worker[v].at \in Posting /\ worker'[v].user = worker[v].user
                                         /\ worker'[v].at = worker[v].at)
    BY <1>1, <2>1
  <2>3. worker'[v].at \in Posting => users'[worker'[v].user] = users[worker'[v].user]
    <3> SUFFICES ASSUME worker'[v].at \in Posting, users'[worker'[v].user] # users[worker'[v].user]
                 PROVE  FALSE
      OBVIOUS
    <3>1. worker[v].at \in Posting /\ worker'[v].user = worker[v].user /\ worker[v].user \in Users
      BY <2>1, <2>2 DEF RequestOK
    <3>2. worker[w].at = "undo" /\ new.at \notin Posting /\ worker[v].user = worker[w].user
      BY <1>3, <3>1
    <3>3. v = w
      BY <3>1, <3>2, AllParts DEF Requests, Posting
    <3> QED BY <1>1, <3>2, <3>3
  <2>4. PostingOK(worker'[v], users', inventories, welcomed)
    BY <2>1, <2>2, <2>3 DEF PostingOK
  <2> QED BY <2>2, <2>4
<1>6. Requests'
  <2>1. \A v \in Workers : (RequestOK(worker[v], used) /\ PostingOK(worker[v], users, inventories, welcomed))'
    BY <1>5 DEF RequestOK, PostingOK
  <2>2. \A v, u \in Workers :
       worker'[v].at \in Posting /\ worker'[u].at \in Posting /\ worker'[v].user = worker'[u].user => v = u
    BY <1>5, AllParts DEF Requests
  <2> QED BY <2>1, <2>2 DEF Requests
<1>7. ASSUME NEW v \in Workers, worker[v].at \in {"inventory", "deck"}
      PROVE  worker'[v].at = worker[v].at /\ worker'[v].user = worker[v].user
  BY <1>1, <1>7 DEF Posting
<1>8. ASSUME NEW h \in Handlers
      PROVE  ServesOK(handler[h], worker', used, inventories, decks) /\ FillOK(handler[h], worker', welcomed)
  <2>1. ServesOK(handler[h], worker, used, inventories, decks) /\ FillOK(handler[h], worker, welcomed)
    BY AllParts DEF Serving
  <2>2. ServesOK(handler[h], worker', used, inventories, decks)
    BY <1>7, <2>1 DEF ServesOK
  <2>3. FillOK(handler[h], worker', welcomed)
    BY <1>5, <2>1 DEF FillOK
  <2> QED BY <2>2, <2>3
<1>9. Serving'
  <2>1. \A h \in Handlers :
       (ServesOK(handler[h], worker, used, inventories, decks) /\ FillOK(handler[h], worker, welcomed))'
    BY <1>8 DEF ServesOK, FillOK
  <2> QED BY <2>1, AllParts DEF Serving
<1>10. Whole'
  <2>1. ASSUME NEW u \in welcomed
        PROVE  users'[u] # NoEmail /\ inventories[u] # NoRow /\ decks[u] # NoRow
    <3>1. u \in Users /\ users[u] # NoEmail /\ inventories[u] # NoRow /\ decks[u] # NoRow
      BY AllParts DEF Whole, Accts
    <3>2. worker[w].at \in Posting => worker[w].user \notin welcomed
      BY AllParts DEF Requests, PostingOK
    <3> QED BY <1>3, <3>1, <3>2 DEF Posting
  <2>2. ASSUME faults' = 0, NEW u \in Users, users'[u] # NoEmail, u \notin welcomed
        PROVE  \E v \in Workers : worker'[v].at \in Posting /\ worker'[v].user = u
    <3>1. PICK v \in Workers : worker[v].at \in Posting /\ worker[v].user = u
      BY <1>3, <2>2, AllParts DEF Whole
    <3>2. v # w \/ new.at \in Posting
      BY <1>3, <2>2, <3>1
    <3> QED BY <1>1, <3>1, <3>2
  <2> QED BY <2>1, <2>2 DEF Whole
<1> QED BY <1>4, <1>6, <1>9, <1>10

\* A request that registers nobody, before and after.
LEMMA QuietMove ==
  ASSUME WholeInv, IInv', NEW w \in Workers, NEW new,
         worker' = [worker EXCEPT ![w] = new],
         RequestOK(new, used), worker[w].at \notin Posting, new.at \notin Posting,
         UNCHANGED <<users, handler, inventories, decks, used, welcomed>>,
         sessionKey' \in [Sessions -> used \cup {NoUser}],
         faults' = 0 => faults = 0
  PROVE  Accts' /\ Requests' /\ Serving' /\ Whole'
<1>1. worker' \in [Workers -> Worker]
  BY DEF IInv, WorkerTypes
<1> QED BY <1>1, QuietStep DEF Posting

\* It goes to another place of its handler, or is answered.
LEMMA QuietGoes ==
  ASSUME WholeInv, IInv', NEW w \in Workers, NEW place \in Places, Goes(w, place),
         worker[w].at \notin Posting, place \notin Posting,
         place \in {"find", "create"} => worker[w].at \in {"find", "create"},
         UNCHANGED <<users, handler, inventories, decks, used, welcomed, sessionKey>>,
         faults' = 0 => faults = 0
  PROVE  Accts' /\ Requests' /\ Serving' /\ Whole'
<1> DEFINE new == [worker[w] EXCEPT !.at = place]
<1>1. worker' = [worker EXCEPT ![w] = new] /\ sessionKey' \in [Sessions -> used \cup {NoUser}]
  BY AllParts DEF Goes, Accts
<1>2. new.at = place /\ new.user = worker[w].user /\ new.does = worker[w].does
      /\ new.email = worker[w].email
  BY AllParts DEF Worker
<1> HIDE DEF new
<1>3. RequestOK(worker[w], used)
  BY AllParts DEF Requests
<1>4. RequestOK(new, used)
  BY <1>2, <1>3 DEF RequestOK
<1> QED BY <1>1, <1>2, <1>4, QuietMove

\* It is answered.
LEMMA QuietReplies ==
  ASSUME WholeInv, IInv', NEW w \in Workers, NEW answer, Replies(w, answer),
         worker[w].at \notin Posting,
         UNCHANGED <<users, handler, inventories, decks, used, welcomed>>,
         sessionKey' \in [Sessions -> used \cup {NoUser}],
         faults' = 0 => faults = 0
  PROVE  Accts' /\ Requests' /\ Serving' /\ Whole'
<1> DEFINE new == Replied(worker[w], answer)
<1>1. worker' = [worker EXCEPT ![w] = new]
  BY DEF Replies
<1>2. RequestOK(new, used) /\ new.at \notin Posting
  BY RepliedOK
<1> HIDE DEF new
<1> QED BY <1>1, <1>2, QuietMove

\* It finds its user.
LEMMA QuietFinds ==
  ASSUME WholeInv, IInv', NEW w \in Workers, NEW place \in {"look", "del"}, NEW u \in used,
         worker' = [worker EXCEPT ![w].at = place, ![w].user = u],
         worker[w].does # "register", worker[w].at \notin Posting,
         UNCHANGED <<users, handler, inventories, decks, used, welcomed, sessionKey>>,
         faults' = 0 => faults = 0
  PROVE  Accts' /\ Requests' /\ Serving' /\ Whole'
<1> DEFINE new == [worker[w] EXCEPT !.at = place, !.user = u]
<1>1. worker' = [worker EXCEPT ![w] = new] /\ sessionKey' \in [Sessions -> used \cup {NoUser}]
  BY AllParts DEF Accts
<1>2. new.at = place /\ new.user = u /\ new.does = worker[w].does
  BY AllParts DEF Worker
<1> HIDE DEF new
<1>3. RequestOK(new, used) /\ new.at \notin Posting
  BY <1>2 DEF RequestOK, Posting
<1> QED BY <1>1, <1>3, QuietMove

\* Only keys and clients change.
LEMMA QuietKeys ==
  ASSUME WholeInv,
         UNCHANGED <<users, handler, inventories, decks, used, welcomed, worker>>,
         sessionKey' \in [Sessions -> used \cup {NoUser}],
         faults' = 0 => faults = 0
  PROVE  Accts' /\ Requests' /\ Serving' /\ Whole'
<1>1. Accts' /\ Whole'
  BY AllParts DEF Accts, Whole
<1>2. Requests'
  BY AllParts DEF Requests, RequestOK, PostingOK
<1>3. Serving'
  BY AllParts DEF Serving, ServesOK, FillOK
<1> QED BY <1>1, <1>2, <1>3

\* A fault is counted, and is never undone.
LEMMA FaultIs ==
  ASSUME WholeInv, Fault
  PROVE  faults' \in 0 .. MaxFaults /\ faults' # 0
BY AllParts, FaultType

\* What a step of the auth service does besides posting and hearing.
QuietWork(w) ==
  \/ FindForRegister(w) \/ Undo(w) \/ FindForLogin(w) \/ LookForSession(w) \/ SetUserKey(w)
  \/ SetSessionKey(w) \/ Guard(w) \/ GetSession(w) \/ DeleteKeys(w) \/ CallFails(w)

\* Those steps keep the accounts as they are.
LEMMA QuietWorkKept ==
  ASSUME WholeInv, IInv', NEW w \in Workers, QuietWork(w)
  PROVE  Accts' /\ Requests' /\ Serving' /\ Whole'
<1>1. /\ "look" \in Places /\ "set user" \in Places /\ "create" \in Places /\ "get" \in Places
      /\ sessionKey \in [Sessions -> used \cup {NoUser}] /\ used \subseteq Users
      /\ RequestOK(worker[w], used)
  BY AllParts DEF Places, Accts, Requests
<1>2. /\ worker[w].at \in {"look", "set user", "set session", "del"} => worker[w].user \in Users
      /\ worker[w].at \in {"guard", "get", "del"} => worker[w].does = "logout"
      /\ worker[w].at \in {"set session", "guard", "get", "del"} => worker[w].session \in Sessions
  BY AllParts DEF IInv, WorkerTypes
<1>3. CASE FindForRegister(w)
  <2>1. UNCHANGED <<users, handler, inventories, decks, used, welcomed, sessionKey, faults>>
        /\ worker[w].at = "find"
    BY <1>3 DEF FindForRegister, serviceVars
  <2>2. Replies(w, "no") \/ Goes(w, "create")
    BY <1>3 DEF FindForRegister
  <2> QED BY <1>1, <2>1, <2>2, QuietReplies, QuietGoes DEF Posting
<1>4. CASE Undo(w)
  <2> DEFINE new == Replied(worker[w], "no")
  <2>1. /\ UNCHANGED <<handler, inventories, decks, used, welcomed, sessionKey, faults>>
        /\ worker[w].at = "undo" /\ users' = [users EXCEPT ![worker[w].user] = NoEmail]
        /\ worker' = [worker EXCEPT ![w] = new]
    BY <1>4 DEF Undo, serviceVars, Replies
  <2>2. RequestOK(new, used) /\ new.at \notin Posting
    BY RepliedOK
  <2> HIDE DEF new
  <2>3. worker' \in [Workers -> Worker]
    BY DEF IInv, WorkerTypes
  <2> QED BY <1>1, <2>1, <2>2, <2>3, QuietStep
<1>5. CASE FindForLogin(w)
  <2>1. UNCHANGED <<users, handler, inventories, decks, used, welcomed, sessionKey, faults>>
        /\ worker[w].at = "find" /\ worker[w].does = "login"
    BY <1>5 DEF FindForLogin, serviceVars
  <2>2. CASE Replies(w, "no")
    BY <1>1, <2>1, <2>2, QuietReplies DEF Posting
  <2>3. ASSUME NEW u \in Users, users[u] = worker[w].email,
               worker' = [worker EXCEPT ![w].at = "look", ![w].user = u]
        PROVE  Accts' /\ Requests' /\ Serving' /\ Whole'
    <3>1. u \in used
      BY <1>1, <2>1, <2>3, AllParts DEF RequestOK, Accts
    <3> QED BY <2>1, <2>3, <3>1, QuietFinds DEF Posting
  <2> QED BY <1>5, <2>2, <2>3 DEF FindForLogin
<1>6. CASE LookForSession(w)
  <2>1. UNCHANGED <<users, handler, inventories, decks, used, welcomed, sessionKey, faults>>
        /\ worker[w].at = "look"
    BY <1>6 DEF LookForSession, serviceVars
  <2>2. Replies(w, "taken") \/ Goes(w, "set user")
    BY <1>6 DEF LookForSession
  <2> QED BY <1>1, <2>1, <2>2, QuietReplies, QuietGoes DEF Posting
<1>7. CASE SetUserKey(w)
  <2>1. UNCHANGED <<users, handler, inventories, decks, used, welcomed, sessionKey, faults>>
        /\ worker[w].at = "set user"
    BY <1>7 DEF SetUserKey, serviceVars
  <2>2. PICK s \in NewSession : worker' = [worker EXCEPT ![w].at = "set session", ![w].session = s]
    BY <1>7 DEF SetUserKey
  <2> DEFINE new == [worker[w] EXCEPT !.at = "set session", !.session = s]
  <2>3. worker' = [worker EXCEPT ![w] = new]
    BY <2>2
  <2>4. new.at = "set session" /\ new.user = worker[w].user /\ new.does = worker[w].does
    BY AllParts DEF Worker
  <2> HIDE DEF new
  <2>5. RequestOK(new, used) /\ new.at \notin Posting
    BY <1>1, <2>1, <2>4 DEF RequestOK, Posting
  <2> QED BY <1>1, <2>1, <2>3, <2>5, QuietMove DEF Posting
<1>8. CASE SetSessionKey(w)
  <2>1. UNCHANGED <<users, handler, inventories, decks, used, welcomed, faults>>
        /\ worker[w].at = "set session" /\ Replies(w, "yes")
        /\ sessionKey' = [sessionKey EXCEPT ![worker[w].session] = worker[w].user]
    BY <1>8 DEF SetSessionKey, serviceVars
  <2>2. worker[w].user \in used \cup {NoUser}
    BY <1>1 DEF RequestOK
  <2>3. sessionKey' \in [Sessions -> used \cup {NoUser}]
    BY <1>1, <2>1, <2>2
  <2> QED BY <2>1, <2>3, QuietReplies DEF Posting
<1>9. CASE Guard(w)
  <2>1. UNCHANGED <<users, handler, inventories, decks, used, welcomed, sessionKey, faults>>
        /\ worker[w].at = "guard"
    BY <1>9 DEF Guard, serviceVars
  <2>2. Replies(w, "unauthorized") \/ Goes(w, "get")
    BY <1>9 DEF Guard
  <2> QED BY <1>1, <2>1, <2>2, QuietReplies, QuietGoes DEF Posting
<1>10. CASE GetSession(w)
  <2>1. UNCHANGED <<users, handler, inventories, decks, used, welcomed, sessionKey, faults>>
        /\ worker[w].at = "get"
    BY <1>10 DEF GetSession, serviceVars
  <2>2. CASE sessionKey[worker[w].session] = NoUser
    <3>1. PICK answer \in {"no", "yes"} : Replies(w, answer)
      BY <1>10, <2>2 DEF GetSession
    <3> QED BY <1>1, <2>1, <3>1, QuietReplies DEF Posting
  <2>3. CASE sessionKey[worker[w].session] # NoUser
    <3>1. worker' = [worker EXCEPT ![w].at = "del", ![w].user = sessionKey[worker[w].session]]
      BY <1>10, <2>3 DEF GetSession
    <3>2. sessionKey[worker[w].session] \in used
      BY <1>1, <1>2, <2>1, <2>3
    <3> QED BY <1>2, <2>1, <3>1, <3>2, QuietFinds DEF Posting
  <2> QED BY <2>2, <2>3
<1>11. CASE DeleteKeys(w)
  <2>1. UNCHANGED <<users, handler, inventories, decks, used, welcomed, faults>>
        /\ worker[w].at = "del" /\ Replies(w, "yes")
        /\ sessionKey' = [sessionKey EXCEPT ![worker[w].session] = NoUser]
    BY <1>11 DEF DeleteKeys, serviceVars
  <2>2. sessionKey' \in [Sessions -> used \cup {NoUser}]
    BY <1>1, <2>1
  <2> QED BY <2>1, <2>2, QuietReplies DEF Posting
<1>12. CASE CallFails(w)
  <2>1. /\ UNCHANGED <<users, handler, inventories, decks, used, welcomed, sessionKey>>
        /\ faults' # 0
    BY <1>12, FaultIs DEF CallFails
  <2>2. \/ worker[w].at = "look" /\ Goes(w, "set user")
        \/ worker[w].at = "find" /\ Goes(w, "create")
        \/ worker[w].at \notin Posting /\ \E answer : Replies(w, answer)
        \/ worker[w].at = "undo" /\ Replies(w, "no")
    BY <1>12 DEF CallFails, Posting
  <2>3. CASE worker[w].at = "undo" /\ Replies(w, "no")
    <3> DEFINE new == Replied(worker[w], "no")
    <3>1. worker' = [worker EXCEPT ![w] = new]
      BY <2>3 DEF Replies
    <3>2. RequestOK(new, used) /\ new.at \notin Posting
      BY RepliedOK
    <3> HIDE DEF new
    <3>3. worker' \in [Workers -> Worker]
      BY DEF IInv, WorkerTypes
    <3> QED BY <1>1, <2>1, <2>3, <3>1, <3>2, <3>3, QuietStep
  <2> QED BY <1>1, <2>1, <2>2, <2>3, QuietReplies, QuietGoes DEF Posting
<1> QED BY <1>3, <1>4, <1>5, <1>6, <1>7, <1>8, <1>9, <1>10, <1>11, <1>12 DEF QuietWork

\* Keys that expire are no accounts.
LEMMA ExpiryKept ==
  ASSUME WholeInv, (\E u \in Users : ExpireUserKey(u)) \/ (\E s \in Sessions : ExpireSessionKey(s))
  PROVE  Accts' /\ Requests' /\ Serving' /\ Whole'
<1>1. sessionKey \in [Sessions -> used \cup {NoUser}]
  BY AllParts DEF Accts
<1>2. UNCHANGED <<users, handler, inventories, decks, used, welcomed, worker, faults>>
  BY DEF ExpireUserKey, ExpireSessionKey, serviceVars
<1>3. sessionKey' \in [Sessions -> used \cup {NoUser}]
  BY <1>1 DEF ExpireUserKey, ExpireSessionKey
<1> QED BY <1>2, <1>3, QuietKeys

\* A client asks, hears, gives up or dies.
LEMMA ClientKept ==
  ASSUME WholeInv, IInv', NEW c \in Clients, ClientNext(c)
  PROVE  Accts' /\ Requests' /\ Serving' /\ Whole'
<1>1. /\ UNCHANGED <<users, handler, inventories, decks, used, welcomed, sessionKey>>
      /\ sessionKey' \in [Sessions -> used \cup {NoUser}]
  <2>1. UNCHANGED <<users, handler, inventories, decks, used, welcomed, sessionKey>>
    BY DEF ClientNext, Enters, RegisterHeard, LoginHeard, LogOutHeard, LogOut, ClientCrashes,
           serviceVars, authVars
  <2> QED BY <2>1, AllParts DEF Accts
<1>2. worker' \in [Workers -> Worker]
  BY DEF IInv, WorkerTypes
<1>3. CASE ClientCrashes(c)
  <2>1. UNCHANGED worker /\ faults' # 0
    BY <1>3, FaultIs DEF ClientCrashes, authVars
  <2> QED BY <1>1, <2>1, QuietKeys
<1>4. ASSUME NEW request, Accepts(c, request), UNCHANGED faults,
             request.at \in {"find", "guard"}, request.user = NoUser,
             request.at = "find" => request.email \in Emails
      PROVE  Accts' /\ Requests' /\ Serving' /\ Whole'
  <2>1. PICK w \in Workers : worker[w] = Free /\ worker' = [worker EXCEPT ![w] = request]
    BY <1>4 DEF Accepts
  <2>2. worker[w].at \notin Posting /\ request.at \notin Posting
    <3>1. worker[w].at = "idle"
      BY <2>1 DEF Free
    <3> QED BY <1>4, <3>1 DEF Posting
  <2>3. RequestOK(request, used)
    BY <1>4, <2>2 DEF RequestOK
  <2> QED BY <1>1, <1>4, <2>1, <2>2, <2>3, QuietMove
<1>5. ASSUME NEW does \in {"register", "login"}, NEW email \in Emails, Enters(c, does, email)
      PROVE  Accts' /\ Requests' /\ Serving' /\ Whole'
  <2> DEFINE request == [Free EXCEPT !.at = "find", !.from = c, !.does = does, !.email = email]
  <2>1. request.at = "find" /\ request.user = NoUser /\ request.email = email
    BY DEF Free
  <2>2. Accepts(c, request) /\ UNCHANGED faults
    BY <1>5 DEF Enters, serviceVars
  <2> HIDE DEF request
  <2> QED BY <1>4, <2>1, <2>2
<1>6. CASE LogOut(c)
  <2> DEFINE request == [Free EXCEPT !.at = "guard", !.from = c, !.does = "logout",
                                     !.session = session[c]]
  <2>1. request.at = "guard" /\ request.user = NoUser
    BY DEF Free
  <2>2. Accepts(c, request) /\ UNCHANGED faults
    BY <1>6 DEF LogOut, serviceVars
  <2> HIDE DEF request
  <2> QED BY <1>4, <2>1, <2>2
<1>7. ASSUME NEW w \in Workers, NEW answer, ClientHears(c, w, answer)
      PROVE  Accts' /\ Requests' /\ Serving' /\ Whole'
  <2>1. CASE worker[w].at = "done"
    <3>1. worker' = [worker EXCEPT ![w] = Free] /\ UNCHANGED faults
      BY <1>7, <2>1 DEF ClientHears
    <3>2. RequestOK(Free, used) /\ Free.at = "idle"
      BY FreeOK
    <3> QED BY <1>1, <2>1, <3>1, <3>2, QuietMove DEF Posting
  <2>2. CASE worker[w].at # "done"
    <3> DEFINE new == [worker[w] EXCEPT !.from = Nobody]
    <3>1. worker' = [worker EXCEPT ![w] = new] /\ faults' # 0
      BY <1>7, <2>2, FaultIs DEF ClientHears
    <3>2. new.at = worker[w].at /\ new.user = worker[w].user /\ new.does = worker[w].does
          /\ new.email = worker[w].email
      BY AllParts DEF Worker
    <3> HIDE DEF new
    <3>3. RequestOK(worker[w], used)
      BY AllParts DEF Requests
    <3>4. RequestOK(new, used)
      BY <3>2, <3>3 DEF RequestOK
    <3> QED BY <1>1, <1>2, <3>1, <3>2, <3>4, QuietStep
  <2> QED BY <2>1, <2>2
<1>8. ASSUME NEW w \in Workers, RegisterHeard(c, w) \/ LoginHeard(c, w) \/ LogOutHeard(c, w)
      PROVE  Accts' /\ Requests' /\ Serving' /\ Whole'
  <2>1. \E answer : ClientHears(c, w, answer)
    BY <1>8 DEF RegisterHeard, LoginHeard, LogOutHeard
  <2> QED BY <1>7, <2>1
<1> QED BY <1>3, <1>5, <1>6, <1>8 DEF ClientNext

-----------------------------------------------------------------------------
(***************************************************************************)
(* Registration                                                            *)
(***************************************************************************)

\* A new id is known to nobody.
LEMMA CreateUserKept ==
  ASSUME WholeInv, IInv', NEW w \in Workers, CreateUser(w)
  PROVE  Accts' /\ Requests' /\ Serving' /\ Whole'
<1>1. /\ UNCHANGED <<inventories, decks, handler, filler, faults>>
      /\ UNCHANGED <<sessionKey, welcomed>> /\ worker[w].at = "create"
  BY DEF CreateUser, serviceVars
<1>2. CASE EmailUsed(worker[w].email)
  <2>1. Replies(w, "no") /\ UNCHANGED <<users, used>>
    BY <1>2 DEF CreateUser
  <2> QED BY <1>1, <2>1, QuietReplies, AllParts DEF Posting, Accts
<1>3. CASE ~EmailUsed(worker[w].email)
  <2>1. PICK u \in Users \ used :
          /\ users' = [users EXCEPT ![u] = worker[w].email]
          /\ used' = used \cup {u}
          /\ worker' = [worker EXCEPT ![w].at = "post inventory", ![w].user = u]
    BY <1>3 DEF CreateUser
  <2> DEFINE new == [worker[w] EXCEPT !.at = "post inventory", !.user = u]
  <2>2. worker' = [worker EXCEPT ![w] = new]
    BY <2>1
  <2>3. new.at = "post inventory" /\ new.user = u /\ new.does = worker[w].does
    BY AllParts DEF Worker
  <2> HIDE DEF new
  <2>4. worker'[w] = new /\ \A v \in Workers : v # w => worker'[v] = worker[v]
    BY <2>2, AllParts
  <2>5. worker[w].does = "register" /\ worker[w].email \in Emails
    BY <1>1, AllParts DEF Requests, RequestOK, IInv, WorkerTypes, Registers
  <2>6. /\ users' \in [Users -> Emails \cup {NoEmail}] /\ users'[u] # NoEmail
        /\ \A v \in Users : v # u => users'[v] = users[v]
        /\ used \subseteq Users /\ welcomed \subseteq used /\ u \notin welcomed
    BY <2>1, <2>5, AllParts DEF Accts
  <2>7. Accts'
    <3>1. sessionKey' \in [Sessions -> used' \cup {NoUser}]
      <4>1. used \cup {NoUser} \subseteq used' \cup {NoUser}
        BY <2>1
      <4> QED BY <1>1, <4>1, AllParts DEF Accts
    <3> QED BY <1>1, <2>1, <2>6, <3>1, AllParts DEF Accts
  <2>8. ASSUME NEW v \in Workers
        PROVE  /\ RequestOK(worker'[v], used')
               /\ PostingOK(worker'[v], users', inventories, welcomed)
               /\ v # w /\ worker[v].at \in Posting => worker[v].user # u
    <3>1. RequestOK(worker[v], used) /\ PostingOK(worker[v], users, inventories, welcomed)
      BY AllParts DEF Requests
    <3>2. CASE v = w
      <4>1. worker'[v] = new
        BY <2>4, <3>2
      <4>2. RequestOK(new, used')
        BY <2>1, <2>3, <2>5 DEF RequestOK, Posting
      <4>3. PostingOK(new, users', inventories, welcomed)
        BY <2>3, <2>6 DEF PostingOK, Posting
      <4> QED BY <3>2, <4>1, <4>2, <4>3
    <3>3. CASE v # w
      <4>1. worker'[v] = worker[v]
        BY <2>4, <3>3
      <4>2. RequestOK(worker[v], used')
        BY <2>1, <3>1 DEF RequestOK
      <4>3. worker[v].at \in Posting => worker[v].user \in Users /\ worker[v].user \in used
        BY <3>1, AllParts DEF RequestOK
      <4>4. worker[v].at \in Posting => worker[v].user # u /\ users'[worker[v].user] = users[worker[v].user]
        BY <2>1, <2>6, <4>3
      <4> QED BY <3>1, <4>1, <4>2, <4>4 DEF PostingOK
    <3> QED BY <3>2, <3>3
  <2>9. Requests'
    <3>1. \A v \in Workers : (RequestOK(worker[v], used) /\ PostingOK(worker[v], users, inventories, welcomed))'
      BY <1>1, <2>8 DEF RequestOK, PostingOK
    <3>2. ASSUME NEW x \in Workers, NEW y \in Workers, worker'[x].at \in Posting,
                 worker'[y].at \in Posting, worker'[x].user = worker'[y].user
          PROVE  x = y
      <4>1. CASE x # w /\ y # w
        BY <2>4, <3>2, <4>1, AllParts DEF Requests
      <4>2. CASE x = w \/ y = w
        BY <2>3, <2>4, <2>8, <3>2, <4>2
      <4> QED BY <4>1, <4>2
    <3> QED BY <3>1, <3>2 DEF Requests
  <2>10. ASSUME NEW h \in Handlers
         PROVE  ServesOK(handler[h], worker', used', inventories, decks)
                /\ FillOK(handler[h], worker', welcomed)
    <3>1. ServesOK(handler[h], worker, used, inventories, decks) /\ FillOK(handler[h], worker, welcomed)
      BY AllParts DEF Serving
    <3>2. Active(handler[h]) \/ handler[h].at = "done" => handler[h].from # w
      BY <1>1, <3>1 DEF ServesOK
    <3>3. handler[h].from \in Workers /\ handler[h].from # w =>
            worker'[handler[h].from] = worker[handler[h].from]
      BY <2>4
    <3>4. ServesOK(handler[h], worker', used', inventories, decks)
      BY <2>1, <3>1, <3>2, <3>3 DEF ServesOK
    <3>5. Active(handler[h]) => handler[h].request.user # u
      BY <2>1, <3>1 DEF ServesOK
    <3>6. FillOK(handler[h], worker', welcomed)
      BY <2>3, <2>4, <3>1, <3>5 DEF FillOK
    <3> QED BY <3>4, <3>6
  <2>11. Serving'
    <3>1. \A h \in Handlers :
         (ServesOK(handler[h], worker, used, inventories, decks) /\ FillOK(handler[h], worker, welcomed))'
      BY <1>1, <2>10 DEF ServesOK, FillOK
    <3> QED BY <1>1, <3>1, AllParts DEF Serving
  <2>12. Whole'
    <3>1. \A v \in welcomed : users'[v] # NoEmail /\ inventories[v] # NoRow /\ decks[v] # NoRow
      BY <2>6, AllParts DEF Whole
    <3>2. ASSUME faults = 0, NEW v \in Users, users'[v] # NoEmail, v \notin welcomed
          PROVE  \E x \in Workers : worker'[x].at \in Posting /\ worker'[x].user = v
      <4>1. CASE v = u
        BY <2>3, <2>4, <4>1 DEF Posting
      <4>2. CASE v # u
        <5>1. PICK x \in Workers : worker[x].at \in Posting /\ worker[x].user = v
          BY <2>6, <3>2, <4>2, AllParts DEF Whole
        <5>2. x # w
          BY <1>1, <5>1 DEF Posting
        <5> QED BY <2>4, <5>1, <5>2
      <4> QED BY <4>1, <4>2
    <3> QED BY <1>1, <3>1, <3>2 DEF Whole
  <2> QED BY <2>7, <2>9, <2>11, <2>12
<1> QED BY <1>2, <1>3

\* A handler of the cards service takes a registration's request.
LEMMA PostsKept ==
  ASSUME WholeInv, IInv', NEW w \in Workers, NEW place, NEW does, NEW next,
         Posts(w, place, does, next),
         \/ place = "post inventory" /\ does = "create" /\ next = "inventory"
         \/ place = "post deck" /\ does = "fill" /\ next = "deck"
  PROVE  ServiceInv' /\ Accts' /\ Requests' /\ Serving' /\ Whole'
<1> DEFINE u == worker[w].user
           request == Asking(does, u, NoRow)
           new == [worker[w] EXCEPT !.at = next]
<1>1. /\ worker[w].at = place /\ Takes(w, request) /\ worker' = [worker EXCEPT ![w] = new]
      /\ UNCHANGED <<inventories, decks, filler, faults, users, used, sessionKey, welcomed>>
  BY DEF Posts, Goes
<1>2. new.at = next /\ new.user = u /\ new.does = worker[w].does /\ new.email = worker[w].email
  BY AllParts DEF Worker
<1>3. /\ worker[w].at \in Posting /\ RequestOK(worker[w], used)
      /\ PostingOK(worker[w], users, inventories, welcomed)
      /\ u \in Users /\ u \in used /\ u \notin welcomed
      /\ worker[w].at \notin {"inventory", "deck"}
  BY <1>1, AllParts DEF Requests, RequestOK, PostingOK, Posting
<1>4. request \in Request /\ request.does = does /\ request.user = u /\ request.cards = NoRow
  BY <1>3 DEF Asking, Request
<1>5. ServiceInv'
  <2> HIDE DEF request
  <2> QED BY <1>1, <1>4, TakesKept, AllParts
<1>6. PICK h \in Handlers : handler[h].at = "idle" /\ handler' = [handler EXCEPT ![h] = Working(w, request)]
  BY <1>1 DEF Takes
<1> DEFINE hd == Working(w, request)
<1>7. Active(hd) /\ hd.from = w /\ hd.request = request
  BY <1>4 DEF Working, FirstPlace, Active
<1>71. hd.at # "delete"
  BY <1>4 DEF Working, FirstPlace
<1> HIDE DEF new, hd, request
<1>8. worker'[w] = new /\ \A v \in Workers : v # w => worker'[v] = worker[v]
  BY <1>1, AllParts
<1>9. handler'[h] = hd /\ \A g \in Handlers : g # h => handler'[g] = handler[g]
  BY <1>6, AllParts DEF hd
<1>10. Accts'
  BY <1>1, AllParts DEF Accts
<1>11. Requests'
  <2>1. RequestOK(new, used) /\ PostingOK(new, users, inventories, welcomed)
    BY <1>1, <1>2, <1>3 DEF RequestOK, PostingOK, Posting
  <2>2. \A v \in Workers : (RequestOK(worker[v], used) /\ PostingOK(worker[v], users, inventories, welcomed))'
    BY <1>1, <1>8, <2>1, AllParts DEF Requests, RequestOK, PostingOK
  <2>3. \A v \in Workers : worker'[v].user = worker[v].user
                           /\ (worker'[v].at \in Posting <=> worker[v].at \in Posting)
    BY <1>2, <1>3, <1>8 DEF Posting
  <2>4. \A x, y \in Workers :
       worker'[x].at \in Posting /\ worker'[y].at \in Posting /\ worker'[x].user = worker'[y].user => x = y
    BY <2>3, AllParts DEF Requests
  <2> QED BY <2>2, <2>4 DEF Requests
<1>12. \A g \in Handlers : handler[g].from # w
  BY <1>1, <1>3, AllParts DEF Serving, ServesOK, Handler, Active
<1>13. ASSUME NEW g \in Handlers
       PROVE  ServesOK(handler'[g], worker', used, inventories, decks) /\ FillOK(handler'[g], worker', welcomed)
  <2>1. CASE g = h
    <3>1. handler'[g] = hd
      BY <1>9, <2>1
    <3>2. ServesOK(hd, worker', used, inventories, decks)
      BY <1>2, <1>3, <1>4, <1>7, <1>71, <1>8 DEF ServesOK, Active
    <3>3. FillOK(hd, worker', welcomed)
      BY <1>3, <1>4, <1>7, AllParts DEF FillOK
    <3> QED BY <3>1, <3>2, <3>3
  <2>2. CASE g # h
    <3>1. ServesOK(handler[g], worker, used, inventories, decks) /\ FillOK(handler[g], worker, welcomed)
          /\ handler'[g] = handler[g]
      BY <1>9, <2>2, AllParts DEF Serving
    <3>2. handler[g].from \in Workers => worker'[handler[g].from] = worker[handler[g].from]
      BY <1>8, <1>12
    <3>3. ServesOK(handler[g], worker', used, inventories, decks)
      BY <3>1, <3>2 DEF ServesOK
    <3>4. \A v \in Workers : worker'[v].user = worker[v].user
            /\ (worker'[v].at \in Posting \ {"undo"} => worker[v].at \in Posting \ {"undo"})
      BY <1>1, <1>2, <1>8 DEF Posting
    <3>5. FillOK(handler[g], worker', welcomed)
      BY <3>1, <3>4 DEF FillOK
    <3> QED BY <3>1, <3>3, <3>5
  <2> QED BY <2>1, <2>2
<1>14. Serving'
  <2>1. \A g \in Handlers :
       (ServesOK(handler[g], worker, used, inventories, decks) /\ FillOK(handler[g], worker, welcomed))'
    BY <1>1, <1>13 DEF ServesOK, FillOK
  <2>2. \A f, g \in Handlers : handler'[f].from # "nobody" /\ handler'[f].from = handler'[g].from => f = g
    BY <1>7, <1>9, <1>12, AllParts DEF Serving
  <2> QED BY <2>1, <2>2 DEF Serving
<1>15. Whole'
  <2>1. \A v \in Workers : worker'[v].user = worker[v].user
                           /\ (worker'[v].at \in Posting <=> worker[v].at \in Posting)
    BY <1>1, <1>2, <1>3, <1>8 DEF Posting
  <2> QED BY <1>1, <2>1, AllParts DEF Whole
<1> QED BY <1>5, <1>10, <1>11, <1>14, <1>15

\* The registration hears, or gives up on, its handler of the cards service.
LEMMA HeardHere ==
  ASSUME WholeInv, IInv', NEW w \in Workers, NEW h \in Handlers, NEW answer \in Answer,
         HearsOf(w, h, answer),
         worker[w].at \in {"inventory", "deck"},
         UNCHANGED <<inventories, decks, filler, users, used, sessionKey>>,
         NEW new, worker' = [worker EXCEPT ![w] = new],
         \/ /\ new.at = IF worker[w].at = "inventory" /\ answer = "yes" THEN "post deck" ELSE "undo"
            /\ new.user = worker[w].user /\ new.does = worker[w].does
            /\ welcomed' = welcomed
         \/ /\ new = Replied(worker[w], "yes") /\ worker[w].at = "deck" /\ answer = "yes"
            /\ welcomed' = welcomed \cup {worker[w].user}
  PROVE  ServiceInv' /\ Accts' /\ Requests' /\ Serving' /\ Whole'
<1> DEFINE u == worker[w].user
<1>1. /\ worker[w].at \in Posting /\ RequestOK(worker[w], used)
      /\ PostingOK(worker[w], users, inventories, welcomed)
      /\ u \in Users /\ u \in used /\ u \notin welcomed /\ users[u] # NoEmail
      /\ worker[w].does = "register" /\ w # "nobody"
  BY AllParts DEF Requests, RequestOK, PostingOK, Posting
<1>2. /\ handler[h].from = w /\ handler[h].at # "idle" /\ handler[h] \in Handler
      /\ \A g \in Handlers : g # h => handler[g].from # w
      /\ ServesOK(handler[h], worker, used, inventories, decks) /\ FillOK(handler[h], worker, welcomed)
  BY <1>1, AllParts DEF HearsOf, Serving
<1>3. ServiceInv'
  BY HearsKept, AllParts
<1>4. worker'[w] = new /\ \A v \in Workers : v # w => worker'[v] = worker[v]
  BY AllParts
<1>5. \/ /\ handler[h].at = "done" /\ answer = handler[h].answer /\ faults' = faults
         /\ handler'[h] = Idle
      \/ /\ Active(handler[h]) /\ answer = "lost" /\ faults' # 0
         /\ handler'[h].from = "nobody" /\ handler'[h].at = handler[h].at
         /\ handler'[h].request = handler[h].request
  <2>1. CASE handler[h].at = "done"
    BY <2>1, AllParts DEF HearsOf
  <2>2. CASE handler[h].at # "done"
    <3> DEFINE hd == [handler[h] EXCEPT !.from = "nobody"]
    <3>1. handler' = [handler EXCEPT ![h] = hd] /\ Fault /\ answer = "lost"
      BY <2>2 DEF HearsOf
    <3>2. hd.from = "nobody" /\ hd.at = handler[h].at /\ hd.request = handler[h].request
      BY <1>2 DEF Handler
    <3> HIDE DEF hd
    <3>3. handler'[h] = hd
      BY <3>1, AllParts
    <3>4. Active(handler[h])
      BY <1>2, <2>2 DEF Handler, Active
    <3> QED BY <3>1, <3>2, <3>3, <3>4, FaultIs
  <2> QED BY <2>1, <2>2
<1>6. \A g \in Handlers : g # h => handler'[g] = handler[g]
  BY AllParts DEF HearsOf
<1>7. new.at \in Posting \/ (new = Replied(worker[w], "yes") /\ new.at \notin Posting)
  BY RepliedOK DEF Posting
<1>8. new.at = "post deck" => inventories[u] # NoRow
  <2> SUFFICES ASSUME new.at = "post deck" PROVE inventories[u] # NoRow
    OBVIOUS
  <2>1. worker[w].at = "inventory" /\ answer = "yes"
    <3>1. new.at \in Posting
      BY DEF Posting
    <3>2. new # Replied(worker[w], "yes")
      BY <3>1, RepliedOK
    <3> QED BY <3>2
  <2>2. handler[h].at = "done" /\ handler[h].answer = "yes"
    BY <1>5, <2>1
  <2> QED BY <1>2, <2>1, <2>2 DEF ServesOK
<1>9. welcomed' # welcomed => new.at \notin Posting /\ inventories[u] # NoRow /\ decks[u] # NoRow
                              /\ handler[h].at = "done" /\ worker[w].at = "deck"
  <2> SUFFICES ASSUME welcomed' # welcomed
               PROVE  new.at \notin Posting /\ inventories[u] # NoRow /\ decks[u] # NoRow
                              /\ handler[h].at = "done" /\ worker[w].at = "deck"
    OBVIOUS
  <2>1. new = Replied(worker[w], "yes") /\ worker[w].at = "deck" /\ answer = "yes"
    OBVIOUS
  <2>2. handler[h].at = "done" /\ handler[h].answer = "yes"
    BY <1>5, <2>1
  <2>3. inventories[u] # NoRow
    BY <1>1, <2>1 DEF PostingOK
  <2> QED BY <1>2, <2>1, <2>2, <2>3, RepliedOK DEF ServesOK
<1>10. /\ welcomed' \in {welcomed, welcomed \cup {u}}
       /\ new.at \notin Posting => welcomed' = welcomed \cup {u}
       /\ new.at \in Posting => welcomed' = welcomed /\ new.user = u /\ new.does = "register"
                                /\ new.at \in {"post deck", "undo"}
  BY <1>1, <1>7, RepliedOK DEF Posting
<1>11. Accts'
  BY <1>1, <1>10, AllParts DEF Accts
<1>12. Requests'
  <2>1. RequestOK(new, used)
    <3>1. CASE new.at \in Posting
      BY <1>1, <1>10, <3>1 DEF RequestOK, Posting
    <3>2. CASE new.at \notin Posting
      BY <1>7, <3>2, RepliedOK
    <3> QED BY <3>1, <3>2
  <2>2. PostingOK(new, users, inventories, welcomed')
    <3> SUFFICES ASSUME new.at \in Posting PROVE PostingOK(new, users, inventories, welcomed')
      BY DEF PostingOK
    <3>1. new.user = u /\ welcomed' = welcomed /\ new.at \in {"post deck", "undo"}
      BY <1>10
    <3> QED BY <1>1, <1>8, <3>1 DEF PostingOK
  <2>3. ASSUME NEW v \in Workers, v # w
        PROVE  RequestOK(worker[v], used) /\ PostingOK(worker[v], users, inventories, welcomed')
    <3>1. RequestOK(worker[v], used) /\ PostingOK(worker[v], users, inventories, welcomed)
          /\ (worker[v].at \in Posting => worker[v].user # u)
      BY <1>1, <2>3, AllParts DEF Requests
    <3> QED BY <1>10, <3>1 DEF PostingOK
  <2>4. \A v \in Workers : (RequestOK(worker[v], used) /\ PostingOK(worker[v], users, inventories, welcomed))'
    BY <1>4, <2>1, <2>2, <2>3 DEF RequestOK, PostingOK
  <2>5. \A v \in Workers : worker'[v].at \in Posting =>
          worker[v].at \in Posting /\ worker'[v].user = worker[v].user
    BY <1>1, <1>4, <1>10
  <2>6. \A x, y \in Workers :
       worker'[x].at \in Posting /\ worker'[y].at \in Posting /\ worker'[x].user = worker'[y].user => x = y
    BY <2>5, AllParts DEF Requests
  <2> QED BY <2>4, <2>6 DEF Requests
<1>13. ASSUME NEW v \in Workers, worker'[v].at \in Posting \ {"undo"}
       PROVE  worker[v].at \in Posting \ {"undo"} /\ worker'[v].user = worker[v].user
              /\ (v = w => worker[w].at = "inventory" /\ handler[h].at = "done")
  BY <1>1, <1>4, <1>5, <1>10, <1>13
<1>14. ASSUME NEW g \in Handlers
       PROVE  ServesOK(handler'[g], worker', used, inventories, decks) /\ FillOK(handler'[g], worker', welcomed')
  <2>1. CASE g # h
    <3>1. ServesOK(handler[g], worker, used, inventories, decks) /\ FillOK(handler[g], worker, welcomed)
          /\ handler'[g] = handler[g] /\ handler[g].from # w
      BY <1>2, <1>6, <2>1, AllParts DEF Serving
    <3>2. handler[g].from \in Workers => worker'[handler[g].from] = worker[handler[g].from]
      BY <1>4, <3>1
    <3>3. ServesOK(handler[g], worker', used, inventories, decks)
      BY <3>1, <3>2 DEF ServesOK
    <3>4. Active(handler[g]) /\ handler[g].request.does = "fill" => handler[g].request.user \notin welcomed'
      <4> SUFFICES ASSUME Active(handler[g]), handler[g].request.does = "fill",
                          handler[g].request.user = u, welcomed' # welcomed
                   PROVE  FALSE
        BY <1>10, <3>1 DEF FillOK
      <4>1. worker[w].at = "deck"
        BY <1>9
      <4>2. CASE handler[g].from = "nobody"
        BY <1>1, <3>1, <4>1, <4>2 DEF FillOK, Posting
      <4>3. CASE handler[g].from \in Workers
        <5>1. worker[handler[g].from].user = u /\ worker[handler[g].from].at = "deck"
          BY <3>1, <4>3 DEF ServesOK
        <5>2. handler[g].from = w
          BY <4>1, <4>3, <5>1, AllParts DEF Requests, Posting
        <5> QED BY <3>1, <5>2
      <4> QED BY <3>1, <4>2, <4>3 DEF ServesOK
    <3>5. FillOK(handler[g], worker', welcomed')
      BY <1>13, <3>1, <3>4 DEF FillOK
    <3> QED BY <3>1, <3>3, <3>5
  <2>2. CASE g = h /\ handler[h].at = "done"
    <3>1. handler'[g] = Idle
      BY <1>5, <2>2 DEF Active
    <3>2. Idle.at = "idle" /\ Idle.from = "nobody"
      BY DEF Idle
    <3> QED BY <3>1, <3>2 DEF ServesOK, FillOK, Active
  <2>3. CASE g = h /\ handler[h].at # "done"
    <3> DEFINE hd == handler'[h]
    <3>1. hd.from = "nobody" /\ hd.at = handler[h].at /\ hd.request = handler[h].request
          /\ Active(handler[h]) /\ answer = "lost"
      BY <1>5, <2>3
    <3> HIDE DEF hd
    <3>2. /\ Active(hd) /\ hd.at # "idle" /\ hd.at # "done" /\ hd.from \notin Workers
          /\ hd.request.user = u /\ welcomed' = welcomed
      <4>1. handler[h].request.user = u
        BY <1>2, <3>1 DEF ServesOK
      <4>2. welcomed' = welcomed
        BY <1>9, <2>3
      <4> QED BY <3>1, <4>1, <4>2, AllParts DEF Active
    <3>3. ServesOK(hd, worker', used, inventories, decks)
      BY <1>2, <3>1, <3>2 DEF ServesOK
    <3>4. ASSUME NEW v \in Workers, worker'[v].at \in Posting \ {"undo"} PROVE worker'[v].user # u
      <4>1. worker[v].at \in Posting /\ worker'[v].user = worker[v].user /\ v # w
        BY <1>13, <2>3, <3>4
      <4> QED BY <1>1, <4>1, AllParts DEF Requests
    <3>5. FillOK(hd, worker', welcomed')
      BY <1>1, <3>2, <3>4 DEF FillOK
    <3> QED BY <2>3, <3>3, <3>5 DEF hd
  <2> QED BY <2>1, <2>2, <2>3
<1>15. Serving'
  <2>1. \A g \in Handlers :
       (ServesOK(handler[g], worker, used, inventories, decks) /\ FillOK(handler[g], worker, welcomed))'
    BY <1>14 DEF ServesOK, FillOK
  <2>2. handler'[h].from = "nobody"
    <3>1. Idle.from = "nobody"
      BY DEF Idle
    <3> QED BY <1>5, <3>1
  <2>3. \A f, g \in Handlers : handler'[f].from # "nobody" /\ handler'[f].from = handler'[g].from => f = g
    BY <1>6, <2>2, AllParts DEF Serving
  <2> QED BY <2>1, <2>3 DEF Serving
<1>16. Whole'
  <2>1. \A v \in welcomed' : users[v] # NoEmail /\ inventories[v] # NoRow /\ decks[v] # NoRow
    BY <1>1, <1>9, <1>10, AllParts DEF Whole
  <2>2. ASSUME faults' = 0, NEW v \in Users, users[v] # NoEmail, v \notin welcomed'
        PROVE  \E x \in Workers : worker'[x].at \in Posting /\ worker'[x].user = v
    <3>1. faults = 0 /\ v \notin welcomed
      BY <1>5, <1>10, <2>2
    <3>2. PICK x \in Workers : worker[x].at \in Posting /\ worker[x].user = v
      BY <2>2, <3>1, AllParts DEF Whole
    <3> QED BY <1>4, <1>10, <2>2, <3>2
  <2> QED BY <2>1, <2>2 DEF Whole
<1> QED BY <1>3, <1>11, <1>12, <1>15, <1>16

\* The requests of a registration and their answers.
LEMMA RegistrationKept ==
  ASSUME WholeInv, IInv', NEW w \in Workers,
         \/ PostInventory(w) \/ PostDeck(w)
         \/ \E h \in Handlers : InventoryMade(w, h) \/ DeckMade(w, h)
  PROVE  ServiceInv' /\ Accts' /\ Requests' /\ Serving' /\ Whole'
<1>1. CASE PostInventory(w)
  <2>1. Posts(w, "post inventory", "create", "inventory")
    BY <1>1 DEF PostInventory
  <2> QED BY <2>1, PostsKept
<1>2. CASE PostDeck(w)
  <2>1. Posts(w, "post deck", "fill", "deck")
    BY <1>2 DEF PostDeck
  <2> QED BY <2>1, PostsKept
<1>3. ASSUME NEW h \in Handlers, InventoryMade(w, h)
      PROVE  ServiceInv' /\ Accts' /\ Requests' /\ Serving' /\ Whole'
  <2>1. PICK answer \in Answer :
          /\ HearsOf(w, h, answer)
          /\ Goes(w, IF answer = "yes" THEN "post deck" ELSE "undo")
    BY <1>3 DEF InventoryMade
  <2> DEFINE place == IF answer = "yes" THEN "post deck" ELSE "undo"
             new == [worker[w] EXCEPT !.at = place]
  <2>2. /\ worker[w].at = "inventory" /\ worker' = [worker EXCEPT ![w] = new]
        /\ UNCHANGED <<inventories, decks, filler, users, used, sessionKey, welcomed>>
    BY <1>3, <2>1 DEF InventoryMade, Goes
  <2>3. new.at = place /\ new.user = worker[w].user /\ new.does = worker[w].does
    BY AllParts DEF Worker
  <2>4. new.at = IF worker[w].at = "inventory" /\ answer = "yes" THEN "post deck" ELSE "undo"
    BY <2>2, <2>3
  <2> HIDE DEF new
  <2> QED BY <2>1, <2>2, <2>3, <2>4, HeardHere
<1>4. ASSUME NEW h \in Handlers, DeckMade(w, h)
      PROVE  ServiceInv' /\ Accts' /\ Requests' /\ Serving' /\ Whole'
  <2>1. PICK answer \in Answer :
          /\ HearsOf(w, h, answer)
          /\ IF answer = "yes"
             THEN Replies(w, "yes") /\ welcomed' = welcomed \cup {worker[w].user}
             ELSE Goes(w, "undo") /\ UNCHANGED welcomed
    BY <1>4 DEF DeckMade
  <2>2. /\ worker[w].at = "deck"
        /\ UNCHANGED <<inventories, decks, filler, users, used, sessionKey>>
    BY <1>4 DEF DeckMade
  <2>3. CASE answer = "yes"
    <3> DEFINE new == Replied(worker[w], "yes")
    <3>1. worker' = [worker EXCEPT ![w] = new] /\ welcomed' = welcomed \cup {worker[w].user}
      BY <2>1, <2>3 DEF Replies
    <3>2. new = Replied(worker[w], "yes")
      OBVIOUS
    <3> HIDE DEF new
    <3> QED BY <2>1, <2>2, <2>3, <3>1, <3>2, HeardHere
  <2>4. CASE answer # "yes"
    <3> DEFINE new == [worker[w] EXCEPT !.at = "undo"]
    <3>1. worker' = [worker EXCEPT ![w] = new] /\ welcomed' = welcomed
      BY <2>1, <2>4 DEF Goes
    <3>2. new.at = "undo" /\ new.user = worker[w].user /\ new.does = worker[w].does
      BY AllParts DEF Worker
    <3>3. new.at = IF worker[w].at = "inventory" /\ answer = "yes" THEN "post deck" ELSE "undo"
      BY <2>4, <3>2
    <3> HIDE DEF new
    <3> QED BY <2>1, <2>2, <3>1, <3>2, <3>3, HeardHere
  <2> QED BY <2>3, <2>4
<1> QED BY <1>1, <1>2, <1>3, <1>4

\* The auth service stops: what its handlers of the cards service do, they do for nobody.
LEMMA WorkerStopsKept ==
  ASSUME WholeInv, IInv', NEW w \in Workers, WorkerStops(w)
  PROVE  ServiceInv' /\ Accts' /\ Requests' /\ Serving' /\ Whole'
<1> DEFINE new == Replied(worker[w], "none")
           Left(g) == IF handler[g].from # w THEN handler[g]
                      ELSE IF handler[g].at = "done" THEN Idle
                      ELSE [handler[g] EXCEPT !.from = "nobody"]
<1>1. /\ worker' = [worker EXCEPT ![w] = new] /\ handler' = [g \in Handlers |-> Left(g)]
      /\ faults' \in 0 .. MaxFaults /\ faults' # 0
      /\ UNCHANGED <<inventories, decks, filler, users, used, sessionKey, welcomed>>
  BY FaultIs DEF WorkerStops
<1>2. new.at \notin Posting /\ RequestOK(new, used) /\ PostingOK(new, users, inventories, welcomed)
  BY RepliedOK
<1> HIDE DEF new
<1>3. worker'[w] = new /\ \A v \in Workers : v # w => worker'[v] = worker[v]
  BY <1>1, AllParts
<1>4. ASSUME NEW g \in Handlers
      PROVE  /\ handler[g].from # w => handler'[g] = handler[g]
             /\ handler[g].from = w => handler'[g].from = "nobody"
             /\ handler[g].from = w /\ handler[g].at = "done" => handler'[g] = Idle
             /\ handler[g].from = w /\ handler[g].at # "done" =>
                  handler'[g].at = handler[g].at /\ handler'[g].request = handler[g].request
             /\ Work(handler'[g])
  <2>1. handler[g] \in Handler /\ Work(handler[g]) /\ handler'[g] = Left(g)
    BY <1>1, AllParts DEF ServiceInv
  <2>2. Idle.from = "nobody" /\ Work(Idle)
    BY IdleWorks, AllParts
  <2>3. CASE handler[g].from = w /\ handler[g].at # "done"
    <3> DEFINE hd == [handler[g] EXCEPT !.from = "nobody"]
    <3>1. handler'[g] = hd
      BY <2>1, <2>3
    <3>2. hd \in Handler /\ hd.from = "nobody" /\ hd.at = handler[g].at
          /\ hd.request = handler[g].request /\ hd.copy = handler[g].copy
      BY <2>1, AllParts DEF Handler
    <3> HIDE DEF hd
    <3>3. Work(hd)
      BY <2>1, <3>2 DEF Work
    <3> QED BY <2>3, <3>1, <3>2, <3>3
  <2> QED BY <2>1, <2>2, <2>3
<1>5. ServiceInv'
  <2>1. handler' \in [Handlers -> Handler]
    BY <1>1, <1>4 DEF Work
  <2>2. ServiceTypes'
    BY <1>1, <2>1, AllParts DEF ServiceTypes
  <2>3. (\A g \in Handlers : Work(handler[g]))'
    BY <1>4 DEF Work
  <2> QED BY <1>1, <2>2, <2>3, AllParts DEF ServiceInv, FillerWork
<1>6. Accts'
  BY <1>1, AllParts DEF Accts
<1>7. Requests'
  <2>1. \A v \in Workers : (RequestOK(worker[v], used) /\ PostingOK(worker[v], users, inventories, welcomed))'
    BY <1>1, <1>2, <1>3, AllParts DEF Requests, RequestOK, PostingOK
  <2>2. \A x, y \in Workers :
       worker'[x].at \in Posting /\ worker'[y].at \in Posting /\ worker'[x].user = worker'[y].user => x = y
    BY <1>2, <1>3, AllParts DEF Requests
  <2> QED BY <2>1, <2>2 DEF Requests
<1>8. ASSUME NEW g \in Handlers
      PROVE  ServesOK(handler'[g], worker', used, inventories, decks) /\ FillOK(handler'[g], worker', welcomed)
  <2>1. ServesOK(handler[g], worker, used, inventories, decks) /\ FillOK(handler[g], worker, welcomed)
    BY AllParts DEF Serving
  <2>2. CASE handler[g].from # w
    <3>1. handler'[g] = handler[g]
      BY <1>4, <2>2
    <3>2. handler[g].from \in Workers => worker'[handler[g].from] = worker[handler[g].from]
      BY <1>3, <2>2
    <3>3. ServesOK(handler[g], worker', used, inventories, decks)
      BY <2>1, <3>2 DEF ServesOK
    <3>4. FillOK(handler[g], worker', welcomed)
      BY <1>2, <1>3, <2>1 DEF FillOK
    <3> QED BY <3>1, <3>3, <3>4
  <2>3. CASE handler[g].from = w /\ handler[g].at = "done"
    <3>1. handler'[g].at = "idle" /\ handler'[g].from = "nobody"
      BY <1>4, <2>3 DEF Idle
    <3> QED BY <3>1 DEF ServesOK, FillOK, Active
  <2>4. CASE handler[g].from = w /\ handler[g].at # "done"
    <3> DEFINE hd == handler'[g]
    <3>1. hd.from = "nobody" /\ hd.at = handler[g].at /\ hd.request = handler[g].request
      BY <1>4, <2>4
    <3> HIDE DEF hd
    <3>2. ServesOK(hd, worker', used, inventories, decks)
      BY <2>1, <2>4, <3>1, AllParts DEF ServesOK, Active
    <3>3. FillOK(hd, worker', welcomed)
      <4> SUFFICES ASSUME Active(hd), hd.request.does = "fill"
                   PROVE  /\ hd.request.user \notin welcomed
                          /\ \A v \in Workers : worker'[v].at \in Posting => worker'[v].user # hd.request.user
        BY DEF FillOK
      <4>1. Active(handler[g]) /\ handler[g].request.does = "fill"
        BY <3>1 DEF Active
      <4>2. handler[g].request.user \notin welcomed
        BY <2>1, <4>1 DEF FillOK
      <4>3. worker[w].user = handler[g].request.user /\ worker[w].at = "deck"
        BY <2>1, <2>4, <4>1 DEF ServesOK
      <4>4. ASSUME NEW v \in Workers, worker'[v].at \in Posting
            PROVE  worker'[v].user # handler[g].request.user
        <5>1. v # w /\ worker'[v] = worker[v]
          BY <1>2, <1>3, <4>4
        <5> QED BY <4>3, <4>4, <5>1, AllParts DEF Requests, Posting
      <4> QED BY <3>1, <4>2, <4>4
    <3> QED BY <3>2, <3>3 DEF hd
  <2> QED BY <2>2, <2>3, <2>4
<1>9. Serving'
  <2>1. \A g \in Handlers :
       (ServesOK(handler[g], worker, used, inventories, decks) /\ FillOK(handler[g], worker, welcomed))'
    BY <1>1, <1>8 DEF ServesOK, FillOK
  <2>2. \A f, g \in Handlers : handler'[f].from # "nobody" /\ handler'[f].from = handler'[g].from => f = g
    BY <1>4, AllParts DEF Serving
  <2> QED BY <2>1, <2>2 DEF Serving
<1>10. Whole'
  BY <1>1, AllParts DEF Whole
<1> QED BY <1>5, <1>6, <1>7, <1>9, <1>10

-----------------------------------------------------------------------------
(***************************************************************************)
(* The cards service                                                       *)
(***************************************************************************)

\* Tables only lose the deck of a user whose fill is at work.
LEMMA TablesKept ==
  ASSUME WholeInv, UNCHANGED authVars, faults' = 0 => faults = 0,
         \A u \in Users : inventories[u] # NoRow => inventories'[u] # NoRow,
         \A u \in Users : decks[u] # NoRow =>
           decks'[u] # NoRow \/ \E h \in Handlers : Fills(handler[h], u)
  PROVE  /\ Accts' /\ Requests' /\ Whole'
         /\ \A h \in Handlers : ServesOK(handler[h], worker, used, inventories', decks')
<1>1. UNCHANGED <<users, used, sessionKey, worker, welcomed>>
  BY DEF authVars
<1>2. Accts'
  BY <1>1, AllParts DEF Accts
<1>3. Requests'
  <2>1. \A v \in Workers : RequestOK(worker[v], used) /\ PostingOK(worker[v], users, inventories', welcomed)
    BY AllParts DEF Requests, RequestOK, PostingOK
  <2>2. \A v \in Workers : (RequestOK(worker[v], used) /\ PostingOK(worker[v], users, inventories, welcomed))'
    BY <1>1, <2>1 DEF RequestOK, PostingOK
  <2> QED BY <1>1, <2>2, AllParts DEF Requests
<1>4. ASSUME NEW u \in Users, NEW h \in Handlers, Fills(handler[h], u)
      PROVE  /\ u \notin welcomed
             /\ \A g \in Handlers : handler[g].at = "done" /\ worker[handler[g].from].at = "deck" =>
                  worker[handler[g].from].user # u
  <2>1. ServesOK(handler[h], worker, used, inventories, decks) /\ FillOK(handler[h], worker, welcomed)
        /\ Active(handler[h]) /\ handler[h].request.does = "fill" /\ handler[h].request.user = u
    BY <1>4, AllParts DEF Serving, Fills
  <2>2. u \notin welcomed
    BY <2>1 DEF FillOK
  <2>3. ASSUME NEW g \in Handlers, handler[g].at = "done", worker[handler[g].from].at = "deck",
               worker[handler[g].from].user = u
        PROVE  FALSE
    <3>1. handler[g].from \in Workers /\ g # h
      BY <2>1, <2>3, AllParts DEF Serving, ServesOK, Active
    <3>2. CASE handler[h].from = "nobody"
      BY <2>1, <2>3, <3>1, <3>2 DEF FillOK, Posting
    <3>3. CASE handler[h].from \in Workers
      <4>1. worker[handler[h].from].user = u /\ worker[handler[h].from].at = "deck"
        BY <2>1, <3>3 DEF ServesOK
      <4>2. handler[h].from = handler[g].from
        BY <2>3, <3>1, <3>3, <4>1, AllParts DEF Requests, Posting
      <4> QED BY <3>1, <3>3, <4>2, AllParts DEF Serving
    <3> QED BY <2>1, <3>2, <3>3 DEF ServesOK
  <2> QED BY <2>2, <2>3
<1>5. Whole'
  <2>1. \A u \in welcomed : users[u] # NoEmail /\ inventories'[u] # NoRow /\ decks'[u] # NoRow
    BY <1>4, AllParts DEF Whole, Accts
  <2> QED BY <1>1, <2>1, AllParts DEF Whole
<1>6. ASSUME NEW h \in Handlers
      PROVE  ServesOK(handler[h], worker, used, inventories', decks')
  <2>1. ServesOK(handler[h], worker, used, inventories, decks)
    BY AllParts DEF Serving
  <2>2. handler[h].at = "done" => worker[handler[h].from].user \in Users
    BY <2>1, AllParts DEF ServesOK, Requests, RequestOK, Posting
  <2>3. handler[h].at = "done" /\ handler[h].answer = "yes" =>
          (IF worker[handler[h].from].at = "inventory" THEN inventories' ELSE decks')[worker[handler[h].from].user] # NoRow
    <3> SUFFICES ASSUME handler[h].at = "done", handler[h].answer = "yes"
                 PROVE  (IF worker[handler[h].from].at = "inventory" THEN inventories' ELSE decks')
                          [worker[handler[h].from].user] # NoRow
      OBVIOUS
    <3>1. CASE worker[handler[h].from].at = "inventory"
      BY <2>1, <2>2, <3>1 DEF ServesOK
    <3>2. CASE worker[handler[h].from].at = "deck"
      <4>1. decks[worker[handler[h].from].user] # NoRow
        BY <2>1, <3>2 DEF ServesOK
      <4>2. \A g \in Handlers : ~Fills(handler[g], worker[handler[h].from].user)
        BY <1>4, <2>2, <3>2
      <4> QED BY <2>2, <3>2, <4>1, <4>2
    <3> QED BY <2>1, <3>1, <3>2 DEF ServesOK
  <2> QED BY <2>1, <2>3 DEF ServesOK
<1> QED BY <1>2, <1>3, <1>5, <1>6

\* A handler moves on.
LEMMA ServingKept ==
  ASSUME WholeInv, UNCHANGED authVars, faults' = 0 => faults = 0,
         NEW h \in Handlers, NEW hd,
         handler' = [handler EXCEPT ![h] = hd],
         \A u \in Users : inventories[u] # NoRow => inventories'[u] # NoRow,
         \A u \in Users : decks[u] # NoRow =>
           decks'[u] # NoRow \/ Fills(handler[h], u),
         hd.from = handler[h].from,
         ServesOK(hd, worker, used, inventories', decks') /\ FillOK(hd, worker, welcomed)
  PROVE  Accts' /\ Requests' /\ Serving' /\ Whole'
<1>1. /\ Accts' /\ Requests' /\ Whole'
      /\ \A g \in Handlers : ServesOK(handler[g], worker, used, inventories', decks')
  BY TablesKept
<1>2. UNCHANGED <<users, used, sessionKey, worker, welcomed>>
  BY DEF authVars
<1>3. handler'[h] = hd /\ \A g \in Handlers : g # h => handler'[g] = handler[g]
  BY AllParts
<1>4. \A g \in Handlers : ServesOK(handler'[g], worker, used, inventories', decks')
                          /\ FillOK(handler'[g], worker, welcomed)
  BY <1>1, <1>3, AllParts DEF Serving
<1>5. \A g \in Handlers :
       (ServesOK(handler[g], worker, used, inventories, decks) /\ FillOK(handler[g], worker, welcomed))'
  BY <1>2, <1>4 DEF ServesOK, FillOK
<1>6. \A f, g \in Handlers : handler'[f].from # "nobody" /\ handler'[f].from = handler'[g].from => f = g
  BY <1>3, AllParts DEF Serving
<1> QED BY <1>1, <1>5, <1>6 DEF Serving

\* It answers: with success only if the row is there.
LEMMA ServingAnswers ==
  ASSUME WholeInv, UNCHANGED authVars, faults' = 0 => faults = 0,
         NEW h \in Handlers, NEW answer \in Answer, Answers(h, answer), Active(handler[h]),
         \A u \in Users : inventories[u] # NoRow => inventories'[u] # NoRow,
         \A u \in Users : decks[u] # NoRow =>
           decks'[u] # NoRow \/ Fills(handler[h], u),
         answer = "yes" =>
           (IF handler[h].request.does = "create" THEN inventories' ELSE decks')[UserOf(h)] # NoRow
  PROVE  Accts' /\ Requests' /\ Serving' /\ Whole'
<1> DEFINE hd == Answered(handler[h], answer, NoRow)
<1>1. handler' = [handler EXCEPT ![h] = hd] /\ handler[h] \in Handler
  BY AllParts DEF Answers
<1>2. ServesOK(handler[h], worker, used, inventories, decks)
  BY AllParts DEF Serving
<1>3. CASE handler[h].from = "nobody"
  <2>1. hd = Idle
    BY <1>3 DEF Answered
  <2>2. hd.at = "idle" /\ hd.from = "nobody"
    BY <2>1 DEF Idle
  <2> HIDE DEF hd
  <2>3. ServesOK(hd, worker, used, inventories', decks') /\ FillOK(hd, worker, welcomed)
    BY <2>2 DEF ServesOK, FillOK, Active
  <2> QED BY <1>1, <1>3, <2>2, <2>3, ServingKept
<1>4. CASE handler[h].from # "nobody"
  <2>1. hd.at = "done" /\ hd.from = handler[h].from /\ hd.answer = answer
    BY <1>1, <1>4, AnsweredWorks, AllParts
  <2> HIDE DEF hd
  <2>2. /\ hd.from \in Workers /\ worker[hd.from].user = UserOf(h)
        /\ worker[hd.from].at = IF handler[h].request.does = "create" THEN "inventory" ELSE "deck"
    BY <1>2, <1>4, <2>1 DEF ServesOK, UserOf
  <2>3. ServesOK(hd, worker, used, inventories', decks') /\ FillOK(hd, worker, welcomed)
    BY <1>4, <2>1, <2>2 DEF ServesOK, FillOK, Active
  <2> QED BY <1>1, <2>1, <2>3, ServingKept
<1> QED BY <1>3, <1>4

\* All of the cards service: only the fill of a registration takes a deck away, and it
\* has not been answered then.
LEMMA CardsKept ==
  ASSUME WholeInv, CardsNext
  PROVE  ServiceInv' /\ Accts' /\ Requests' /\ Serving' /\ Whole'
<1>1. UNCHANGED authVars
  BY DEF CardsNext
<1>2. UNCHANGED <<users, used, sessionKey, worker, welcomed>>
  BY <1>1 DEF authVars
<1>3. ServiceInv'
  BY ServiceMovesKept, AllParts DEF CardsNext, ServiceMoves
<1>4. CASE FillerStep \/ FillerStops
  <2>1. UNCHANGED <<inventories, handler, faults>>
    BY <1>4 DEF FillerStep, FillerStarts, FillerInserts, FillerEnds, FillerLooks, FillerStops
  <2>2. ASSUME NEW u \in Users, decks[u] # NoRow PROVE decks'[u] # NoRow
    <3>1. CASE UNCHANGED decks
      BY <2>2, <3>1
    <3>2. CASE ~UNCHANGED decks
      <4>1. decks[filler.user] = NoRow
            /\ decks' = [decks EXCEPT ![filler.user] = BuildDeckCounts(filler.rows[filler.user])]
        BY <1>4, <3>2 DEF FillerStep, FillerStarts, FillerInserts, FillerEnds, FillerLooks, FillerStops
      <4> QED BY <2>2, <4>1, AllParts DEF Table
    <3> QED BY <3>1, <3>2
  <2>3. /\ Accts' /\ Requests' /\ Whole'
        /\ \A g \in Handlers : ServesOK(handler[g], worker, used, inventories', decks')
    BY <1>1, <2>1, <2>2, TablesKept
  <2>4. \A g \in Handlers :
       (ServesOK(handler[g], worker, used, inventories, decks) /\ FillOK(handler[g], worker, welcomed))'
    BY <1>2, <2>1, <2>3, AllParts DEF Serving, ServesOK, FillOK
  <2>5. Serving'
    BY <2>1, <2>4, AllParts DEF Serving
  <2> QED BY <1>3, <2>3, <2>5
<1>5. ASSUME NEW h \in Handlers, HandlerStep(h) \/ Fails(h)
      PROVE  Accts' /\ Requests' /\ Serving' /\ Whole'
  <2>1. /\ ServesOK(handler[h], worker, used, inventories, decks) /\ FillOK(handler[h], worker, welcomed)
        /\ handler[h] \in Handler /\ "yes" \in Answer /\ "no" \in Answer /\ "lost" \in Answer
        /\ handler[h].request \in Request /\ UserOf(h) \in Users
    BY AllParts DEF Serving, Answer, Handler, Request, UserOf
  <2>2. /\ Active(handler[h]) /\ handler[h].request.does \in {"create", "fill"}
        /\ Work(handler[h])
    <3>1. Active(handler[h])
      BY <1>5, <2>1 DEF HandlerStep, ReadRow, SaveStarts, FillStarts, DeleteRow, InsertDeck,
                        InsertInventory, Fails, Active, Handler
    <3> QED BY <2>1, <3>1, AllParts DEF ServesOK, ServiceInv
  <2>3. CASE Fails(h)
    <3>1. PICK answer \in {"no", "lost"} : Answers(h, answer)
      BY <2>3 DEF Fails
    <3>2. UNCHANGED <<inventories, decks>> /\ faults' # 0 /\ answer \in Answer /\ answer # "yes"
      BY <2>1, <2>3, FaultIs DEF Fails
    <3> QED BY <1>1, <2>2, <3>1, <3>2, ServingAnswers
  <2>4. CASE FillStarts(h)
    <3>1. UNCHANGED <<inventories, decks, faults>> /\ handler[h].request.does = "fill"
      BY <2>4 DEF FillStarts
    <3>2. CASE inventories[UserOf(h)] = NoRow
      <4>1. Answers(h, "no")
        BY <2>4, <3>2 DEF FillStarts
      <4> QED BY <1>1, <2>1, <2>2, <3>1, <4>1, ServingAnswers
    <3>3. CASE inventories[UserOf(h)] # NoRow
      <4> DEFINE deck == BuildDeckCounts(inventories[UserOf(h)])
                 hd == [handler[h] EXCEPT !.copy = deck, !.at = "delete"]
      <4>1. handler' = [handler EXCEPT ![h] = hd]
        BY <2>4, <3>3 DEF FillStarts
      <4> HIDE DEF deck
      <4>2. hd.at = "delete" /\ hd.from = handler[h].from /\ hd.request = handler[h].request
        BY <2>1 DEF Handler
      <4> HIDE DEF hd
      <4>3. ServesOK(hd, worker, used, inventories, decks) /\ FillOK(hd, worker, welcomed)
        BY <2>1, <2>2, <3>1, <4>2 DEF ServesOK, FillOK, Active
      <4> QED BY <1>1, <3>1, <4>1, <4>2, <4>3, ServingKept
    <3> QED BY <3>2, <3>3
  <2>5. CASE DeleteRow(h)
    <3> DEFINE hd == [handler[h] EXCEPT !.at = "insert"]
    <3>1. handler[h].at = "delete" /\ handler[h].request.does = "fill"
      BY <2>1, <2>2, <2>5 DEF DeleteRow, ServesOK
    <3>2. /\ decks' = [decks EXCEPT ![UserOf(h)] = NoRow] /\ UNCHANGED <<inventories, faults>>
          /\ handler' = [handler EXCEPT ![h] = hd]
      BY <2>5, <3>1 DEF DeleteRow, Moves
    <3>3. hd.at = "insert" /\ hd.from = handler[h].from /\ hd.request = handler[h].request
      BY <2>1 DEF Handler
    <3> HIDE DEF hd
    <3>4. \A u \in Users : decks[u] # NoRow => decks'[u] # NoRow \/ Fills(handler[h], u)
      BY <2>1, <2>2, <3>1, <3>2, AllParts DEF Table, Fills, UserOf
    <3>5. ServesOK(hd, worker, used, inventories, decks') /\ FillOK(hd, worker, welcomed)
      BY <2>1, <2>2, <3>3 DEF ServesOK, FillOK, Active
    <3> QED BY <1>1, <3>2, <3>3, <3>4, <3>5, ServingKept
  <2>6. CASE InsertDeck(h)
    <3>1. UNCHANGED <<inventories, faults>> /\ handler[h].request.does = "fill"
      BY <2>2, <2>6 DEF InsertDeck
    <3>2. CASE decks[UserOf(h)] = NoRow
      <4>1. /\ decks' = [decks EXCEPT ![UserOf(h)] = handler[h].copy] /\ Answers(h, "yes")
            /\ handler[h].at = "insert"
        BY <2>6, <3>2 DEF InsertDeck
      <4>2. handler[h].copy \in Counts
        BY <2>2, <3>1, <4>1 DEF Work, Fits
      <4>3. decks'[UserOf(h)] # NoRow /\ \A u \in Users : decks[u] # NoRow => decks'[u] # NoRow
        BY <2>1, <4>1, <4>2, AllParts, DeckServiceAssumption DEF Table
      <4> QED BY <1>1, <2>1, <2>2, <3>1, <4>1, <4>3, ServingAnswers
    <3>3. CASE decks[UserOf(h)] # NoRow
      <4>1. UNCHANGED decks /\ Answers(h, "no")
        BY <2>6, <3>3 DEF InsertDeck
      <4> QED BY <1>1, <2>1, <2>2, <3>1, <4>1, ServingAnswers
    <3> QED BY <3>2, <3>3
  <2>7. CASE InsertInventory(h)
    <3>1. UNCHANGED <<decks, faults>> /\ handler[h].request.does = "create"
      BY <2>7 DEF InsertInventory
    <3>2. CASE inventories[UserOf(h)] = NoRow
      <4>1. inventories' # inventories \/ Answers(h, "yes")
        BY <2>7, <3>2 DEF InsertInventory
      <4>2. Answers(h, "yes") /\ \E row : inventories' = [inventories EXCEPT ![UserOf(h)] = row]
        BY <2>7, <3>2 DEF InsertInventory
      <4>3. PICK row : inventories' = [inventories EXCEPT ![UserOf(h)] = row]
        BY <4>2
      <4>4. inventories'[UserOf(h)] # NoRow
        <5>1. row # NoRow
          <6>1. inventories'[UserOf(h)] = IF handler[h].request.cards = NoRow
                               THEN StarterCards
                               ELSE [c \in Cards |-> Smaller(handler[h].request.cards[c], MaxCopies)]
            BY <2>1, <2>7, <3>2, AllParts DEF InsertInventory, Table
          <6>2. inventories'[UserOf(h)] \in Counts
            <7>1. handler[h].request.cards \in Counts =>
                   [c \in Cards |-> Smaller(handler[h].request.cards[c], MaxCopies)] \in Counts
              <8> SUFFICES ASSUME handler[h].request.cards \in Counts
                           PROVE  \A c \in Cards : Smaller(handler[h].request.cards[c], MaxCopies) \in Nat
                BY DEF Counts
              <8>1. \A c \in Cards : handler[h].request.cards[c] \in Nat
                BY DEF Counts
              <8> QED BY <8>1, DeckServiceAssumption DEF Smaller
            <7> QED BY <2>1, <6>1, <7>1, StarterType DEF Request
          <6> QED BY <2>1, <4>3, <6>2, AllParts, DeckServiceAssumption DEF Table
        <5> QED BY <2>1, <4>3, <5>1, AllParts DEF Table
      <4>5. \A u \in Users : inventories[u] # NoRow => inventories'[u] # NoRow
        BY <2>1, <3>2, <4>3, AllParts DEF Table
      <4> QED BY <1>1, <2>1, <2>2, <3>1, <4>2, <4>4, <4>5, ServingAnswers
    <3>3. CASE inventories[UserOf(h)] # NoRow
      <4>1. UNCHANGED inventories /\ Answers(h, "no")
        BY <2>7, <3>3 DEF InsertInventory
      <4> QED BY <1>1, <2>1, <2>2, <3>1, <4>1, ServingAnswers
    <3> QED BY <3>2, <3>3
  <2>8. ~ReadRow(h) /\ ~SaveStarts(h)
    BY <2>2 DEF ReadRow, SaveStarts
  <2> QED BY <1>5, <2>3, <2>4, <2>5, <2>6, <2>7, <2>8 DEF HandlerStep
<1> QED BY <1>3, <1>4, <1>5 DEF CardsNext

-----------------------------------------------------------------------------
(***************************************************************************)
(* The invariant                                                           *)
(***************************************************************************)

\* The invariant holds at the start.
LEMMA InitWhole ==
  ASSUME Init
  PROVE  WholeInv
<1>1. /\ inventories = NobodyHasOne /\ decks = NobodyHasOne
      /\ handler = [h \in Handlers |-> Idle] /\ filler = FillerOff /\ faults = 0
      /\ users = [u \in Users |-> NoEmail] /\ used = {} /\ welcomed = {}
      /\ sessionKey = [s \in Sessions |-> NoUser] /\ worker = [w \in Workers |-> Free]
  BY DEF Init
<1>2. NobodyHasOne \in Table /\ \A u \in Users : NobodyHasOne[u] = NoRow
  BY DEF NobodyHasOne, Table
<1>3. filler \in Filler /\ filler.at = "off" /\ filler.todo = {}
  <2>1. (CHOOSE u \in Users : TRUE) \in Users
    BY AccountsAssumption
  <2> QED BY <1>1, <1>2, <2>1 DEF FillerOff, Filler
<1>4. \A h \in Handlers : handler[h] = Idle
  BY <1>1
<1>5. Idle \in Handler /\ Work(Idle) /\ Idle.at = "idle" /\ Idle.from = "nobody"
  BY <1>3, IdleWorks
<1>6. faults \in 0 .. MaxFaults
  BY <1>1, DeckServiceAssumption
<1>7. ServiceInv
  <2>1. handler \in [Handlers -> Handler]
    BY <1>1, <1>5
  <2> QED BY <1>1, <1>2, <1>3, <1>4, <1>5, <1>6, <2>1 DEF ServiceInv, ServiceTypes, FillerWork
<1>8. Accts
  BY <1>1 DEF Accts
<1>9. \A w \in Workers : worker[w] = Free
  BY <1>1
<1>10. Requests
  <2>1. \A w \in Workers : worker[w].at \notin Posting
    BY <1>9, FreeOK DEF Posting
  <2> QED BY <1>9, <2>1, FreeOK DEF Requests
<1>11. Serving
  BY <1>4, <1>5 DEF Serving, ServesOK, FillOK, Active
<1>12. Whole
  BY <1>1 DEF Whole
<1> QED BY <1>7, <1>8, <1>10, <1>11, <1>12, InitIInv DEF WholeInv

\* What leaves the cards service alone, but for the count of faults.
LEMMA ServiceIdles ==
  ASSUME WholeInv, UNCHANGED <<inventories, decks, handler, filler>>, faults' \in 0 .. MaxFaults
  PROVE  ServiceInv'
BY AllParts DEF ServiceInv, ServiceTypes, FillerWork

\* Nothing changes.
LEMMA StutterWhole ==
  ASSUME WholeInv, UNCHANGED vars
  PROVE  ServiceInv' /\ Accts' /\ Requests' /\ Serving' /\ Whole'
<1>1. UNCHANGED <<inventories, decks, handler, filler, faults, users, used, sessionKey, worker, welcomed>>
  BY DEF vars, serviceVars, authVars
<1>2. sessionKey' \in [Sessions -> used \cup {NoUser}]
  BY <1>1, AllParts DEF Accts
<1>3. ServiceInv'
  BY <1>1, ServiceIdles, AllParts
<1> QED BY <1>1, <1>2, <1>3, QuietKeys

\* All of the auth service.
LEMMA WorkerStepWhole ==
  ASSUME WholeInv, IInv', NEW w \in Workers, WorkerStep(w)
  PROVE  ServiceInv' /\ Accts' /\ Requests' /\ Serving' /\ Whole'
<1>1. CASE QuietWork(w)
  <2>1. UNCHANGED <<inventories, decks, handler, filler>> /\ faults' \in 0 .. MaxFaults
    <3>1. CASE CallFails(w)
      BY <3>1, FaultIs DEF CallFails
    <3>2. CASE ~CallFails(w)
      <4>1. UNCHANGED serviceVars
        BY <1>1, <3>2 DEF QuietWork, FindForRegister, Undo, FindForLogin, LookForSession, SetUserKey,
                          SetSessionKey, Guard, GetSession, DeleteKeys
      <4> QED BY <4>1, AllParts DEF serviceVars
    <3> QED BY <3>1, <3>2
  <2>2. ServiceInv'
    BY <2>1, ServiceIdles
  <2> QED BY <1>1, <2>2, QuietWorkKept
<1>2. CASE CreateUser(w)
  <2>1. UNCHANGED <<inventories, decks, handler, filler, faults>>
    BY <1>2 DEF CreateUser, serviceVars
  <2>2. ServiceInv'
    BY <2>1, ServiceIdles, AllParts
  <2> QED BY <1>2, <2>2, CreateUserKept
<1> QED BY <1>1, <1>2, RegistrationKept, WorkerStopsKept DEF WorkerStep, QuietWork

\* All of the clients.
LEMMA ClientStepWhole ==
  ASSUME WholeInv, IInv', NEW c \in Clients, ClientNext(c)
  PROVE  ServiceInv' /\ Accts' /\ Requests' /\ Serving' /\ Whole'
<1>1. UNCHANGED <<inventories, decks, handler, filler>>
  BY DEF ClientNext, Enters, RegisterHeard, LoginHeard, LogOutHeard, LogOut, ClientCrashes,
         serviceVars
<1>2. UNCHANGED faults \/ Fault
  BY DEF ClientNext, Enters, RegisterHeard, LoginHeard, LogOutHeard, LogOut, ClientCrashes,
         serviceVars, ClientHears
<1>3. ServiceInv'
  BY <1>1, <1>2, FaultIs, AllParts, ServiceIdles
<1> QED BY <1>3, ClientKept

\* Every step keeps the invariant.
LEMMA NextWhole ==
  ASSUME WholeInv, [Next]_vars
  PROVE  WholeInv'
<1>1. IInv'
  BY NextIInv DEF WholeInv
<1>2. ServiceInv' /\ Accts' /\ Requests' /\ Serving' /\ Whole'
  <2>1. CASE (\E u \in Users : ExpireUserKey(u)) \/ (\E s \in Sessions : ExpireSessionKey(s))
    <3>1. UNCHANGED <<inventories, decks, handler, filler, faults>>
      BY <2>1 DEF ExpireUserKey, ExpireSessionKey, serviceVars
    <3>2. ServiceInv'
      BY <3>1, ServiceIdles, AllParts
    <3> QED BY <2>1, <3>2, ExpiryKept
  <2> QED BY <1>1, <2>1, StutterWhole, CardsKept, WorkerStepWhole, ClientStepWhole DEF Next
<1> QED BY <1>1, <1>2 DEF WholeInv

\* So it always holds.
LEMMA WholeInductive == Spec => []WholeInv
<1>1. Init => WholeInv
  BY InitWhole
<1>2. WholeInv /\ [Next]_vars => WholeInv'
  BY NextWhole
<1> QED BY <1>1, <1>2, PTL DEF Spec

\* TypeOK of Accounts: a session key of Redis leads to an id that was given, and the
\* handlers of both services hold what their statements need.
THEOREM AccountTypes == Spec => []TypeOK
<1>1. WholeInv => TypeOK
  BY DEF WholeInv, IInv, ServiceInv, Accts, WorkerTypes, SessionTypes, TypeOK
<1> QED BY <1>1, WholeInductive, PTL

\* AccountsAreWhole of Accounts: a registration that user.service.go answered with 201
\* has a user, an inventory and a deck for good, whatever failed, was given up on or
\* crossed it; and while nothing has failed no account is ever left half made.
THEOREM WelcomedForGood == Spec => []AccountsAreWhole
<1>1. WholeInv => AccountsAreWhole
  <2> SUFFICES ASSUME WholeInv, NEW u \in Users,
                      u \in welcomed \/ (users[u] # NoEmail /\ ~Registering(u) /\ faults = 0)
               PROVE  u \in welcomed
    BY AllParts DEF AccountsAreWhole, Whole
  <2> SUFFICES ASSUME NEW w \in Workers, worker[w].at \in Posting, worker[w].user = u
               PROVE  Registering(u)
    BY AllParts DEF Whole
  <2>1. RequestOK(worker[w], used)
    BY AllParts DEF Requests
  <2> QED BY <2>1 DEF RequestOK, Registering
<1> QED BY <1>1, WholeInductive, PTL

=============================================================================
