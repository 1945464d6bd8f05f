---------------------------- MODULE Matchmaking ----------------------------
(***************************************************************************)
(* The lobby of the game server: how client connections are queued, paired *)
(* into pending matches, accepted, started as match sessions, and cleaned  *)
(* up when a client disconnects.                                           *)
(*                                                                         *)
(*   server/src/core/Matchmaker.cpp      the player queue (queueMutex)     *)
(*   server/src/core/MatchManager.cpp    pending and active matches (mutex)*)
(*   server/src/core/GameServer.cpp      the callbacks that join the two   *)
(*   server/src/net/PlayerConnection.cpp one read thread per client        *)
(*   server/src/net/TcpServer.cpp        the disconnect thread             *)
(*   server/src/game/MatchSession.cpp    start and end of a game thread    *)
(*   client/src/states/Waiting.cpp, Connecting.cpp, Playing.cpp: the peer  *)
(*                                                                         *)
(* One action is one critical section of a mutex, or one stretch of a      *)
(* thread between two of them.  What happens inside a match (cards, lanes, *)
(* health) is the subject of MatchSession.tla; here a match ends by any    *)
(* outcome at any time.                                                    *)
(***************************************************************************)
EXTENDS Naturals, Sequences

CONSTANTS
  Players,      \* the client connections; a client that reconnects is another one
  None,         \* no player: a free mutex, an idle disconnect thread
  Leavers,      \* the clients that may go away
  Stranded,     \* the clients whose deck download may fail at MATCH_START
  MaxAccepts,   \* bound: clicks on Accept for one MATCH_FOUND
  MaxRequeues   \* bound: clicks on Requeue by one client

ASSUME MatchmakingAssumption ==
  /\ None \notin Players
  /\ Leavers \subseteq Players
  /\ Stranded \subseteq Players
  /\ MaxAccepts \in Nat
  /\ MaxRequeues \in Nat

VARIABLES
  \* clients
  ui,           \* the client's screen
  accepts,      \* clicks on Accept since the last MATCH_FOUND
  requeues,     \* clicks on Requeue
  \* connections
  c2s, s2c,     \* what is under way in each direction, oldest first
  connState,    \* PlayerConnection::state
  alive,        \* PlayerConnection::running, what isAlive() returns
  \* Matchmaker
  playerQueue,  \* Matchmaker::playerQueue
  queueMutex,   \* the read thread that holds Matchmaker::queueMutex
  \* MatchManager
  matches,      \* every PendingMatch object created; its index is its identity
  pending,      \* pendingMatches: their indices; the vector is in index order
  sessions,     \* every MatchSession created; its index is its identity
  active,       \* activeMatches: indices of sessions
  \* read threads: where each one is, and its local variables
  pc, who, match, session, back,
  \* TcpServer
  dcQueue,      \* disconnectQueue
  dcCurrent     \* the connection the disconnect thread is stopping

clientVars == <<ui, accepts, requeues>>
netVars    == <<c2s, s2c, connState, alive>>
queueVars  == <<playerQueue, queueMutex>>
matchVars  == <<matches, pending, sessions, active>>
threadVars == <<pc, who, match, session, back>>
dcVars     == <<dcQueue, dcCurrent>>
vars == <<clientVars, netVars, queueVars, matchVars, threadVars, dcVars>>

Screen == {"New", "Waiting", "Found", "Playing", "Over", "Left"}

ClientMessage == {"player_info", "MATCH_ACCEPT", "QUEUE"}

ServerMessage == {"MATCH_FOUND", "MATCH_CANCELLED", "MATCH_START",
                  "OPPONENT_DISCONNECTED", "MATCH_WON", "MATCH_LOST"}

\* Where a read thread can be: blocked in SSL_read, at one of the critical
\* sections of a handler, or past readLoop.
Location == {"idle", "enqueue", "pair", "foundA", "foundB", "accept", "start",
             "dcRemove", "dcFind", "dcCancel", "dcNotify", "done"}

Phase == {"built", "spawned", "running", "rewarding", "told", "left", "ended"}

PendingMatch == [a : Players, b : Players, aAccepted : BOOLEAN, bAccepted : BOOLEAN]

MatchSession == [match : Nat \ {0}, phase : Phase, winner : Players \cup {None}]

ClientTypes ==
  /\ ui \in [Players -> Screen]
  /\ accepts \in [Players -> 0 .. MaxAccepts]
  /\ requeues \in [Players -> 0 .. MaxRequeues]

NetTypes ==
  /\ c2s \in [Players -> Seq(ClientMessage)]
  /\ s2c \in [Players -> Seq(ServerMessage)]
  /\ connState \in [Players -> {"Waiting", "Playing"}]
  /\ alive \in [Players -> BOOLEAN]

QueueTypes ==
  /\ playerQueue \in Seq(Players)
  /\ queueMutex \in Players \cup {None}

MatchTypes ==
  /\ matches \in Seq(PendingMatch)
  /\ pending \subseteq 1 .. Len(matches)
  /\ sessions \in Seq(MatchSession)
  /\ active \subseteq 1 .. Len(sessions)

ThreadTypes ==
  /\ pc \in [Players -> Location]
  /\ who \in [Players -> Players]
  /\ match \in [Players -> 0 .. Len(matches)]
  /\ session \in [Players -> 0 .. Len(sessions)]
  /\ back \in [Players -> {"idle", "done"}]

DcTypes ==
  /\ dcQueue \in Seq(Players)
  /\ dcCurrent \in Players \cup {None}

\* Every variable holds what the code's containers and fields hold; in particular
\* the match a thread looked up is one of those that were made, never the end of
\* pendingMatches (MatchManager::findPending).
TypeOK ==
  /\ ClientTypes
  /\ NetTypes
  /\ QueueTypes
  /\ MatchTypes
  /\ ThreadTypes
  /\ DcTypes

Init ==
  /\ ui = [p \in Players |-> "New"]
  /\ accepts = [p \in Players |-> 0]
  /\ requeues = [p \in Players |-> 0]
  /\ c2s = [p \in Players |-> <<>>]
  /\ s2c = [p \in Players |-> <<>>]
  /\ connState = [p \in Players |-> "Waiting"]
  /\ alive = [p \in Players |-> FALSE]
  /\ playerQueue = <<>>
  /\ queueMutex = None
  /\ matches = <<>>
  /\ pending = {}
  /\ sessions = <<>>
  /\ active = {}
  /\ pc = [p \in Players |-> "idle"]
  /\ who = [p \in Players |-> p]
  /\ match = [p \in Players |-> 0]
  /\ session = [p \in Players |-> 0]
  /\ back = [p \in Players |-> "idle"]
  /\ dcQueue = <<>>
  /\ dcCurrent = None

-----------------------------------------------------------------------------
(***************************************************************************)
(* Helpers                                                                 *)
(***************************************************************************)

\* PlayerConnection::send: what is sent to a client that has gone is lost.
Send(box, p, msg) ==
  IF ui[p] = "Left" THEN box ELSE [box EXCEPT ![p] = Append(@, msg)]

\* Matchmaker::removePlayer copies the queue without the player.
Without(queue, p) ==
  LET kept[i \in 0 .. Len(queue)] ==
        IF i = 0 THEN <<>>
        ELSE IF queue[i] = p THEN kept[i - 1] ELSE Append(kept[i - 1], queue[i])
  IN  kept[Len(queue)]

\* MatchManager::findPending: the oldest pending match of the player, or 0.
PendingOf(p) == {m \in pending : p \in {matches[m].a, matches[m].b}}

\* Mutant: the end of the vector taken for a match.
FindPendingPastEnd(p) ==
  IF PendingOf(p) = {} THEN Len(matches) + 1
  ELSE CHOOSE m \in PendingOf(p) : \A n \in PendingOf(p) : m <= n

FindPending(p) ==
  IF PendingOf(p) = {} THEN 0
  ELSE CHOOSE m \in PendingOf(p) : \A n \in PendingOf(p) : m <= n

\* MatchManager::removePending. Mutant: the match stays.
Kept(m) == pending
Removed(m) == pending \ {m}

\* The loop of tryCreateMatch. Mutant: an off-by-one.
PairsLeftLate(queue) == Len(queue) > 2
PairsLeft(queue) == Len(queue) >= 2

\* What it pops. Mutant: the front read twice before it is popped.
FrontTwice(queue) == <<queue[1], queue[1]>>
Front(queue) == <<queue[1], queue[2]>>

\* Mutant of Ready below: one acceptance is enough.
EitherReady(m) == m.aAccepted \/ m.bAccepted
Ready(m) == m.aAccepted /\ m.bAccepted

Goto(p, loc) == pc' = [pc EXCEPT ![p] = loc]

\* A handler returns: the thread goes on reading, or ends if it was the last one.
Return(p) ==
  /\ Goto(p, back[p])
  /\ who' = [who EXCEPT ![p] = p]
  /\ match' = [match EXCEPT ![p] = 0]
  /\ UNCHANGED <<session, back>>

\* The end of a handler that holds queueMutex. Mutant: it stays locked.
ReturnLocked(p) == UNCHANGED queueMutex /\ Return(p)
Unlock(p) == queueMutex' = None /\ Return(p)

-----------------------------------------------------------------------------
(***************************************************************************)
(* Clients                                                                 *)
(***************************************************************************)

\* TcpServer::acceptClients makes the connection and starts its read thread;
\* Connecting::update sends player_info and shows the Waiting screen.
ClientConnect(p) ==
  /\ ui[p] = "New"
  /\ ui' = [ui EXCEPT ![p] = "Waiting"]
  /\ alive' = [alive EXCEPT ![p] = TRUE]
  /\ c2s' = [c2s EXCEPT ![p] = Append(@, "player_info")]
  /\ UNCHANGED <<accepts, requeues, s2c, connState, queueVars, matchVars,
                 threadVars, dcVars>>

\* Waiting::update and Playing::update take the next message. A client that
\* cannot load the opponent's deck at MATCH_START stays on the Waiting screen.
ScreenAfter(p, msg) ==
  CASE ui[p] \in {"Waiting", "Found"} /\ msg = "MATCH_FOUND" -> {"Found"}
    [] ui[p] \in {"Waiting", "Found"} /\ msg = "MATCH_CANCELLED" -> {"Waiting"}
    [] ui[p] \in {"Waiting", "Found"} /\ msg = "MATCH_START" ->
         IF p \in Stranded THEN {"Playing", ui[p]} ELSE {"Playing"}
    [] ui[p] = "Playing" /\ msg \in {"MATCH_WON", "MATCH_LOST"} -> {"Over"}
    [] OTHER -> {ui[p]}

ClientReceive(p) ==
  /\ ui[p] # "Left"
  /\ s2c[p] # <<>>
  /\ s2c' = [s2c EXCEPT ![p] = Tail(@)]
  /\ \E screen \in ScreenAfter(p, Head(s2c[p])) : ui' = [ui EXCEPT ![p] = screen]
  /\ accepts' = IF Head(s2c[p]) = "MATCH_FOUND" /\ ui[p] \in {"Waiting", "Found"}
                THEN [accepts EXCEPT ![p] = 0] ELSE accepts
  /\ UNCHANGED <<requeues, c2s, connState, alive, queueVars, matchVars,
                 threadVars, dcVars>>

\* Waiting::handleEvents: the button works as long as matchFound is set, also
\* when the player has accepted already.
ClientAccept(p) ==
  /\ ui[p] = "Found"
  /\ accepts[p] < MaxAccepts
  /\ accepts' = [accepts EXCEPT ![p] = @ + 1]
  /\ c2s' = [c2s EXCEPT ![p] = Append(@, "MATCH_ACCEPT")]
  /\ UNCHANGED <<ui, requeues, s2c, connState, alive, queueVars, matchVars,
                 threadVars, dcVars>>

\* Playing::handleEvents on the result screen.
ClientRequeue(p) ==
  /\ ui[p] = "Over"
  /\ requeues[p] < MaxRequeues
  /\ requeues' = [requeues EXCEPT ![p] = @ + 1]
  /\ c2s' = [c2s EXCEPT ![p] = Append(@, "QUEUE")]
  /\ ui' = [ui EXCEPT ![p] = "Waiting"]
  /\ UNCHANGED <<accepts, s2c, connState, alive, queueVars, matchVars,
                 threadVars, dcVars>>

\* Declined, back to the title screen, quit, or a broken connection. What the
\* server has not read yet may be lost.
ClientLeave(p) ==
  /\ p \in Leavers
  /\ ui[p] \notin {"New", "Left"}
  /\ ui' = [ui EXCEPT ![p] = "Left"]
  /\ s2c' = [s2c EXCEPT ![p] = <<>>]
  /\ \E rest \in {c2s[p], <<>>} : c2s' = [c2s EXCEPT ![p] = rest]
  /\ UNCHANGED <<accepts, requeues, connState, alive, queueVars, matchVars,
                 threadVars, dcVars>>

-----------------------------------------------------------------------------
(***************************************************************************)
(* Read threads: PlayerConnection::readLoop and dispatchMessage, which     *)
(* picks the handler by the connection's state, and the handlers           *)
(* GameServer::start registers.                                            *)
(***************************************************************************)

Reads(p, state, msgs) ==
  /\ pc[p] = "idle"
  /\ c2s[p] # <<>>
  /\ connState[p] = state
  /\ Head(c2s[p]) \in msgs
  /\ c2s' = [c2s EXCEPT ![p] = Tail(@)]
  /\ UNCHANGED <<clientVars, s2c, connState, alive, queueVars, matchVars, dcVars>>

\* player_info and QUEUE: on to Matchmaker::enqueuePlayer(p).
ReadEnqueue(p) ==
  /\ Reads(p, "Waiting", {"player_info", "QUEUE"})
  /\ Goto(p, "enqueue")
  /\ UNCHANGED <<who, match, session, back>>

\* MATCH_ACCEPT: MatchManager::onAccept looks the match up, and forgets the
\* message when there is none.
ReadAccept(p) ==
  /\ Reads(p, "Waiting", {"MATCH_ACCEPT"})
  /\ match' = [match EXCEPT ![p] = FindPending(p)]
  /\ IF FindPending(p) = 0 THEN UNCHANGED pc ELSE Goto(p, "accept")
  /\ UNCHANGED <<who, session, back>>

\* In the Playing state every message is an action for the match; it makes
\* nothing of one that is not a game command.
ReadInGame(p) ==
  /\ Reads(p, "Playing", ClientMessage)
  /\ UNCHANGED threadVars

\* SSL_read fails once the client has gone: onDisconnected starts with
\* TcpServer::enqueueDisconnect.
ReadEof(p) ==
  /\ pc[p] = "idle"
  /\ ui[p] = "Left"
  /\ c2s[p] = <<>>
  /\ dcQueue' = Append(dcQueue, p)
  /\ Goto(p, "dcRemove")
  /\ back' = [back EXCEPT ![p] = "done"]
  /\ UNCHANGED <<clientVars, netVars, queueVars, matchVars, who, match, session,
                 dcCurrent>>

-----------------------------------------------------------------------------
(***************************************************************************)
(* Matchmaker                                                              *)
(***************************************************************************)

\* enqueuePlayer: with queueMutex held until the queue has been paired off.
EnqueuePlayer(p) ==
  /\ pc[p] = "enqueue"
  /\ queueMutex = None
  /\ playerQueue' = Append(playerQueue, who[p])
  /\ IF PairsLeft(playerQueue')
     THEN /\ queueMutex' = p
          /\ Goto(p, "pair")
          /\ UNCHANGED <<who, match, session, back>>
     ELSE /\ UNCHANGED queueMutex
          /\ Return(p)
  /\ UNCHANGED <<clientVars, netVars, matchVars, dcVars>>

\* tryCreateMatch pops two players; onPairFound makes them a pending match.
TryCreateMatch(p) ==
  /\ pc[p] = "pair"
  /\ playerQueue' = SubSeq(playerQueue, 3, Len(playerQueue))
  /\ matches' = Append(matches, [a |-> Front(playerQueue)[1],
                                 b |-> Front(playerQueue)[2],
                                 aAccepted |-> FALSE, bAccepted |-> FALSE])
  /\ pending' = pending \cup {Len(matches')}
  /\ match' = [match EXCEPT ![p] = Len(matches')]
  /\ Goto(p, "foundA")
  /\ UNCHANGED <<clientVars, netVars, queueMutex, sessions, active, who, session,
                 back, dcVars>>

\* onPairFound tells the first player, then the second, still under queueMutex.
SendMatchFoundA(p) ==
  /\ pc[p] = "foundA"
  /\ s2c' = Send(s2c, matches[match[p]].a, "MATCH_FOUND")
  /\ Goto(p, "foundB")
  /\ UNCHANGED <<clientVars, c2s, connState, alive, queueVars, matchVars, who,
                 match, session, back, dcVars>>

SendMatchFoundB(p) ==
  /\ pc[p] = "foundB"
  /\ s2c' = Send(s2c, matches[match[p]].b, "MATCH_FOUND")
  /\ IF PairsLeft(playerQueue)
     THEN /\ Goto(p, "pair")
          /\ UNCHANGED <<queueMutex, who, match, session, back>>
     ELSE Unlock(p)
  /\ UNCHANGED <<clientVars, c2s, connState, alive, playerQueue, matchVars, dcVars>>

\* onDisconnected: Matchmaker::removePlayer.
RemovePlayer(p) ==
  /\ pc[p] = "dcRemove"
  /\ queueMutex = None
  /\ playerQueue' = Without(playerQueue, p)
  /\ Goto(p, "dcFind")
  /\ UNCHANGED <<clientVars, netVars, queueMutex, matchVars, who, match, session,
                 back, dcVars>>

-----------------------------------------------------------------------------
(***************************************************************************)
(* MatchManager                                                            *)
(***************************************************************************)

\* onAccept, the locked part, on the match found before the lock was taken;
\* startMatch builds the session in the same critical section.
OnAccept(p) ==
  /\ pc[p] = "accept"
  /\ LET m == match[p]
         accepted == [matches[m] EXCEPT !.aAccepted = @ \/ matches[m].a = p,
                                        !.bAccepted = @ \/ matches[m].b = p]
     IN  /\ matches' = [matches EXCEPT ![m] = accepted]
         /\ IF Ready(accepted)
            THEN /\ sessions' = Append(sessions, [match |-> m, phase |-> "built",
                                                  winner |-> None])
                 /\ active' = active \cup {Len(sessions')}
                 /\ pending' = Removed(m)
                 /\ session' = [session EXCEPT ![p] = Len(sessions')]
                 /\ Goto(p, "start")
                 /\ UNCHANGED <<who, match, back>>
            ELSE /\ UNCHANGED <<pending, sessions, active>>
                 /\ Return(p)
  /\ UNCHANGED <<clientVars, netVars, queueVars, dcVars>>

\* onAccept, after the lock: MatchSession::start puts both connections into the
\* Playing state and spawns the game thread.  That the system has no thread left to
\* give (the catch, which leaves both players in a match nobody plays) is left out.
StartSession(p) ==
  /\ pc[p] = "start"
  /\ LET m == matches[sessions[session[p]].match]
     IN  connState' = [connState EXCEPT ![m.a] = "Playing", ![m.b] = "Playing"]
  /\ sessions' = [sessions EXCEPT ![session[p]].phase = "spawned"]
  /\ session' = [session EXCEPT ![p] = 0]
  /\ match' = [match EXCEPT ![p] = 0]
  /\ Goto(p, "idle")
  /\ UNCHANGED <<clientVars, c2s, s2c, alive, queueVars, matches, pending, active,
                 who, back, dcVars>>

\* onPlayerDisconnected: look up, then remove, then tell the other player, then
\* put the other player back into the queue; the mutex is free in between.
FindDisconnected(p) ==
  /\ pc[p] = "dcFind"
  /\ match' = [match EXCEPT ![p] = FindPending(p)]
  /\ Goto(p, IF FindPending(p) = 0 THEN "done" ELSE "dcCancel")
  /\ UNCHANGED <<clientVars, netVars, queueVars, matchVars, who, session, back,
                 dcVars>>

RemovePending(p) ==
  /\ pc[p] = "dcCancel"
  /\ pending' = Removed(match[p])
  /\ Goto(p, "dcNotify")
  /\ UNCHANGED <<clientVars, netVars, queueVars, matches, sessions, active, who,
                 match, session, back, dcVars>>

Other(m, p) == IF matches[m].a = p THEN matches[m].b ELSE matches[m].a

\* Mutant: the other player is told and not queued again.
SendMatchCancelledOnly(p) ==
  /\ pc[p] = "dcNotify"
  /\ s2c' = Send(s2c, Other(match[p], p), "MATCH_CANCELLED")
  /\ match' = [match EXCEPT ![p] = 0]
  /\ Goto(p, "done")
  /\ UNCHANGED <<clientVars, c2s, connState, alive, queueVars, matchVars, who,
                 session, back, dcVars>>

SendMatchCancelled(p) ==
  /\ pc[p] = "dcNotify"
  /\ s2c' = Send(s2c, Other(match[p], p), "MATCH_CANCELLED")
  /\ who' = [who EXCEPT ![p] = Other(match[p], p)]
  /\ match' = [match EXCEPT ![p] = 0]
  /\ Goto(p, "enqueue")
  /\ UNCHANGED <<clientVars, c2s, connState, alive, queueVars, matchVars, session,
                 back, dcVars>>

-----------------------------------------------------------------------------
(***************************************************************************)
(* TcpServer::disconnectLoop: one thread, one connection at a time.        *)
(***************************************************************************)

\* removeClient; PlayerConnection::stop clears running and frees the socket.
TakeDisconnect ==
  /\ dcCurrent = None
  /\ dcQueue # <<>>
  /\ dcCurrent' = Head(dcQueue)
  /\ dcQueue' = Tail(dcQueue)
  /\ alive' = [alive EXCEPT ![Head(dcQueue)] = FALSE]
  /\ UNCHANGED <<clientVars, c2s, s2c, connState, queueVars, matchVars, threadVars>>

\* stop() joins the read thread, which may still be in onDisconnected.
JoinReadThread ==
  /\ dcCurrent # None
  /\ pc[dcCurrent] = "done"
  /\ dcCurrent' = None
  /\ UNCHANGED <<clientVars, netVars, queueVars, matchVars, threadVars, dcQueue>>

-----------------------------------------------------------------------------
(***************************************************************************)
(* Game threads: the beginning and the end of MatchSession::gameLoop.      *)
(***************************************************************************)

PlayerA(s) == matches[sessions[s].match].a
PlayerB(s) == matches[sessions[s].match].b
Loser(s) == IF sessions[s].winner = PlayerA(s) THEN PlayerB(s) ELSE PlayerA(s)

SendMatchStart(s) ==
  /\ sessions[s].phase = "spawned"
  /\ s2c' = Send(Send(s2c, PlayerA(s), "MATCH_START"), PlayerB(s), "MATCH_START")
  /\ sessions' = [sessions EXCEPT ![s].phase = "running"]
  /\ UNCHANGED <<clientVars, c2s, connState, alive, queueVars, matches, pending,
                 active, threadVars, dcVars>>

\* endMatch: running goes to false, the winner is told, and then rewarded by a
\* blocking request to the cards service.
EndMatch(s, winner, box) ==
  /\ sessions' = [sessions EXCEPT ![s].phase = "rewarding", ![s].winner = winner]
  /\ s2c' = Send(box, winner, "MATCH_WON")
  /\ UNCHANGED <<clientVars, c2s, connState, alive, queueVars, matches, pending,
                 active, threadVars, dcVars>>

\* What handleDisconnect looks at. Mutant: the other connection is not checked.
AIsGone(s) == ~ alive[PlayerA(s)]
SomebodyIsGone(s) == ~ (alive[PlayerA(s)] /\ alive[PlayerB(s)])

\* The loop looks for a dead connection before anything else, A's first.
HandleDisconnect(s) ==
  /\ sessions[s].phase = "running"
  /\ SomebodyIsGone(s)
  /\ LET winner == IF alive[PlayerA(s)] THEN PlayerA(s) ELSE PlayerB(s)
     IN  EndMatch(s, winner, IF alive[winner]
                             THEN Send(s2c, winner, "OPPONENT_DISCONNECTED")
                             ELSE s2c)

\* Health down to zero, or a surrender.
GameOver(s, winner) ==
  /\ sessions[s].phase = "running"
  /\ winner \in {PlayerA(s), PlayerB(s)}
  /\ EndMatch(s, winner, s2c)

SendMatchLost(s) ==
  /\ sessions[s].phase = "rewarding"
  /\ s2c' = Send(s2c, Loser(s), "MATCH_LOST")
  /\ sessions' = [sessions EXCEPT ![s].phase = "told"]
  /\ UNCHANGED <<clientVars, c2s, connState, alive, queueVars, matches, pending,
                 active, threadVars, dcVars>>

\* The end of endMatch: both connections go back to the Waiting state.
BackToWaiting(s) ==
  /\ sessions[s].phase = "told"
  /\ connState' = [connState EXCEPT ![PlayerA(s)] = "Waiting", ![PlayerB(s)] = "Waiting"]
  /\ sessions' = [sessions EXCEPT ![s].phase = "left"]
  /\ UNCHANGED <<clientVars, c2s, s2c, alive, queueVars, matches, pending, active,
                 threadVars, dcVars>>

\* The end of gameLoop: onMatchEnd takes the session out of activeMatches.
OnMatchEnd(s) ==
  /\ sessions[s].phase = "left"
  /\ active' = active \ {s}
  /\ sessions' = [sessions EXCEPT ![s].phase = "ended"]
  /\ UNCHANGED <<clientVars, netVars, queueVars, matches, pending, threadVars, dcVars>>

-----------------------------------------------------------------------------
Client(p) ==
  \/ ClientConnect(p)
  \/ ClientReceive(p)
  \/ ClientAccept(p)
  \/ ClientRequeue(p)
  \/ ClientLeave(p)

ReadThread(p) ==
  \/ ReadEnqueue(p)
  \/ ReadAccept(p)
  \/ ReadInGame(p)
  \/ ReadEof(p)
  \/ EnqueuePlayer(p)
  \/ TryCreateMatch(p)
  \/ SendMatchFoundA(p)
  \/ SendMatchFoundB(p)
  \/ RemovePlayer(p)
  \/ OnAccept(p)
  \/ StartSession(p)
  \/ FindDisconnected(p)
  \/ RemovePending(p)
  \/ SendMatchCancelled(p)

DisconnectThread == TakeDisconnect \/ JoinReadThread

Ending(s) ==
  \/ SendMatchLost(s)
  \/ BackToWaiting(s)
  \/ OnMatchEnd(s)

GameThread(s) ==
  \/ SendMatchStart(s)
  \/ HandleDisconnect(s)
  \/ \E winner \in Players : GameOver(s, winner)
  \/ Ending(s)

Next ==
  \/ \E p \in Players : Client(p)
  \/ \E p \in Players : ReadThread(p)
  \/ DisconnectThread
  \/ \E s \in 1 .. Len(sessions) : GameThread(s)

\* Every thread of the server is scheduled; no client is obliged to anything.
Fairness ==
  /\ \A p \in Players : WF_vars(ReadThread(p))
  /\ WF_vars(DisconnectThread)
  /\ WF_vars(\E s \in 1 .. Len(sessions) :
               SendMatchStart(s) \/ HandleDisconnect(s) \/ Ending(s))

Spec == Init /\ [][Next]_vars

FairSpec == Spec /\ Fairness

\* The same with clients that read what the server sends them.
LiveSpec == FairSpec /\ \A p \in Players : WF_vars(ClientReceive(p))

-----------------------------------------------------------------------------
(***************************************************************************)
(* Properties                                                              *)
(***************************************************************************)

PlayersOf(m) == {matches[m].a, matches[m].b}
Queued(p) == \E i \in 1 .. Len(playerQueue) : playerQueue[i] = p
Occurs(box, p, msgs) == \E i \in 1 .. Len(box[p]) : box[p][i] \in msgs

BothAccepted(m) == matches[m].aAccepted /\ matches[m].bAccepted

\* A match that both players have accepted is not pending any more, and a match
\* session exists only for such a match: MatchManager::onAccept decides on flags
\* that two read threads set, on a match each found before it took the lock.
AcceptedByBoth ==
  /\ \A m \in pending : ~ BothAccepted(m)
  /\ \A s \in 1 .. Len(sessions) :
       BothAccepted(sessions[s].match) /\ sessions[s].match \notin pending

\* Whenever queueMutex is free, at most one player is left in the queue: no two
\* players wait side by side (Matchmaker::enqueuePlayer, tryCreateMatch).
NoTwoInQueue == queueMutex = None => Len(playerQueue) <= 1

\* The server holds a place for player p: in the queue, in a pending match, in a
\* match that has not ended, in a thread about to queue it, or in a message that
\* one side has not read.
Placed(p) ==
  \/ Queued(p)
  \/ \E m \in pending : p \in PlayersOf(m)
  \/ \E s \in 1 .. Len(sessions) :
       p \in PlayersOf(sessions[s].match) /\ sessions[s].phase \in {"built", "spawned"}
  \/ \E q \in Players : pc[q] = "enqueue" /\ who[q] = p
  \/ \E q \in Players : pc[q] = "dcNotify" /\ Other(match[q], q) = p
  \/ Occurs(c2s, p, {"player_info", "QUEUE"})
  \/ Occurs(s2c, p, {"MATCH_START"})

\* No client sits on the Waiting screen forgotten by the server, whatever the
\* other clients and the threads that queue, pair, cancel and requeue are doing.
NobodyForgotten ==
  \A p \in Players : ui[p] \in {"Waiting", "Found"} => Placed(p)

\* A match is made of two different clients (Matchmaker::tryCreateMatch pops them
\* one after the other from a queue that does not look for duplicates).
TwoDifferentPlayers == \A m \in 1 .. Len(matches) : matches[m].a # matches[m].b

\* Two clients do not both wait for ever: with fair server threads, and clients
\* that read what they are sent, one of them leaves the Waiting screen.
Waits(p) == ui[p] = "Waiting"
SomebodyGetsAMatch ==
  \A p, q \in Players :
    p # q => (Waits(p) /\ Waits(q)) ~> ~ (Waits(p) /\ Waits(q))

\* A client that has gone is cleaned up: the disconnect thread gets its read
\* thread joined, though that thread queues for queueMutex in the meantime.
GoneIsStopped ==
  \A p \in Players : (pc[p] = "dcRemove") ~> (~ alive[p] /\ dcCurrent # p)

\* "Cleanup is automatically handled upon match completion" (README.md:39): the
\* matches of a stopped connection leave activeMatches.
InActive(p) == \E s \in active : p \in PlayersOf(sessions[s].match)
GoneLeavesMatches ==
  \A p \in Players :
    (ui[p] = "Left" /\ InActive(p)) ~> (ui[p] = "Left" /\ ~ InActive(p))

\* The lobby as its players see it. A match is on from the critical section that
\* builds its session to the moment both connections are Waiting again.
On(s) == sessions[s].phase \notin {"left", "ended"}
Playing(p) == \E s \in 1 .. Len(sessions) : On(s) /\ p \in PlayersOf(sessions[s].match)
Offered(p) == \E m \in pending : p \in PlayersOf(m)

SeatOf(p) ==
  CASE Playing(p) -> "playing"
    [] ~ Playing(p) /\ Offered(p) -> "offered"
    [] ~ Playing(p) /\ ~ Offered(p) /\ Queued(p) -> "waiting"
    [] OTHER -> "away"

MatchOf(p) ==
  CHOOSE m \in 1 .. Len(matches) :
    /\ p \in PlayersOf(m)
    /\ \/ m \in pending
       \/ \E s \in 1 .. Len(sessions) : On(s) /\ sessions[s].match = m

OpponentOf(p) == IF Playing(p) \/ Offered(p) THEN Other(MatchOf(p), p) ELSE None

Seats == INSTANCE Lobby WITH
           seat <- [p \in Players |-> SeatOf(p)],
           opponent <- [p \in Players |-> OpponentOf(p)]

\* While nobody disconnects and nobody accepts twice, the lobby's threads together
\* do no more than seat the players two by two: nobody is in two places, nobody is
\* paired with himself, nobody begins or ends a match without his opponent.
ImplementsLobby == Seats!Spec

=============================================================================
