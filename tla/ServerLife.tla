----------------------------- MODULE ServerLife -----------------------------
(***************************************************************************)
(* The threads of the game server from its start to its shutdown: who opens *)
(* a connection, who reads it, who writes to it, and who takes it down.     *)
(*                                                                         *)
(*   server/src/net/TcpServer.cpp         accept thread, disconnect thread, *)
(*                                        and stop() in the main thread     *)
(*   server/src/net/PlayerConnection.cpp  one read thread per connection    *)
(*   server/src/core/GameServer.cpp       the callbacks, the signal         *)
(*                                                                         *)
(* One action is what a thread does between two points at which it may wait *)
(* or another thread may see the difference.  What is said on a connection  *)
(* is in Matchmaking.tla and MatchSession.tla.                              *)
(***************************************************************************)
EXTENDS Naturals, FiniteSets, SequencesExt

CONSTANTS
  Conns,        \* connections that clients may make
  NoConn

ASSUME ServerLifeAssumption == NoConn \notin Conns

VARIABLES
  peer,             \* the client's end: not yet here, connecting, there, gone
  listening,        \* listenSocket is open
  running,          \* TcpServer::running
  acceptor,         \* acceptThread: its place and connection
  clients,          \* TcpServer::clients
  disconnector,     \* disconnectThread: its place and connection
  disconnectQueue,
  disconnectRunning,
  stopper,          \* TcpServer::stop: its place, its connection and those to come
  ssl,              \* each connection's SSL object
  alive,            \* PlayerConnection::running
  stopped,          \* PlayerConnection::stopped
  reader,           \* readThread: its place
  sender,           \* a match's thread in send(): its place
  misused           \* history: an SSL object was read, or written to, when it was freed

serverVars == <<listening, running, clients, disconnectQueue, disconnectRunning>>
threadVars == <<acceptor, disconnector, stopper>>
connVars == <<peer, ssl, alive, stopped, reader, sender>>
vars == <<serverVars, threadVars, connVars, misused>>

Thread == [at : {"start", "loop", "accept", "handshake", "push", "callback", "wait", "erase",
                 "mark", "free", "join", "up", "join accept", "join disconnect", "next",
                 "down", "ended"},
           conn : Conns \cup {NoConn}]

Stopper == [at : {"up", "join accept", "join disconnect", "next", "mark", "free", "join",
                  "down"},
            conn : Conns \cup {NoConn}, todo : SUBSET Conns]

\* Types; the disconnect queue has a connection once, for its thread tells once.
TypeOK ==
  /\ peer \in [Conns -> {"away", "connecting", "there", "gone"}]
  /\ listening \in BOOLEAN /\ running \in BOOLEAN /\ disconnectRunning \in BOOLEAN
  /\ acceptor \in Thread /\ disconnector \in Thread
  /\ stopper \in Stopper
  /\ clients \subseteq Conns
  /\ disconnectQueue \in Seq(Conns) /\ IsInjective(disconnectQueue)
  /\ ssl \in [Conns -> {"none", "live", "freed"}]
  /\ alive \in [Conns -> BOOLEAN]
  /\ stopped \in [Conns -> BOOLEAN]
  /\ reader \in [Conns -> {"off", "reading", "callback", "leaving", "ended"}]
  /\ sender \in [Conns -> {"idle", "checked", "writing"}]
  /\ misused \subseteq {"read", "write"}

\* TcpServer::start has made the two threads; the second may not run yet.
Init ==
  /\ peer = [c \in Conns |-> "away"]
  /\ listening = TRUE
  /\ running = TRUE
  /\ acceptor = [at |-> "loop", conn |-> NoConn]
  /\ clients = {}
  /\ disconnector = [at |-> "start", conn |-> NoConn]
  /\ disconnectQueue = <<>>
  /\ disconnectRunning = FALSE
  /\ stopper = [at |-> "up", conn |-> NoConn, todo |-> {}]
  /\ ssl = [c \in Conns |-> "none"]
  /\ alive = [c \in Conns |-> FALSE]
  /\ stopped = [c \in Conns |-> FALSE]
  /\ reader = [c \in Conns |-> "off"]
  /\ sender = [c \in Conns |-> "idle"]
  /\ misused = {}

-----------------------------------------------------------------------------
(* Clients.                                                                *)

Connect(c) ==
  /\ listening
  /\ peer[c] = "away"
  /\ peer' = [peer EXCEPT ![c] = "connecting"]
  /\ UNCHANGED <<serverVars, threadVars, ssl, alive, stopped, reader, sender, misused>>

Leave(c) ==
  /\ peer[c] \in {"connecting", "there"}
  /\ peer' = [peer EXCEPT ![c] = "gone"]
  /\ UNCHANGED <<serverVars, threadVars, ssl, alive, stopped, reader, sender, misused>>

-----------------------------------------------------------------------------
(* TcpServer::acceptClients.                                               *)

AcceptorAt(place) == acceptor.at = place

AcceptorGoes(place) == acceptor' = [acceptor EXCEPT !.at = place]

\* Mutant: the loop does not look at running.
AcceptForever ==
  /\ AcceptorAt("loop")
  /\ AcceptorGoes("accept")
  /\ UNCHANGED <<serverVars, disconnector, stopper, connVars, misused>>

AcceptLoop ==
  /\ AcceptorAt("loop")
  /\ AcceptorGoes(IF running THEN "accept" ELSE "ended")
  /\ UNCHANGED <<serverVars, disconnector, stopper, connVars, misused>>

\* accept returns with a connection, which may have been closed since, or with an
\* error if the socket is closed.
Accept(c) ==
  /\ AcceptorAt("accept")
  /\ listening
  /\ peer[c] \in {"connecting", "gone"} /\ ssl[c] = "none" /\ c \notin clients /\ ~stopped[c]
  /\ acceptor' = [at |-> "handshake", conn |-> c]
  /\ UNCHANGED <<serverVars, disconnector, stopper, connVars, misused>>

AcceptFails ==
  /\ AcceptorAt("accept")
  /\ ~listening
  /\ AcceptorGoes("loop")
  /\ UNCHANGED <<serverVars, disconnector, stopper, connVars, misused>>

\* PlayerConnection's constructor, in the accept thread: everybody else waits for
\* this client.  It may fail, and does if the client is gone.
Handshake ==
  /\ AcceptorAt("handshake")
  /\ \/ /\ peer[acceptor.conn] = "connecting"
        /\ ssl' = [ssl EXCEPT ![acceptor.conn] = "live"]
        /\ peer' = [peer EXCEPT ![acceptor.conn] = "there"]
     \/ UNCHANGED ssl /\ peer' = [peer EXCEPT ![acceptor.conn] = "gone"]
  /\ AcceptorGoes("push")
  /\ UNCHANGED <<serverVars, disconnector, stopper, alive, stopped, reader, sender, misused>>

Push ==
  /\ AcceptorAt("push")
  /\ clients' = clients \cup {acceptor.conn}
  /\ AcceptorGoes("callback")
  /\ UNCHANGED <<listening, running, disconnectQueue, disconnectRunning, disconnector, stopper,
                 connVars, misused>>

\* onClientConnected: PlayerConnection::start.  Without an SSL object it fails, and
\* the connection stays among the clients until the server stops.
StartReader ==
  /\ AcceptorAt("callback")
  /\ LET c == acceptor.conn
     IN IF ssl[c] = "live"
        THEN /\ alive' = [alive EXCEPT ![c] = TRUE]
             /\ reader' = [reader EXCEPT ![c] = "reading"]
        ELSE UNCHANGED <<alive, reader>>
  /\ acceptor' = [at |-> "loop", conn |-> NoConn]
  /\ UNCHANGED <<serverVars, disconnector, stopper, peer, ssl, stopped, sender, misused>>

AcceptorNext ==
  \/ AcceptLoop \/ AcceptFails \/ Handshake \/ Push \/ StartReader
  \/ \E c \in Conns : Accept(c)

-----------------------------------------------------------------------------
(* PlayerConnection::readLoop and send.                                    *)

\* Mutant: the reader tells of an error and reads on.
ReadFails(c) ==
  /\ reader[c] = "reading"
  /\ peer[c] = "gone"
  /\ ~stopped[c] /\ ~Contains(disconnectQueue, c)
  /\ disconnectQueue' = Append(disconnectQueue, c)
  /\ UNCHANGED <<listening, running, clients, disconnectRunning, threadVars, connVars, misused>>

\* SSL_read has an error, for the client is gone or the socket closed.
ReadEnds(c) ==
  /\ reader[c] = "reading"
  /\ peer[c] = "gone" \/ ssl[c] = "freed"
  /\ reader' = [reader EXCEPT ![c] = "callback"]
  /\ UNCHANGED <<serverVars, threadVars, peer, ssl, alive, stopped, sender, misused>>

\* onDisconnected: enqueueDisconnect first, then the matchmaker and the matches.
EnqueueDisconnect(c) ==
  /\ reader[c] = "callback"
  /\ disconnectQueue' = Append(disconnectQueue, c)
  /\ reader' = [reader EXCEPT ![c] = "leaving"]
  /\ UNCHANGED <<listening, running, clients, disconnectRunning, threadVars, peer, ssl, alive,
                 stopped, sender, misused>>

\* Mutant: the connection is put into the queue once more in the end.
EnqueueAgain(c) ==
  /\ reader[c] = "leaving"
  /\ disconnectQueue' = Append(disconnectQueue, c)
  /\ reader' = [reader EXCEPT ![c] = "ended"]
  /\ UNCHANGED <<listening, running, clients, disconnectRunning, threadVars, peer, ssl, alive,
                 stopped, sender, misused>>

ReaderEnds(c) ==
  /\ reader[c] = "leaving"
  /\ reader' = [reader EXCEPT ![c] = "ended"]
  /\ UNCHANGED <<serverVars, threadVars, peer, ssl, alive, stopped, sender, misused>>

\* The two tests of send, before it has the mutex.
SendChecks(c) ==
  /\ sender[c] = "idle"
  /\ alive[c] /\ ssl[c] = "live"
  /\ sender' = [sender EXCEPT ![c] = "checked"]
  /\ UNCHANGED <<serverVars, threadVars, peer, ssl, alive, stopped, reader, misused>>

\* SSL_write, with writeMutex; the object may be gone by now.
SendWrites(c) ==
  /\ sender[c] = "checked"
  /\ IF ssl[c] = "live"
     THEN sender' = [sender EXCEPT ![c] = "writing"] /\ UNCHANGED misused
     ELSE sender' = [sender EXCEPT ![c] = "idle"] /\ misused' = misused \cup {"write"}
  /\ UNCHANGED <<serverVars, threadVars, peer, ssl, alive, stopped, reader>>

\* The client takes what was written, or is gone.
SendEnds(c) ==
  /\ sender[c] = "writing"
  /\ sender' = [sender EXCEPT ![c] = "idle"]
  /\ UNCHANGED <<serverVars, threadVars, peer, ssl, alive, stopped, reader, misused>>

ReaderNext(c) == ReadEnds(c) \/ EnqueueDisconnect(c) \/ ReaderEnds(c)

SenderNext(c) == SendWrites(c) \/ SendEnds(c)

-----------------------------------------------------------------------------
(* PlayerConnection::stop, by the disconnect thread or by TcpServer::stop.  *)

\* A second call returns at once.
Marks(c) ==
  /\ stopped' = [stopped EXCEPT ![c] = TRUE]
  /\ alive' = IF stopped[c] THEN alive ELSE [alive EXCEPT ![c] = FALSE]
  /\ UNCHANGED <<ssl, misused>>

\* With writeMutex, "wait for writes to finish".  Nothing waits for a read.
Frees(c) ==
  /\ sender[c] # "writing"
  /\ IF ssl[c] = "live"
     THEN /\ ssl' = [ssl EXCEPT ![c] = "freed"]
          /\ misused' = IF reader[c] = "reading" THEN misused \cup {"read"} ELSE misused
     ELSE UNCHANGED <<ssl, misused>>
  /\ UNCHANGED <<stopped, alive>>

JoinsReader(c) ==
  /\ reader[c] \in {"off", "ended"}
  /\ UNCHANGED <<ssl, stopped, alive, misused>>

CloseStep(thread) ==
  /\ \/ thread.at = "mark" /\ Marks(thread.conn)
     \/ thread.at = "free" /\ Frees(thread.conn)
     \/ thread.at = "join" /\ JoinsReader(thread.conn)
  /\ UNCHANGED <<serverVars, acceptor, peer, reader, sender>>

PlaceAfter(thread) ==
  CASE thread.at = "mark" /\ ~stopped[thread.conn] -> "free"
    [] thread.at = "free"                          -> "join"
    [] OTHER                                       -> "closed"

-----------------------------------------------------------------------------
(* TcpServer::disconnectLoop and removeClient.                             *)

DisconnectorGoes(place) ==
  disconnector' = IF place = "closed" THEN [at |-> "wait", conn |-> NoConn]
                  ELSE [disconnector EXCEPT !.at = place]

DisconnectorStarts ==
  /\ disconnector.at = "start"
  /\ disconnectRunning' = TRUE
  /\ DisconnectorGoes("wait")
  /\ UNCHANGED <<listening, running, clients, disconnectQueue, acceptor, stopper, connVars,
                 misused>>

DisconnectorEnds ==
  /\ disconnector.at = "wait"
  /\ ~disconnectRunning
  /\ DisconnectorGoes("ended")
  /\ UNCHANGED <<serverVars, acceptor, stopper, connVars, misused>>

DisconnectorPops ==
  /\ disconnector.at = "wait"
  /\ disconnectRunning
  /\ disconnectQueue # <<>>
  /\ disconnector' = [at |-> "erase", conn |-> Head(disconnectQueue)]
  /\ disconnectQueue' = Tail(disconnectQueue)
  /\ UNCHANGED <<listening, running, clients, disconnectRunning, acceptor, stopper, connVars,
                 misused>>

RemoveClient ==
  /\ disconnector.at = "erase"
  /\ clients' = clients \ {disconnector.conn}
  /\ DisconnectorGoes("mark")
  /\ UNCHANGED <<listening, running, disconnectQueue, disconnectRunning, acceptor, stopper,
                 connVars, misused>>

DisconnectorCloses ==
  CloseStep(disconnector) /\ DisconnectorGoes(PlaceAfter(disconnector)) /\ UNCHANGED stopper

DisconnectorNext ==
  DisconnectorStarts \/ DisconnectorEnds \/ DisconnectorPops \/ RemoveClient
    \/ DisconnectorCloses

-----------------------------------------------------------------------------
(* GameServer::stop and TcpServer::stop, in the main thread at a signal.    *)

StopperGoes(place) ==
  stopper' = IF place = "closed" THEN [stopper EXCEPT !.at = "next", !.conn = NoConn]
             ELSE [stopper EXCEPT !.at = place]

StopBegins ==
  /\ stopper.at = "up"
  /\ running' = FALSE
  /\ listening' = FALSE
  /\ StopperGoes("join accept")
  /\ UNCHANGED <<clients, disconnectQueue, disconnectRunning, acceptor, disconnector, connVars,
                 misused>>

\* Mutant: the accept thread is not waited for.
DetachAcceptor ==
  /\ stopper.at = "join accept"
  /\ disconnectRunning' = FALSE
  /\ StopperGoes("join disconnect")
  /\ UNCHANGED <<listening, running, clients, disconnectQueue, acceptor, disconnector, connVars,
                 misused>>

JoinAcceptor ==
  /\ stopper.at = "join accept"
  /\ acceptor.at = "ended"
  /\ disconnectRunning' = FALSE
  /\ StopperGoes("join disconnect")
  /\ UNCHANGED <<listening, running, clients, disconnectQueue, acceptor, disconnector, connVars,
                 misused>>

JoinDisconnector ==
  /\ stopper.at = "join disconnect"
  /\ disconnector.at = "ended"
  /\ stopper' = [stopper EXCEPT !.at = "next", !.todo = clients]
  /\ clients' = {}
  /\ UNCHANGED <<listening, running, disconnectQueue, disconnectRunning, acceptor, disconnector,
                 connVars, misused>>

StopNext ==
  /\ stopper.at = "next"
  /\ stopper' \in IF stopper.todo = {} THEN {[stopper EXCEPT !.at = "down"]}
                  ELSE {[at |-> "mark", conn |-> c, todo |-> stopper.todo \ {c}] :
                          c \in stopper.todo}
  /\ UNCHANGED <<serverVars, acceptor, disconnector, connVars, misused>>

StopperCloses ==
  CloseStep(stopper) /\ StopperGoes(PlaceAfter(stopper)) /\ UNCHANGED disconnector

StopperNext == JoinAcceptor \/ JoinDisconnector \/ StopNext \/ StopperCloses

-----------------------------------------------------------------------------
Next ==
  \/ AcceptorNext \/ DisconnectorNext \/ StopBegins \/ StopperNext
  \/ \E c \in Conns : Connect(c) \/ Leave(c) \/ ReaderNext(c) \/ SendChecks(c) \/ SenderNext(c)

Spec == Init /\ [][Next]_vars

\* Every thread runs; a client ends its handshake and takes what is written to it, or
\* its connection breaks.
FairSpec ==
  /\ Spec
  /\ WF_vars(AcceptorNext) /\ WF_vars(DisconnectorNext) /\ WF_vars(StopperNext)
  /\ \A c \in Conns : WF_vars(ReaderNext(c)) /\ WF_vars(SenderNext(c))

-----------------------------------------------------------------------------
(* Properties.                                                             *)

\* While the server is up, no connection is taken down under its reader: only a read
\* thread on its way out puts its connection into the disconnect queue.
ReadsLive == "read" \in misused => stopper.at # "up"

\* After stop() nothing is left of any connection that was ever accepted: neither of
\* one accepted while it ran, nor of one that waited in the disconnect queue.
AllClosed ==
  stopper.at = "down" =>
    /\ clients = {}
    /\ acceptor.at = "ended"
    /\ \A c \in Conns : ssl[c] # "live" /\ reader[c] \in {"off", "ended"}

\* stop() has cleared disconnectRunning before the disconnect thread set it.
Resurrected == stopper.at = "join disconnect" /\ disconnectRunning

\* stop() comes to its end, although it waits for every thread and each of them may be
\* in the middle of something, unless the disconnect thread starts only during it.
StopEnds == stopper.at # "up" ~> stopper.at = "down" \/ Resurrected

=============================================================================
