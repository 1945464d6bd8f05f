--------------------------- MODULE ServerLifeProofs ---------------------------
(***************************************************************************)
(* Theorems about ServerLife, for any number of connections: type           *)
(* correctness, ReadsLive and AllClosed.                                    *)
(*                                                                         *)
(* Each connection passes through the hands of four threads.  IInv says who *)
(* has it when: the accept thread one whose reader is not started, the      *)
(* disconnect thread one whose reader is on its way out and that nobody has *)
(* stopped, stop() one that is among no clients any more (HandsOK); and     *)
(* every connection that is open is in somebody's hands (Accounted).        *)
(***************************************************************************)
EXTENDS ServerLife, SequenceTheorems, TLAPS

\* A reader that has told of its end, and tells no more.
Told == {"leaving", "ended"}

Closing == {"mark", "free", "join"}


HandsOK ==
  /\ acceptor.at \in {"handshake", "push", "callback"} =>
       /\ acceptor.conn \in Conns
       /\ reader[acceptor.conn] = "off"
       /\ ~stopped[acceptor.conn]
  /\ disconnector.at \in {"erase", "mark", "free", "join"} =>
       disconnector.conn \in Conns /\ reader[disconnector.conn] \in Told
  /\ stopper.at \in Closing => stopper.conn \in Conns \ stopper.todo

\* Which threads have ended when stop() is past its two joins.
JoinedOK ==
  /\ stopper.at # "up" => ~running
  /\ stopper.at \notin {"up", "join accept"} => acceptor.at = "ended"
  /\ stopper.at \in {"next", "down"} \cup Closing =>
       disconnector.at = "ended" /\ clients = {}
  /\ stopper.at \notin {"next"} \cup Closing => stopper.todo = {}

QueueOK ==
  \A i \in 1 .. Len(disconnectQueue) : reader[disconnectQueue[i]] \in Told

\* A connection is stopped once, by whoever took it from the clients.
StoppedOK ==
  /\ \A d \in Conns : d \in clients \cup stopper.todo => ~stopped[d]
  /\ disconnector.at \in {"erase", "mark"} => ~stopped[disconnector.conn]
  /\ disconnector.at \in {"mark", "free", "join"} => disconnector.conn \notin clients
  /\ stopper.at = "mark" => ~stopped[stopper.conn]

\* Until the disconnect thread ends, it alone stops connections, each once.
UntoldOK ==
  disconnector.at # "ended" =>
    /\ \A d \in Conns : stopped[d] => reader[d] \in Told
    /\ \A i \in 1 .. Len(disconnectQueue) :
         /\ ~stopped[disconnectQueue[i]]
         /\ disconnector.at \in {"erase", "mark", "free", "join"} =>
              disconnectQueue[i] # disconnector.conn

Open(d) == ssl[d] = "live" \/ reader[d] \notin {"off", "ended"}

InHand(d) ==
  \/ d \in clients \cup stopper.todo
  \/ acceptor.at = "push" /\ d = acceptor.conn
  \/ disconnector.at \in Closing /\ d = disconnector.conn
  \/ stopper.at \in Closing /\ d = stopper.conn

Accounted == \A d \in Conns : Open(d) => InHand(d)

\* What the next step of a thread relies on.
HeldOK ==
  /\ acceptor.at = "callback" => acceptor.conn \in clients
  /\ disconnector.at = "join" => ssl[disconnector.conn] # "live"
  /\ stopper.at = "join" => ssl[stopper.conn] # "live"
  /\ \A d \in Conns : reader[d] # "off" => ssl[d] # "none"

IInv ==
  /\ TypeOK /\ HandsOK /\ JoinedOK /\ QueueOK /\ StoppedOK /\ UntoldOK
  /\ Accounted /\ HeldOK /\ ReadsLive

-----------------------------------------------------------------------------
(***************************************************************************)
(* The disconnect queue                                                    *)
(***************************************************************************)

\* A connection that is not in the queue is appended to it once.
LEMMA AppendNew ==
  ASSUME NEW S, NEW q \in Seq(S), IsInjective(q), NEW e \in S,
         \A i \in 1 .. Len(q) : q[i] # e
  PROVE  /\ Append(q, e) \in Seq(S)
         /\ IsInjective(Append(q, e))
         /\ Len(Append(q, e)) = Len(q) + 1
         /\ \A i \in 1 .. Len(q) : Append(q, e)[i] = q[i]
         /\ Append(q, e)[Len(q) + 1] = e
<1>1. /\ Append(q, e) \in Seq(S)
      /\ Len(Append(q, e)) = Len(q) + 1
      /\ \A i \in 1 .. Len(q) : Append(q, e)[i] = q[i]
      /\ Append(q, e)[Len(q) + 1] = e
  BY AppendProperties
<1>2. DOMAIN q = 1 .. Len(q) /\ DOMAIN Append(q, e) = 1 .. Len(q) + 1 /\ Len(q) \in Nat
  BY <1>1, LenProperties
<1>3. ASSUME NEW a \in 1 .. Len(q) + 1, NEW b \in 1 .. Len(q) + 1,
             Append(q, e)[a] = Append(q, e)[b]
      PROVE  a = b
  <2>1. a \in 1 .. Len(q) \/ a = Len(q) + 1
    BY <1>2
  <2>2. b \in 1 .. Len(q) \/ b = Len(q) + 1
    BY <1>2
  <2> QED BY <1>1, <1>2, <1>3, <2>1, <2>2 DEF IsInjective
<1>4. IsInjective(Append(q, e))
  BY <1>2, <1>3 DEF IsInjective
<1> QED BY <1>1, <1>4

\* What is taken from the queue's head is not in its tail.
LEMMA TailRest ==
  ASSUME NEW S, NEW q \in Seq(S), IsInjective(q), q # <<>>
  PROVE  /\ Head(q) \in S
         /\ Head(q) = q[1]
         /\ 1 \in 1 .. Len(q)
         /\ Tail(q) \in Seq(S)
         /\ IsInjective(Tail(q))
         /\ \A i \in 1 .. Len(Tail(q)) :
              /\ i + 1 \in 1 .. Len(q)
              /\ Tail(q)[i] = q[i + 1]
              /\ Tail(q)[i] # Head(q)
<1>1. /\ Head(q) \in S /\ Tail(q) \in Seq(S) /\ Head(q) = q[1]
      /\ Len(Tail(q)) = Len(q) - 1
      /\ \A i \in 1 .. Len(Tail(q)) : Tail(q)[i] = q[i + 1]
  BY HeadTailProperties
<1>2. /\ DOMAIN q = 1 .. Len(q) /\ Len(q) \in Nat /\ Len(q) >= 1
      /\ DOMAIN Tail(q) = 1 .. Len(Tail(q))
  BY <1>1, LenProperties, EmptySeq
<1>3. \A i \in 1 .. Len(Tail(q)) : i + 1 \in 1 .. Len(q) /\ i + 1 # 1
  BY <1>1, <1>2
<1>4. 1 \in 1 .. Len(q)
  BY <1>2
<1>5. \A i \in 1 .. Len(Tail(q)) : Tail(q)[i] # Head(q)
  BY <1>1, <1>2, <1>3, <1>4 DEF IsInjective
<1>6. ASSUME NEW a \in DOMAIN Tail(q), NEW b \in DOMAIN Tail(q), Tail(q)[a] = Tail(q)[b]
      PROVE  a = b
  <2>1. a \in 1 .. Len(Tail(q)) /\ b \in 1 .. Len(Tail(q))
    BY <1>2
  <2>2. a + 1 = b + 1
    BY <1>1, <1>2, <1>3, <1>6, <2>1 DEF IsInjective
  <2> QED BY <2>1, <2>2
<1>7. IsInjective(Tail(q))
  BY <1>6 DEF IsInjective
<1> QED BY <1>1, <1>3, <1>4, <1>5, <1>7

-----------------------------------------------------------------------------
(***************************************************************************)
(* IInv is inductive                                                       *)
(***************************************************************************)

\* The queue holds connections.
LEMMA QueueOfConns ==
  ASSUME TypeOK
  PROVE  \A i \in 1 .. Len(disconnectQueue) : disconnectQueue[i] \in Conns
BY ElementOfSeq DEF TypeOK

-----------------------------------------------------------------------------
(***************************************************************************)
(* IInv is inductive: one lemma per action                                 *)
(***************************************************************************)

LEMMA InitIInv == Init => IInv
<1> SUFFICES ASSUME Init PROVE IInv
  OBVIOUS
<1>1. disconnectQueue \in Seq(Conns) /\ IsInjective(disconnectQueue) /\ Len(disconnectQueue) = 0
  BY EmptySeq DEF Init, IsInjective
<1>2. TypeOK
  BY <1>1 DEF Init, TypeOK, Thread, Stopper
<1>3. HandsOK /\ JoinedOK /\ QueueOK /\ StoppedOK /\ UntoldOK
  BY <1>1 DEF Init, HandsOK, JoinedOK, QueueOK, StoppedOK, UntoldOK, Closing
<1>4. Accounted /\ HeldOK /\ ReadsLive
  BY DEF Init, Accounted, HeldOK, Open, ReadsLive
<1> QED BY <1>2, <1>3, <1>4 DEF IInv

\* What IInv is about, besides the types.
heldVars ==
  <<acceptor, disconnector, stopper, running, clients, disconnectQueue, ssl, stopped, reader>>

\* A step that leaves these as they are disturbs nothing else.
LEMMA Quiet ==
  ASSUME IInv, UNCHANGED heldVars, misused' \subseteq misused \cup {"write"}
  PROVE  /\ HandsOK' /\ JoinedOK' /\ QueueOK' /\ StoppedOK' /\ UntoldOK'
         /\ Accounted' /\ HeldOK' /\ ReadsLive'
<1>1. HandsOK' /\ JoinedOK' /\ QueueOK' /\ StoppedOK' /\ UntoldOK'
  BY DEF IInv, heldVars, HandsOK, JoinedOK, QueueOK, StoppedOK, UntoldOK, Closing, Told
<1>2. Accounted' /\ HeldOK'
  BY DEF IInv, heldVars, Accounted, HeldOK, Open, InHand, Closing
<1>3. ReadsLive'
  BY DEF IInv, heldVars, ReadsLive
<1> QED BY <1>1, <1>2, <1>3

LEMMA ConnectStep ==
  ASSUME IInv, NEW c \in Conns, Connect(c)
  PROVE  IInv'
<1>1. TypeOK'
  BY DEF IInv, TypeOK, Connect, serverVars, threadVars
<1>2. UNCHANGED heldVars /\ misused' \subseteq misused \cup {"write"}
  BY DEF Connect, heldVars, serverVars, threadVars, connVars
<1> QED BY <1>1, <1>2, Quiet DEF IInv

LEMMA LeaveStep ==
  ASSUME IInv, NEW c \in Conns, Leave(c)
  PROVE  IInv'
<1>1. TypeOK'
  BY DEF IInv, TypeOK, Leave, serverVars, threadVars
<1>2. UNCHANGED heldVars /\ misused' \subseteq misused \cup {"write"}
  BY DEF Leave, heldVars, serverVars, threadVars, connVars
<1> QED BY <1>1, <1>2, Quiet DEF IInv

LEMMA SendChecksStep ==
  ASSUME IInv, NEW c \in Conns, SendChecks(c)
  PROVE  IInv'
<1>1. TypeOK'
  BY DEF IInv, TypeOK, SendChecks, serverVars, threadVars
<1>2. UNCHANGED heldVars /\ misused' \subseteq misused \cup {"write"}
  BY DEF SendChecks, heldVars, serverVars, threadVars, connVars
<1> QED BY <1>1, <1>2, Quiet DEF IInv

LEMMA SendWritesStep ==
  ASSUME IInv, NEW c \in Conns, SendWrites(c)
  PROVE  IInv'
<1>1. TypeOK'
  BY DEF IInv, TypeOK, SendWrites, serverVars, threadVars
<1>2. UNCHANGED heldVars /\ misused' \subseteq misused \cup {"write"}
  BY DEF SendWrites, heldVars, serverVars, threadVars, connVars
<1> QED BY <1>1, <1>2, Quiet DEF IInv

LEMMA SendEndsStep ==
  ASSUME IInv, NEW c \in Conns, SendEnds(c)
  PROVE  IInv'
<1>1. TypeOK'
  BY DEF IInv, TypeOK, SendEnds, serverVars, threadVars
<1>2. UNCHANGED heldVars /\ misused' \subseteq misused \cup {"write"}
  BY DEF SendEnds, heldVars, serverVars, threadVars, connVars
<1> QED BY <1>1, <1>2, Quiet DEF IInv

LEMMA AcceptLoopStep ==
  ASSUME IInv, AcceptLoop
  PROVE  IInv'
<1>1. TypeOK'
  BY DEF IInv, TypeOK, Thread, AcceptLoop, AcceptorAt, AcceptorGoes, serverVars, connVars
<1>2. /\ acceptor'.at \in {"accept", "ended"}
      /\ acceptor.at = "loop"
  BY DEF IInv, TypeOK, Thread, AcceptLoop, AcceptorAt, AcceptorGoes
<1>3. UNCHANGED <<disconnector, stopper, running, clients, disconnectQueue, ssl, stopped,
                  reader, misused>>
  BY DEF AcceptLoop, serverVars, connVars
<1>4. HandsOK'
  BY <1>2, <1>3 DEF IInv, HandsOK, Closing, Told
<1>5. JoinedOK'
  BY <1>2, <1>3 DEF IInv, JoinedOK, Closing
<1>6. QueueOK'
  BY <1>2, <1>3, QueueOfConns DEF IInv, QueueOK, Told
<1>7. StoppedOK'
  BY <1>2, <1>3 DEF IInv, StoppedOK, Closing, HandsOK, Told
<1>8. UntoldOK'
  BY <1>2, <1>3, QueueOfConns DEF IInv, UntoldOK, Told, HandsOK, Closing, QueueOK
<1>9. Accounted'
  BY <1>2, <1>3 DEF IInv, Accounted, Open, InHand, Closing, HandsOK, Told
<1>10. HeldOK'
  BY <1>2, <1>3 DEF IInv, HeldOK, HandsOK, Closing, Told
<1>11. ReadsLive'
  BY <1>2, <1>3 DEF IInv, ReadsLive
<1> QED BY <1>1, <1>4, <1>5, <1>6, <1>7, <1>8, <1>9, <1>10, <1>11 DEF IInv

LEMMA AcceptStep ==
  ASSUME IInv, NEW c \in Conns, Accept(c)
  PROVE  IInv'
<1>1. TypeOK'
  BY DEF IInv, TypeOK, Thread, Accept, serverVars, connVars
<1>2. /\ acceptor'.at = "handshake"
      /\ acceptor'.conn = c
      /\ acceptor.at = "accept"
      /\ ssl[c] = "none"
      /\ ~stopped[c]
  BY DEF IInv, TypeOK, Accept, AcceptorAt
<1>3. UNCHANGED <<disconnector, stopper, running, clients, disconnectQueue, ssl, stopped,
                  reader, misused>>
  BY DEF Accept, serverVars, connVars
<1>4. HandsOK'
  BY <1>2, <1>3 DEF IInv, HandsOK, Closing, Told, HeldOK
<1>5. JoinedOK'
  BY <1>2, <1>3 DEF IInv, JoinedOK, Closing
<1>6. QueueOK'
  BY <1>2, <1>3, QueueOfConns DEF IInv, QueueOK, Told
<1>7. StoppedOK'
  BY <1>2, <1>3 DEF IInv, StoppedOK, Closing, HandsOK, Told
<1>8. UntoldOK'
  BY <1>2, <1>3, QueueOfConns DEF IInv, UntoldOK, Told, HandsOK, Closing, QueueOK
<1>9. Accounted'
  BY <1>2, <1>3 DEF IInv, Accounted, Open, InHand, Closing, HandsOK, Told
<1>10. HeldOK'
  BY <1>2, <1>3 DEF IInv, HeldOK, HandsOK, Closing, Told
<1>11. ReadsLive'
  BY <1>2, <1>3 DEF IInv, ReadsLive
<1> QED BY <1>1, <1>4, <1>5, <1>6, <1>7, <1>8, <1>9, <1>10, <1>11 DEF IInv

LEMMA AcceptFailsStep ==
  ASSUME IInv, AcceptFails
  PROVE  IInv'
<1>1. TypeOK'
  BY DEF IInv, TypeOK, Thread, AcceptFails, AcceptorAt, AcceptorGoes, serverVars, connVars
<1>2. /\ acceptor'.at = "loop"
      /\ acceptor.at = "accept"
  BY DEF IInv, TypeOK, Thread, AcceptFails, AcceptorAt, AcceptorGoes
<1>3. UNCHANGED <<disconnector, stopper, running, clients, disconnectQueue, ssl, stopped,
                  reader, misused>>
  BY DEF AcceptFails, serverVars, connVars
<1>4. HandsOK'
  BY <1>2, <1>3 DEF IInv, HandsOK, Closing, Told
<1>5. JoinedOK'
  BY <1>2, <1>3 DEF IInv, JoinedOK, Closing
<1>6. QueueOK'
  BY <1>2, <1>3, QueueOfConns DEF IInv, QueueOK, Told
<1>7. StoppedOK'
  BY <1>2, <1>3 DEF IInv, StoppedOK, Closing, HandsOK, Told
<1>8. UntoldOK'
  BY <1>2, <1>3, QueueOfConns DEF IInv, UntoldOK, Told, HandsOK, Closing, QueueOK
<1>9. Accounted'
  BY <1>2, <1>3 DEF IInv, Accounted, Open, InHand, Closing, HandsOK, Told
<1>10. HeldOK'
  BY <1>2, <1>3 DEF IInv, HeldOK, HandsOK, Closing, Told
<1>11. ReadsLive'
  BY <1>2, <1>3 DEF IInv, ReadsLive
<1> QED BY <1>1, <1>4, <1>5, <1>6, <1>7, <1>8, <1>9, <1>10, <1>11 DEF IInv

LEMMA HandshakeStep ==
  ASSUME IInv, Handshake
  PROVE  IInv'
<1>1. TypeOK'
  BY DEF IInv, HandsOK, TypeOK, Thread, Handshake, AcceptorAt, AcceptorGoes, serverVars
<1>2. /\ acceptor.at = "handshake"
      /\ acceptor'.at = "push"
      /\ acceptor'.conn = acceptor.conn
      /\ \A d \in Conns : d # acceptor.conn => ssl'[d] = ssl[d]
      /\ ssl'[acceptor.conn] \in {"live", ssl[acceptor.conn]}
  BY DEF IInv, TypeOK, HandsOK, Thread, Handshake, AcceptorAt, AcceptorGoes
<1>3. UNCHANGED <<disconnector, stopper, running, clients, disconnectQueue, stopped, reader,
                  misused>>
  BY DEF Handshake, serverVars
<1>4. HandsOK'
  BY <1>2, <1>3 DEF IInv, HandsOK, Closing, Told
<1>5. JoinedOK'
  BY <1>2, <1>3 DEF IInv, JoinedOK, Closing
<1>6. QueueOK'
  BY <1>2, <1>3, QueueOfConns DEF IInv, QueueOK, Told
<1>7. StoppedOK'
  BY <1>2, <1>3 DEF IInv, StoppedOK, Closing, HandsOK, Told
<1>8. UntoldOK'
  BY <1>2, <1>3, QueueOfConns DEF IInv, UntoldOK, Told, HandsOK, Closing, QueueOK
<1>9. Accounted'
  BY <1>2, <1>3 DEF IInv, Accounted, Open, InHand, Closing, HandsOK, Told
<1>10. HeldOK'
  BY <1>2, <1>3 DEF IInv, HeldOK, HandsOK, Closing, Told, JoinedOK
<1>11. ReadsLive'
  BY <1>2, <1>3 DEF IInv, ReadsLive
<1> QED BY <1>1, <1>4, <1>5, <1>6, <1>7, <1>8, <1>9, <1>10, <1>11 DEF IInv

LEMMA PushStep ==
  ASSUME IInv, Push
  PROVE  IInv'
<1>1. TypeOK'
  BY DEF IInv, HandsOK, TypeOK, Thread, Push, AcceptorAt, AcceptorGoes, connVars
<1>2. /\ acceptor.at = "push"
      /\ acceptor'.at = "callback"
      /\ acceptor'.conn = acceptor.conn
      /\ clients' = clients \cup {acceptor.conn}
  BY DEF IInv, TypeOK, HandsOK, Thread, Push, AcceptorAt, AcceptorGoes
<1>3. UNCHANGED <<disconnector, stopper, running, disconnectQueue, ssl, stopped, reader,
                  misused>>
  BY DEF Push, connVars
<1>4. HandsOK'
  BY <1>2, <1>3 DEF IInv, HandsOK, Closing, Told
<1>5. JoinedOK'
  BY <1>2, <1>3 DEF IInv, JoinedOK, Closing
<1>6. QueueOK'
  BY <1>2, <1>3, QueueOfConns DEF IInv, QueueOK, Told
<1>7. StoppedOK'
  BY <1>2, <1>3 DEF IInv, StoppedOK, Closing, HandsOK, Told, JoinedOK
<1>8. UntoldOK'
  BY <1>2, <1>3, QueueOfConns DEF IInv, UntoldOK, Told, HandsOK, Closing, QueueOK
<1>9. Accounted'
  BY <1>2, <1>3 DEF IInv, Accounted, Open, InHand, Closing, HandsOK, Told
<1>10. HeldOK'
  BY <1>2, <1>3 DEF IInv, HeldOK, HandsOK, Closing, Told
<1>11. ReadsLive'
  BY <1>2, <1>3 DEF IInv, ReadsLive
<1> QED BY <1>1, <1>4, <1>5, <1>6, <1>7, <1>8, <1>9, <1>10, <1>11 DEF IInv

LEMMA StartReaderStep ==
  ASSUME IInv, StartReader
  PROVE  IInv'
<1>1. TypeOK'
  BY DEF IInv, HandsOK, TypeOK, Thread, StartReader, AcceptorAt, serverVars
<1>2. /\ acceptor.at = "callback" /\ acceptor'.at = "loop"
      /\ \A d \in Conns : d # acceptor.conn => reader'[d] = reader[d]
      /\ reader'[acceptor.conn] # reader[acceptor.conn] => ssl[acceptor.conn] = "live"
  BY DEF IInv, TypeOK, HandsOK, Thread, StartReader, AcceptorAt
<1>3. UNCHANGED <<disconnector, stopper, running, clients, disconnectQueue, ssl, stopped,
                  misused>>
  BY DEF StartReader, serverVars
<1>4. HandsOK'
  BY <1>2, <1>3 DEF IInv, HandsOK, Closing, Told
<1>5. JoinedOK'
  BY <1>2, <1>3 DEF IInv, JoinedOK, Closing
<1>6. QueueOK'
  BY <1>2, <1>3, QueueOfConns DEF IInv, QueueOK, Told, HandsOK, Closing
<1>7. StoppedOK'
  BY <1>2, <1>3 DEF IInv, StoppedOK, Closing, HandsOK, Told
<1>8. UntoldOK'
  BY <1>2, <1>3, QueueOfConns DEF IInv, UntoldOK, Told, HandsOK, Closing, QueueOK
<1>9. Accounted'
  BY <1>2, <1>3 DEF IInv, Accounted, Open, InHand, Closing, HandsOK, Told, HeldOK
<1>10. HeldOK'
  BY <1>2, <1>3 DEF IInv, HeldOK, HandsOK, Closing, Told
<1>11. ReadsLive'
  BY <1>2, <1>3 DEF IInv, ReadsLive
<1> QED BY <1>1, <1>4, <1>5, <1>6, <1>7, <1>8, <1>9, <1>10, <1>11 DEF IInv

LEMMA ReadEndsStep ==
  ASSUME IInv, NEW c \in Conns, ReadEnds(c)
  PROVE  IInv'
<1>1. TypeOK'
  BY DEF IInv, TypeOK, ReadEnds, serverVars, threadVars
<1>2. /\ reader[c] = "reading" /\ reader'[c] = "callback"
      /\ \A d \in Conns : d # c => reader'[d] = reader[d]
  BY DEF IInv, TypeOK, ReadEnds
<1>3. UNCHANGED <<acceptor, disconnector, stopper, running, clients, disconnectQueue, ssl,
                  stopped, misused>>
  BY DEF ReadEnds, serverVars, threadVars
<1>4. HandsOK'
  BY <1>2, <1>3 DEF IInv, HandsOK, Closing, Told
<1>5. JoinedOK'
  BY <1>2, <1>3 DEF IInv, JoinedOK, Closing
<1>6. QueueOK'
  BY <1>2, <1>3, QueueOfConns DEF IInv, QueueOK, Told
<1>7. StoppedOK'
  BY <1>2, <1>3 DEF IInv, StoppedOK, Closing, HandsOK, Told
<1>8. UntoldOK'
  BY <1>2, <1>3, QueueOfConns DEF IInv, UntoldOK, Told, HandsOK, Closing, QueueOK
<1>9. Accounted'
  BY <1>2, <1>3 DEF IInv, Accounted, Open, InHand, Closing, HandsOK, Told
<1>10. HeldOK'
  BY <1>2, <1>3 DEF IInv, HeldOK, HandsOK, Closing, Told
<1>11. ReadsLive'
  BY <1>2, <1>3 DEF IInv, ReadsLive
<1> QED BY <1>1, <1>4, <1>5, <1>6, <1>7, <1>8, <1>9, <1>10, <1>11 DEF IInv

LEMMA EnqueueDisconnectStep ==
  ASSUME IInv, NEW c \in Conns, EnqueueDisconnect(c)
  PROVE  IInv'
<1>0. /\ disconnectQueue' \in Seq(Conns) /\ IsInjective(disconnectQueue')
      /\ \A i \in 1 .. Len(disconnectQueue') :
           \/ i \in 1 .. Len(disconnectQueue) /\ disconnectQueue'[i] = disconnectQueue[i]
           \/ disconnectQueue'[i] = c
  <2>1. \A i \in 1 .. Len(disconnectQueue) : disconnectQueue[i] # c
    BY DEF IInv, QueueOK, EnqueueDisconnect, Told
  <2>2. /\ disconnectQueue \in Seq(Conns) /\ IsInjective(disconnectQueue)
        /\ Len(disconnectQueue) \in Nat
    BY LenProperties DEF IInv, TypeOK
  <2>3. disconnectQueue' = Append(disconnectQueue, c)
    BY DEF EnqueueDisconnect
  <2> QED BY <2>1, <2>2, <2>3, AppendNew
<1>1. TypeOK'
  BY <1>0 DEF IInv, TypeOK, EnqueueDisconnect, threadVars
<1>2. /\ reader[c] = "callback" /\ reader'[c] = "leaving"
      /\ \A d \in Conns : d # c => reader'[d] = reader[d]
  BY DEF IInv, TypeOK, EnqueueDisconnect
<1>3. UNCHANGED <<acceptor, disconnector, stopper, running, clients, ssl, stopped, misused>>
  BY DEF EnqueueDisconnect, threadVars
<1>4. HandsOK'
  BY <1>2, <1>3 DEF IInv, HandsOK, Closing, Told
<1>5. JoinedOK'
  BY <1>2, <1>3 DEF IInv, JoinedOK, Closing
<1>6. QueueOK'
  BY <1>0, <1>2, QueueOfConns DEF IInv, QueueOK, Told
<1>7. StoppedOK'
  BY <1>2, <1>3 DEF IInv, StoppedOK, Closing, HandsOK, Told
<1>8. UntoldOK'
  <2>1. \A d \in Conns : disconnector.at # "ended" /\ stopped'[d] => reader'[d] \in Told
    BY <1>2, <1>3 DEF IInv, UntoldOK, Told
  <2>2. disconnector.at # "ended" =>
          /\ ~stopped[c]
          /\ disconnector.at \in {"erase", "mark", "free", "join"} => c # disconnector.conn
    BY <1>2 DEF IInv, UntoldOK, HandsOK, Told
  <2> QED BY <1>0, <1>3, <2>1, <2>2 DEF IInv, UntoldOK
<1>9. Accounted'
  BY <1>2, <1>3 DEF IInv, Accounted, Open, InHand, Closing, HandsOK, Told
<1>10. HeldOK'
  BY <1>2, <1>3 DEF IInv, HeldOK, HandsOK, Closing, Told
<1>11. ReadsLive'
  BY <1>2, <1>3 DEF IInv, ReadsLive
<1> QED BY <1>1, <1>4, <1>5, <1>6, <1>7, <1>8, <1>9, <1>10, <1>11 DEF IInv

LEMMA ReaderEndsStep ==
  ASSUME IInv, NEW c \in Conns, ReaderEnds(c)
  PROVE  IInv'
<1>1. TypeOK'
  BY DEF IInv, TypeOK, ReaderEnds, serverVars, threadVars
<1>2. /\ reader[c] = "leaving" /\ reader'[c] = "ended"
      /\ \A d \in Conns : d # c => reader'[d] = reader[d]
  BY DEF IInv, TypeOK, ReaderEnds
<1>3. UNCHANGED <<acceptor, disconnector, stopper, running, clients, disconnectQueue, ssl,
                  stopped, misused>>
  BY DEF ReaderEnds, serverVars, threadVars
<1>4. HandsOK'
  BY <1>2, <1>3 DEF IInv, HandsOK, Closing, Told
<1>5. JoinedOK'
  BY <1>2, <1>3 DEF IInv, JoinedOK, Closing
<1>6. QueueOK'
  BY <1>2, <1>3, QueueOfConns DEF IInv, QueueOK, Told
<1>7. StoppedOK'
  BY <1>2, <1>3 DEF IInv, StoppedOK, Closing, HandsOK, Told
<1>8. UntoldOK'
  BY <1>2, <1>3, QueueOfConns DEF IInv, UntoldOK, Told, HandsOK, Closing, QueueOK
<1>9. Accounted'
  BY <1>2, <1>3 DEF IInv, Accounted, Open, InHand, Closing, HandsOK, Told
<1>10. HeldOK'
  BY <1>2, <1>3 DEF IInv, HeldOK, HandsOK, Closing, Told
<1>11. ReadsLive'
  BY <1>2, <1>3 DEF IInv, ReadsLive
<1> QED BY <1>1, <1>4, <1>5, <1>6, <1>7, <1>8, <1>9, <1>10, <1>11 DEF IInv

LEMMA DisconnectorStartsStep ==
  ASSUME IInv, DisconnectorStarts
  PROVE  IInv'
<1>1. TypeOK'
  BY DEF IInv, TypeOK, Thread, DisconnectorStarts, DisconnectorGoes, connVars
<1>2. /\ disconnector.at = "start" /\ disconnector'.at = "wait"
  BY DEF IInv, TypeOK, Thread, DisconnectorStarts, DisconnectorGoes
<1>3. UNCHANGED <<acceptor, stopper, running, clients, disconnectQueue, ssl, stopped,
                  reader, misused>>
  BY DEF DisconnectorStarts, connVars
<1>4. HandsOK'
  BY <1>2, <1>3 DEF IInv, HandsOK, Closing, Told
<1>5. JoinedOK'
  BY <1>2, <1>3 DEF IInv, JoinedOK, Closing
<1>6. QueueOK'
  BY <1>2, <1>3, QueueOfConns DEF IInv, QueueOK, Told
<1>7. StoppedOK'
  BY <1>2, <1>3 DEF IInv, StoppedOK, Closing, HandsOK, Told
<1>8. UntoldOK'
  BY <1>2, <1>3, QueueOfConns DEF IInv, UntoldOK, Told, HandsOK, Closing, QueueOK
<1>9. Accounted'
  BY <1>2, <1>3 DEF IInv, Accounted, Open, InHand, Closing, HandsOK, Told
<1>10. HeldOK'
  BY <1>2, <1>3 DEF IInv, HeldOK, HandsOK, Closing, Told
<1>11. ReadsLive'
  BY <1>2, <1>3 DEF IInv, ReadsLive
<1> QED BY <1>1, <1>4, <1>5, <1>6, <1>7, <1>8, <1>9, <1>10, <1>11 DEF IInv

LEMMA DisconnectorEndsStep ==
  ASSUME IInv, DisconnectorEnds
  PROVE  IInv'
<1>1. TypeOK'
  BY DEF IInv, TypeOK, Thread, DisconnectorEnds, DisconnectorGoes, serverVars, connVars
<1>2. /\ disconnector.at = "wait" /\ disconnector'.at = "ended"
  BY DEF IInv, TypeOK, Thread, DisconnectorEnds, DisconnectorGoes
<1>3. UNCHANGED <<acceptor, stopper, running, clients, disconnectQueue, ssl, stopped,
                  reader, misused>>
  BY DEF DisconnectorEnds, serverVars, connVars
<1>4. HandsOK'
  BY <1>2, <1>3 DEF IInv, HandsOK, Closing, Told
<1>5. JoinedOK'
  BY <1>2, <1>3 DEF IInv, JoinedOK, Closing
<1>6. QueueOK'
  BY <1>2, <1>3, QueueOfConns DEF IInv, QueueOK, Told
<1>7. StoppedOK'
  BY <1>2, <1>3 DEF IInv, StoppedOK, Closing, HandsOK, Told
<1>8. UntoldOK'
  BY <1>2, <1>3, QueueOfConns DEF IInv, UntoldOK, Told, HandsOK, Closing, QueueOK
<1>9. Accounted'
  BY <1>2, <1>3 DEF IInv, Accounted, Open, InHand, Closing, HandsOK, Told
<1>10. HeldOK'
  BY <1>2, <1>3 DEF IInv, HeldOK, HandsOK, Closing, Told
<1>11. ReadsLive'
  BY <1>2, <1>3 DEF IInv, ReadsLive
<1> QED BY <1>1, <1>4, <1>5, <1>6, <1>7, <1>8, <1>9, <1>10, <1>11 DEF IInv

LEMMA DisconnectorPopsStep ==
  ASSUME IInv, DisconnectorPops
  PROVE  IInv'
<1>0. /\ Head(disconnectQueue) \in Conns
      /\ Head(disconnectQueue) = disconnectQueue[1]
      /\ 1 \in 1 .. Len(disconnectQueue)
      /\ disconnectQueue' \in Seq(Conns) /\ IsInjective(disconnectQueue')
      /\ \A i \in 1 .. Len(disconnectQueue') :
           /\ i + 1 \in 1 .. Len(disconnectQueue)
           /\ disconnectQueue'[i] = disconnectQueue[i + 1]
           /\ disconnectQueue'[i] # Head(disconnectQueue)
  <2>1. disconnectQueue \in Seq(Conns) /\ IsInjective(disconnectQueue)
    BY DEF IInv, TypeOK
  <2>2. disconnectQueue' = Tail(disconnectQueue) /\ disconnectQueue # <<>>
    BY DEF DisconnectorPops
  <2> QED BY <2>1, <2>2, TailRest
<1>1. TypeOK'
  BY <1>0 DEF IInv, TypeOK, Thread, DisconnectorPops, connVars
<1>2. /\ disconnector.at = "wait" /\ disconnector'.at = "erase"
      /\ disconnector'.conn = Head(disconnectQueue)
  BY DEF IInv, TypeOK, DisconnectorPops
<1>3. UNCHANGED <<acceptor, stopper, running, clients, ssl, stopped, reader, misused>>
  BY DEF DisconnectorPops, connVars
<1>4. HandsOK'
  BY <1>0, <1>2, <1>3 DEF IInv, HandsOK, QueueOK, Closing
<1>5. JoinedOK'
  BY <1>2, <1>3 DEF IInv, JoinedOK, Closing
<1>6. QueueOK'
  BY <1>0, <1>3 DEF IInv, QueueOK
<1>7. StoppedOK'
  BY <1>0, <1>2, <1>3 DEF IInv, StoppedOK, UntoldOK
<1>8. UntoldOK'
  BY <1>0, <1>2, <1>3 DEF IInv, UntoldOK
<1>9. Accounted'
  BY <1>2, <1>3 DEF IInv, Accounted, Open, InHand, Closing, HandsOK, Told
<1>10. HeldOK'
  BY <1>2, <1>3 DEF IInv, HeldOK, HandsOK, Closing, Told
<1>11. ReadsLive'
  BY <1>2, <1>3 DEF IInv, ReadsLive
<1> QED BY <1>1, <1>4, <1>5, <1>6, <1>7, <1>8, <1>9, <1>10, <1>11 DEF IInv

LEMMA RemoveClientStep ==
  ASSUME IInv, RemoveClient
  PROVE  IInv'
<1>1. TypeOK'
  BY DEF IInv, TypeOK, Thread, RemoveClient, DisconnectorGoes, connVars
<1>2. /\ disconnector.at = "erase" /\ disconnector'.at = "mark"
      /\ disconnector'.conn = disconnector.conn
      /\ clients' = clients \ {disconnector.conn}
  BY DEF IInv, TypeOK, Thread, RemoveClient, DisconnectorGoes
<1>3. UNCHANGED <<acceptor, stopper, running, disconnectQueue, ssl, stopped, reader,
                  misused>>
  BY DEF RemoveClient, connVars
<1>4. HandsOK'
  BY <1>2, <1>3 DEF IInv, HandsOK, Closing, Told
<1>5. JoinedOK'
  BY <1>2, <1>3 DEF IInv, JoinedOK, Closing
<1>6. QueueOK'
  BY <1>2, <1>3, QueueOfConns DEF IInv, QueueOK, Told
<1>7. StoppedOK'
  BY <1>2, <1>3 DEF IInv, StoppedOK, Closing, HandsOK, Told
<1>8. UntoldOK'
  BY <1>2, <1>3, QueueOfConns DEF IInv, UntoldOK, Told, HandsOK, Closing, QueueOK
<1>9. Accounted'
  BY <1>2, <1>3 DEF IInv, Accounted, Open, InHand, Closing, HandsOK, Told
<1>10. HeldOK'
  BY <1>2, <1>3 DEF IInv, HeldOK, HandsOK, Closing, Told
<1>11. ReadsLive'
  BY <1>2, <1>3 DEF IInv, ReadsLive
<1> QED BY <1>1, <1>4, <1>5, <1>6, <1>7, <1>8, <1>9, <1>10, <1>11 DEF IInv

LEMMA StopBeginsStep ==
  ASSUME IInv, StopBegins
  PROVE  IInv'
<1>1. TypeOK'
  BY DEF IInv, TypeOK, Stopper, StopBegins, StopperGoes, connVars
<1>2. /\ stopper.at = "up" /\ stopper'.at = "join accept"
      /\ stopper'.todo = stopper.todo
      /\ stopper'.conn = stopper.conn
      /\ ~running'
  BY DEF IInv, TypeOK, Stopper, StopBegins, StopperGoes
<1>3. UNCHANGED <<acceptor, disconnector, clients, disconnectQueue, ssl, stopped, reader,
                  misused>>
  BY DEF StopBegins, connVars
<1>4. HandsOK'
  BY <1>2, <1>3 DEF IInv, HandsOK, Closing, Told
<1>5. JoinedOK'
  BY <1>2, <1>3 DEF IInv, JoinedOK, Closing
<1>6. QueueOK'
  BY <1>2, <1>3, QueueOfConns DEF IInv, QueueOK, Told
<1>7. StoppedOK'
  BY <1>2, <1>3 DEF IInv, StoppedOK, Closing, HandsOK, Told
<1>8. UntoldOK'
  BY <1>2, <1>3, QueueOfConns DEF IInv, UntoldOK, Told, HandsOK, Closing, QueueOK
<1>9. Accounted'
  BY <1>2, <1>3 DEF IInv, Accounted, Open, InHand, Closing, HandsOK, Told
<1>10. HeldOK'
  BY <1>2, <1>3 DEF IInv, HeldOK, HandsOK, Closing, Told
<1>11. ReadsLive'
  BY <1>2, <1>3 DEF IInv, ReadsLive
<1> QED BY <1>1, <1>4, <1>5, <1>6, <1>7, <1>8, <1>9, <1>10, <1>11 DEF IInv

LEMMA JoinAcceptorStep ==
  ASSUME IInv, JoinAcceptor
  PROVE  IInv'
<1>1. TypeOK'
  BY DEF IInv, TypeOK, Stopper, JoinAcceptor, StopperGoes, connVars
<1>2. /\ stopper.at = "join accept" /\ stopper'.at = "join disconnect"
      /\ stopper'.todo = stopper.todo
      /\ stopper'.conn = stopper.conn
      /\ acceptor.at = "ended"
  BY DEF IInv, TypeOK, Stopper, JoinAcceptor, StopperGoes
<1>3. UNCHANGED <<acceptor, disconnector, running, clients, disconnectQueue, ssl, stopped,
                  reader, misused>>
  BY DEF JoinAcceptor, connVars
<1>4. HandsOK'
  BY <1>2, <1>3 DEF IInv, HandsOK, Closing, Told
<1>5. JoinedOK'
  BY <1>2, <1>3 DEF IInv, JoinedOK, Closing
<1>6. QueueOK'
  BY <1>2, <1>3, QueueOfConns DEF IInv, QueueOK, Told
<1>7. StoppedOK'
  BY <1>2, <1>3 DEF IInv, StoppedOK, Closing, HandsOK, Told
<1>8. UntoldOK'
  BY <1>2, <1>3, QueueOfConns DEF IInv, UntoldOK, Told, HandsOK, Closing, QueueOK
<1>9. Accounted'
  BY <1>2, <1>3 DEF IInv, Accounted, Open, InHand, Closing, HandsOK, Told
<1>10. HeldOK'
  BY <1>2, <1>3 DEF IInv, HeldOK, HandsOK, Closing, Told
<1>11. ReadsLive'
  BY <1>2, <1>3 DEF IInv, ReadsLive
<1> QED BY <1>1, <1>4, <1>5, <1>6, <1>7, <1>8, <1>9, <1>10, <1>11 DEF IInv

LEMMA JoinDisconnectorStep ==
  ASSUME IInv, JoinDisconnector
  PROVE  IInv'
<1>1. TypeOK'
  BY DEF IInv, TypeOK, Stopper, JoinDisconnector, connVars
<1>2. /\ stopper.at = "join disconnect" /\ stopper'.at = "next"
      /\ stopper'.todo = clients
      /\ stopper'.conn = stopper.conn
      /\ disconnector.at = "ended"
      /\ clients' = {}
  BY DEF IInv, TypeOK, Stopper, JoinDisconnector
<1>3. UNCHANGED <<acceptor, disconnector, running, disconnectQueue, ssl, stopped, reader,
                  misused>>
  BY DEF JoinDisconnector, connVars
<1>4. HandsOK'
  BY <1>2, <1>3 DEF IInv, HandsOK, Closing, Told
<1>5. JoinedOK'
  BY <1>2, <1>3 DEF IInv, JoinedOK, Closing
<1>6. QueueOK'
  BY <1>2, <1>3, QueueOfConns DEF IInv, QueueOK, Told
<1>7. StoppedOK'
  BY <1>2, <1>3 DEF IInv, StoppedOK, Closing, HandsOK, Told
<1>8. UntoldOK'
  BY <1>2, <1>3, QueueOfConns DEF IInv, UntoldOK, Told, HandsOK, Closing, QueueOK
<1>9. Accounted'
  BY <1>2, <1>3 DEF IInv, Accounted, Open, InHand, Closing, JoinedOK
<1>10. HeldOK'
  BY <1>2, <1>3 DEF IInv, HeldOK, JoinedOK, Closing
<1>11. ReadsLive'
  BY <1>2, <1>3 DEF IInv, ReadsLive
<1> QED BY <1>1, <1>4, <1>5, <1>6, <1>7, <1>8, <1>9, <1>10, <1>11 DEF IInv

LEMMA StopNextStep ==
  ASSUME IInv, StopNext
  PROVE  IInv'
<1>0. /\ stopper' \in Stopper
      /\ \/ stopper'.at = "down" /\ stopper'.todo = {} /\ stopper.todo = {}
         \/ /\ stopper'.at = "mark" /\ stopper'.conn \in stopper.todo /\ stopper'.conn \in Conns
            /\ stopper'.todo = stopper.todo \ {stopper'.conn}
  <2>1. CASE stopper.todo = {}
    <3>1. stopper' = [stopper EXCEPT !.at = "down"]
      BY <2>1 DEF StopNext
    <3> QED BY <2>1, <3>1 DEF IInv, TypeOK, Stopper
  <2>2. CASE stopper.todo # {}
    <3>1. PICK d \in stopper.todo :
            stopper' = [at |-> "mark", conn |-> d, todo |-> stopper.todo \ {d}]
      BY <2>2 DEF StopNext
    <3>2. d \in Conns /\ stopper.todo \in SUBSET Conns
      BY DEF IInv, TypeOK, Stopper
    <3> QED BY <3>1, <3>2 DEF Stopper
  <2> QED BY <2>1, <2>2
<1>1. TypeOK'
  BY <1>0 DEF IInv, TypeOK, StopNext, connVars, serverVars
<1>2. /\ stopper.at = "next"
      /\ \/ stopper'.at = "down" /\ stopper'.todo = {} /\ stopper.todo = {}
         \/ /\ stopper'.at = "mark" /\ stopper'.conn \in stopper.todo /\ stopper'.conn \in Conns
            /\ stopper'.todo = stopper.todo \ {stopper'.conn}
  BY <1>0 DEF StopNext
<1>3. UNCHANGED <<acceptor, disconnector, running, clients, disconnectQueue, ssl, stopped,
                  reader, misused>>
  BY DEF StopNext, connVars, serverVars
<1>4. HandsOK'
  BY <1>2, <1>3 DEF IInv, HandsOK, Closing, Told
<1>5. JoinedOK'
  BY <1>2, <1>3 DEF IInv, JoinedOK, Closing
<1>6. QueueOK'
  BY <1>2, <1>3, QueueOfConns DEF IInv, QueueOK, Told
<1>7. StoppedOK'
  BY <1>2, <1>3 DEF IInv, StoppedOK, Closing, HandsOK, Told
<1>8. UntoldOK'
  BY <1>2, <1>3, QueueOfConns DEF IInv, UntoldOK, Told, HandsOK, Closing, QueueOK
<1>9. Accounted'
  BY <1>2, <1>3 DEF IInv, Accounted, Open, InHand, Closing, HandsOK, Told
<1>10. HeldOK'
  BY <1>2, <1>3 DEF IInv, HeldOK, HandsOK, Closing, Told
<1>11. ReadsLive'
  BY <1>2, <1>3 DEF IInv, ReadsLive
<1> QED BY <1>1, <1>4, <1>5, <1>6, <1>7, <1>8, <1>9, <1>10, <1>11 DEF IInv

LEMMA DisconnectorClosesStep ==
  ASSUME IInv, DisconnectorCloses
  PROVE  IInv'
<1> DEFINE c == disconnector.conn
<1>1. c \in Conns /\ disconnector.at \in Closing
  BY DEF IInv, HandsOK, DisconnectorCloses, CloseStep, Closing
<1>2. /\ UNCHANGED <<serverVars, acceptor, peer, reader, sender, stopper>>
      /\ UNCHANGED <<acceptor, stopper, running, clients, disconnectQueue, reader>>
  BY DEF DisconnectorCloses, CloseStep, serverVars
<1>3. CASE disconnector.at = "mark"
  <2>1. /\ ~stopped[c] /\ disconnector'.at = "free" /\ disconnector'.conn = c
        /\ \A d \in Conns : d # c => stopped'[d] = stopped[d]
        /\ UNCHANGED <<ssl, misused>>
    BY <1>1, <1>3 DEF IInv, StoppedOK, TypeOK, Thread, DisconnectorCloses, CloseStep,
         PlaceAfter, DisconnectorGoes, Marks
  <2>2. TypeOK'
    BY <1>1, <1>2, <1>3 DEF IInv, StoppedOK, TypeOK, Thread, DisconnectorCloses, CloseStep,
         PlaceAfter, DisconnectorGoes, Marks, serverVars
  <2>3. HandsOK'
    BY <1>1, <1>2, <1>3, <2>1 DEF IInv, HandsOK, Closing, Told, JoinedOK
  <2>4. JoinedOK'
    BY <1>1, <1>2, <1>3, <2>1 DEF IInv, JoinedOK, Closing
  <2>5. QueueOK'
    BY <1>1, <1>2, <1>3, <2>1, QueueOfConns DEF IInv, QueueOK, Told
  <2>6. StoppedOK'
    BY <1>1, <1>2, <1>3, <2>1 DEF IInv, StoppedOK, Closing, HandsOK, Told, JoinedOK
  <2>7. UntoldOK'
    BY <1>1, <1>2, <1>3, <2>1, QueueOfConns DEF IInv, UntoldOK, Told, HandsOK, Closing,
         QueueOK, JoinedOK
  <2>8. Accounted'
    BY <1>1, <1>2, <1>3, <2>1 DEF IInv, Accounted, Open, InHand, Closing, HeldOK
  <2>9. HeldOK'
    BY <1>1, <1>2, <1>3, <2>1 DEF IInv, HeldOK, HandsOK, Closing, Told, JoinedOK
  <2>10. ReadsLive'
    BY <1>1, <1>2, <1>3, <2>1 DEF IInv, ReadsLive, HandsOK, Closing, Told
  <2> QED BY <2>2, <2>3, <2>4, <2>5, <2>6, <2>7, <2>8, <2>9, <2>10 DEF IInv
<1>4. CASE disconnector.at = "free"
  <2>1. /\ disconnector'.at = "join" /\ disconnector'.conn = c
        /\ \A d \in Conns : d # c => ssl'[d] = ssl[d]
        /\ ssl'[c] # "live" /\ (ssl[c] # "none" => ssl'[c] # "none")
        /\ reader[c] # "reading" => misused' = misused
        /\ misused' \subseteq misused \cup {"read"}
        /\ UNCHANGED stopped
    BY <1>1, <1>4 DEF IInv, StoppedOK, TypeOK, Thread, DisconnectorCloses, CloseStep,
         PlaceAfter, DisconnectorGoes, Frees
  <2>2. TypeOK'
    <3>1. Frees(c) /\ DisconnectorGoes("join")
      BY <1>4 DEF DisconnectorCloses, CloseStep, PlaceAfter
    <3>2. disconnector' \in Thread
      BY <3>1 DEF IInv, TypeOK, Thread, Frees, DisconnectorGoes
    <3>3. ssl' \in [Conns -> {"none", "live", "freed"}]
      BY <1>1, <3>1 DEF IInv, TypeOK, Frees
    <3>4. misused' \subseteq {"read", "write"} /\ UNCHANGED <<stopped, alive>>
      BY <3>1 DEF IInv, TypeOK, Frees
    <3> QED BY <1>2, <3>2, <3>3, <3>4 DEF IInv, TypeOK, serverVars
  <2>3. HandsOK'
    BY <1>1, <1>2, <1>4, <2>1 DEF IInv, HandsOK, Closing, Told, JoinedOK
  <2>4. JoinedOK'
    BY <1>1, <1>2, <1>4, <2>1 DEF IInv, JoinedOK, Closing
  <2>5. QueueOK'
    BY <1>1, <1>2, <1>4, <2>1, QueueOfConns DEF IInv, QueueOK, Told
  <2>6. StoppedOK'
    BY <1>1, <1>2, <1>4, <2>1 DEF IInv, StoppedOK, Closing, HandsOK, Told, JoinedOK
  <2>7. UntoldOK'
    BY <1>1, <1>2, <1>4, <2>1, QueueOfConns DEF IInv, UntoldOK, Told, HandsOK, Closing,
         QueueOK, JoinedOK
  <2>8. Accounted'
    BY <1>1, <1>2, <1>4, <2>1 DEF IInv, Accounted, Open, InHand, Closing, HeldOK
  <2>9. HeldOK'
    BY <1>1, <1>2, <1>4, <2>1 DEF IInv, HeldOK, HandsOK, Closing, Told, JoinedOK
  <2>10. ReadsLive'
    BY <1>1, <1>2, <1>4, <2>1 DEF IInv, ReadsLive, HandsOK, Closing, Told
  <2> QED BY <2>2, <2>3, <2>4, <2>5, <2>6, <2>7, <2>8, <2>9, <2>10 DEF IInv
<1>5. CASE disconnector.at = "join"
  <2>1. /\ disconnector'.at = "wait"
        /\ reader[c] \in {"off", "ended"}
        /\ UNCHANGED <<ssl, stopped, misused>>
    <3>1. JoinsReader(c) /\ DisconnectorGoes("closed")
      BY <1>5 DEF DisconnectorCloses, CloseStep, PlaceAfter
    <3>2. disconnector' = [at |-> "wait", conn |-> NoConn]
      BY <3>1 DEF JoinsReader, DisconnectorGoes
    <3> QED BY <3>1, <3>2 DEF JoinsReader
  <2>2. TypeOK'
    <3>1. JoinsReader(c) /\ DisconnectorGoes("closed")
      BY <1>5 DEF DisconnectorCloses, CloseStep, PlaceAfter
    <3>2. disconnector' \in Thread
      BY <3>1 DEF JoinsReader, DisconnectorGoes, Thread
    <3> QED BY <1>2, <3>1, <3>2 DEF IInv, TypeOK, JoinsReader, serverVars
  <2>3. HandsOK'
    BY <1>1, <1>2, <1>5, <2>1 DEF IInv, HandsOK, Closing, Told, JoinedOK
  <2>4. JoinedOK'
    BY <1>1, <1>2, <1>5, <2>1 DEF IInv, JoinedOK, Closing
  <2>5. QueueOK'
    BY <1>1, <1>2, <1>5, <2>1, QueueOfConns DEF IInv, QueueOK, Told
  <2>6. StoppedOK'
    BY <1>1, <1>2, <1>5, <2>1 DEF IInv, StoppedOK, Closing, HandsOK, Told, JoinedOK
  <2>7. UntoldOK'
    BY <1>1, <1>2, <1>5, <2>1, QueueOfConns DEF IInv, UntoldOK, Told, HandsOK, Closing,
         QueueOK, JoinedOK
  <2>8. Accounted'
    BY <1>1, <1>2, <1>5, <2>1 DEF IInv, Accounted, Open, InHand, Closing, HeldOK
  <2>9. HeldOK'
    BY <1>1, <1>2, <1>5, <2>1 DEF IInv, HeldOK, HandsOK, Closing, Told, JoinedOK
  <2>10. ReadsLive'
    BY <1>1, <1>2, <1>5, <2>1 DEF IInv, ReadsLive, HandsOK, Closing, Told
  <2> QED BY <2>2, <2>3, <2>4, <2>5, <2>6, <2>7, <2>8, <2>9, <2>10 DEF IInv
<1> QED BY <1>1, <1>3, <1>4, <1>5 DEF Closing

LEMMA StopperClosesStep ==
  ASSUME IInv, StopperCloses
  PROVE  IInv'
<1> DEFINE c == stopper.conn
<1>1. c \in Conns /\ stopper.at \in Closing
  BY DEF IInv, HandsOK, StopperCloses, CloseStep, Closing
<1>2. /\ UNCHANGED <<serverVars, acceptor, peer, reader, sender, disconnector>>
      /\ UNCHANGED <<acceptor, disconnector, running, clients, disconnectQueue, reader>>
  BY DEF StopperCloses, CloseStep, serverVars
<1>3. CASE stopper.at = "mark"
  <2>1. /\ ~stopped[c] /\ stopper'.at = "free" /\ stopper'.conn = c
        /\ stopper'.todo = stopper.todo
        /\ \A d \in Conns : d # c => stopped'[d] = stopped[d]
        /\ UNCHANGED <<ssl, misused>>
    BY <1>1, <1>3 DEF IInv, StoppedOK, TypeOK, Stopper, StopperCloses, CloseStep,
         PlaceAfter, StopperGoes, Marks
  <2>2. TypeOK'
    BY <1>1, <1>2, <1>3 DEF IInv, StoppedOK, TypeOK, Stopper, StopperCloses, CloseStep,
         PlaceAfter, StopperGoes, Marks, serverVars
  <2>3. HandsOK'
    BY <1>1, <1>2, <1>3, <2>1 DEF IInv, HandsOK, Closing, Told, JoinedOK
  <2>4. JoinedOK'
    BY <1>1, <1>2, <1>3, <2>1 DEF IInv, JoinedOK, Closing
  <2>5. QueueOK'
    BY <1>1, <1>2, <1>3, <2>1, QueueOfConns DEF IInv, QueueOK, Told
  <2>6. StoppedOK'
    BY <1>1, <1>2, <1>3, <2>1 DEF IInv, StoppedOK, Closing, HandsOK, Told, JoinedOK
  <2>7. UntoldOK'
    BY <1>1, <1>2, <1>3, <2>1, QueueOfConns DEF IInv, UntoldOK, Told, HandsOK, Closing,
         QueueOK, JoinedOK
  <2>8. Accounted'
    BY <1>1, <1>2, <1>3, <2>1 DEF IInv, Accounted, Open, InHand, Closing, HeldOK
  <2>9. HeldOK'
    BY <1>1, <1>2, <1>3, <2>1 DEF IInv, HeldOK, HandsOK, Closing, Told, JoinedOK
  <2>10. ReadsLive'
    BY <1>1, <1>2, <1>3, <2>1 DEF IInv, ReadsLive, HandsOK, Closing, Told
  <2> QED BY <2>2, <2>3, <2>4, <2>5, <2>6, <2>7, <2>8, <2>9, <2>10 DEF IInv
<1>4. CASE stopper.at = "free"
  <2>1. /\ stopper'.at = "join" /\ stopper'.conn = c
        /\ stopper'.todo = stopper.todo
        /\ \A d \in Conns : d # c => ssl'[d] = ssl[d]
        /\ ssl'[c] # "live" /\ (ssl[c] # "none" => ssl'[c] # "none")
        /\ reader[c] # "reading" => misused' = misused
        /\ misused' \subseteq misused \cup {"read"}
        /\ UNCHANGED stopped
    BY <1>1, <1>4 DEF IInv, StoppedOK, TypeOK, Stopper, StopperCloses, CloseStep,
         PlaceAfter, StopperGoes, Frees
  <2>2. TypeOK'
    <3>1. Frees(c) /\ StopperGoes("join")
      BY <1>4 DEF StopperCloses, CloseStep, PlaceAfter
    <3>2. stopper' \in Stopper
      BY <3>1 DEF IInv, TypeOK, Stopper, Frees, StopperGoes
    <3>3. ssl' \in [Conns -> {"none", "live", "freed"}]
      BY <1>1, <3>1 DEF IInv, TypeOK, Frees
    <3>4. misused' \subseteq {"read", "write"} /\ UNCHANGED <<stopped, alive>>
      BY <3>1 DEF IInv, TypeOK, Frees
    <3> QED BY <1>2, <3>2, <3>3, <3>4 DEF IInv, TypeOK, serverVars
  <2>3. HandsOK'
    BY <1>1, <1>2, <1>4, <2>1 DEF IInv, HandsOK, Closing, Told, JoinedOK
  <2>4. JoinedOK'
    BY <1>1, <1>2, <1>4, <2>1 DEF IInv, JoinedOK, Closing
  <2>5. QueueOK'
    BY <1>1, <1>2, <1>4, <2>1, QueueOfConns DEF IInv, QueueOK, Told
  <2>6. StoppedOK'
    BY <1>1, <1>2, <1>4, <2>1 DEF IInv, StoppedOK, Closing, HandsOK, Told, JoinedOK
  <2>7. UntoldOK'
    BY <1>1, <1>2, <1>4, <2>1, QueueOfConns DEF IInv, UntoldOK, Told, HandsOK, Closing,
         QueueOK, JoinedOK
  <2>8. Accounted'
    BY <1>1, <1>2, <1>4, <2>1 DEF IInv, Accounted, Open, InHand, Closing, HeldOK
  <2>9. HeldOK'
    BY <1>1, <1>2, <1>4, <2>1 DEF IInv, HeldOK, HandsOK, Closing, Told, JoinedOK
  <2>10. ReadsLive'
    BY <1>1, <1>2, <1>4, <2>1 DEF IInv, ReadsLive, HandsOK, Closing, Told
  <2> QED BY <2>2, <2>3, <2>4, <2>5, <2>6, <2>7, <2>8, <2>9, <2>10 DEF IInv
<1>5. CASE stopper.at = "join"
  <2>1. /\ stopper'.at = "next"
        /\ stopper'.todo = stopper.todo
        /\ reader[c] \in {"off", "ended"}
        /\ UNCHANGED <<ssl, stopped, misused>>
    BY <1>1, <1>5 DEF IInv, StoppedOK, TypeOK, Stopper, StopperCloses, CloseStep,
         PlaceAfter, StopperGoes, JoinsReader
  <2>2. TypeOK'
    BY <1>1, <1>2, <1>5 DEF IInv, StoppedOK, TypeOK, Stopper, StopperCloses, CloseStep,
         PlaceAfter, StopperGoes, JoinsReader, serverVars
  <2>3. HandsOK'
    BY <1>1, <1>2, <1>5, <2>1 DEF IInv, HandsOK, Closing, Told, JoinedOK
  <2>4. JoinedOK'
    BY <1>1, <1>2, <1>5, <2>1 DEF IInv, JoinedOK, Closing
  <2>5. QueueOK'
    BY <1>1, <1>2, <1>5, <2>1, QueueOfConns DEF IInv, QueueOK, Told
  <2>6. StoppedOK'
    BY <1>1, <1>2, <1>5, <2>1 DEF IInv, StoppedOK, Closing, HandsOK, Told, JoinedOK
  <2>7. UntoldOK'
    BY <1>1, <1>2, <1>5, <2>1, QueueOfConns DEF IInv, UntoldOK, Told, HandsOK, Closing,
         QueueOK, JoinedOK
  <2>8. Accounted'
    BY <1>1, <1>2, <1>5, <2>1 DEF IInv, Accounted, Open, InHand, Closing, HeldOK
  <2>9. HeldOK'
    BY <1>1, <1>2, <1>5, <2>1 DEF IInv, HeldOK, HandsOK, Closing, Told, JoinedOK
  <2>10. ReadsLive'
    BY <1>1, <1>2, <1>5, <2>1 DEF IInv, ReadsLive, HandsOK, Closing, Told
  <2> QED BY <2>2, <2>3, <2>4, <2>5, <2>6, <2>7, <2>8, <2>9, <2>10 DEF IInv
<1> QED BY <1>1, <1>3, <1>4, <1>5 DEF Closing

LEMMA NextIInv == IInv /\ [Next]_vars => IInv'
<1> SUFFICES ASSUME IInv, [Next]_vars PROVE IInv'
  OBVIOUS
<1>1. CASE AcceptorNext
  BY <1>1, AcceptLoopStep, AcceptStep, AcceptFailsStep, HandshakeStep, PushStep,
     StartReaderStep DEF AcceptorNext
<1>2. CASE DisconnectorNext
  BY <1>2, DisconnectorStartsStep, DisconnectorEndsStep, DisconnectorPopsStep,
     RemoveClientStep, DisconnectorClosesStep DEF DisconnectorNext
<1>3. CASE StopBegins
  BY <1>3, StopBeginsStep
<1>4. CASE StopperNext
  BY <1>4, JoinAcceptorStep, JoinDisconnectorStep, StopNextStep, StopperClosesStep
     DEF StopperNext
<1>5. ASSUME NEW c \in Conns,
             Connect(c) \/ Leave(c) \/ ReaderNext(c) \/ SendChecks(c) \/ SenderNext(c)
      PROVE  IInv'
  BY <1>5, ConnectStep, LeaveStep, ReadEndsStep, EnqueueDisconnectStep, ReaderEndsStep,
     SendChecksStep, SendWritesStep, SendEndsStep DEF ReaderNext, SenderNext
<1>6. CASE UNCHANGED vars
  <2>1. TypeOK'
    BY <1>6 DEF IInv, TypeOK, vars, serverVars, threadVars, connVars
  <2>2. UNCHANGED heldVars /\ misused' \subseteq misused \cup {"write"}
    BY <1>6 DEF vars, heldVars, serverVars, threadVars, connVars
  <2> QED BY <2>1, <2>2, Quiet DEF IInv
<1> QED BY <1>1, <1>2, <1>3, <1>4, <1>5, <1>6 DEF Next

\* The strengthened invariant holds in every reachable state of the server.
THEOREM ServerInductive == Spec => []IInv
BY InitIInv, NextIInv, PTL DEF Spec

\* Every variable keeps its type, and no connection is in the disconnect queue twice, for
\* its read thread tells of it once (PlayerConnection::readLoop, enqueueDisconnect).
THEOREM ServerTypeCorrect == Spec => []TypeOK
<1>1. IInv => TypeOK
  BY DEF IInv
<1> QED BY <1>1, ServerInductive, PTL

\* However many clients come and go, the disconnect thread never frees the SSL object of
\* a connection that its read thread still reads (PlayerConnection::stop, readLoop).
THEOREM ReadersAreLeftAlone == Spec => []ReadsLive
<1>1. IInv => ReadsLive
  BY DEF IInv
<1> QED BY <1>1, ServerInductive, PTL

\* When stop() returns, every connection ever accepted is closed and its read thread
\* joined, whatever was in the disconnect queue (TcpServer::stop, removeClient).
THEOREM NothingIsLeft == Spec => []AllClosed
<1>1. IInv => AllClosed
  BY DEF IInv, JoinedOK, Accounted, Open, InHand, Closing, AllClosed
<1> QED BY <1>1, ServerInductive, PTL

=============================================================================
