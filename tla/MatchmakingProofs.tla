------------------------- MODULE MatchmakingProofs -------------------------
(***************************************************************************)
(* Theorems about Matchmaking, for any number of clients and any bounds:   *)
(* type correctness, AcceptedByBoth and NoTwoInQueue; for clients that do  *)
(* not requeue, NobodyForgotten and TwoDifferentPlayers; and for clients   *)
(* that stay, that Matchmaking implements Lobby.                           *)
(*                                                                         *)
(* None of the first three is inductive alone.  A read thread carries the  *)
(* match it found from one critical section to the next (LocalsOK), and    *)
(* the queue is as long as the position of queueMutex's holder allows      *)
(* (QueueOK); with these they are.                                         *)
(***************************************************************************)
EXTENDS Matchmaking, SequenceTheorems, WellFoundedInduction, TLAPS

\* Where a read thread holds a PendingMatch in a local variable.
HoldsMatch == {"foundA", "foundB", "accept", "start", "dcCancel", "dcNotify"}

LocalsOK ==
  /\ \A s \in 1 .. Len(sessions) : sessions[s].match \in 1 .. Len(matches)
  /\ \A p \in Players : pc[p] \in HoldsMatch => match[p] \in 1 .. Len(matches)
  /\ \A p \in Players : pc[p] = "start" => session[p] \in 1 .. Len(sessions)

QueueOK ==
  /\ NoTwoInQueue
  /\ \A p \in Players : pc[p] \in {"pair", "foundA", "foundB"} => queueMutex = p
  /\ \A p \in Players : pc[p] = "pair" => Len(playerQueue) = 2
  /\ \A p \in Players : pc[p] \in {"foundA", "foundB"} => Len(playerQueue) = 0

IInv == TypeOK /\ LocalsOK /\ QueueOK /\ AcceptedByBoth

-----------------------------------------------------------------------------
(***************************************************************************)
(* Lemmas about the operators                                              *)
(***************************************************************************)

\* Every nonempty set of numbers has a least element.
LEMMA LeastNat ==
  ASSUME NEW T \in SUBSET Nat, T # {}
  PROVE  \E m \in T : \A n \in T : m <= n
<1>1. PICK m \in T : \A n \in T : ~ (<<n, m>> \in OpToRel(<, Nat))
  BY NatLessThanWellFounded, WFMin
<1>2. \A n \in T : m <= n
  <2> TAKE n \in T
  <2>1. m \in Nat /\ n \in Nat
    OBVIOUS
  <2>2. <<n, m>> \in OpToRel(<, Nat) <=> n < m
    BY <2>1 DEF OpToRel
  <2>3. ~ (n < m)
    BY <1>1, <2>2, Zenon
  <2> QED BY <2>1, <2>3
<1> QED BY <1>2

\* What removePlayer leaves of a queue of at most one player.
LEMMA WithoutOne ==
  ASSUME NEW S, NEW q \in Seq(S), Len(q) <= 1, NEW p
  PROVE  Without(q, p) = IF Len(q) = 1 /\ q[1] # p THEN Append(<<>>, q[1]) ELSE <<>>
<1> DEFINE body(f) == [i \in 0 .. Len(q) |->
             IF i = 0 THEN <<>>
             ELSE IF q[i] = p THEN f[i - 1] ELSE Append(f[i - 1], q[i])]
<1> DEFINE last == IF q[1] = p THEN <<>> ELSE Append(<<>>, q[1])
<1> DEFINE g == [i \in 0 .. Len(q) |-> IF i = 0 THEN <<>> ELSE last]
<1>0. Len(q) = 0 \/ Len(q) = 1
  <2>1. \A n \in Nat : n <= 1 => n = 0 \/ n = 1
    OBVIOUS
  <2> QED BY <2>1, LenProperties, Zenon
<1>1. g = body(g)
  <2> HIDE DEF last
  <2>1. \A i \in 0 .. Len(q) : g[i] = body(g)[i]
    <3> TAKE i \in 0 .. Len(q)
    <3>1. CASE i = 0
      BY <3>1, <1>0
    <3>2. CASE i = 1 /\ Len(q) = 1
      <4>1. g[0] = <<>> /\ g[1] = last
        BY <3>2
      <4>2. body(g)[1] = IF q[1] = p THEN g[0] ELSE Append(g[0], q[1])
        BY <3>2
      <4> HIDE DEF g, body
      <4> QED BY <4>1, <4>2, <3>2 DEF last
    <3> QED BY <1>0, <3>1, <3>2
  <2> QED BY <2>1
<1>2. PICK f : f = (CHOOSE h : h = body(h))
  OBVIOUS
<1>3. f = body(f)
  <2> HIDE DEF g, body
  <2> QED BY <1>1, <1>2
<1>4. Without(q, p) = f[Len(q)]
  BY <1>2 DEF Without
<1>5. f[0] = <<>>
  BY <1>3, <1>0
<1>6. CASE Len(q) = 0
  BY <1>4, <1>5, <1>6
<1>7. CASE Len(q) = 1
  <2>1. f[1] = IF q[1] = p THEN f[0] ELSE Append(f[0], q[1])
    BY <1>3, <1>7
  <2> QED BY <2>1, <1>4, <1>5, <1>7
<1> QED BY <1>0, <1>6, <1>7

\* A queue of at most one player is as short after removePlayer.
LEMMA WithoutShort ==
  ASSUME NEW S, NEW q \in Seq(S), Len(q) <= 1, NEW p
  PROVE  /\ Without(q, p) \in Seq(S)
         /\ Len(Without(q, p)) <= 1
<1>1. <<>> \in Seq(S) /\ Len(<<>>) = 0
  BY EmptySeq
<1>2. CASE Len(q) = 1 /\ q[1] # p
  <2>1. q[1] \in S
    BY <1>2, ElementOfSeq
  <2>2. Append(<<>>, q[1]) \in Seq(S) /\ Len(Append(<<>>, q[1])) = 1
    BY <2>1, <1>1, AppendProperties
  <2>3. Without(q, p) = Append(<<>>, q[1])
    BY <1>2, WithoutOne
  <2> QED BY <2>2, <2>3
<1>3. CASE ~(Len(q) = 1 /\ q[1] # p)
  <2>1. Without(q, p) = <<>>
    BY <1>3, WithoutOne
  <2> QED BY <1>1, <2>1
<1> QED BY <1>2, <1>3

\* A pending match is between two clients.
LEMMA MatchRecord ==
  ASSUME MatchTypes, NEW m \in 1 .. Len(matches)
  PROVE  /\ matches[m] \in PendingMatch
         /\ matches[m].a \in Players /\ matches[m].b \in Players
<1>1. matches[m] \in PendingMatch
  BY ElementOfSeq DEF MatchTypes
<1> QED BY <1>1 DEF PendingMatch

\* findPending returns nothing or a match that was made.
LEMMA FindPendingType ==
  ASSUME MatchTypes, NEW p \in Players
  PROVE  /\ FindPending(p) \in 0 .. Len(matches)
         /\ FindPending(p) # 0 => FindPending(p) \in 1 .. Len(matches)
<1> DEFINE L == Len(matches)
<1>1. L \in Nat
  BY LenProperties DEF MatchTypes
<1>2. PendingOf(p) \subseteq 1 .. L
  BY DEF MatchTypes, PendingOf
<1> HIDE DEF L
<1>3. CASE PendingOf(p) = {}
  <2>1. FindPending(p) = 0
    BY <1>3 DEF FindPending
  <2>2. 0 \in 0 .. L
    BY <1>1
  <2> QED BY <2>1, <2>2 DEF L
<1>4. CASE PendingOf(p) # {}
  <2>1. \E m \in PendingOf(p) : \A n \in PendingOf(p) : m <= n
    BY <1>1, <1>2, <1>4, LeastNat
  <2>2. FindPending(p) \in 1 .. L
    BY <1>2, <1>4, <2>1 DEF FindPending
  <2>3. FindPending(p) \in 0 .. L
    BY <1>1, <2>2
  <2> QED BY <2>2, <2>3 DEF L
<1> QED BY <1>3, <1>4

\* Taking a message out of a box, and adding one, keep the boxes typed.
LEMMA TailType ==
  ASSUME NEW S, NEW box \in [Players -> Seq(S)], NEW p \in Players, box[p] # <<>>
  PROVE  /\ [box EXCEPT ![p] = Tail(@)] \in [Players -> Seq(S)]
         /\ Head(box[p]) \in S
<1>1. Head(box[p]) \in S /\ Tail(box[p]) \in Seq(S)
  BY HeadTailProperties
<1> QED BY <1>1, Zenon

LEMMA AppendType ==
  ASSUME NEW S, NEW box \in [Players -> Seq(S)], NEW p \in Players, NEW e \in S
  PROVE  [box EXCEPT ![p] = Append(@, e)] \in [Players -> Seq(S)]
<1>1. Append(box[p], e) \in Seq(S)
  BY AppendProperties
<1> QED BY <1>1, Zenon

LEMMA SendType ==
  ASSUME NEW box \in [Players -> Seq(ServerMessage)], NEW p \in Players,
         NEW e \in ServerMessage
  PROVE  Send(box, p, e) \in [Players -> Seq(ServerMessage)]
BY AppendType DEF Send

\* A handler that returns leaves its thread typed, at idle or done.
LEMMA ReturnType ==
  ASSUME ThreadTypes, MatchTypes, NEW p \in Players, Return(p),
         Len(matches') = Len(matches), Len(sessions') = Len(sessions)
  PROVE  /\ ThreadTypes'
         /\ pc' = [pc EXCEPT ![p] = back[p]]
         /\ back[p] \in {"idle", "done"}
<1> DEFINE M == 0 .. Len(matches)
<1>1. 0 \in M
  BY LenProperties DEF MatchTypes
<1>2. match \in [Players -> M] /\ M' = M
  BY DEF ThreadTypes
<1> HIDE DEF M
<1>3. match' \in [Players -> M]
  BY <1>1, <1>2 DEF Return
<1>4. match' \in [Players -> M']
  BY <1>2, <1>3
<1> QED BY <1>4 DEF M, Return, Goto, ThreadTypes, Location

\* Adding the next index to a set of indices.
LEMMA GrowRange ==
  ASSUME NEW L \in Nat, NEW T, T \subseteq 1 .. L
  PROVE  T \cup {L + 1} \subseteq 1 .. (L + 1) /\ L + 1 \notin T /\ L + 1 \in 1 .. (L + 1)
OBVIOUS

\* onAccept updates one match and leaves the others.
LEMMA MatchUpdated ==
  ASSUME MatchTypes, NEW m \in 1 .. Len(matches), NEW r \in PendingMatch,
         matches' = [matches EXCEPT ![m] = r]
  PROVE  /\ matches' \in Seq(PendingMatch) /\ Len(matches') = Len(matches)
         /\ matches'[m] = r
         /\ \A n \in 1 .. Len(matches) : n # m => matches'[n] = matches[n]
BY ExceptSeq DEF MatchTypes

-----------------------------------------------------------------------------
(***************************************************************************)
(* Steps of the clients                                                    *)
(***************************************************************************)

LEMMA ClientConnectStep ==
  ASSUME IInv, NEW p \in Players, ClientConnect(p)
  PROVE  IInv'
<1> USE DEF IInv, TypeOK, ClientConnect, clientVars, netVars, queueVars, matchVars, threadVars, dcVars
<1>1. ClientTypes'
  BY MatchmakingAssumption DEF ClientTypes, Screen, MatchmakingAssumption
<1>2. NetTypes'
  BY TailType, AppendType, SendType DEF NetTypes, ClientMessage, ServerMessage
<1>3. (QueueTypes /\ MatchTypes /\ ThreadTypes /\ DcTypes /\ LocalsOK /\ QueueOK /\ AcceptedByBoth)'
  BY DEF QueueTypes, MatchTypes, ThreadTypes, DcTypes, LocalsOK, QueueOK, AcceptedByBoth, NoTwoInQueue, BothAccepted
<1> QED BY <1>1, <1>2, <1>3

LEMMA ClientReceiveStep ==
  ASSUME IInv, NEW p \in Players, ClientReceive(p)
  PROVE  IInv'
<1> USE DEF IInv, TypeOK, ClientReceive, clientVars, netVars, queueVars, matchVars, threadVars, dcVars
<1>1. ClientTypes'
  <2>1. PICK screen \in ScreenAfter(p, Head(s2c[p])) : ui' = [ui EXCEPT ![p] = screen]
    OBVIOUS
  <2>2. screen \in Screen
    BY <2>1, Zenon DEF ScreenAfter, Screen, ClientTypes
  <2> QED BY <2>1, <2>2, MatchmakingAssumption DEF ClientTypes, MatchmakingAssumption
<1>2. NetTypes'
  BY TailType, AppendType, SendType DEF NetTypes, ClientMessage, ServerMessage
<1>3. (QueueTypes /\ MatchTypes /\ ThreadTypes /\ DcTypes /\ LocalsOK /\ QueueOK /\ AcceptedByBoth)'
  BY DEF QueueTypes, MatchTypes, ThreadTypes, DcTypes, LocalsOK, QueueOK, AcceptedByBoth, NoTwoInQueue, BothAccepted
<1> QED BY <1>1, <1>2, <1>3

LEMMA ClientAcceptStep ==
  ASSUME IInv, NEW p \in Players, ClientAccept(p)
  PROVE  IInv'
<1> USE DEF IInv, TypeOK, ClientAccept, clientVars, netVars, queueVars, matchVars, threadVars, dcVars
<1>1. ClientTypes'
  BY MatchmakingAssumption DEF ClientTypes, Screen, MatchmakingAssumption
<1>2. NetTypes'
  BY TailType, AppendType, SendType DEF NetTypes, ClientMessage, ServerMessage
<1>3. (QueueTypes /\ MatchTypes /\ ThreadTypes /\ DcTypes /\ LocalsOK /\ QueueOK /\ AcceptedByBoth)'
  BY DEF QueueTypes, MatchTypes, ThreadTypes, DcTypes, LocalsOK, QueueOK, AcceptedByBoth, NoTwoInQueue, BothAccepted
<1> QED BY <1>1, <1>2, <1>3

LEMMA ClientRequeueStep ==
  ASSUME IInv, NEW p \in Players, ClientRequeue(p)
  PROVE  IInv'
<1> USE DEF IInv, TypeOK, ClientRequeue, clientVars, netVars, queueVars, matchVars, threadVars, dcVars
<1>1. ClientTypes'
  BY MatchmakingAssumption DEF ClientTypes, Screen, MatchmakingAssumption
<1>2. NetTypes'
  BY TailType, AppendType, SendType DEF NetTypes, ClientMessage, ServerMessage
<1>3. (QueueTypes /\ MatchTypes /\ ThreadTypes /\ DcTypes /\ LocalsOK /\ QueueOK /\ AcceptedByBoth)'
  BY DEF QueueTypes, MatchTypes, ThreadTypes, DcTypes, LocalsOK, QueueOK, AcceptedByBoth, NoTwoInQueue, BothAccepted
<1> QED BY <1>1, <1>2, <1>3

LEMMA ClientLeaveStep ==
  ASSUME IInv, NEW p \in Players, ClientLeave(p)
  PROVE  IInv'
<1> USE DEF IInv, TypeOK, ClientLeave, clientVars, netVars, queueVars, matchVars, threadVars, dcVars
<1>1. ClientTypes'
  BY MatchmakingAssumption DEF ClientTypes, Screen, MatchmakingAssumption
<1>2. NetTypes'
  <2>1. <<>> \in Seq(ServerMessage) /\ <<>> \in Seq(ClientMessage)
    BY EmptySeq
  <2>2. PICK rest \in {c2s[p], <<>>} : c2s' = [c2s EXCEPT ![p] = rest]
    OBVIOUS
  <2> QED BY <2>1, <2>2 DEF NetTypes
<1>3. (QueueTypes /\ MatchTypes /\ ThreadTypes /\ DcTypes /\ LocalsOK /\ QueueOK /\ AcceptedByBoth)'
  BY DEF QueueTypes, MatchTypes, ThreadTypes, DcTypes, LocalsOK, QueueOK, AcceptedByBoth, NoTwoInQueue, BothAccepted
<1> QED BY <1>1, <1>2, <1>3

-----------------------------------------------------------------------------
(***************************************************************************)
(* Steps of the read threads                                               *)
(***************************************************************************)

LEMMA ReadEnqueueStep ==
  ASSUME IInv, NEW p \in Players, ReadEnqueue(p)
  PROVE  IInv'
<1> USE DEF IInv, TypeOK, ReadEnqueue, clientVars, netVars, queueVars, matchVars, threadVars, dcVars, Goto, Reads
<1>1. NetTypes'
  BY TailType, AppendType, SendType DEF NetTypes, ClientMessage, ServerMessage
<1>2. ThreadTypes'
  BY FindPendingType DEF ThreadTypes, MatchTypes, Location
<1>3. LocalsOK'
  BY FindPendingType DEF LocalsOK, HoldsMatch, ThreadTypes, MatchTypes
<1>4. QueueOK'
  BY DEF QueueOK, NoTwoInQueue, QueueTypes, ThreadTypes
<1>5. (ClientTypes /\ QueueTypes /\ MatchTypes /\ DcTypes /\ AcceptedByBoth)'
  BY DEF ClientTypes, QueueTypes, MatchTypes, DcTypes, AcceptedByBoth, BothAccepted
<1> QED BY <1>1, <1>2, <1>3, <1>4, <1>5

LEMMA ReadAcceptStep ==
  ASSUME IInv, NEW p \in Players, ReadAccept(p)
  PROVE  IInv'
<1> USE DEF IInv, TypeOK, ReadAccept, clientVars, netVars, queueVars, matchVars, threadVars, dcVars, Goto, Reads
<1>1. NetTypes'
  BY TailType, AppendType, SendType DEF NetTypes, ClientMessage, ServerMessage
<1>2. ThreadTypes'
  <2>1. FindPending(p) \in 0 .. Len(matches)
    BY FindPendingType
  <2> QED BY <2>1 DEF ThreadTypes, Location
<1>3. LocalsOK'
  BY FindPendingType DEF LocalsOK, HoldsMatch, ThreadTypes, MatchTypes
<1>4. QueueOK'
  BY DEF QueueOK, NoTwoInQueue, QueueTypes, ThreadTypes
<1>5. (ClientTypes /\ QueueTypes /\ MatchTypes /\ DcTypes /\ AcceptedByBoth)'
  BY DEF ClientTypes, QueueTypes, MatchTypes, DcTypes, AcceptedByBoth, BothAccepted
<1> QED BY <1>1, <1>2, <1>3, <1>4, <1>5

LEMMA ReadInGameStep ==
  ASSUME IInv, NEW p \in Players, ReadInGame(p)
  PROVE  IInv'
<1> USE DEF IInv, TypeOK, ReadInGame, clientVars, netVars, queueVars, matchVars, threadVars, dcVars, Goto, Reads
<1>1. NetTypes'
  BY TailType, AppendType, SendType DEF NetTypes, ClientMessage, ServerMessage
<1>2. (ClientTypes /\ QueueTypes /\ MatchTypes /\ ThreadTypes /\ DcTypes /\ LocalsOK /\ QueueOK /\ AcceptedByBoth)'
  BY DEF ClientTypes, QueueTypes, MatchTypes, ThreadTypes, DcTypes, LocalsOK, QueueOK, AcceptedByBoth, NoTwoInQueue, BothAccepted
<1> QED BY <1>1, <1>2

LEMMA ReadEofStep ==
  ASSUME IInv, NEW p \in Players, ReadEof(p)
  PROVE  IInv'
<1> USE DEF IInv, TypeOK, ReadEof, clientVars, netVars, queueVars, matchVars, threadVars, dcVars, Goto, Reads
<1>1. ThreadTypes'
  BY FindPendingType DEF ThreadTypes, MatchTypes, Location
<1>2. DcTypes'
  BY AppendProperties, HeadTailProperties DEF DcTypes
<1>3. LocalsOK'
  BY FindPendingType DEF LocalsOK, HoldsMatch, ThreadTypes, MatchTypes
<1>4. QueueOK'
  BY DEF QueueOK, NoTwoInQueue, QueueTypes, ThreadTypes
<1>5. (ClientTypes /\ NetTypes /\ QueueTypes /\ MatchTypes /\ AcceptedByBoth)'
  BY DEF ClientTypes, NetTypes, QueueTypes, MatchTypes, AcceptedByBoth, BothAccepted
<1> QED BY <1>1, <1>2, <1>3, <1>4, <1>5

LEMMA EnqueuePlayerStep ==
  ASSUME IInv, NEW p \in Players, EnqueuePlayer(p)
  PROVE  IInv'
<1> USE DEF IInv, TypeOK, EnqueuePlayer, clientVars, netVars, queueVars, matchVars, threadVars, dcVars, Goto, Return, Unlock
<1>0. /\ playerQueue' \in Seq(Players) /\ Len(playerQueue') = Len(playerQueue) + 1
      /\ Len(playerQueue) \in Nat /\ Len(playerQueue) <= 1
  BY AppendProperties, LenProperties DEF QueueTypes, ThreadTypes, QueueOK, NoTwoInQueue
<1> DEFINE L == Len(playerQueue)
<1> HIDE DEF L
<1>00. 0 \in 0 .. Len(matches) /\ back[p] \in {"idle", "done"}
  BY LenProperties DEF MatchTypes, ThreadTypes
<1>1. QueueTypes'
  BY <1>0 DEF QueueTypes
<1>2. ThreadTypes'
  <2>1. CASE PairsLeft(playerQueue')
    BY <2>1 DEF ThreadTypes, Location
  <2>2. CASE ~ PairsLeft(playerQueue')
    <3> HIDE DEF Return
    <3> QED BY <2>2, ReturnType
  <2> QED BY <2>1, <2>2
<1>3. LocalsOK'
  BY FindPendingType DEF LocalsOK, HoldsMatch, ThreadTypes, MatchTypes
<1>4. QueueOK'
  <2>1. Len(playerQueue') = L + 1 /\ L \in Nat /\ L <= 1
    BY <1>0 DEF L
  <2>2. \A q \in Players : pc[q] \notin {"pair", "foundA", "foundB"}
    BY MatchmakingAssumption DEF QueueOK, MatchmakingAssumption
  <2>3. CASE PairsLeft(playerQueue')
    <3>1. Len(playerQueue') = 2
      BY <2>1, <2>3 DEF PairsLeft
    <3>2. queueMutex' = p /\ p # None
      BY <2>3, MatchmakingAssumption, MatchmakingAssumption DEF MatchmakingAssumption
    <3>3. \A q \in Players : pc'[q] \in {"pair", "foundA", "foundB"} => q = p /\ pc'[q] = "pair"
      BY <2>2, <2>3 DEF ThreadTypes
    <3> QED BY <3>1, <3>2, <3>3 DEF QueueOK, NoTwoInQueue
  <2>4. CASE ~ PairsLeft(playerQueue')
    <3>1. Len(playerQueue') <= 1
      BY <2>1, <2>4 DEF PairsLeft
    <3>2. \A q \in Players : pc'[q] \notin {"pair", "foundA", "foundB"}
      BY <1>00, <2>2, <2>4 DEF ThreadTypes
    <3> QED BY <3>1, <3>2 DEF QueueOK, NoTwoInQueue
  <2> QED BY <2>3, <2>4
<1>5. (ClientTypes /\ NetTypes /\ MatchTypes /\ DcTypes /\ AcceptedByBoth)'
  BY DEF ClientTypes, NetTypes, MatchTypes, DcTypes, AcceptedByBoth, BothAccepted
<1> QED BY <1>1, <1>2, <1>3, <1>4, <1>5

LEMMA TryCreateMatchStep ==
  ASSUME IInv, NEW p \in Players, TryCreateMatch(p)
  PROVE  IInv'
<1> USE DEF IInv, TypeOK, TryCreateMatch, clientVars, netVars, queueVars, matchVars, threadVars, dcVars, Goto, Return, Unlock
<1>0. /\ Len(playerQueue) = 2 /\ playerQueue[1] \in Players /\ playerQueue[2] \in Players
  BY ElementOfSeq DEF QueueTypes, ThreadTypes, QueueOK
<1> DEFINE new == [a |-> Front(playerQueue)[1], b |-> Front(playerQueue)[2],
                   aAccepted |-> FALSE, bAccepted |-> FALSE]
<1>00. new \in PendingMatch /\ ~ new.aAccepted
  BY <1>0 DEF PendingMatch, Front
<1> HIDE DEF new
<1>000. /\ matches' = Append(matches, new) /\ matches' \in Seq(PendingMatch)
       /\ Len(matches) \in Nat /\ Len(matches') = Len(matches) + 1
       /\ \A m \in 1 .. Len(matches) : matches'[m] = matches[m]
       /\ matches'[Len(matches) + 1] = new
  <2>1. matches' = Append(matches, new)
    BY DEF new
  <2> QED BY <2>1, <1>00, AppendProperties, LenProperties DEF MatchTypes
<1>1. QueueTypes'
  BY DEF QueueTypes
<1>2. MatchTypes'
  <2> DEFINE L == Len(matches)
  <2>1. L \in Nat /\ Len(matches') = L + 1 /\ pending \subseteq 1 .. L
    BY <1>000 DEF MatchTypes
  <2>2. pending' = pending \cup {L + 1}
    BY <1>000
  <2> HIDE DEF L
  <2>3. pending' \subseteq 1 .. (L + 1)
    BY <2>1, <2>2, GrowRange
  <2> QED BY <1>000, <2>1, <2>3 DEF MatchTypes
<1>3. ThreadTypes'
  BY FindPendingType DEF ThreadTypes, MatchTypes, Location
<1>4. LocalsOK'
  BY FindPendingType DEF LocalsOK, HoldsMatch, ThreadTypes, MatchTypes
<1>5. QueueOK'
  BY DEF QueueOK, NoTwoInQueue, QueueTypes, ThreadTypes
<1>6. AcceptedByBoth'
  <2>1. \A m \in 1 .. Len(matches) : BothAccepted(m)' <=> BothAccepted(m)
    BY <1>000 DEF BothAccepted
  <2>2. \A m : m = Len(matches) + 1 => ~ BothAccepted(m)'
    <3>1. SUFFICES ASSUME NEW m, m = Len(matches) + 1
                   PROVE  ~ BothAccepted(m)'
      OBVIOUS
    <3>2. matches'[m] = new
      BY <1>000, <3>1
    <3> QED BY <1>00, <3>2, Zenon DEF BothAccepted
  <2>3. /\ \A m \in pending : m \in 1 .. Len(matches)
        /\ \A s \in 1 .. Len(sessions) : sessions[s].match \in 1 .. Len(matches)
    BY DEF MatchTypes, LocalsOK
  <2>4. pending' = pending \cup {Len(matches) + 1} /\ sessions' = sessions
    BY <1>000
  <2>5. \A m \in pending' : ~ BothAccepted(m)'
    BY <2>1, <2>2, <2>3, <2>4, Zenon DEF AcceptedByBoth
  <2>6. Len(matches) + 1 \notin 1 .. Len(matches)
    BY <1>000
  <2>7. \A s \in 1 .. Len(sessions) :
           BothAccepted(sessions[s].match)' /\ sessions[s].match \notin pending'
    BY <2>1, <2>3, <2>4, <2>6, Zenon DEF AcceptedByBoth
  <2> QED BY <2>4, <2>5, <2>7 DEF AcceptedByBoth
<1>7. (ClientTypes /\ NetTypes /\ DcTypes)'
  BY DEF ClientTypes, NetTypes, DcTypes
<1> QED BY <1>1, <1>2, <1>3, <1>4, <1>5, <1>6, <1>7

LEMMA SendMatchFoundAStep ==
  ASSUME IInv, NEW p \in Players, SendMatchFoundA(p)
  PROVE  IInv'
<1> USE DEF IInv, TypeOK, SendMatchFoundA, clientVars, netVars, queueVars, matchVars, threadVars, dcVars, Goto, Return, Unlock
<1>1. NetTypes'
  <2>1. matches[match[p]].a \in Players
    BY MatchRecord DEF LocalsOK, HoldsMatch
  <2> QED BY <2>1, SendType DEF NetTypes, ServerMessage
<1>2. ThreadTypes'
  BY FindPendingType DEF ThreadTypes, MatchTypes, Location
<1>3. LocalsOK'
  BY FindPendingType DEF LocalsOK, HoldsMatch, ThreadTypes, MatchTypes
<1>4. QueueOK'
  BY DEF QueueOK, NoTwoInQueue, QueueTypes, ThreadTypes
<1>5. (ClientTypes /\ QueueTypes /\ MatchTypes /\ DcTypes /\ AcceptedByBoth)'
  BY DEF ClientTypes, QueueTypes, MatchTypes, DcTypes, AcceptedByBoth, BothAccepted
<1> QED BY <1>1, <1>2, <1>3, <1>4, <1>5

LEMMA SendMatchFoundBStep ==
  ASSUME IInv, NEW p \in Players, SendMatchFoundB(p)
  PROVE  IInv'
<1> USE DEF IInv, TypeOK, SendMatchFoundB, clientVars, netVars, queueVars, matchVars, threadVars, dcVars, Goto, Return, Unlock
<1>0. ~ PairsLeft(playerQueue)
  <2>1. Len(playerQueue) = 0
    BY DEF QueueOK
  <2> QED BY <2>1 DEF PairsLeft
<1>00. 0 \in 0 .. Len(matches) /\ back[p] \in {"idle", "done"}
  BY LenProperties DEF MatchTypes, ThreadTypes
<1>1. NetTypes'
  <2>1. matches[match[p]].b \in Players
    BY MatchRecord DEF LocalsOK, HoldsMatch
  <2> QED BY <2>1, SendType DEF NetTypes, ServerMessage
<1>2. QueueTypes'
  BY DEF QueueTypes
<1>3. ThreadTypes'
  <2> HIDE DEF Return
  <2> QED BY <1>0, ReturnType
<1>4. LocalsOK'
  BY FindPendingType DEF LocalsOK, HoldsMatch, ThreadTypes, MatchTypes
<1>5. QueueOK'
  <2>1. Len(playerQueue) = 0 /\ queueMutex = p /\ queueMutex' = None
    BY <1>0 DEF QueueOK
  <2>2. \A q \in Players : q # p => pc[q] \notin {"pair", "foundA", "foundB"}
    BY <2>1 DEF QueueOK
  <2>3. \A q \in Players : pc'[q] \notin {"pair", "foundA", "foundB"}
    BY <1>0, <2>2 DEF ThreadTypes
  <2> QED BY <2>1, <2>3 DEF QueueOK, NoTwoInQueue
<1>6. (ClientTypes /\ MatchTypes /\ DcTypes /\ AcceptedByBoth)'
  BY DEF ClientTypes, MatchTypes, DcTypes, AcceptedByBoth, BothAccepted
<1> QED BY <1>1, <1>2, <1>3, <1>4, <1>5, <1>6

LEMMA RemovePlayerStep ==
  ASSUME IInv, NEW p \in Players, RemovePlayer(p)
  PROVE  IInv'
<1> USE DEF IInv, TypeOK, RemovePlayer, clientVars, netVars, queueVars, matchVars, threadVars, dcVars, Goto, Return, Unlock
<1>0. /\ playerQueue' \in Seq(Players)
      /\ Len(playerQueue') <= 1
  BY WithoutShort DEF QueueTypes, QueueOK, NoTwoInQueue
<1>00. \A q \in Players : pc'[q] \notin {"pair", "foundA", "foundB"}
  BY MatchmakingAssumption DEF QueueOK, ThreadTypes, QueueTypes, MatchmakingAssumption
<1>1. QueueTypes'
  BY <1>0 DEF QueueTypes
<1>2. ThreadTypes'
  BY FindPendingType DEF ThreadTypes, MatchTypes, Location
<1>3. LocalsOK'
  BY FindPendingType DEF LocalsOK, HoldsMatch, ThreadTypes, MatchTypes
<1>4. QueueOK'
  <2> QED BY <1>0, <1>00 DEF QueueOK, NoTwoInQueue
<1>5. (ClientTypes /\ NetTypes /\ MatchTypes /\ DcTypes /\ AcceptedByBoth)'
  BY DEF ClientTypes, NetTypes, MatchTypes, DcTypes, AcceptedByBoth, BothAccepted
<1> QED BY <1>1, <1>2, <1>3, <1>4, <1>5

LEMMA OnAcceptStep ==
  ASSUME IInv, NEW p \in Players, OnAccept(p)
  PROVE  IInv'
<1> USE DEF IInv, TypeOK, OnAccept, clientVars, netVars, queueVars, matchVars, threadVars, dcVars, Goto, Return
<1> DEFINE m == match[p]
<1> DEFINE accepted == [matches[m] EXCEPT !.aAccepted = @ \/ matches[m].a = p,
                                      !.bAccepted = @ \/ matches[m].b = p]
<1>1. m \in 1 .. Len(matches) /\ matches[m] \in PendingMatch
  BY ElementOfSeq DEF LocalsOK, HoldsMatch, MatchTypes
<1>2. accepted \in PendingMatch
  BY <1>1, Zenon DEF PendingMatch
<1>3. /\ matches[m].aAccepted => accepted.aAccepted
      /\ matches[m].bAccepted => accepted.bAccepted
  BY <1>1 DEF PendingMatch
<1> HIDE DEF accepted
<1>4. matches' = [matches EXCEPT ![m] = accepted]
  BY DEF accepted
<1>5. /\ matches' \in Seq(PendingMatch) /\ Len(matches') = Len(matches)
      /\ matches'[m] = accepted
      /\ \A n \in 1 .. Len(matches) : n # m => matches'[n] = matches[n]
  BY <1>1, <1>2, <1>4, MatchUpdated
<1>6. CASE Ready(accepted)
  <2> DEFINE new == [match |-> m, phase |-> "built", winner |-> None]
  <2> DEFINE K == Len(sessions)
  <2>1. /\ sessions' = Append(sessions, new)
        /\ active' = active \cup {Len(sessions')}
        /\ pending' = Removed(m)
        /\ session' = [session EXCEPT ![p] = Len(sessions')]
        /\ Goto(p, "start")
        /\ UNCHANGED <<who, match, back>>
    BY <1>6 DEF accepted
  <2>2. new \in MatchSession /\ new.match = m
    BY <1>1 DEF MatchSession, Phase, MatchTypes
  <2> HIDE DEF new
  <2>3. /\ sessions' \in Seq(MatchSession) /\ Len(sessions') = K + 1 /\ K \in Nat
        /\ \A s \in 1 .. K : sessions'[s] = sessions[s]
        /\ sessions'[K + 1] = new
    BY <2>1, <2>2, AppendProperties, LenProperties DEF MatchTypes
  <2> HIDE DEF K
  <2>4. \A s \in 1 .. Len(sessions') : s \in 1 .. K \/ s = K + 1
    BY <2>3
  <2>5. active' \subseteq 1 .. Len(sessions')
    BY <2>1, <2>3, GrowRange DEF MatchTypes, K
  <2>6. MatchTypes'
    BY <1>5, <2>1, <2>3, <2>5 DEF MatchTypes, Removed
  <2>7. ThreadTypes'
    BY <1>5, <2>1, <2>3 DEF ThreadTypes, Location, K
  <2>8. LocalsOK'
    <3>1. \A s \in 1 .. Len(sessions') : sessions'[s].match \in 1 .. Len(matches')
      <4>1. \A s \in 1 .. K : sessions[s].match \in 1 .. Len(matches)
        BY DEF LocalsOK, K
      <4>2. \A s \in 1 .. K : sessions'[s].match \in 1 .. Len(matches)
        BY <2>3, <4>1
      <4>3. sessions'[K + 1].match \in 1 .. Len(matches)
        BY <1>1, <2>2, <2>3
      <4> QED BY <1>5, <2>4, <4>2, <4>3
    <3>2. \A q \in Players : pc'[q] \in HoldsMatch => match'[q] \in 1 .. Len(matches')
      BY <1>1, <1>5, <2>1 DEF LocalsOK, HoldsMatch, ThreadTypes
    <3>3. Len(sessions') \in 1 .. Len(sessions')
      BY <2>3
    <3>4. \A q \in Players : session[q] \in 1 .. K => session[q] \in 1 .. Len(sessions')
      BY <2>3
    <3>5. \A q \in Players : pc'[q] = "start" => session'[q] \in 1 .. Len(sessions')
      BY <2>1, <3>3, <3>4 DEF LocalsOK, ThreadTypes, K
    <3> QED BY <3>1, <3>2, <3>5 DEF LocalsOK
  <2>9. QueueOK'
    BY <2>1 DEF QueueOK, NoTwoInQueue, ThreadTypes
  <2>10. AcceptedByBoth'
    <3>1. \A n \in 1 .. Len(matches) : BothAccepted(n) => BothAccepted(n)'
      BY <1>3, <1>5, Zenon DEF BothAccepted
    <3>2. \A n : n = m => BothAccepted(n)'
      BY <1>5, <1>6, Zenon DEF BothAccepted, Ready
    <3>3. \A n \in pending' : n \in pending /\ n # m /\ n \in 1 .. Len(matches)
      BY <2>1 DEF Removed, MatchTypes
    <3>4. \A n \in 1 .. Len(matches) : n # m => (BothAccepted(n)' => BothAccepted(n))
      BY <1>5, Zenon DEF BothAccepted
    <3>5. \A n \in pending' : ~ BothAccepted(n)'
      BY <3>3, <3>4 DEF AcceptedByBoth
    <3>6. \A s \in 1 .. K :
             BothAccepted(sessions[s].match)' /\ sessions[s].match \notin pending'
      BY <2>1, <2>3, <3>1, <3>3, Zenon DEF AcceptedByBoth, LocalsOK, K
    <3>7. m \notin pending'
      BY <3>3
    <3>8. \A s \in 1 .. Len(sessions') :
             /\ \A n : n = sessions'[s].match => BothAccepted(n)'
             /\ sessions'[s].match \notin pending'
      <4>1. \A s \in 1 .. K : sessions'[s].match = sessions[s].match
        BY <2>3
      <4>2. sessions'[K + 1].match = m
        BY <2>2, <2>3
      <4>3. ASSUME NEW s \in 1 .. K
            PROVE  /\ \A n : n = sessions'[s].match => BothAccepted(n)'
                   /\ sessions'[s].match \notin pending'
        BY <3>6, <4>1
      <4>4. ASSUME NEW s, s = K + 1
            PROVE  /\ \A n : n = sessions'[s].match => BothAccepted(n)'
                   /\ sessions'[s].match \notin pending'
        BY <3>2, <3>7, <4>2, <4>4
      <4> QED BY <2>4, <4>3, <4>4
    <3> QED BY <3>5, <3>8 DEF AcceptedByBoth
  <2> QED BY <2>6, <2>7, <2>8, <2>9, <2>10 DEF NetTypes, ClientTypes, QueueTypes, DcTypes
<1>7. CASE ~ Ready(accepted)
  <2>1. /\ UNCHANGED <<pending, sessions, active>>
        /\ Return(p)
    BY <1>7 DEF accepted
  <2> HIDE DEF Return
  <2>2. MatchTypes'
    BY <1>5, <2>1 DEF MatchTypes
  <2>3. /\ ThreadTypes'
        /\ pc' = [pc EXCEPT ![p] = back[p]] /\ back[p] \in {"idle", "done"}
    BY <1>5, <2>1, ReturnType DEF ThreadTypes, MatchTypes
  <2>4. LocalsOK'
    BY <1>5, <2>1, <2>3 DEF LocalsOK, HoldsMatch, ThreadTypes, Return
  <2>5. QueueOK'
    BY <2>3 DEF QueueOK, NoTwoInQueue, ThreadTypes
  <2>6. AcceptedByBoth'
    <3>1. \A n \in 1 .. Len(matches) : n # m => (BothAccepted(n)' <=> BothAccepted(n))
      BY <1>5, Zenon DEF BothAccepted
    <3>2. \A n : n = m => ~ BothAccepted(n)'
      BY <1>5, <1>7, Zenon DEF BothAccepted, Ready
    <3>3. ~ BothAccepted(m)
      BY <1>3, <1>7, Zenon DEF BothAccepted, Ready
    <3>4. /\ \A n \in pending : n \in 1 .. Len(matches)
          /\ \A s \in 1 .. Len(sessions) : sessions[s].match \in 1 .. Len(matches)
      BY DEF MatchTypes, LocalsOK
    <3>5. \A n \in pending : ~ BothAccepted(n)'
      BY <3>1, <3>2, <3>4 DEF AcceptedByBoth
    <3>6. \A s \in 1 .. Len(sessions) : BothAccepted(sessions[s].match)
      BY DEF AcceptedByBoth
    <3>7. \A s \in 1 .. Len(sessions) : sessions[s].match # m
      BY <3>3, <3>6, Zenon
    <3>8. \A s \in 1 .. Len(sessions) : \A n : n = sessions[s].match => BothAccepted(n)'
      BY <3>1, <3>4, <3>6, <3>7, Zenon
    <3> QED BY <2>1, <3>5, <3>8 DEF AcceptedByBoth
  <2> QED BY <2>2, <2>3, <2>4, <2>5, <2>6 DEF NetTypes, ClientTypes, QueueTypes, DcTypes
<1> QED BY <1>6, <1>7

LEMMA StartSessionStep ==
  ASSUME IInv, NEW p \in Players, StartSession(p)
  PROVE  IInv'
<1> USE DEF IInv, TypeOK, StartSession, clientVars, netVars, queueVars, matchVars, threadVars, dcVars, Goto, Return, Unlock
<1>1. NetTypes'
  BY TailType, AppendType, SendType DEF NetTypes, ClientMessage, ServerMessage
<1>2. MatchTypes'
  <2>0. session[p] \in 1 .. Len(sessions)
    BY DEF LocalsOK
  <2>1. sessions[session[p]] \in MatchSession
    BY <2>0, ElementOfSeq DEF MatchTypes
  <2>2. [sessions[session[p]] EXCEPT !.phase = "spawned"] \in MatchSession
    BY <2>1 DEF MatchSession, Phase
  <2>3. /\ sessions' \in Seq(MatchSession) /\ Len(sessions') = Len(sessions)
    BY <2>0, <2>2, ExceptSeq DEF MatchTypes
  <2> QED BY <2>3 DEF MatchTypes
<1>3. ThreadTypes'
  BY FindPendingType DEF ThreadTypes, MatchTypes, Location
<1>4. LocalsOK'
  BY FindPendingType DEF LocalsOK, HoldsMatch, ThreadTypes, MatchTypes
<1>5. QueueOK'
  BY DEF QueueOK, NoTwoInQueue, QueueTypes, ThreadTypes
<1>6. AcceptedByBoth'
  BY DEF AcceptedByBoth, BothAccepted, MatchTypes
<1>7. (ClientTypes /\ QueueTypes /\ DcTypes)'
  BY DEF ClientTypes, QueueTypes, DcTypes
<1> QED BY <1>1, <1>2, <1>3, <1>4, <1>5, <1>6, <1>7

LEMMA FindDisconnectedStep ==
  ASSUME IInv, NEW p \in Players, FindDisconnected(p)
  PROVE  IInv'
<1> USE DEF IInv, TypeOK, FindDisconnected, clientVars, netVars, queueVars, matchVars, threadVars, dcVars, Goto, Return, Unlock
<1>1. ThreadTypes'
  <2>1. FindPending(p) \in 0 .. Len(matches)
    BY FindPendingType
  <2> QED BY <2>1 DEF ThreadTypes, Location
<1>2. LocalsOK'
  BY FindPendingType DEF LocalsOK, HoldsMatch, ThreadTypes, MatchTypes
<1>3. QueueOK'
  BY DEF QueueOK, NoTwoInQueue, QueueTypes, ThreadTypes
<1>4. (ClientTypes /\ NetTypes /\ QueueTypes /\ MatchTypes /\ DcTypes /\ AcceptedByBoth)'
  BY DEF ClientTypes, NetTypes, QueueTypes, MatchTypes, DcTypes, AcceptedByBoth, BothAccepted
<1> QED BY <1>1, <1>2, <1>3, <1>4

LEMMA RemovePendingStep ==
  ASSUME IInv, NEW p \in Players, RemovePending(p)
  PROVE  IInv'
<1> USE DEF IInv, TypeOK, RemovePending, clientVars, netVars, queueVars, matchVars, threadVars, dcVars, Goto, Return, Unlock
<1>0. pending' \subseteq pending
  BY DEF Removed
<1>1. MatchTypes'
  BY <1>0 DEF MatchTypes
<1>2. ThreadTypes'
  BY FindPendingType DEF ThreadTypes, MatchTypes, Location
<1>3. LocalsOK'
  BY FindPendingType DEF LocalsOK, HoldsMatch, ThreadTypes, MatchTypes
<1>4. QueueOK'
  BY DEF QueueOK, NoTwoInQueue, QueueTypes, ThreadTypes
<1>5. AcceptedByBoth'
  BY <1>0 DEF AcceptedByBoth, BothAccepted
<1>6. (ClientTypes /\ NetTypes /\ QueueTypes /\ DcTypes)'
  BY DEF ClientTypes, NetTypes, QueueTypes, DcTypes
<1> QED BY <1>1, <1>2, <1>3, <1>4, <1>5, <1>6

LEMMA SendMatchCancelledStep ==
  ASSUME IInv, NEW p \in Players, SendMatchCancelled(p)
  PROVE  IInv'
<1> USE DEF IInv, TypeOK, SendMatchCancelled, clientVars, netVars, queueVars, matchVars, threadVars, dcVars, Goto, Return, Unlock
<1>0. Other(match[p], p) \in Players /\ 0 \in 0 .. Len(matches)
  BY MatchRecord, LenProperties DEF LocalsOK, HoldsMatch, Other, MatchTypes
<1>1. NetTypes'
  BY <1>0, SendType DEF NetTypes, ServerMessage
<1>2. ThreadTypes'
  BY <1>0 DEF ThreadTypes, Location
<1>3. LocalsOK'
  BY FindPendingType DEF LocalsOK, HoldsMatch, ThreadTypes, MatchTypes
<1>4. QueueOK'
  BY DEF QueueOK, NoTwoInQueue, QueueTypes, ThreadTypes
<1>5. (ClientTypes /\ QueueTypes /\ MatchTypes /\ DcTypes /\ AcceptedByBoth)'
  BY DEF ClientTypes, QueueTypes, MatchTypes, DcTypes, AcceptedByBoth, BothAccepted
<1> QED BY <1>1, <1>2, <1>3, <1>4, <1>5

-----------------------------------------------------------------------------
(***************************************************************************)
(* Steps of the disconnect thread and of the game threads                  *)
(***************************************************************************)

LEMMA TakeDisconnectStep ==
  ASSUME IInv, TakeDisconnect
  PROVE  IInv'
<1> USE DEF IInv, TypeOK, TakeDisconnect, clientVars, queueVars, matchVars, threadVars
<1>1. DcTypes'
  BY HeadTailProperties DEF DcTypes
<1>2. NetTypes'
  BY HeadTailProperties DEF NetTypes, DcTypes
<1>3. (ClientTypes /\ QueueTypes /\ MatchTypes /\ ThreadTypes /\ LocalsOK /\ QueueOK /\ AcceptedByBoth)'
  BY DEF ClientTypes, QueueTypes, MatchTypes, ThreadTypes, LocalsOK, QueueOK,
         NoTwoInQueue, AcceptedByBoth, BothAccepted
<1> QED BY <1>1, <1>2, <1>3

LEMMA JoinReadThreadStep ==
  ASSUME IInv, JoinReadThread
  PROVE  IInv'
BY DEF IInv, TypeOK, JoinReadThread, clientVars, netVars, queueVars, matchVars,
       threadVars, ClientTypes, NetTypes, QueueTypes, MatchTypes, ThreadTypes, DcTypes,
       LocalsOK, QueueOK, NoTwoInQueue, AcceptedByBoth, BothAccepted

\* A game thread changes its own session only, and never whose match it is.
LEMMA SessionUpdated ==
  ASSUME MatchTypes, NEW s \in 1 .. Len(sessions), NEW r \in MatchSession,
         r.match = sessions[s].match, sessions' = [sessions EXCEPT ![s] = r]
  PROVE  /\ sessions' \in Seq(MatchSession) /\ Len(sessions') = Len(sessions)
         /\ \A t \in 1 .. Len(sessions) : sessions'[t].match = sessions[t].match
<1>1. sessions' \in Seq(MatchSession) /\ Len(sessions') = Len(sessions)
  BY ExceptSeq DEF MatchTypes
<1>2. \A t \in 1 .. Len(sessions) : sessions'[t] = IF t = s THEN r ELSE sessions[t]
  BY ExceptSeq DEF MatchTypes
<1> QED BY <1>1, <1>2

\* What the invariant needs of a step of a game thread.
LEMMA SessionStep ==
  ASSUME IInv, NEW s \in 1 .. Len(sessions), NEW r \in MatchSession,
         r.match = sessions[s].match, sessions' = [sessions EXCEPT ![s] = r],
         UNCHANGED <<clientVars, queueVars, matches, pending, threadVars, dcVars>>,
         active' \subseteq active, NetTypes'
  PROVE  IInv'
<1> USE DEF IInv, TypeOK, clientVars, queueVars, threadVars, dcVars
<1>1. /\ sessions' \in Seq(MatchSession) /\ Len(sessions') = Len(sessions)
      /\ \A t \in 1 .. Len(sessions) : sessions'[t].match = sessions[t].match
  BY SessionUpdated
<1>2. MatchTypes'
  BY <1>1 DEF MatchTypes
<1>3. ThreadTypes'
  BY <1>1 DEF ThreadTypes
<1>4. LocalsOK'
  BY <1>1 DEF LocalsOK
<1>5. AcceptedByBoth'
  BY <1>1 DEF AcceptedByBoth, BothAccepted
<1>6. (ClientTypes /\ QueueTypes /\ DcTypes /\ QueueOK)'
  BY DEF ClientTypes, QueueTypes, DcTypes, QueueOK, NoTwoInQueue
<1> QED BY <1>2, <1>3, <1>4, <1>5, <1>6

\* The two players of a session are clients.
LEMMA SessionPlayers ==
  ASSUME IInv, NEW s \in 1 .. Len(sessions)
  PROVE  /\ sessions[s] \in MatchSession
         /\ PlayerA(s) \in Players /\ PlayerB(s) \in Players /\ Loser(s) \in Players
<1>1. sessions[s] \in MatchSession
  BY ElementOfSeq DEF IInv, TypeOK, MatchTypes
<1>2. sessions[s].match \in 1 .. Len(matches)
  BY DEF IInv, LocalsOK
<1> QED BY <1>1, <1>2, MatchRecord DEF IInv, TypeOK, PlayerA, PlayerB, Loser

LEMMA EndMatchStep ==
  ASSUME IInv, NEW s \in 1 .. Len(sessions), NEW w \in Players,
         NEW box \in [Players -> Seq(ServerMessage)], EndMatch(s, w, box)
  PROVE  IInv'
<1> DEFINE r == [sessions[s] EXCEPT !.phase = "rewarding", !.winner = w]
<1>1. r \in MatchSession /\ r.match = sessions[s].match
  BY SessionPlayers DEF MatchSession, Phase
<1>2. sessions' = [sessions EXCEPT ![s] = r]
  BY DEF EndMatch
<1>3. NetTypes'
  BY SendType DEF EndMatch, IInv, TypeOK, NetTypes, ServerMessage
<1> HIDE DEF r
<1> QED BY <1>1, <1>2, <1>3, SessionStep DEF EndMatch

LEMMA GameThreadStep ==
  ASSUME IInv, NEW s \in 1 .. Len(sessions), GameThread(s)
  PROVE  IInv'
<1>0. /\ sessions[s] \in MatchSession
      /\ PlayerA(s) \in Players /\ PlayerB(s) \in Players /\ Loser(s) \in Players
      /\ NetTypes
  BY SessionPlayers DEF IInv, TypeOK
<1>00. ASSUME NEW ph \in Phase
       PROVE  LET r == [sessions[s] EXCEPT !.phase = ph]
              IN  r \in MatchSession /\ r.match = sessions[s].match
  BY <1>0 DEF MatchSession
<1>1. CASE SendMatchStart(s)
  <2>1. NetTypes'
    BY <1>0, <1>1, SendType DEF SendMatchStart, NetTypes, ServerMessage
  <2> QED BY <1>1, <1>00, <2>1, SessionStep DEF SendMatchStart, Phase
<1>2. CASE HandleDisconnect(s)
  <2> QED BY <1>0, <1>2, SendType, EndMatchStep DEF HandleDisconnect, NetTypes, ServerMessage
<1>3. CASE \E winner \in Players : GameOver(s, winner)
  BY <1>0, <1>3, EndMatchStep DEF GameOver, NetTypes
<1>4. CASE SendMatchLost(s)
  <2>1. NetTypes'
    BY <1>0, <1>4, SendType DEF SendMatchLost, NetTypes, ServerMessage
  <2> QED BY <1>4, <1>00, <2>1, SessionStep DEF SendMatchLost, Phase
<1>5. CASE BackToWaiting(s)
  <2>1. NetTypes'
    BY <1>0, <1>5 DEF BackToWaiting, NetTypes
  <2> QED BY <1>5, <1>00, <2>1, SessionStep DEF BackToWaiting, Phase
<1>6. CASE OnMatchEnd(s)
  <2>1. NetTypes'
    BY <1>0, <1>6 DEF OnMatchEnd, NetTypes, netVars
  <2> QED BY <1>6, <1>00, <2>1, SessionStep DEF OnMatchEnd, Phase
<1> QED BY <1>1, <1>2, <1>3, <1>4, <1>5, <1>6 DEF GameThread, Ending

-----------------------------------------------------------------------------
(***************************************************************************)
(* The theorems                                                            *)
(***************************************************************************)

LEMMA InitIInv == Init => IInv
<1> SUFFICES ASSUME Init PROVE IInv
  OBVIOUS
<1>1. <<>> \in Seq(ClientMessage) /\ <<>> \in Seq(ServerMessage) /\ <<>> \in Seq(Players)
      /\ <<>> \in Seq(PendingMatch) /\ <<>> \in Seq(MatchSession) /\ Len(<<>>) = 0
  BY EmptySeq
<1>2. TypeOK
  BY <1>1, MatchmakingAssumption
     DEF Init, TypeOK, ClientTypes, NetTypes, QueueTypes, MatchTypes, ThreadTypes, DcTypes,
         Screen, Location, MatchmakingAssumption
<1>3. LocalsOK /\ QueueOK /\ AcceptedByBoth
  BY <1>1 DEF Init, LocalsOK, QueueOK, AcceptedByBoth, NoTwoInQueue, HoldsMatch
<1> QED BY <1>2, <1>3 DEF IInv

LEMMA NextIInv == IInv /\ [Next]_vars => IInv'
<1> SUFFICES ASSUME IInv, [Next]_vars PROVE IInv'
  OBVIOUS
<1>1. CASE \E p \in Players : Client(p)
  BY <1>1, ClientConnectStep, ClientReceiveStep, ClientAcceptStep, ClientRequeueStep,
     ClientLeaveStep DEF Client
<1>2. CASE \E p \in Players : ReadThread(p)
  BY <1>2, ReadEnqueueStep, ReadAcceptStep, ReadInGameStep, ReadEofStep,
     EnqueuePlayerStep, TryCreateMatchStep, SendMatchFoundAStep, SendMatchFoundBStep,
     RemovePlayerStep, OnAcceptStep, StartSessionStep, FindDisconnectedStep,
     RemovePendingStep, SendMatchCancelledStep DEF ReadThread
<1>3. CASE DisconnectThread
  BY <1>3, TakeDisconnectStep, JoinReadThreadStep DEF DisconnectThread
<1>4. CASE \E s \in 1 .. Len(sessions) : GameThread(s)
  BY <1>4, GameThreadStep
<1>5. CASE UNCHANGED vars
  BY <1>5 DEF vars, clientVars, netVars, queueVars, matchVars, threadVars, dcVars, IInv,
       TypeOK, ClientTypes, NetTypes, QueueTypes, MatchTypes, ThreadTypes, DcTypes,
       LocalsOK, QueueOK, NoTwoInQueue, AcceptedByBoth, BothAccepted
<1> QED BY <1>1, <1>2, <1>3, <1>4, <1>5 DEF Next

\* The strengthened invariant holds in every reachable state of the lobby.
THEOREM Inductive == Spec => []IInv
BY InitIInv, NextIInv, PTL DEF Spec

\* Every variable keeps its type, for any set of clients: no thread works on a match
\* that was never made (MatchManager::findPending, onAccept, onPlayerDisconnected).
THEOREM TypeCorrect == Spec => []TypeOK
<1>1. IInv => TypeOK
  BY DEF IInv
<1> QED BY <1>1, Inductive, PTL

\* Whatever the read threads' interleaving, a session is built only for a match both
\* players accepted, and such a match is never pending again (MatchManager::onAccept).
THEOREM SessionsAreAccepted == Spec => []AcceptedByBoth
<1>1. IInv => AcceptedByBoth
  BY DEF IInv
<1> QED BY <1>1, Inductive, PTL

\* Two players never wait side by side in an unlocked queue, however many clients
\* connect, leave and come back (Matchmaker::enqueuePlayer, tryCreateMatch).
THEOREM QueueIsPairedOff == Spec => []NoTwoInQueue
<1>1. IInv => NoTwoInQueue
  BY DEF IInv, QueueOK
<1> QED BY <1>1, Inductive, PTL

-----------------------------------------------------------------------------
(***************************************************************************)
(* NobodyForgotten and TwoDifferentPlayers, for any number of clients that *)
(* come, accept as often as they like, leave at any time and do not        *)
(* requeue.                                                                *)
(*                                                                         *)
(* Each step that takes a client out of one place puts it into another, or *)
(* is a step of that client's own end.  That needs three facts besides     *)
(* those above: what a read thread knows of itself and of the match it     *)
(* cancels (ThreadsKnow); that player_info comes once, first (JoinsOnce);  *)
(* and that a client whose player_info is not read yet is nowhere else, so *)
(* that no match makes its connection deaf to it (NewcomersAreNew).        *)
(***************************************************************************)

Offering(p) == \E m \in pending : p \in PlayersOf(m)

Starting(p) ==
  \E s \in 1 .. Len(sessions) :
    p \in PlayersOf(sessions[s].match) /\ sessions[s].phase \in {"built", "spawned"}

Queueing(p) == \E q \in Players : pc[q] = "enqueue" /\ who[q] = p

Cancelling(p) == \E q \in Players : pc[q] = "dcNotify" /\ Other(match[q], q) = p

Within(seq, msg) == \E i \in 1 .. Len(seq) : seq[i] = msg

Joining(p) == Within(c2s[p], "player_info")

Told(p) == Within(s2c[p], "MATCH_START")

\* Placed, without the messages of clients that requeue.
Seated(p) ==
  Queued(p) \/ Offering(p) \/ Starting(p) \/ Queueing(p) \/ Cancelling(p) \/ Joining(p)
    \/ Told(p)

ThreadsKnow ==
  \A p \in Players :
    /\ pc[p] \in {"idle", "accept", "start"} => who[p] = p
    /\ pc[p] \in {"dcRemove", "dcFind", "dcCancel", "dcNotify"} => ui[p] = "Left"
    /\ pc[p] \in {"dcCancel", "dcNotify"} => p \in PlayersOf(match[p])

JoinsOnce ==
  \A p \in Players :
    /\ ui[p] = "New" => c2s[p] = <<>>
    /\ \A i \in 2 .. Len(c2s[p]) : c2s[p][i] # "player_info"

InMatch(p) == \E m \in 1 .. Len(matches) : p \in PlayersOf(m)

NewcomersAreNew ==
  \A p \in Players :
    ui[p] = "New" \/ Joining(p) =>
      connState[p] = "Waiting" /\ ~Queued(p) /\ ~Queueing(p) /\ ~InMatch(p)

WaitingClient(p) == ui[p] \in {"Waiting", "Found"}

\* A client that fails to load a deck is the exception (ScreenAfter).
AllSeated == Stranded = {} => \A p \in Players : WaitingClient(p) => Seated(p)

Seating == ThreadsKnow /\ JoinsOnce /\ NewcomersAreNew /\ AllSeated

-----------------------------------------------------------------------------
(***************************************************************************)
(* Lemmas about messages                                                   *)
(***************************************************************************)

\* What the first message is not, the rest of the box still has.
LEMMA TailWithin ==
  ASSUME NEW S, NEW seq \in Seq(S), seq # <<>>, NEW msg, Within(seq, msg), Head(seq) # msg
  PROVE  Within(Tail(seq), msg)
<1>1. PICK i \in 1 .. Len(seq) : seq[i] = msg
  BY DEF Within
<1>2. Len(Tail(seq)) = Len(seq) - 1 /\ \A j \in 1 .. Len(Tail(seq)) : Tail(seq)[j] = seq[j + 1]
  BY HeadTailProperties
<1>3. Len(seq) \in Nat /\ i # 1
  BY <1>1, LenProperties
<1>4. i - 1 \in 1 .. Len(Tail(seq)) /\ Tail(seq)[i - 1] = msg
  BY <1>1, <1>2, <1>3
<1> QED BY <1>4 DEF Within

\* A message of the rest came after the first.
LEMMA WithinTail ==
  ASSUME NEW S, NEW seq \in Seq(S), seq # <<>>, NEW msg, Within(Tail(seq), msg)
  PROVE  \E i \in 2 .. Len(seq) : seq[i] = msg
<1>1. PICK j \in 1 .. Len(Tail(seq)) : Tail(seq)[j] = msg
  BY DEF Within
<1>2. Len(Tail(seq)) = Len(seq) - 1 /\ Tail(seq)[j] = seq[j + 1] /\ Len(seq) \in Nat
  BY HeadTailProperties, LenProperties
<1>3. j + 1 \in 2 .. Len(seq) /\ seq[j + 1] = msg
  BY <1>1, <1>2
<1> QED BY <1>3

LEMMA WithinAppend ==
  ASSUME NEW S, NEW seq \in Seq(S), NEW e \in S, NEW msg
  PROVE  Within(Append(seq, e), msg) <=> Within(seq, msg) \/ e = msg
<1>1. /\ Len(seq) \in Nat /\ Len(Append(seq, e)) = Len(seq) + 1
      /\ \A i \in 1 .. Len(seq) : Append(seq, e)[i] = seq[i]
      /\ Append(seq, e)[Len(seq) + 1] = e
  BY AppendProperties, LenProperties
<1> QED BY <1>1 DEF Within

\* A message that is sent changes the receiver's box only, and takes nothing out.
LEMMA SendWithin ==
  ASSUME NEW box \in [Players -> Seq(ServerMessage)], NEW p \in Players,
         NEW e \in ServerMessage, NEW q \in Players, NEW msg, Within(box[q], msg)
  PROVE  Within(Send(box, p, e)[q], msg)
<1>1. CASE q = p /\ ui[p] # "Left"
  <2>1. Send(box, p, e)[q] = Append(box[q], e)
    BY <1>1 DEF Send
  <2> QED BY <2>1, WithinAppend
<1>2. CASE ~(q = p /\ ui[p] # "Left")
  <2>1. Send(box, p, e)[q] = box[q]
    BY <1>2 DEF Send
  <2> QED BY <2>1
<1> QED BY <1>1, <1>2

LEMMA SendDelivers ==
  ASSUME NEW box \in [Players -> Seq(ServerMessage)], NEW p \in Players,
         NEW e \in ServerMessage, ui[p] # "Left"
  PROVE  Within(Send(box, p, e)[p], e)
<1>1. Send(box, p, e)[p] = Append(box[p], e) /\ box[p] \in Seq(ServerMessage)
  BY DEF Send
<1> QED BY <1>1, WithinAppend

-----------------------------------------------------------------------------
(***************************************************************************)
(* Lemmas about steps                                                      *)
(***************************************************************************)

\* The lobby proper is left alone.
SameLobby == UNCHANGED <<playerQueue, matches, pending, sessions, pc, who, match>>

LEMMA SameLobbySeats ==
  ASSUME SameLobby, NEW x
  PROVE  /\ Queued(x)' = Queued(x) /\ Offering(x)' = Offering(x)
         /\ Starting(x)' = Starting(x) /\ Queueing(x)' = Queueing(x)
         /\ Cancelling(x)' = Cancelling(x) /\ InMatch(x)' = InMatch(x)
<1>1. \A m : PlayersOf(m)' = PlayersOf(m)
  BY DEF SameLobby, PlayersOf
<1>2. \A m, q : Other(m, q)' = Other(m, q)
  BY DEF SameLobby, Other
<1> QED BY <1>1, <1>2 DEF SameLobby, Queued, Offering, Starting, Queueing, Cancelling, InMatch

LEMMA SameLobbyKnow ==
  ASSUME SameLobby, ThreadsKnow, \A x \in Players : ui[x] = "Left" => ui'[x] = "Left"
  PROVE  ThreadsKnow'
BY DEF SameLobby, ThreadsKnow, PlayersOf

-----------------------------------------------------------------------------
(***************************************************************************)
(* Steps of the clients                                                    *)
(***************************************************************************)

LEMMA ClientConnectSeats ==
  ASSUME IInv, Seating, NEW p \in Players, ClientConnect(p)
  PROVE  Seating'
<1>1. SameLobby /\ UNCHANGED <<connState, s2c>>
  BY DEF ClientConnect, SameLobby, queueVars, matchVars, threadVars
<1>2. /\ ui[p] = "New" /\ ui'[p] = "Waiting" /\ \A x \in Players \ {p} : ui'[x] = ui[x]
  BY DEF ClientConnect, IInv, TypeOK, ClientTypes
<1>3. c2s'[p] = <<"player_info">> /\ \A x \in Players \ {p} : c2s'[x] = c2s[x]
  <2>1. c2s[p] = <<>>
    BY <1>2 DEF Seating, JoinsOnce
  <2>2. Append(<<>>, "player_info") = <<"player_info">>
    OBVIOUS
  <2> QED BY <2>1, <2>2 DEF ClientConnect, IInv, TypeOK, NetTypes
<1>4. Joining(p)' /\ \A x \in Players \ {p} : Joining(x)' = Joining(x)
  BY <1>3 DEF Joining, Within
<1>5. ThreadsKnow'
  BY <1>1, <1>2, SameLobbyKnow DEF Seating
<1>6. JoinsOnce'
  BY <1>2, <1>3 DEF Seating, JoinsOnce
<1>7. NewcomersAreNew'
  BY <1>1, <1>2, <1>4, SameLobbySeats DEF Seating, NewcomersAreNew
<1>8. AllSeated'
  BY <1>1, <1>2, <1>4, SameLobbySeats DEF Seating, AllSeated, Seated, WaitingClient, Told
<1> QED BY <1>5, <1>6, <1>7, <1>8 DEF Seating

\* Without strays, who takes MATCH_START goes on to the match.
LEMMA ClientReceiveSeats ==
  ASSUME IInv, Seating, NEW p \in Players, ClientReceive(p)
  PROVE  Seating'
<1>1. SameLobby /\ UNCHANGED <<connState, c2s>>
  BY DEF ClientReceive, SameLobby, queueVars, matchVars, threadVars
<1>2. PICK screen \in ScreenAfter(p, Head(s2c[p])) : ui' = [ui EXCEPT ![p] = screen]
  BY DEF ClientReceive
<1>3. /\ ui[p] # "Left"
      /\ screen \in {"Found", "Waiting", "Playing", "Over", ui[p]}
      /\ screen \in {"Found", "Waiting"} => ui[p] \in {"Found", "Waiting"}
      /\ Stranded = {} /\ screen \in {"Found", "Waiting"} => Head(s2c[p]) # "MATCH_START"
  BY <1>2 DEF ClientReceive, ScreenAfter
<1>4. /\ ui'[p] = screen /\ \A x \in Players \ {p} : ui'[x] = ui[x]
      /\ s2c[p] # <<>> /\ s2c[p] \in Seq(ServerMessage)
      /\ s2c'[p] = Tail(s2c[p]) /\ \A x \in Players \ {p} : s2c'[x] = s2c[x]
  BY <1>2 DEF ClientReceive, IInv, TypeOK, ClientTypes, NetTypes
<1>5. \A x \in Players : Joining(x)' = Joining(x)
  BY <1>1 DEF Joining
<1>6. ThreadsKnow'
  BY <1>1, <1>3, <1>4, SameLobbyKnow DEF Seating
<1>7. \A x \in Players : ui'[x] = "New" => ui[x] = "New"
  BY <1>3, <1>4
<1>8. JoinsOnce'
  BY <1>1, <1>7 DEF Seating, JoinsOnce
<1>9. NewcomersAreNew'
  BY <1>1, <1>5, <1>7, SameLobbySeats DEF Seating, NewcomersAreNew
<1>10. Stranded = {} => \A x \in Players : WaitingClient(x)' /\ Told(x) => Told(x)'
  BY <1>3, <1>4, TailWithin DEF Told, WaitingClient
<1>11. \A x \in Players : WaitingClient(x)' => WaitingClient(x)
  BY <1>3, <1>4 DEF WaitingClient
<1>12. AllSeated'
  BY <1>1, <1>5, <1>10, <1>11, SameLobbySeats DEF Seating, AllSeated, Seated
<1> QED BY <1>6, <1>8, <1>9, <1>12 DEF Seating

LEMMA ClientAcceptSeats ==
  ASSUME IInv, Seating, NEW p \in Players, ClientAccept(p)
  PROVE  Seating'
<1>1. SameLobby /\ UNCHANGED <<connState, s2c, ui>> /\ ui[p] = "Found"
  BY DEF ClientAccept, SameLobby, queueVars, matchVars, threadVars
<1>2. /\ c2s[p] \in Seq(ClientMessage) /\ "MATCH_ACCEPT" \in ClientMessage
      /\ c2s'[p] = Append(c2s[p], "MATCH_ACCEPT")
      /\ \A x \in Players \ {p} : c2s'[x] = c2s[x]
  BY DEF ClientAccept, IInv, TypeOK, NetTypes, ClientMessage
<1>3. \A x \in Players : Joining(x)' <=> Joining(x)
  <2>1. Within(c2s'[p], "player_info") <=> Within(c2s[p], "player_info")
    BY <1>2, WithinAppend
  <2> QED BY <1>2, <2>1 DEF Joining
<1>4. ThreadsKnow'
  BY <1>1, SameLobbyKnow DEF Seating
<1>5. JoinsOnce'
  <2>1. \A i \in 2 .. Len(c2s'[p]) : c2s'[p][i] # "player_info"
    BY <1>2, AppendProperties, LenProperties DEF Seating, JoinsOnce
  <2> QED BY <1>1, <1>2, <2>1 DEF Seating, JoinsOnce
<1>6. NewcomersAreNew'
  BY <1>1, <1>3, SameLobbySeats DEF Seating, NewcomersAreNew
<1>7. AllSeated'
  BY <1>1, <1>3, SameLobbySeats DEF Seating, AllSeated, Seated, WaitingClient, Told
<1> QED BY <1>4, <1>5, <1>6, <1>7 DEF Seating

LEMMA ClientRequeueSeats ==
  ASSUME MaxRequeues = 0, IInv, NEW p \in Players, ClientRequeue(p)
  PROVE  FALSE
<1>1. requeues[p] \in 0 .. 0 /\ requeues[p] < 0
  BY DEF ClientRequeue, IInv, TypeOK, ClientTypes
<1> QED BY <1>1

LEMMA ClientLeaveSeats ==
  ASSUME IInv, Seating, NEW p \in Players, ClientLeave(p)
  PROVE  Seating'
<1>1. SameLobby /\ UNCHANGED connState
  BY DEF ClientLeave, SameLobby, queueVars, matchVars, threadVars
<1>2. ui'[p] = "Left" /\ \A x \in Players \ {p} : ui'[x] = ui[x]
  BY DEF ClientLeave, IInv, TypeOK, ClientTypes
<1>3. /\ c2s'[p] \in {c2s[p], <<>>}
      /\ \A x \in Players \ {p} : c2s'[x] = c2s[x] /\ s2c'[x] = s2c[x]
  BY DEF ClientLeave, IInv, TypeOK, NetTypes
<1>4. /\ Joining(p)' => Joining(p)
      /\ \A x \in Players \ {p} : Joining(x)' = Joining(x) /\ Told(x)' = Told(x)
  BY <1>3 DEF Joining, Told, Within
<1>5. ThreadsKnow'
  BY <1>1, <1>2, SameLobbyKnow DEF Seating
<1>6. JoinsOnce'
  BY <1>2, <1>3 DEF Seating, JoinsOnce
<1>7. NewcomersAreNew'
  BY <1>1, <1>2, <1>4, SameLobbySeats DEF Seating, NewcomersAreNew
<1>8. AllSeated'
  BY <1>1, <1>2, <1>4, SameLobbySeats DEF Seating, AllSeated, Seated, WaitingClient
<1> QED BY <1>5, <1>6, <1>7, <1>8 DEF Seating

-----------------------------------------------------------------------------
(***************************************************************************)
(* Steps of the read threads                                               *)
(***************************************************************************)

\* Reading a message takes player_info, which can only be the first, or nothing that
\* says who joins.
LEMMA ReadsJoining ==
  ASSUME IInv, JoinsOnce, NEW p \in Players, NEW state, NEW msgs, Reads(p, state, msgs)
  PROVE  /\ ~Joining(p)' /\ (Joining(p) => Head(c2s[p]) = "player_info")
         /\ \A x \in Players \ {p} : Joining(x)' <=> Joining(x)
         /\ JoinsOnce'
<1>1. /\ c2s[p] \in Seq(ClientMessage) /\ c2s[p] # <<>> /\ c2s'[p] = Tail(c2s[p])
      /\ \A x \in Players \ {p} : c2s'[x] = c2s[x]
      /\ ui' = ui
  BY DEF Reads, IInv, TypeOK, NetTypes, clientVars
<1>2. ~Joining(p)'
  <2>1. Within(Tail(c2s[p]), "player_info") => \E i \in 2 .. Len(c2s[p]) : c2s[p][i] = "player_info"
    BY <1>1, WithinTail
  <2> QED BY <1>1, <2>1 DEF Joining, JoinsOnce
<1>3. Joining(p) => Head(c2s[p]) = "player_info"
  <2>1. SUFFICES ASSUME NEW i \in 1 .. Len(c2s[p]), c2s[p][i] = "player_info"
                 PROVE  Head(c2s[p]) = "player_info"
    BY DEF Joining, Within
  <2>2. i = 1 \/ i \in 2 .. Len(c2s[p])
    BY <1>1, LenProperties
  <2>3. i = 1
    BY <2>1, <2>2 DEF JoinsOnce
  <2>4. Head(c2s[p]) = c2s[p][1]
    BY <1>1, HeadTailProperties
  <2> QED BY <2>1, <2>3, <2>4
<1>4. \A x \in Players \ {p} : Joining(x)' <=> Joining(x)
  BY <1>1 DEF Joining
<1>5. JoinsOnce'
  <2>1. ui[p] # "New"
    BY <1>1 DEF JoinsOnce
  <2>2. \A i \in 1 .. Len(c2s'[p]) : c2s'[p][i] # "player_info"
    BY <1>2 DEF Joining, Within
  <2>3. \A i \in 2 .. Len(c2s'[p]) : i \in 1 .. Len(c2s'[p])
    <3>1. Len(c2s'[p]) \in Nat
      BY <1>1, HeadTailProperties, LenProperties
    <3> QED BY <3>1
  <2> QED BY <1>1, <2>1, <2>2, <2>3 DEF JoinsOnce
<1> QED BY <1>2, <1>3, <1>4, <1>5

LEMMA ReadEnqueueSeats ==
  ASSUME IInv, Seating, NEW p \in Players, ReadEnqueue(p)
  PROVE  Seating'
<1>1. /\ Reads(p, "Waiting", {"player_info", "QUEUE"}) /\ pc[p] = "idle"
      /\ UNCHANGED <<ui, s2c, connState, playerQueue, matches, pending, sessions, who, match>>
  BY DEF ReadEnqueue, Reads, clientVars, queueVars, matchVars
<1>2. pc'[p] = "enqueue" /\ \A q \in Players \ {p} : pc'[q] = pc[q]
  BY DEF ReadEnqueue, Goto, IInv, TypeOK, ThreadTypes
<1>3. /\ ~Joining(p)' /\ JoinsOnce'
      /\ \A x \in Players \ {p} : Joining(x)' <=> Joining(x)
  BY <1>1, ReadsJoining DEF Seating
<1>4. who[p] = p
  BY <1>1 DEF Seating, ThreadsKnow
<1>5. ThreadsKnow'
  BY <1>1, <1>2 DEF Seating, ThreadsKnow, PlayersOf
<1>6. \A x \in Players :
        /\ Queued(x)' <=> Queued(x)
        /\ Offering(x)' <=> Offering(x)
        /\ Starting(x)' <=> Starting(x)
        /\ InMatch(x)' <=> InMatch(x)
        /\ Told(x)' <=> Told(x)
  BY <1>1 DEF Queued, Offering, Starting, InMatch, Told, PlayersOf
<1>7. \A x \in Players : Cancelling(x)' <=> Cancelling(x)
  BY <1>1, <1>2 DEF Cancelling, Other
<1>8. Queueing(p)' /\ \A x \in Players \ {p} : Queueing(x)' <=> Queueing(x)
  BY <1>1, <1>2, <1>4 DEF Queueing
<1>9. NewcomersAreNew'
  <2>1. ui'[p] # "New"
    BY <1>1 DEF Seating, JoinsOnce, Reads
  <2> QED BY <1>1, <1>3, <1>6, <1>8, <2>1 DEF Seating, NewcomersAreNew
<1>10. AllSeated'
  BY <1>1, <1>3, <1>6, <1>7, <1>8 DEF Seating, AllSeated, Seated, WaitingClient
<1> QED BY <1>3, <1>5, <1>9, <1>10 DEF Seating

LEMMA ReadAcceptSeats ==
  ASSUME IInv, Seating, NEW p \in Players, ReadAccept(p)
  PROVE  Seating'
<1>1. /\ Reads(p, "Waiting", {"MATCH_ACCEPT"}) /\ pc[p] = "idle"
      /\ Head(c2s[p]) = "MATCH_ACCEPT"
      /\ UNCHANGED <<ui, s2c, connState, playerQueue, matches, pending, sessions, who>>
  BY DEF ReadAccept, Reads, clientVars, queueVars, matchVars
<1>2. /\ pc'[p] \in {"idle", "accept"}
      /\ \A q \in Players \ {p} : pc'[q] = pc[q] /\ match'[q] = match[q]
  BY <1>1 DEF ReadAccept, Goto, IInv, TypeOK, ThreadTypes
<1>3. /\ JoinsOnce' /\ \A x \in Players : Joining(x)' <=> Joining(x)
  BY <1>1, ReadsJoining DEF Seating
<1>4. ThreadsKnow'
  BY <1>1, <1>2 DEF Seating, ThreadsKnow, PlayersOf
<1>5. \A x \in Players :
        /\ Queued(x)' <=> Queued(x)
        /\ Offering(x)' <=> Offering(x)
        /\ Starting(x)' <=> Starting(x)
        /\ InMatch(x)' <=> InMatch(x)
        /\ Told(x)' <=> Told(x)
  BY <1>1 DEF Queued, Offering, Starting, InMatch, Told, PlayersOf
<1>6. \A x \in Players : Cancelling(x)' <=> Cancelling(x)
  BY <1>1, <1>2 DEF Cancelling, Other
<1>7. \A x \in Players : Queueing(x)' <=> Queueing(x)
  BY <1>1, <1>2 DEF Queueing
<1>8. NewcomersAreNew'
  BY <1>1, <1>3, <1>5, <1>7 DEF Seating, NewcomersAreNew
<1>9. AllSeated'
  BY <1>1, <1>3, <1>5, <1>6, <1>7 DEF Seating, AllSeated, Seated, WaitingClient
<1> QED BY <1>3, <1>4, <1>8, <1>9 DEF Seating

\* A connection in the Playing state has no player_info to read.
LEMMA ReadInGameSeats ==
  ASSUME IInv, Seating, NEW p \in Players, ReadInGame(p)
  PROVE  Seating'
<1>1. /\ Reads(p, "Playing", ClientMessage) /\ connState[p] = "Playing"
      /\ SameLobby /\ UNCHANGED <<ui, s2c, connState>>
  BY DEF ReadInGame, Reads, SameLobby, clientVars, queueVars, matchVars, threadVars
<1>2. ~Joining(p)
  BY <1>1 DEF Seating, NewcomersAreNew
<1>3. /\ JoinsOnce' /\ \A x \in Players : Joining(x)' <=> Joining(x)
  BY <1>1, <1>2, ReadsJoining DEF Seating
<1>4. ThreadsKnow'
  BY <1>1, SameLobbyKnow DEF Seating
<1>5. NewcomersAreNew'
  BY <1>1, <1>3, SameLobbySeats DEF Seating, NewcomersAreNew
<1>6. AllSeated'
  BY <1>1, <1>3, SameLobbySeats DEF Seating, AllSeated, Seated, WaitingClient, Told
<1> QED BY <1>3, <1>4, <1>5, <1>6 DEF Seating

\* Where a thread moves, to and from a place at which it holds no client, and else no
\* more happens than that messages are sent.
LEMMA ThreadMoves ==
  ASSUME IInv, Seating, NEW p \in Players,
         UNCHANGED <<ui, c2s, connState, playerQueue, matches, pending, sessions>>,
         \A x \in Players : Told(x) => Told(x)',
         \A q \in Players \ {p} :
           pc'[q] = pc[q] /\ match'[q] = match[q] /\ who'[q] = who[q],
         pc[p] \notin {"enqueue", "dcNotify"}, pc'[p] \notin {"enqueue", "dcNotify"}
  PROVE  /\ JoinsOnce' /\ NewcomersAreNew' /\ AllSeated'
<1>1. \A x \in Players :
        /\ Queued(x)' <=> Queued(x)
        /\ Offering(x)' <=> Offering(x)
        /\ Starting(x)' <=> Starting(x)
        /\ InMatch(x)' <=> InMatch(x)
        /\ Joining(x)' <=> Joining(x)
  BY DEF Queued, Offering, Starting, InMatch, Joining, PlayersOf
<1>2. \A x \in Players : Cancelling(x)' <=> Cancelling(x)
  BY DEF Cancelling, Other
<1>3. \A x \in Players : Queueing(x)' <=> Queueing(x)
  BY DEF Queueing
<1>4. JoinsOnce'
  BY DEF Seating, JoinsOnce
<1>5. NewcomersAreNew'
  BY <1>1, <1>3 DEF Seating, NewcomersAreNew
<1>6. AllSeated'
  BY <1>1, <1>2, <1>3 DEF Seating, AllSeated, Seated, WaitingClient
<1> QED BY <1>4, <1>5, <1>6

LEMMA ReadEofSeats ==
  ASSUME IInv, Seating, NEW p \in Players, ReadEof(p)
  PROVE  Seating'
<1>1. /\ pc[p] = "idle" /\ ui[p] = "Left" /\ pc'[p] = "dcRemove"
      /\ \A q \in Players \ {p} : pc'[q] = pc[q] /\ match'[q] = match[q]
      /\ UNCHANGED <<ui, c2s, s2c, connState, playerQueue, matches, pending, sessions, who>>
  BY DEF ReadEof, Goto, IInv, TypeOK, ThreadTypes, clientVars, netVars, queueVars, matchVars
<1>2. ThreadsKnow'
  BY <1>1 DEF Seating, ThreadsKnow, PlayersOf
<1>3. /\ \A x \in Players : Told(x) => Told(x)'
      /\ \A q \in Players \ {p} : who'[q] = who[q]
  BY <1>1 DEF Told
<1> QED BY <1>1, <1>2, <1>3, ThreadMoves DEF Seating

\* findPending returns a pending match of the player, if it returns one.
LEMMA FindPendingIn ==
  ASSUME IInv, NEW p \in Players, FindPending(p) # 0
  PROVE  FindPending(p) \in pending /\ p \in PlayersOf(FindPending(p))
<1>1. PendingOf(p) # {}
  BY DEF FindPending
<1>2. PendingOf(p) \in SUBSET Nat
  <2>1. Len(matches) \in Nat /\ pending \subseteq 1 .. Len(matches)
    BY LenProperties DEF IInv, TypeOK, MatchTypes
  <2>2. \A L \in Nat : 1 .. L \subseteq Nat
    OBVIOUS
  <2>3. pending \subseteq Nat
    BY <2>1, <2>2
  <2> QED BY <2>3 DEF PendingOf
<1>3. \E m \in PendingOf(p) : \A n \in PendingOf(p) : m <= n
  BY <1>1, <1>2, LeastNat
<1>4. FindPending(p) \in PendingOf(p)
  BY <1>1, <1>3 DEF FindPending
<1> QED BY <1>4 DEF PendingOf, PlayersOf

LEMMA FindDisconnectedSeats ==
  ASSUME IInv, Seating, NEW p \in Players, FindDisconnected(p)
  PROVE  Seating'
<1>1. /\ pc[p] = "dcFind" /\ match'[p] = FindPending(p)
      /\ pc'[p] = IF FindPending(p) = 0 THEN "done" ELSE "dcCancel"
      /\ \A q \in Players \ {p} : pc'[q] = pc[q] /\ match'[q] = match[q]
      /\ UNCHANGED <<ui, c2s, s2c, connState, playerQueue, matches, pending, sessions, who>>
  BY DEF FindDisconnected, Goto, IInv, TypeOK, ThreadTypes, clientVars, netVars, queueVars,
         matchVars
<1>2. FindPending(p) # 0 => p \in PlayersOf(FindPending(p))
  BY FindPendingIn
<1>3. ThreadsKnow'
  BY <1>1, <1>2 DEF Seating, ThreadsKnow, PlayersOf
<1>4. pc'[p] \notin {"enqueue", "dcNotify"}
  BY <1>1
<1>5. /\ \A x \in Players : Told(x) => Told(x)'
      /\ \A q \in Players \ {p} : who'[q] = who[q]
  BY <1>1 DEF Told
<1> QED BY <1>1, <1>3, <1>4, <1>5, ThreadMoves DEF Seating

-----------------------------------------------------------------------------
(***************************************************************************)
(* Steps of the queue                                                      *)
(***************************************************************************)

LEMMA EnqueuePlayerSeats ==
  ASSUME IInv, Seating, NEW p \in Players, EnqueuePlayer(p)
  PROVE  Seating'
<1>1. /\ pc[p] = "enqueue" /\ who[p] \in Players
      /\ playerQueue \in Seq(Players) /\ playerQueue' = Append(playerQueue, who[p])
      /\ UNCHANGED <<ui, c2s, s2c, connState, matches, pending, sessions>>
  BY DEF EnqueuePlayer, IInv, TypeOK, QueueTypes, ThreadTypes, clientVars, netVars, matchVars
<1>2. /\ pc'[p] \in {"pair", "idle", "done"} /\ (pc'[p] = "idle" => who'[p] = p)
      /\ \A q \in Players \ {p} :
           pc'[q] = pc[q] /\ match'[q] = match[q] /\ who'[q] = who[q]
  BY <1>1 DEF EnqueuePlayer, Return, Goto, IInv, TypeOK, ThreadTypes
<1>3. ThreadsKnow'
  BY <1>1, <1>2 DEF Seating, ThreadsKnow, PlayersOf
<1>4. JoinsOnce'
  BY <1>1 DEF Seating, JoinsOnce
<1>5. \A x \in Players : Queued(x)' <=> Queued(x) \/ x = who[p]
  <2>1. \A x \in Players : Within(playerQueue', x) <=> Within(playerQueue, x) \/ who[p] = x
    BY <1>1, WithinAppend
  <2> QED BY <2>1 DEF Within, Queued
<1>6. \A x \in Players :
        /\ Offering(x)' <=> Offering(x)
        /\ Starting(x)' <=> Starting(x)
        /\ InMatch(x)' <=> InMatch(x)
        /\ Joining(x)' <=> Joining(x)
        /\ Told(x)' <=> Told(x)
  BY <1>1 DEF Offering, Starting, InMatch, Joining, Told, PlayersOf
<1>7. \A x \in Players : Cancelling(x)' <=> Cancelling(x)
  BY <1>1, <1>2 DEF Cancelling, Other
<1>8. \A x \in Players :
        (Queueing(x)' => Queueing(x)) /\ (Queueing(x) => Queueing(x)' \/ x = who[p])
  BY <1>1, <1>2 DEF Queueing
<1>9. NewcomersAreNew'
  <2>1. Queueing(who[p])
    BY <1>1 DEF Queueing
  <2> QED BY <1>1, <1>5, <1>6, <1>8, <2>1 DEF Seating, NewcomersAreNew
<1>10. AllSeated'
  BY <1>1, <1>5, <1>6, <1>7, <1>8 DEF Seating, AllSeated, Seated, WaitingClient
<1> QED BY <1>3, <1>4, <1>9, <1>10 DEF Seating

LEMMA TryCreateMatchSeats ==
  ASSUME IInv, Seating, NEW p \in Players, TryCreateMatch(p)
  PROVE  Seating'
<1> DEFINE new == [a |-> Front(playerQueue)[1], b |-> Front(playerQueue)[2],
                   aAccepted |-> FALSE, bAccepted |-> FALSE]
<1> DEFINE L == Len(matches)
<1>1. /\ pc[p] = "pair" /\ pc'[p] = "foundA" /\ Len(playerQueue) = 2
      /\ \A q \in Players \ {p} : pc'[q] = pc[q] /\ match'[q] = match[q]
      /\ UNCHANGED <<ui, c2s, s2c, connState, sessions, who>>
  BY DEF TryCreateMatch, Goto, IInv, TypeOK, QueueOK, ThreadTypes, clientVars, netVars
<1>2. /\ matches' = Append(matches, new) /\ pending' = pending \cup {Len(matches')}
      /\ new.a = playerQueue[1] /\ new.b = playerQueue[2]
  BY DEF TryCreateMatch, Front
<1>3. new \in PendingMatch /\ matches \in Seq(PendingMatch)
  <2>1. playerQueue \in Seq(Players) /\ Len(playerQueue) = 2
    BY <1>1 DEF IInv, TypeOK, QueueTypes
  <2>2. 1 \in 1 .. Len(playerQueue) /\ 2 \in 1 .. Len(playerQueue)
    BY <2>1
  <2>3. playerQueue[1] \in Players /\ playerQueue[2] \in Players
    BY <2>1, <2>2, ElementOfSeq
  <2> QED BY <2>3 DEF PendingMatch, Front, IInv, TypeOK, MatchTypes
<1> HIDE DEF new
<1>4. /\ L \in Nat /\ Len(matches') = L + 1 /\ matches'[L + 1] = new
      /\ \A m \in 1 .. L : matches'[m] = matches[m]
  BY <1>2, <1>3, AppendProperties, LenProperties
<1> HIDE DEF L
<1>5. /\ \A x : ~Queued(x)'
      /\ \A x \in Players : Queued(x) <=> x = new.a \/ x = new.b
  <2>1. IInv'
    BY TryCreateMatchStep
  <2>2. Len(playerQueue') = 0
    BY <1>1, <2>1 DEF IInv, QueueOK
  <2>3. \A i \in 1 .. 2 : i = 1 \/ i = 2
    OBVIOUS
  <2> QED BY <1>1, <1>2, <2>2, <2>3 DEF Queued
<1>6. /\ \A m \in 1 .. L : PlayersOf(m)' = PlayersOf(m)
      /\ \A m \in 1 .. L, q \in Players : Other(m, q)' = Other(m, q)
  BY <1>4 DEF PlayersOf, Other
<1>7. \A m : m = L + 1 => PlayersOf(m)' = {new.a, new.b}
  BY <1>4 DEF PlayersOf
<1>8. /\ \A m \in pending : m \in 1 .. L
      /\ \A s \in 1 .. Len(sessions) : sessions[s].match \in 1 .. L
      /\ \A q \in Players : pc[q] \in {"dcCancel", "dcNotify"} => match[q] \in 1 .. L
  BY DEF IInv, TypeOK, MatchTypes, LocalsOK, HoldsMatch, L
<1>9. ThreadsKnow'
  BY <1>1, <1>6, <1>8 DEF Seating, ThreadsKnow
<1>10. JoinsOnce'
  BY <1>1 DEF Seating, JoinsOnce
<1>11. \A x \in Players : Offering(x)' <=> Offering(x) \/ Queued(x)
  <2>1. pending' = pending \cup {L + 1}
    BY <1>2, <1>4
  <2> QED BY <1>5, <1>6, <1>7, <1>8, <2>1 DEF Offering
<1>12. \A x \in Players : InMatch(x)' <=> InMatch(x) \/ Queued(x)
  <2>1. \A m : m \in 1 .. Len(matches') <=> m \in 1 .. L \/ m = L + 1
    BY <1>4
  <2> QED BY <1>5, <1>6, <1>7, <2>1 DEF InMatch, L
<1>13. \A x \in Players :
         /\ Joining(x)' <=> Joining(x)
         /\ Told(x)' <=> Told(x)
         /\ Queueing(x)' <=> Queueing(x)
  BY <1>1 DEF Joining, Told, Queueing
<1>14. \A x \in Players : Starting(x)' <=> Starting(x)
  BY <1>1, <1>6, <1>8 DEF Starting
<1>15. \A x \in Players : Cancelling(x)' <=> Cancelling(x)
  BY <1>1, <1>6, <1>8 DEF Cancelling
<1>16. NewcomersAreNew'
  BY <1>1, <1>5, <1>12, <1>13 DEF Seating, NewcomersAreNew
<1>17. AllSeated'
  BY <1>1, <1>11, <1>13, <1>14, <1>15 DEF Seating, AllSeated, Seated, WaitingClient
<1> QED BY <1>9, <1>10, <1>16, <1>17 DEF Seating

LEMMA SendMatchFoundASeats ==
  ASSUME IInv, Seating, NEW p \in Players, SendMatchFoundA(p)
  PROVE  Seating'
<1>1. /\ pc[p] = "foundA" /\ pc'[p] = "foundB"
      /\ \A q \in Players \ {p} :
           pc'[q] = pc[q] /\ match'[q] = match[q] /\ who'[q] = who[q]
      /\ UNCHANGED <<ui, c2s, connState, playerQueue, matches, pending, sessions>>
  BY DEF SendMatchFoundA, Goto, IInv, TypeOK, ThreadTypes, clientVars, queueVars, matchVars
<1>2. \A x \in Players : Told(x) => Told(x)'
  <2>1. matches[match[p]].a \in Players
    BY <1>1, MatchRecord DEF IInv, TypeOK, LocalsOK, HoldsMatch
  <2> QED BY <2>1, SendWithin DEF SendMatchFoundA, Told, IInv, TypeOK, NetTypes, ServerMessage
<1>3. ThreadsKnow'
  BY <1>1 DEF Seating, ThreadsKnow, PlayersOf
<1> QED BY <1>1, <1>2, <1>3, ThreadMoves DEF Seating

LEMMA SendMatchFoundBSeats ==
  ASSUME IInv, Seating, NEW p \in Players, SendMatchFoundB(p)
  PROVE  Seating'
<1>0. ~PairsLeft(playerQueue)
  <2>1. Len(playerQueue) = 0
    BY DEF SendMatchFoundB, IInv, QueueOK
  <2> QED BY <2>1 DEF PairsLeft
<1>1. /\ pc[p] = "foundB" /\ pc'[p] \in {"idle", "done"} /\ who'[p] = p
      /\ \A q \in Players \ {p} :
           pc'[q] = pc[q] /\ match'[q] = match[q] /\ who'[q] = who[q]
      /\ UNCHANGED <<ui, c2s, connState, playerQueue, matches, pending, sessions>>
  BY <1>0 DEF SendMatchFoundB, Unlock, Return, Goto, IInv, TypeOK, ThreadTypes, clientVars,
         matchVars
<1>2. \A x \in Players : Told(x) => Told(x)'
  <2>1. matches[match[p]].b \in Players
    BY <1>1, MatchRecord DEF IInv, TypeOK, LocalsOK, HoldsMatch
  <2> QED BY <2>1, SendWithin DEF SendMatchFoundB, Told, IInv, TypeOK, NetTypes, ServerMessage
<1>3. ThreadsKnow'
  BY <1>1 DEF Seating, ThreadsKnow, PlayersOf
<1>4. pc[p] \notin {"enqueue", "dcNotify"} /\ pc'[p] \notin {"enqueue", "dcNotify"}
  BY <1>1
<1> QED BY <1>1, <1>2, <1>3, <1>4, ThreadMoves DEF Seating

\* removePlayer takes out that client, and no other.
LEMMA WithoutKeeps ==
  ASSUME NEW S, NEW q \in Seq(S), Len(q) <= 1, NEW p, NEW x
  PROVE  Within(Without(q, p), x) <=> x # p /\ Within(q, x)
<1>0. Len(q) = 0 \/ Len(q) = 1
  <2>1. \A n \in Nat : n <= 1 => n = 0 \/ n = 1
    OBVIOUS
  <2> QED BY <2>1, LenProperties, Zenon
<1>1. CASE ~(Len(q) = 1 /\ q[1] # p)
  <2>1. Without(q, p) = <<>>
    BY <1>1, WithoutOne
  <2>2. ~Within(Without(q, p), x)
    BY <2>1, EmptySeq DEF Within
  <2>3. x # p => ~Within(q, x)
    BY <1>0, <1>1 DEF Within
  <2> QED BY <2>2, <2>3
<1>2. CASE Len(q) = 1 /\ q[1] # p
  <2>1. Without(q, p) = Append(<<>>, q[1])
    BY <1>2, WithoutOne
  <2>2. q[1] \in S
    BY <1>2, ElementOfSeq
  <2>3. Len(Append(<<>>, q[1])) = 1 /\ Append(<<>>, q[1])[1] = q[1]
    BY <2>2, EmptySeq, AppendProperties
  <2>4. Within(Without(q, p), x) <=> q[1] = x
    BY <2>1, <2>3 DEF Within
  <2>5. Within(q, x) <=> q[1] = x
    BY <1>2 DEF Within
  <2> QED BY <1>2, <2>4, <2>5
<1> QED BY <1>1, <1>2

\* Only the client that has gone leaves the queue.
LEMMA RemovePlayerSeats ==
  ASSUME IInv, Seating, NEW p \in Players, RemovePlayer(p)
  PROVE  Seating'
<1>1. /\ pc[p] = "dcRemove" /\ pc'[p] = "dcFind" /\ queueMutex = None
      /\ playerQueue' = Without(playerQueue, p)
      /\ \A q \in Players \ {p} : pc'[q] = pc[q]
      /\ UNCHANGED <<ui, c2s, s2c, connState, matches, pending, sessions, who, match>>
  BY DEF RemovePlayer, Goto, IInv, TypeOK, ThreadTypes, clientVars, netVars, matchVars
<1>2. ui[p] = "Left"
  BY <1>1 DEF Seating, ThreadsKnow
<1>3. \A x \in Players : Queued(x)' <=> x # p /\ Queued(x)
  <2>1. playerQueue \in Seq(Players) /\ Len(playerQueue) <= 1
    BY <1>1 DEF IInv, TypeOK, QueueTypes, QueueOK, NoTwoInQueue
  <2>2. \A x \in Players : Within(playerQueue', x) <=> x # p /\ Within(playerQueue, x)
    BY <1>1, <2>1, WithoutKeeps
  <2> QED BY <2>2 DEF Queued, Within
<1>5. ThreadsKnow'
  BY <1>1, <1>2 DEF Seating, ThreadsKnow, PlayersOf
<1>6. JoinsOnce'
  BY <1>1 DEF Seating, JoinsOnce
<1>7. \A x \in Players :
        /\ Offering(x)' <=> Offering(x)
        /\ Starting(x)' <=> Starting(x)
        /\ InMatch(x)' <=> InMatch(x)
        /\ Joining(x)' <=> Joining(x)
        /\ Told(x)' <=> Told(x)
  BY <1>1 DEF Offering, Starting, InMatch, Joining, Told, PlayersOf
<1>8. \A x \in Players : Cancelling(x)' <=> Cancelling(x)
  BY <1>1 DEF Cancelling, Other
<1>9. \A x \in Players : Queueing(x)' <=> Queueing(x)
  BY <1>1 DEF Queueing
<1>10. NewcomersAreNew'
  BY <1>1, <1>3, <1>7, <1>9 DEF Seating, NewcomersAreNew
<1>11. AllSeated'
  BY <1>1, <1>2, <1>3, <1>7, <1>8, <1>9 DEF Seating, AllSeated, Seated, WaitingClient
<1> QED BY <1>5, <1>6, <1>10, <1>11 DEF Seating

-----------------------------------------------------------------------------
(***************************************************************************)
(* Steps of the read threads in MatchManager                               *)
(***************************************************************************)

\* A match that exists keeps its players, and so do the sessions and the threads that
\* refer to it.
LEMMA SamePlayers ==
  ASSUME IInv, Len(matches') = Len(matches),
         \A m \in 1 .. Len(matches) :
           matches'[m].a = matches[m].a /\ matches'[m].b = matches[m].b
  PROVE  /\ \A m \in 1 .. Len(matches) : PlayersOf(m)' = PlayersOf(m)
         /\ \A m \in 1 .. Len(matches), q \in Players : Other(m, q)' = Other(m, q)
         /\ \A x : InMatch(x)' <=> InMatch(x)
         /\ \A m \in pending : m \in 1 .. Len(matches)
         /\ \A s \in 1 .. Len(sessions) : sessions[s].match \in 1 .. Len(matches)
         /\ \A q \in Players :
              pc[q] \in {"accept", "dcCancel", "dcNotify"} => match[q] \in 1 .. Len(matches)
<1>1. \A m \in 1 .. Len(matches) : PlayersOf(m)' = PlayersOf(m)
  BY DEF PlayersOf
<1>2. \A m \in 1 .. Len(matches), q \in Players : Other(m, q)' = Other(m, q)
  BY DEF Other
<1>3. \A x : InMatch(x)' <=> InMatch(x)
  BY <1>1 DEF InMatch
<1> QED BY <1>1, <1>2, <1>3 DEF IInv, TypeOK, MatchTypes, LocalsOK, HoldsMatch

\* The acceptance that completes a match moves its players from the pending match to
\* the session in one critical section.
LEMMA OnAcceptSeats ==
  ASSUME IInv, Seating, NEW p \in Players, OnAccept(p)
  PROVE  Seating'
<1> DEFINE m == match[p]
<1> DEFINE accepted == [matches[m] EXCEPT !.aAccepted = @ \/ matches[m].a = p,
                                          !.bAccepted = @ \/ matches[m].b = p]
<1>1. m \in 1 .. Len(matches) /\ matches[m] \in PendingMatch
  BY ElementOfSeq DEF OnAccept, IInv, TypeOK, LocalsOK, HoldsMatch, MatchTypes
<1>2. accepted \in PendingMatch /\ accepted.a = matches[m].a /\ accepted.b = matches[m].b
  BY <1>1, Zenon DEF PendingMatch
<1>3. /\ pc[p] = "accept" /\ matches' = [matches EXCEPT ![m] = accepted]
      /\ UNCHANGED <<ui, c2s, s2c, connState, playerQueue>>
  BY DEF OnAccept, clientVars, netVars, queueVars
<1>4. /\ pc'[p] \in {"start", "idle", "done"} /\ who'[p] = p
      /\ \A q \in Players \ {p} :
           pc'[q] = pc[q] /\ match'[q] = match[q] /\ who'[q] = who[q]
  <2>1. CASE Ready(accepted)
    BY <1>3, <2>1 DEF OnAccept, Goto, IInv, TypeOK, ThreadTypes, Seating, ThreadsKnow
  <2>2. CASE ~Ready(accepted)
    BY <2>2 DEF OnAccept, Return, Goto, IInv, TypeOK, ThreadTypes
  <2> QED BY <2>1, <2>2
<1>5. \/ UNCHANGED <<pending, sessions>>
      \/ /\ pending' = pending \ {m}
         /\ sessions' = Append(sessions, [match |-> m, phase |-> "built", winner |-> None])
  <2>1. CASE Ready(accepted)
    BY <2>1 DEF OnAccept, Removed
  <2>2. CASE ~Ready(accepted)
    BY <2>2 DEF OnAccept
  <2> QED BY <2>1, <2>2
<1> HIDE DEF accepted
<1>6. /\ Len(matches') = Len(matches)
      /\ \A n \in 1 .. Len(matches) :
           matches'[n].a = matches[n].a /\ matches'[n].b = matches[n].b
  <2>1. /\ Len(matches') = Len(matches) /\ matches'[m] = accepted
        /\ \A n \in 1 .. Len(matches) : n # m => matches'[n] = matches[n]
    BY <1>1, <1>2, <1>3, MatchUpdated DEF IInv, TypeOK
  <2> QED BY <1>2, <2>1
<1> HIDE DEF m
<1>7. ThreadsKnow'
  BY <1>3, <1>4, <1>6, SamePlayers DEF Seating, ThreadsKnow
<1>8. JoinsOnce'
  BY <1>3 DEF Seating, JoinsOnce
<1>9. \A x \in Players :
        /\ Queued(x)' <=> Queued(x)
        /\ Joining(x)' <=> Joining(x)
        /\ Told(x)' <=> Told(x)
        /\ InMatch(x)' <=> InMatch(x)
  BY <1>3, <1>6, SamePlayers DEF Queued, Joining, Told
<1>10. \A x \in Players : (Queueing(x)' <=> Queueing(x)) /\ (Cancelling(x)' <=> Cancelling(x))
  BY <1>3, <1>4, <1>6, SamePlayers DEF Queueing, Cancelling
<1>11. \A x \in Players : Offering(x) \/ Starting(x) => Offering(x)' \/ Starting(x)'
  <2>1. CASE UNCHANGED <<pending, sessions>>
    BY <1>6, <2>1, SamePlayers DEF Offering, Starting
  <2>2. ASSUME pending' = pending \ {m},
               sessions' = Append(sessions, [match |-> m, phase |-> "built", winner |-> None])
        PROVE  \A x \in Players : Offering(x) \/ Starting(x) => Offering(x)' \/ Starting(x)'
    <3> DEFINE K == Len(sessions)
    <3> DEFINE new == [match |-> m, phase |-> "built", winner |-> None]
    <3>1. new \in MatchSession /\ new.match = m /\ new.phase = "built"
      <4>1. m \in Nat \ {0}
        BY <1>1, LenProperties DEF IInv, TypeOK, MatchTypes
      <4> QED BY <4>1 DEF MatchSession, Phase
    <3> HIDE DEF new
    <3>2. /\ K \in Nat /\ Len(sessions') = K + 1 /\ sessions'[K + 1] = new
          /\ \A s \in 1 .. K : sessions'[s] = sessions[s]
      <4>1. sessions' = Append(sessions, new) /\ sessions \in Seq(MatchSession)
        BY <2>2 DEF new, IInv, TypeOK, MatchTypes
      <4> QED BY <3>1, <4>1, AppendProperties, LenProperties
    <3>3. 1 .. Len(sessions') = 1 .. K \cup {K + 1}
      BY <3>2
    <3>4. \A x \in Players : x \in PlayersOf(m) => Starting(x)'
      BY <1>1, <1>6, <3>1, <3>2, <3>3, SamePlayers DEF Starting
    <3>5. \A x \in Players : Starting(x) => Starting(x)'
      BY <1>6, <3>2, <3>3, SamePlayers DEF Starting
    <3>6. \A x \in Players : Offering(x) => Offering(x)' \/ x \in PlayersOf(m)
      BY <1>6, <2>2, SamePlayers DEF Offering
    <3> QED BY <3>4, <3>5, <3>6
  <2> QED BY <1>5, <2>1, <2>2
<1>12. NewcomersAreNew'
  BY <1>3, <1>9, <1>10 DEF Seating, NewcomersAreNew
<1>13. AllSeated'
  BY <1>3, <1>9, <1>10, <1>11 DEF Seating, AllSeated, Seated, WaitingClient
<1> QED BY <1>7, <1>8, <1>12, <1>13 DEF Seating

\* The connections that stop reading lobby messages are those of a match's players.
LEMMA StartSessionSeats ==
  ASSUME IInv, Seating, NEW p \in Players, StartSession(p)
  PROVE  Seating'
<1> DEFINE s == session[p]
<1>1. /\ pc[p] = "start" /\ pc'[p] = "idle"
      /\ \A q \in Players \ {p} : pc'[q] = pc[q] /\ match'[q] = match[q]
      /\ UNCHANGED <<ui, c2s, s2c, playerQueue, matches, pending, who>>
  BY DEF StartSession, Goto, IInv, TypeOK, ThreadTypes, clientVars, queueVars
<1>2. s \in 1 .. Len(sessions) /\ sessions[s].match \in 1 .. Len(matches)
  BY <1>1 DEF IInv, LocalsOK
<1>3. \A x \in Players : x \notin PlayersOf(sessions[s].match) => connState'[x] = connState[x]
  BY DEF StartSession, PlayersOf, IInv, TypeOK, NetTypes
<1>4. /\ Len(sessions') = Len(sessions)
      /\ \A t \in 1 .. Len(sessions) :
           /\ sessions'[t].match = sessions[t].match
           /\ sessions'[t].phase \in {sessions[t].phase, "spawned"}
  <2> DEFINE r == [sessions[s] EXCEPT !.phase = "spawned"]
  <2>1. r \in MatchSession /\ r.match = sessions[s].match /\ r.phase = "spawned"
    BY <1>2, SessionPlayers DEF MatchSession, Phase
  <2>2. sessions' = [sessions EXCEPT ![s] = r]
    BY DEF StartSession
  <2> HIDE DEF r
  <2>3. /\ Len(sessions') = Len(sessions)
        /\ \A t \in 1 .. Len(sessions) : sessions'[t] = IF t = s THEN r ELSE sessions[t]
    BY <1>2, <2>1, <2>2, ExceptSeq DEF IInv, TypeOK, MatchTypes
  <2> QED BY <2>1, <2>3
<1> HIDE DEF s
<1>5. ThreadsKnow'
  BY <1>1 DEF Seating, ThreadsKnow, PlayersOf
<1>6. JoinsOnce'
  BY <1>1 DEF Seating, JoinsOnce
<1>7. \A x \in Players :
        /\ Queued(x)' <=> Queued(x)
        /\ Joining(x)' <=> Joining(x)
        /\ Told(x)' <=> Told(x)
        /\ InMatch(x)' <=> InMatch(x)
        /\ Offering(x)' <=> Offering(x)
  BY <1>1 DEF Queued, Joining, Told, InMatch, Offering, PlayersOf
<1>8. \A x \in Players : Queueing(x)' <=> Queueing(x)
  BY <1>1 DEF Queueing
<1>9. \A x \in Players : Cancelling(x)' <=> Cancelling(x)
  BY <1>1 DEF Cancelling, Other
<1>10. \A x \in Players : Starting(x) => Starting(x)'
  BY <1>1, <1>4 DEF Starting, PlayersOf
<1>11. NewcomersAreNew'
  <2>1. \A x \in Players : ~InMatch(x) => x \notin PlayersOf(sessions[s].match)
    BY <1>2 DEF InMatch
  <2> QED BY <1>1, <1>3, <1>7, <1>8, <2>1 DEF Seating, NewcomersAreNew
<1>12. AllSeated'
  BY <1>1, <1>7, <1>8, <1>9, <1>10 DEF Seating, AllSeated, Seated, WaitingClient
<1> QED BY <1>5, <1>6, <1>11, <1>12 DEF Seating

\* Who was in the cancelled match is the client that has gone or the one its thread is
\* about to tell.
LEMMA RemovePendingSeats ==
  ASSUME IInv, Seating, NEW p \in Players, RemovePending(p)
  PROVE  Seating'
<1>1. /\ pc[p] = "dcCancel" /\ pc'[p] = "dcNotify" /\ pending' = pending \ {match[p]}
      /\ \A q \in Players \ {p} : pc'[q] = pc[q]
      /\ UNCHANGED <<ui, c2s, s2c, connState, playerQueue, matches, sessions, who, match>>
  BY DEF RemovePending, Removed, Goto, IInv, TypeOK, ThreadTypes, clientVars, netVars,
         queueVars
<1>2. ui[p] = "Left" /\ p \in PlayersOf(match[p])
  BY <1>1 DEF Seating, ThreadsKnow
<1>3. ThreadsKnow'
  BY <1>1, <1>2 DEF Seating, ThreadsKnow, PlayersOf
<1>4. JoinsOnce'
  BY <1>1 DEF Seating, JoinsOnce
<1>5. \A x \in Players :
        /\ Queued(x)' <=> Queued(x)
        /\ Joining(x)' <=> Joining(x)
        /\ Told(x)' <=> Told(x)
        /\ InMatch(x)' <=> InMatch(x)
        /\ Starting(x)' <=> Starting(x)
  BY <1>1 DEF Queued, Joining, Told, InMatch, Starting, PlayersOf
<1>6. \A x \in Players : Queueing(x)' <=> Queueing(x)
  BY <1>1 DEF Queueing
<1>7. \A x \in Players : Cancelling(x) => Cancelling(x)'
  BY <1>1 DEF Cancelling, Other
<1>8. \A x \in Players : x \in PlayersOf(match[p]) => x = p \/ Cancelling(x)'
  BY <1>1, <1>2 DEF PlayersOf, Cancelling, Other
<1>9. \A x \in Players : Offering(x) => Offering(x)' \/ x \in PlayersOf(match[p])
  BY <1>1 DEF Offering, PlayersOf
<1>10. NewcomersAreNew'
  BY <1>1, <1>5, <1>6 DEF Seating, NewcomersAreNew
<1>11. AllSeated'
  BY <1>1, <1>2, <1>5, <1>6, <1>7, <1>8, <1>9 DEF Seating, AllSeated, Seated, WaitingClient
<1> QED BY <1>3, <1>4, <1>10, <1>11 DEF Seating

\* The client that is told goes on to the queue in the same thread.
LEMMA SendMatchCancelledSeats ==
  ASSUME IInv, Seating, NEW p \in Players, SendMatchCancelled(p)
  PROVE  Seating'
<1> DEFINE o == Other(match[p], p)
<1>1. /\ pc[p] = "dcNotify" /\ pc'[p] = "enqueue" /\ who'[p] = o
      /\ s2c' = Send(s2c, o, "MATCH_CANCELLED")
      /\ \A q \in Players \ {p} :
           pc'[q] = pc[q] /\ match'[q] = match[q] /\ who'[q] = who[q]
      /\ UNCHANGED <<ui, c2s, connState, playerQueue, matches, pending, sessions>>
  BY DEF SendMatchCancelled, Goto, IInv, TypeOK, ThreadTypes, clientVars, queueVars, matchVars
<1>2. match[p] \in 1 .. Len(matches)
  BY <1>1 DEF IInv, LocalsOK, HoldsMatch
<1>3. o \in Players /\ InMatch(o)
  <2>1. o \in PlayersOf(match[p])
    BY DEF Other, PlayersOf
  <2>2. PlayersOf(match[p]) \subseteq Players
    BY <1>2, MatchRecord DEF PlayersOf, IInv, TypeOK
  <2> QED BY <1>2, <2>1, <2>2 DEF InMatch
<1>4. ThreadsKnow'
  BY <1>1 DEF Seating, ThreadsKnow, PlayersOf
<1>5. JoinsOnce'
  BY <1>1 DEF Seating, JoinsOnce
<1>6. \A x \in Players :
        /\ Queued(x)' <=> Queued(x)
        /\ Joining(x)' <=> Joining(x)
        /\ InMatch(x)' <=> InMatch(x)
        /\ Offering(x)' <=> Offering(x)
        /\ Starting(x)' <=> Starting(x)
  BY <1>1 DEF Queued, Joining, InMatch, Offering, Starting, PlayersOf
<1>7. \A x \in Players : Told(x) => Told(x)'
  <2>1. s2c \in [Players -> Seq(ServerMessage)] /\ "MATCH_CANCELLED" \in ServerMessage
    BY DEF IInv, TypeOK, NetTypes, ServerMessage
  <2> QED BY <1>1, <1>3, <2>1, SendWithin DEF Told
<1> HIDE DEF o
<1>8. \A x \in Players : Queueing(x)' <=> Queueing(x) \/ x = o
  BY <1>1 DEF Queueing
<1>9. \A x \in Players : Cancelling(x) => Cancelling(x)' \/ x = o
  BY <1>1 DEF Cancelling, Other, o
<1>10. NewcomersAreNew'
  BY <1>1, <1>3, <1>6, <1>8 DEF Seating, NewcomersAreNew
<1>11. AllSeated'
  BY <1>1, <1>6, <1>7, <1>8, <1>9 DEF Seating, AllSeated, Seated, WaitingClient
<1> QED BY <1>4, <1>5, <1>10, <1>11 DEF Seating

-----------------------------------------------------------------------------
(***************************************************************************)
(* Steps of the disconnect thread and of the game threads                  *)
(***************************************************************************)

\* What Seating needs of a step outside the lobby: connections are at most given back
\* to it, and who waits for a match to start is told.
LEMMA OutsideSeats ==
  ASSUME IInv, Seating,
         UNCHANGED <<ui, c2s, playerQueue, matches, pending, pc, who, match>>,
         \A x \in Players : connState'[x] \in {connState[x], "Waiting"},
         \A x \in Players : WaitingClient(x) /\ Starting(x) => Starting(x)' \/ Told(x)',
         \A x \in Players : WaitingClient(x) /\ Told(x) => Told(x)'
  PROVE  Seating'
<1>1. \A x \in Players :
        /\ Queued(x)' <=> Queued(x)
        /\ Joining(x)' <=> Joining(x)
        /\ InMatch(x)' <=> InMatch(x)
        /\ Offering(x)' <=> Offering(x)
  BY DEF Queued, Joining, InMatch, Offering, PlayersOf
<1>2. \A x \in Players : Queueing(x)' <=> Queueing(x)
  BY DEF Queueing
<1>3. \A x \in Players : Cancelling(x)' <=> Cancelling(x)
  BY DEF Cancelling, Other
<1>4. ThreadsKnow'
  BY DEF Seating, ThreadsKnow, PlayersOf
<1>5. JoinsOnce'
  BY DEF Seating, JoinsOnce
<1>6. NewcomersAreNew'
  BY <1>1, <1>2 DEF Seating, NewcomersAreNew
<1>7. AllSeated'
  BY <1>1, <1>2, <1>3 DEF Seating, AllSeated, Seated, WaitingClient
<1> QED BY <1>4, <1>5, <1>6, <1>7 DEF Seating

LEMMA DisconnectThreadSeats ==
  ASSUME IInv, Seating, DisconnectThread
  PROVE  Seating'
<1>1. UNCHANGED <<ui, c2s, s2c, connState, playerQueue, matches, pending, sessions, pc, who,
                  match>>
  BY DEF DisconnectThread, TakeDisconnect, JoinReadThread, clientVars, netVars, queueVars,
         matchVars, threadVars
<1>2. \A x \in Players : (Starting(x) => Starting(x)') /\ (Told(x) => Told(x)')
  BY <1>1 DEF Starting, Told, PlayersOf
<1> QED BY <1>1, <1>2, OutsideSeats

\* A session that has begun keeps nobody waiting for it to start.
LEMMA LaterPhaseSeats ==
  ASSUME IInv, NEW s \in 1 .. Len(sessions), sessions[s].phase \notin {"built", "spawned"},
         NEW r \in MatchSession, r.match = sessions[s].match,
         sessions' = [sessions EXCEPT ![s] = r], matches' = matches
  PROVE  \A x \in Players : Starting(x) => Starting(x)'
<1>1. /\ Len(sessions') = Len(sessions)
      /\ \A t \in 1 .. Len(sessions) : t # s => sessions'[t] = sessions[t]
  BY ExceptSeq DEF IInv, TypeOK, MatchTypes
<1> QED BY <1>1 DEF Starting, PlayersOf

LEMMA EndMatchSeats ==
  ASSUME IInv, Seating, NEW s \in 1 .. Len(sessions), sessions[s].phase = "running",
         NEW w \in Players, NEW box \in [Players -> Seq(ServerMessage)],
         \A x \in Players : Told(x) => Within(box[x], "MATCH_START"), EndMatch(s, w, box)
  PROVE  Seating'
<1> DEFINE r == [sessions[s] EXCEPT !.phase = "rewarding", !.winner = w]
<1>1. r \in MatchSession /\ r.match = sessions[s].match
  BY SessionPlayers DEF MatchSession, Phase
<1>2. /\ sessions' = [sessions EXCEPT ![s] = r] /\ s2c' = Send(box, w, "MATCH_WON")
      /\ UNCHANGED <<ui, c2s, connState, playerQueue, matches, pending, pc, who, match>>
  BY DEF EndMatch, clientVars, queueVars, threadVars
<1> HIDE DEF r
<1>3. \A x \in Players : Starting(x) => Starting(x)'
  BY <1>1, <1>2, LaterPhaseSeats
<1>4. \A x \in Players : Told(x) => Told(x)'
  BY <1>2, SendWithin DEF Told, ServerMessage
<1> QED BY <1>2, <1>3, <1>4, OutsideSeats

\* The players of a session that starts are sent MATCH_START, if they are there.
LEMMA SendMatchStartSeats ==
  ASSUME IInv, Seating, NEW s \in 1 .. Len(sessions), SendMatchStart(s)
  PROVE  Seating'
<1> DEFINE a == PlayerA(s)
<1> DEFINE b == PlayerB(s)
<1> DEFINE first == Send(s2c, a, "MATCH_START")
<1> DEFINE r == [sessions[s] EXCEPT !.phase = "running"]
<1>1. a \in Players /\ b \in Players /\ r \in MatchSession /\ r.match = sessions[s].match
  BY SessionPlayers DEF MatchSession, Phase
<1>2. /\ sessions' = [sessions EXCEPT ![s] = r] /\ s2c' = Send(first, b, "MATCH_START")
      /\ UNCHANGED <<ui, c2s, connState, playerQueue, matches, pending, pc, who, match>>
  BY DEF SendMatchStart, clientVars, queueVars, threadVars
<1> HIDE DEF r
<1>3. /\ "MATCH_START" \in ServerMessage /\ s2c \in [Players -> Seq(ServerMessage)]
      /\ first \in [Players -> Seq(ServerMessage)]
  <2>1. "MATCH_START" \in ServerMessage /\ s2c \in [Players -> Seq(ServerMessage)]
    BY DEF ServerMessage, IInv, TypeOK, NetTypes
  <2> QED BY <1>1, <2>1, SendType
<1> HIDE DEF a, b
<1>4. \A x \in Players : Told(x) => Told(x)'
  <2>1. \A x \in Players : Told(x) => Within(first[x], "MATCH_START")
    BY <1>1, <1>3, SendWithin DEF Told
  <2> HIDE DEF first
  <2> QED BY <1>1, <1>2, <1>3, <2>1, SendWithin DEF Told
<1>5. \A x \in Players : x = a /\ ui[x] # "Left" => Told(x)'
  <2>1. ui[a] # "Left" => Within(first[a], "MATCH_START")
    BY <1>1, <1>3, SendDelivers
  <2> HIDE DEF first
  <2> QED BY <1>1, <1>2, <1>3, <2>1, SendWithin DEF Told
<1>6. \A x \in Players : x = b /\ ui[x] # "Left" => Told(x)'
  <2> HIDE DEF first
  <2> QED BY <1>1, <1>2, <1>3, SendDelivers DEF Told
<1>7. \A x \in Players : Starting(x) => Starting(x)' \/ x = a \/ x = b
  <2>1. /\ Len(sessions') = Len(sessions)
        /\ \A t \in 1 .. Len(sessions) : t # s => sessions'[t] = sessions[t]
    BY <1>1, <1>2, ExceptSeq DEF IInv, TypeOK, MatchTypes
  <2> QED BY <1>2, <2>1 DEF Starting, PlayersOf, a, b, PlayerA, PlayerB
<1> HIDE DEF first
<1>8. \A x \in Players : WaitingClient(x) /\ Starting(x) => Starting(x)' \/ Told(x)'
  BY <1>5, <1>6, <1>7 DEF WaitingClient
<1> QED BY <1>2, <1>4, <1>8, OutsideSeats

LEMMA GameThreadSeats ==
  ASSUME IInv, Seating, NEW s \in 1 .. Len(sessions), GameThread(s)
  PROVE  Seating'
<1>1. /\ sessions[s] \in MatchSession
      /\ PlayerA(s) \in Players /\ PlayerB(s) \in Players /\ Loser(s) \in Players
      /\ s2c \in [Players -> Seq(ServerMessage)]
  BY SessionPlayers DEF IInv, TypeOK, NetTypes
<1>2. CASE SendMatchStart(s)
  BY <1>2, SendMatchStartSeats
<1>3. CASE HandleDisconnect(s)
  <2> DEFINE w == IF alive[PlayerA(s)] THEN PlayerA(s) ELSE PlayerB(s)
  <2> DEFINE box == IF alive[w] THEN Send(s2c, w, "OPPONENT_DISCONNECTED") ELSE s2c
  <2>1. w \in Players /\ sessions[s].phase = "running" /\ EndMatch(s, w, box)
    BY <1>1, <1>3 DEF HandleDisconnect
  <2> HIDE DEF w
  <2>2. /\ box \in [Players -> Seq(ServerMessage)]
        /\ \A x \in Players : Told(x) => Within(box[x], "MATCH_START")
    BY <1>1, <2>1, SendType, SendWithin DEF Told, ServerMessage
  <2> HIDE DEF box
  <2> QED BY <2>1, <2>2, EndMatchSeats
<1>4. CASE \E winner \in Players : GameOver(s, winner)
  BY <1>1, <1>4, EndMatchSeats DEF GameOver, Told
<1>5. CASE SendMatchLost(s)
  <2> DEFINE r == [sessions[s] EXCEPT !.phase = "told"]
  <2>1. r \in MatchSession /\ r.match = sessions[s].match
    BY <1>1 DEF MatchSession, Phase
  <2>2. /\ sessions[s].phase = "rewarding" /\ sessions' = [sessions EXCEPT ![s] = r]
        /\ s2c' = Send(s2c, Loser(s), "MATCH_LOST")
        /\ UNCHANGED <<ui, c2s, connState, playerQueue, matches, pending, pc, who, match>>
    BY <1>5 DEF SendMatchLost, clientVars, queueVars, threadVars
  <2> HIDE DEF r
  <2>3. \A x \in Players : Starting(x) => Starting(x)'
    BY <2>1, <2>2, LaterPhaseSeats
  <2>4. \A x \in Players : Told(x) => Told(x)'
    BY <1>1, <2>2, SendWithin DEF Told, ServerMessage
  <2> QED BY <2>2, <2>3, <2>4, OutsideSeats
<1>6. CASE BackToWaiting(s)
  <2> DEFINE r == [sessions[s] EXCEPT !.phase = "left"]
  <2>1. r \in MatchSession /\ r.match = sessions[s].match
    BY <1>1 DEF MatchSession, Phase
  <2>2. /\ sessions[s].phase = "told" /\ sessions' = [sessions EXCEPT ![s] = r]
        /\ UNCHANGED <<ui, c2s, s2c, playerQueue, matches, pending, pc, who, match>>
    BY <1>6 DEF BackToWaiting, clientVars, queueVars, threadVars
  <2> HIDE DEF r
  <2>3. \A x \in Players : Starting(x) => Starting(x)'
    BY <2>1, <2>2, LaterPhaseSeats
  <2>4. \A x \in Players : connState'[x] \in {connState[x], "Waiting"}
    BY <1>1, <1>6 DEF BackToWaiting, IInv, TypeOK, NetTypes
  <2>5. \A x \in Players : Told(x) => Told(x)'
    BY <2>2 DEF Told
  <2> QED BY <2>2, <2>3, <2>4, <2>5, OutsideSeats
<1>7. CASE OnMatchEnd(s)
  <2> DEFINE r == [sessions[s] EXCEPT !.phase = "ended"]
  <2>1. r \in MatchSession /\ r.match = sessions[s].match
    BY <1>1 DEF MatchSession, Phase
  <2>2. /\ sessions[s].phase = "left" /\ sessions' = [sessions EXCEPT ![s] = r]
        /\ UNCHANGED <<ui, c2s, s2c, connState, playerQueue, matches, pending, pc, who, match>>
    BY <1>7 DEF OnMatchEnd, clientVars, netVars, queueVars, threadVars
  <2> HIDE DEF r
  <2>3. \A x \in Players : Starting(x) => Starting(x)'
    BY <2>1, <2>2, LaterPhaseSeats
  <2>4. \A x \in Players : Told(x) => Told(x)'
    BY <2>2 DEF Told
  <2> QED BY <2>2, <2>3, <2>4, OutsideSeats
<1> QED BY <1>2, <1>3, <1>4, <1>5, <1>6, <1>7 DEF GameThread, Ending

-----------------------------------------------------------------------------
(***************************************************************************)
(* The theorem                                                             *)
(***************************************************************************)

LEMMA InitSeating == Init => Seating
<1> SUFFICES ASSUME Init PROVE Seating
  OBVIOUS
<1>1. Len(<<>>) = 0
  BY EmptySeq
<1>2. ThreadsKnow /\ JoinsOnce
  BY <1>1 DEF Init, ThreadsKnow, JoinsOnce
<1>3. NewcomersAreNew
  BY <1>1 DEF Init, NewcomersAreNew, Joining, Within, Queued, Queueing, InMatch
<1>4. AllSeated
  BY DEF Init, AllSeated, WaitingClient
<1> QED BY <1>2, <1>3, <1>4 DEF Seating

LEMMA NextSeating ==
  ASSUME MaxRequeues = 0, IInv, Seating, [Next]_vars
  PROVE  Seating'
<1>1. CASE \E p \in Players : Client(p)
  BY <1>1, ClientConnectSeats, ClientReceiveSeats, ClientAcceptSeats, ClientRequeueSeats,
     ClientLeaveSeats DEF Client
<1>2. CASE \E p \in Players : ReadThread(p)
  BY <1>2, ReadEnqueueSeats, ReadAcceptSeats, ReadInGameSeats, ReadEofSeats,
     EnqueuePlayerSeats, TryCreateMatchSeats, SendMatchFoundASeats, SendMatchFoundBSeats,
     RemovePlayerSeats, OnAcceptSeats, StartSessionSeats, FindDisconnectedSeats,
     RemovePendingSeats, SendMatchCancelledSeats DEF ReadThread
<1>3. CASE DisconnectThread
  BY <1>3, DisconnectThreadSeats
<1>4. CASE \E s \in 1 .. Len(sessions) : GameThread(s)
  BY <1>4, GameThreadSeats
<1>5. CASE UNCHANGED vars
  <2>1. UNCHANGED <<ui, c2s, s2c, connState, playerQueue, matches, pending, sessions, pc, who,
                    match>>
    BY <1>5 DEF vars, clientVars, netVars, queueVars, matchVars, threadVars
  <2>2. \A x \in Players : (Starting(x) => Starting(x)') /\ (Told(x) => Told(x)')
    BY <2>1 DEF Starting, Told, PlayersOf
  <2> QED BY <2>1, <2>2, OutsideSeats
<1> QED BY <1>1, <1>2, <1>3, <1>4, <1>5 DEF Next

LEMMA SeatingNobodyForgotten ==
  ASSUME Stranded = {}, Seating
  PROVE  NobodyForgotten
<1>1. \A p \in Players : Seated(p) => Placed(p)
  BY DEF Seated, Placed, Offering, Starting, Queueing, Cancelling, Joining, Told, Within, Occurs
<1> QED BY <1>1 DEF Seating, AllSeated, WaitingClient, NobodyForgotten

\* However many clients connect, accept, and leave at whatever moment, none of them is
\* left on the Waiting screen without a place in the server: the queue, the pending
\* matches and the sessions hand a client on from one to the next without a gap, and a
\* cancelled match puts the other client back (Matchmaker::enqueuePlayer,
\* MatchManager::onAccept and onPlayerDisconnected).  The two assumptions are needed:
\* a client that requeues, or that fails to load a deck, can be forgotten.
THEOREM NobodyForgottenHolds ==
  ASSUME MaxRequeues = 0, Stranded = {}
  PROVE  Spec => []NobodyForgotten
<1>1. Init => IInv /\ Seating
  BY InitIInv, InitSeating
<1>2. (IInv /\ Seating) /\ [Next]_vars => (IInv /\ Seating)'
  BY NextIInv, NextSeating
<1>3. Seating => NobodyForgotten
  BY SeatingNobodyForgotten
<1> QED BY <1>1, <1>2, <1>3, PTL DEF Spec

-----------------------------------------------------------------------------
(***************************************************************************)
(* TwoDifferentPlayers.  A client stands in the queue twice only if it was *)
(* put there twice.  What puts a client into the queue is its player_info, *)
(* or the thread of the other player of a match that is cancelled; so a    *)
(* client's place before the queue is that message, or a match that is     *)
(* pending or that another thread is cancelling.  OnePlace says that it has *)
(* at most one of them.                                                    *)
(***************************************************************************)

NoRequeues == \A p \in Players : ~Within(c2s[p], "QUEUE")

\* The disconnect callback of q has found match m and has not queued the other player.
Cancels(q, m) == pc[q] \in {"dcCancel", "dcNotify"} /\ match[q] = m

\* Match m can put player x back into the queue.
Holds(m, x) ==
  /\ x \in PlayersOf(m)
  /\ m \in pending \/ \E q \in Players : Cancels(q, m) /\ Other(m, q) = x

InQueueOnce ==
  \A i, j \in 1 .. Len(playerQueue) : playerQueue[i] = playerQueue[j] => i = j

QueuedByOne ==
  \A q, r \in Players : pc[q] = "enqueue" /\ pc[r] = "enqueue" /\ who[q] = who[r] => q = r

HeldByOne ==
  \A m, n \in 1 .. Len(matches), x \in Players : Holds(m, x) /\ Holds(n, x) => m = n

OneKind ==
  \A x \in Players :
    /\ Queueing(x) => ~Queued(x)
    /\ \A m \in 1 .. Len(matches) : Holds(m, x) => ~Queued(x) /\ ~Queueing(x)

\* A cancelled match is not pending by the time the other player is told.
TakenOut == \A q \in Players : pc[q] = "dcNotify" => match[q] \notin pending

OnePlace ==
  /\ NoRequeues /\ InQueueOnce /\ QueuedByOne /\ HeldByOne /\ OneKind /\ TakenOut
  /\ TwoDifferentPlayers

-----------------------------------------------------------------------------
(***************************************************************************)
(* Steps that give nobody a place                                          *)
(***************************************************************************)

KeepsPlayers ==
  /\ Len(matches') = Len(matches)
  /\ \A m \in 1 .. Len(matches) :
       matches'[m].a = matches[m].a /\ matches'[m].b = matches[m].b

\* A thread that is cancelling a match was, or has just found it pending.
NoNewHold ==
  /\ pending' \subseteq pending
  /\ \A q \in Players, m \in 1 .. Len(matches) :
       Cancels(q, m)' => Cancels(q, m) \/ m \in pending

LEMMA NoNewHoldHolds ==
  ASSUME IInv, KeepsPlayers, NoNewHold, NEW m \in 1 .. Len(matches), NEW x \in Players,
         Holds(m, x)'
  PROVE  Holds(m, x)
<1>1. PlayersOf(m)' = PlayersOf(m) /\ \A q \in Players : Other(m, q)' = Other(m, q)
  BY SamePlayers DEF KeepsPlayers
<1>2. CASE m \in pending'
  BY <1>1, <1>2 DEF Holds, NoNewHold
<1>3. ASSUME NEW q \in Players, Cancels(q, m)', Other(m, q)' = x
      PROVE  Holds(m, x)
  BY <1>1, <1>3 DEF Holds, NoNewHold
<1> QED BY <1>2, <1>3 DEF Holds

\* Nobody is put anywhere: the queue is the same, and a thread that queues somebody was
\* about to.
LEMMA NoNewPlace ==
  ASSUME IInv, OnePlace, NoRequeues', KeepsPlayers, NoNewHold, TakenOut',
         playerQueue' = playerQueue,
         \A q \in Players : pc'[q] = "enqueue" => pc[q] = "enqueue" /\ who'[q] = who[q]
  PROVE  OnePlace'
<1>1. \A m \in 1 .. Len(matches), x \in Players : Holds(m, x)' => Holds(m, x)
  BY NoNewHoldHolds
<1>2. \A x \in Players : (Queued(x)' <=> Queued(x)) /\ (Queueing(x)' => Queueing(x))
  BY DEF Queued, Queueing
<1>3. InQueueOnce' /\ QueuedByOne'
  BY DEF OnePlace, InQueueOnce, QueuedByOne
<1>4. HeldByOne'
  BY <1>1 DEF OnePlace, HeldByOne, KeepsPlayers
<1>5. OneKind'
  BY <1>1, <1>2 DEF OnePlace, OneKind, KeepsPlayers
<1>6. TwoDifferentPlayers'
  BY DEF OnePlace, TwoDifferentPlayers, KeepsPlayers
<1> QED BY <1>3, <1>4, <1>5, <1>6 DEF OnePlace

\* Most steps do not even touch the threads that queue or cancel.
LEMMA QuietPlaces ==
  ASSUME IInv, OnePlace, NoRequeues', KeepsPlayers, pending' \subseteq pending,
         playerQueue' = playerQueue,
         \A q \in Players :
           pc'[q] \in {"enqueue", "dcCancel", "dcNotify"} =>
             pc'[q] = pc[q] /\ match'[q] = match[q] /\ who'[q] = who[q]
  PROVE  OnePlace'
<1>1. NoNewHold
  BY DEF NoNewHold, Cancels
<1>2. TakenOut'
  BY DEF OnePlace, TakenOut
<1>3. \A q \in Players : pc'[q] = "enqueue" => pc[q] = "enqueue" /\ who'[q] = who[q]
  OBVIOUS
<1> QED BY <1>1, <1>2, <1>3, NoNewPlace

LEMMA SameMatches ==
  ASSUME matches' = matches
  PROVE  KeepsPlayers
BY DEF KeepsPlayers

-----------------------------------------------------------------------------
(***************************************************************************)
(* Steps of the clients, the game threads and the disconnect thread        *)
(***************************************************************************)

\* What a client sends is not QUEUE.
LEMMA ClientPlaces ==
  ASSUME MaxRequeues = 0, IInv, OnePlace, NEW p \in Players, Client(p)
  PROVE  OnePlace'
<1>1. UNCHANGED <<playerQueue, matches, pending, pc, who, match>>
  BY DEF Client, ClientConnect, ClientReceive, ClientAccept, ClientRequeue, ClientLeave,
         queueVars, matchVars, threadVars
<1>2. NoRequeues'
  <2>1. c2s \in [Players -> Seq(ClientMessage)]
    BY DEF IInv, TypeOK, NetTypes
  <2>2. ASSUME NEW e \in {"player_info", "MATCH_ACCEPT"}, c2s' = [c2s EXCEPT ![p] = Append(@, e)]
        PROVE  NoRequeues'
    <3>1. Within(Append(c2s[p], e), "QUEUE") => Within(c2s[p], "QUEUE")
      BY <2>1, WithinAppend DEF ClientMessage
    <3> QED BY <2>1, <2>2, <3>1 DEF OnePlace, NoRequeues
  <2>3. ASSUME NEW rest \in {c2s[p], <<>>}, c2s' = [c2s EXCEPT ![p] = rest]
        PROVE  NoRequeues'
    <3>1. ~Within(<<>>, "QUEUE")
      BY EmptySeq DEF Within
    <3> QED BY <2>1, <2>3, <3>1 DEF OnePlace, NoRequeues
  <2>4. CASE ClientConnect(p)
    BY <2>2, <2>4 DEF ClientConnect
  <2>5. CASE ClientReceive(p)
    BY <2>5 DEF ClientReceive, OnePlace, NoRequeues
  <2>6. CASE ClientAccept(p)
    BY <2>2, <2>6 DEF ClientAccept
  <2>7. CASE ClientRequeue(p)
    BY <2>7, ClientRequeueSeats
  <2>8. CASE ClientLeave(p)
    BY <2>3, <2>8 DEF ClientLeave
  <2> QED BY <2>4, <2>5, <2>6, <2>7, <2>8 DEF Client
<1> QED BY <1>1, <1>2, QuietPlaces, SameMatches

LEMMA OtherThreadPlaces ==
  ASSUME IInv, OnePlace,
         DisconnectThread \/ (\E s \in 1 .. Len(sessions) : GameThread(s)) \/ UNCHANGED vars
  PROVE  OnePlace'
<1>1. UNCHANGED <<c2s, playerQueue, matches, pending, pc, who, match>>
  BY DEF DisconnectThread, TakeDisconnect, JoinReadThread, GameThread, SendMatchStart,
         HandleDisconnect, GameOver, EndMatch, Ending, SendMatchLost, BackToWaiting,
         OnMatchEnd, vars, netVars, queueVars, matchVars, threadVars
<1>2. NoRequeues'
  BY <1>1 DEF OnePlace, NoRequeues
<1> QED BY <1>1, <1>2, QuietPlaces, SameMatches

-----------------------------------------------------------------------------
(***************************************************************************)
(* Steps of the read threads                                               *)
(***************************************************************************)

LEMMA ReadsPlaces ==
  ASSUME IInv, OnePlace, NEW p \in Players, NEW state, NEW msgs, Reads(p, state, msgs)
  PROVE  NoRequeues' /\ Head(c2s[p]) # "QUEUE"
<1>1. /\ c2s[p] \in Seq(ClientMessage) /\ c2s[p] # <<>> /\ c2s'[p] = Tail(c2s[p])
      /\ \A x \in Players \ {p} : c2s'[x] = c2s[x]
  BY DEF Reads, IInv, TypeOK, NetTypes
<1>2. ~Within(c2s[p], "QUEUE")
  BY DEF OnePlace, NoRequeues
<1>3. ~Within(Tail(c2s[p]), "QUEUE")
  <2>1. Within(Tail(c2s[p]), "QUEUE") => \E i \in 2 .. Len(c2s[p]) : c2s[p][i] = "QUEUE"
    BY <1>1, WithinTail
  <2>2. \A i \in 2 .. Len(c2s[p]) : i \in 1 .. Len(c2s[p])
    BY <1>1, LenProperties
  <2> QED BY <1>2, <2>1, <2>2 DEF Within
<1>4. Head(c2s[p]) # "QUEUE"
  <2>1. Head(c2s[p]) = c2s[p][1] /\ 1 \in 1 .. Len(c2s[p])
    BY <1>1, HeadTailProperties, LenProperties, EmptySeq
  <2> QED BY <1>2, <2>1 DEF Within
<1> QED BY <1>1, <1>3, <1>4 DEF OnePlace, NoRequeues

\* player_info is the place of a client that has no other.
LEMMA ReadEnqueuePlaces ==
  ASSUME IInv, Seating, OnePlace, NEW p \in Players, ReadEnqueue(p)
  PROVE  OnePlace'
<1>1. /\ Reads(p, "Waiting", {"player_info", "QUEUE"}) /\ pc[p] = "idle"
      /\ Head(c2s[p]) \in {"player_info", "QUEUE"}
      /\ UNCHANGED <<playerQueue, matches, pending, who, match>>
  BY DEF ReadEnqueue, Reads, queueVars, matchVars
<1>2. pc'[p] = "enqueue" /\ \A q \in Players \ {p} : pc'[q] = pc[q]
  BY DEF ReadEnqueue, Goto, IInv, TypeOK, ThreadTypes
<1>3. NoRequeues' /\ Head(c2s[p]) = "player_info"
  BY <1>1, ReadsPlaces
<1>4. ~Queued(p) /\ ~Queueing(p) /\ ~InMatch(p)
  <2>1. Joining(p)
    <3>1. c2s[p] \in Seq(ClientMessage) /\ c2s[p] # <<>>
      BY <1>1 DEF Reads, IInv, TypeOK, NetTypes
    <3>2. Head(c2s[p]) = c2s[p][1] /\ 1 \in 1 .. Len(c2s[p])
      BY <3>1, HeadTailProperties, LenProperties, EmptySeq
    <3> QED BY <1>3, <3>2 DEF Joining, Within
  <2> QED BY <2>1 DEF Seating, NewcomersAreNew
<1>5. who[p] = p
  BY <1>1 DEF Seating, ThreadsKnow
<1>6. \A m \in 1 .. Len(matches), x \in Players : Holds(m, x)' => Holds(m, x)
  <2>1. \A q \in Players, m \in 1 .. Len(matches) : Cancels(q, m)' => Cancels(q, m)
    BY <1>1, <1>2 DEF Cancels
  <2> QED BY <1>1, <2>1, NoNewHoldHolds, SameMatches DEF NoNewHold
<1>7. \A m \in 1 .. Len(matches) : ~Holds(m, p)
  BY <1>4 DEF Holds, InMatch
<1>8. \A x \in Players : (Queued(x)' <=> Queued(x)) /\ (Queueing(x)' <=> Queueing(x) \/ x = p)
  BY <1>1, <1>2, <1>5 DEF Queued, Queueing
<1>9. InQueueOnce' /\ TakenOut' /\ TwoDifferentPlayers'
  BY <1>1, <1>2 DEF OnePlace, InQueueOnce, TakenOut, TwoDifferentPlayers
<1>10. QueuedByOne'
  BY <1>1, <1>2, <1>4, <1>5 DEF OnePlace, QueuedByOne, Queueing
<1>11. HeldByOne'
  BY <1>1, <1>6 DEF OnePlace, HeldByOne
<1>12. OneKind'
  BY <1>1, <1>4, <1>6, <1>7, <1>8 DEF OnePlace, OneKind
<1> QED BY <1>3, <1>9, <1>10, <1>11, <1>12 DEF OnePlace

\* From the thread into the queue.
LEMMA EnqueuePlayerPlaces ==
  ASSUME IInv, OnePlace, NEW p \in Players, EnqueuePlayer(p)
  PROVE  OnePlace'
<1> DEFINE w == who[p]
<1>1. /\ pc[p] = "enqueue" /\ w \in Players
      /\ playerQueue \in Seq(Players) /\ playerQueue' = Append(playerQueue, w)
      /\ UNCHANGED <<c2s, matches, pending>>
  BY DEF EnqueuePlayer, IInv, TypeOK, QueueTypes, ThreadTypes, netVars, matchVars
<1>2. /\ pc'[p] \in {"pair", "idle", "done"}
      /\ \A q \in Players \ {p} :
           pc'[q] = pc[q] /\ match'[q] = match[q] /\ who'[q] = who[q]
  BY <1>1 DEF EnqueuePlayer, Return, Goto, IInv, TypeOK, ThreadTypes
<1>3. Queueing(w) /\ ~Queued(w) /\ \A m \in 1 .. Len(matches) : ~Holds(m, w)
  <2>1. Queueing(w)
    BY <1>1 DEF Queueing
  <2> QED BY <1>1, <2>1 DEF OnePlace, OneKind
<1>4. \A m \in 1 .. Len(matches), x \in Players : Holds(m, x)' => Holds(m, x)
  <2>1. \A q \in Players, m \in 1 .. Len(matches) : Cancels(q, m)' => Cancels(q, m)
    BY <1>2 DEF Cancels
  <2> QED BY <1>1, <2>1, NoNewHoldHolds, SameMatches DEF NoNewHold
<1> HIDE DEF w
<1>5. \A x \in Players : Queued(x)' <=> Queued(x) \/ x = w
  <2>1. \A x \in Players : Within(playerQueue', x) <=> Within(playerQueue, x) \/ w = x
    BY <1>1, WithinAppend
  <2> QED BY <2>1 DEF Within, Queued
<1>6. \A x \in Players : Queueing(x)' => Queueing(x) /\ x # w
  BY <1>1, <1>2 DEF Queueing, OnePlace, QueuedByOne, w
<1>7. InQueueOnce'
  <2>1. /\ Len(playerQueue) \in Nat /\ Len(playerQueue') = Len(playerQueue) + 1
        /\ \A i \in 1 .. Len(playerQueue) : playerQueue'[i] = playerQueue[i]
        /\ playerQueue'[Len(playerQueue) + 1] = w
    BY <1>1, AppendProperties, LenProperties
  <2>2. \A i \in 1 .. Len(playerQueue) : playerQueue[i] # w
    BY <1>3 DEF Queued
  <2> QED BY <2>1, <2>2 DEF OnePlace, InQueueOnce
<1>8. NoRequeues' /\ QueuedByOne' /\ TakenOut' /\ TwoDifferentPlayers'
  BY <1>1, <1>2 DEF OnePlace, NoRequeues, QueuedByOne, TakenOut, TwoDifferentPlayers
<1>9. HeldByOne'
  BY <1>1, <1>4 DEF OnePlace, HeldByOne
<1>10. OneKind'
  BY <1>1, <1>3, <1>4, <1>5, <1>6 DEF OnePlace, OneKind
<1> QED BY <1>7, <1>8, <1>9, <1>10 DEF OnePlace

LEMMA OnAcceptPlaces ==
  ASSUME IInv, OnePlace, NEW p \in Players, OnAccept(p)
  PROVE  OnePlace'
<1> DEFINE m == match[p]
<1> DEFINE accepted == [matches[m] EXCEPT !.aAccepted = @ \/ matches[m].a = p,
                                          !.bAccepted = @ \/ matches[m].b = p]
<1>1. m \in 1 .. Len(matches) /\ matches[m] \in PendingMatch
  BY ElementOfSeq DEF OnAccept, IInv, TypeOK, LocalsOK, HoldsMatch, MatchTypes
<1>2. accepted \in PendingMatch /\ accepted.a = matches[m].a /\ accepted.b = matches[m].b
  BY <1>1, Zenon DEF PendingMatch
<1>3. matches' = [matches EXCEPT ![m] = accepted] /\ UNCHANGED <<c2s, playerQueue>>
  BY DEF OnAccept, netVars, queueVars
<1>4. pending' \subseteq pending
  BY DEF OnAccept, Removed
<1>5. \A q \in Players :
        pc'[q] \in {"enqueue", "dcCancel", "dcNotify"} =>
          pc'[q] = pc[q] /\ match'[q] = match[q] /\ who'[q] = who[q]
  <2>1. CASE Ready(accepted)
    BY <2>1 DEF OnAccept, Goto, IInv, TypeOK, ThreadTypes
  <2>2. CASE ~Ready(accepted)
    BY <2>2 DEF OnAccept, Return, Goto, IInv, TypeOK, ThreadTypes
  <2> QED BY <2>1, <2>2
<1> HIDE DEF accepted
<1>6. KeepsPlayers
  <2>1. /\ Len(matches') = Len(matches) /\ matches'[m] = accepted
        /\ \A n \in 1 .. Len(matches) : n # m => matches'[n] = matches[n]
    BY <1>1, <1>2, <1>3, MatchUpdated DEF IInv, TypeOK
  <2> QED BY <1>2, <2>1 DEF KeepsPlayers
<1>7. NoRequeues'
  BY <1>3 DEF OnePlace, NoRequeues
<1> QED BY <1>3, <1>4, <1>5, <1>6, <1>7, QuietPlaces

\* The two that leave the queue are two, and go into one match.
LEMMA TryCreateMatchPlaces ==
  ASSUME IInv, OnePlace, NEW p \in Players, TryCreateMatch(p)
  PROVE  OnePlace'
<1> DEFINE new == [a |-> Front(playerQueue)[1], b |-> Front(playerQueue)[2],
                   aAccepted |-> FALSE, bAccepted |-> FALSE]
<1> DEFINE L == Len(matches)
<1>1. /\ pc[p] = "pair" /\ pc'[p] = "foundA" /\ Len(playerQueue) = 2
      /\ \A q \in Players \ {p} : pc'[q] = pc[q] /\ match'[q] = match[q]
      /\ UNCHANGED <<c2s, who>>
  BY DEF TryCreateMatch, Goto, IInv, TypeOK, QueueOK, ThreadTypes, netVars
<1>2. /\ matches' = Append(matches, new) /\ pending' = pending \cup {Len(matches')}
      /\ new.a = playerQueue[1] /\ new.b = playerQueue[2]
  BY DEF TryCreateMatch, Front
<1>3. new \in PendingMatch /\ matches \in Seq(PendingMatch) /\ new.a # new.b
  <2>1. playerQueue \in Seq(Players) /\ Len(playerQueue) = 2
    BY <1>1 DEF IInv, TypeOK, QueueTypes
  <2>2. 1 \in 1 .. Len(playerQueue) /\ 2 \in 1 .. Len(playerQueue)
    BY <2>1
  <2>3. playerQueue[1] \in Players /\ playerQueue[2] \in Players
    BY <2>1, <2>2, ElementOfSeq
  <2>4. playerQueue[1] # playerQueue[2]
    BY <2>2 DEF OnePlace, InQueueOnce
  <2> QED BY <1>2, <2>3, <2>4 DEF PendingMatch, Front, IInv, TypeOK, MatchTypes
<1> HIDE DEF new
<1>4. /\ L \in Nat /\ Len(matches') = L + 1 /\ matches'[L + 1] = new
      /\ \A m \in 1 .. L : matches'[m] = matches[m]
  BY <1>2, <1>3, AppendProperties, LenProperties
<1> HIDE DEF L
<1>5. /\ Len(playerQueue') = 0 /\ \A x : ~Queued(x)'
      /\ \A x \in Players : x = new.a \/ x = new.b => Queued(x)
  <2>1. IInv'
    BY TryCreateMatchStep
  <2>2. Len(playerQueue') = 0
    BY <1>1, <2>1 DEF IInv, QueueOK
  <2> QED BY <1>1, <1>2, <2>2 DEF Queued
<1>6. /\ \A m : m = L + 1 => PlayersOf(m)' = {new.a, new.b}
      /\ \A m \in 1 .. L : PlayersOf(m)' = PlayersOf(m)
      /\ \A m \in 1 .. L, q \in Players : Other(m, q)' = Other(m, q)
  BY <1>4 DEF PlayersOf, Other
<1>7. \A q \in Players : pc[q] \in {"dcCancel", "dcNotify"} => match[q] \in 1 .. L
  BY DEF IInv, LocalsOK, HoldsMatch, L
<1>8. \A m \in 1 .. Len(matches') : m \in 1 .. L \/ m = L + 1
  BY <1>4
<1>9. \A m \in 1 .. L, x \in Players : Holds(m, x)' => Holds(m, x)
  <2>1. \A q \in Players, m \in 1 .. L : Cancels(q, m)' => Cancels(q, m)
    BY <1>1 DEF Cancels
  <2>2. \A m \in 1 .. L : m \in pending' => m \in pending
    BY <1>2, <1>4
  <2> QED BY <1>6, <2>1, <2>2 DEF Holds
<1>10. \A m, x : m = L + 1 /\ x \in Players /\ Holds(m, x)' => Queued(x)
  BY <1>5, <1>6 DEF Holds
<1>11. \A x \in Players : Queueing(x)' => Queueing(x)
  BY <1>1 DEF Queueing
<1>12. NoRequeues' /\ InQueueOnce' /\ QueuedByOne'
  BY <1>1, <1>5 DEF OnePlace, NoRequeues, InQueueOnce, QueuedByOne
<1>13. HeldByOne'
  <2>1. SUFFICES ASSUME NEW m \in 1 .. Len(matches'), NEW n \in 1 .. Len(matches'),
                        NEW x \in Players, Holds(m, x)', Holds(n, x)'
                 PROVE  m = n
    BY DEF HeldByOne
  <2>2. CASE m \in 1 .. L /\ n \in 1 .. L
    BY <1>9, <2>1, <2>2 DEF OnePlace, HeldByOne, L
  <2>3. CASE m \in 1 .. L /\ n = L + 1
    BY <1>9, <1>10, <2>1, <2>3 DEF OnePlace, OneKind, L
  <2>4. CASE m = L + 1 /\ n \in 1 .. L
    BY <1>9, <1>10, <2>1, <2>4 DEF OnePlace, OneKind, L
  <2> QED BY <1>8, <2>2, <2>3, <2>4
<1>14. OneKind'
  <2>1. \A m \in 1 .. Len(matches'), x \in Players : Holds(m, x)' => ~Queueing(x)
    BY <1>8, <1>9, <1>10 DEF OnePlace, OneKind, L
  <2> QED BY <1>5, <1>11, <2>1 DEF OneKind
<1>15. TakenOut'
  <2>1. \A q \in Players : pc'[q] = "dcNotify" => match'[q] \in 1 .. L /\ match'[q] \notin pending
    BY <1>1, <1>7 DEF OnePlace, TakenOut
  <2> QED BY <1>2, <1>4, <2>1 DEF TakenOut
<1>16. TwoDifferentPlayers'
  BY <1>3, <1>4, <1>8 DEF OnePlace, TwoDifferentPlayers, L
<1> QED BY <1>12, <1>13, <1>14, <1>15, <1>16 DEF OnePlace

LEMMA RemovePlayerPlaces ==
  ASSUME IInv, OnePlace, NEW p \in Players, RemovePlayer(p)
  PROVE  OnePlace'
<1>1. /\ pc[p] = "dcRemove" /\ pc'[p] = "dcFind" /\ queueMutex = None
      /\ playerQueue' = Without(playerQueue, p)
      /\ \A q \in Players \ {p} : pc'[q] = pc[q]
      /\ UNCHANGED <<c2s, matches, pending, who, match>>
  BY DEF RemovePlayer, Goto, IInv, TypeOK, ThreadTypes, netVars, matchVars
<1>2. /\ Len(playerQueue') \in Nat /\ Len(playerQueue') <= 1
      /\ \A x \in Players : Queued(x)' => Queued(x)
  <2>1. playerQueue \in Seq(Players) /\ Len(playerQueue) <= 1
    BY <1>1 DEF IInv, TypeOK, QueueTypes, QueueOK, NoTwoInQueue
  <2>2. \A x \in Players : Within(playerQueue', x) => Within(playerQueue, x)
    BY <1>1, <2>1, WithoutKeeps
  <2>3. Len(playerQueue') \in Nat /\ Len(playerQueue') <= 1
    BY <1>1, <2>1, WithoutShort, LenProperties
  <2> QED BY <2>2, <2>3 DEF Queued, Within
<1>3. \A m \in 1 .. Len(matches), x \in Players : Holds(m, x)' => Holds(m, x)
  <2>1. \A q \in Players, m \in 1 .. Len(matches) : Cancels(q, m)' => Cancels(q, m)
    BY <1>1 DEF Cancels
  <2> QED BY <1>1, <2>1, NoNewHoldHolds, SameMatches DEF NoNewHold
<1>4. \A x \in Players : Queueing(x)' => Queueing(x)
  BY <1>1 DEF Queueing
<1>5. InQueueOnce'
  <2>1. \A i, j \in 1 .. Len(playerQueue') : i = j
    BY <1>2
  <2> QED BY <2>1 DEF InQueueOnce
<1>6. NoRequeues' /\ QueuedByOne' /\ TakenOut' /\ TwoDifferentPlayers'
  BY <1>1 DEF OnePlace, NoRequeues, QueuedByOne, TakenOut, TwoDifferentPlayers
<1>7. HeldByOne'
  BY <1>1, <1>3 DEF OnePlace, HeldByOne
<1>8. OneKind'
  BY <1>1, <1>2, <1>3, <1>4 DEF OnePlace, OneKind
<1> QED BY <1>5, <1>6, <1>7, <1>8 DEF OnePlace

\* From the match into the thread: the match is not pending any more, and of its two
\* players only this one's thread gives the other back.
LEMMA SendMatchCancelledPlaces ==
  ASSUME IInv, Seating, OnePlace, NEW p \in Players, SendMatchCancelled(p)
  PROVE  OnePlace'
<1>1. PICK c \in 1 .. Len(matches) : c = match[p]
  BY DEF SendMatchCancelled, IInv, LocalsOK, HoldsMatch
<1>2. PICK o \in Players : o = Other(c, p)
  BY MatchRecord DEF Other, IInv, TypeOK
<1>3. /\ pc[p] = "dcNotify" /\ pc'[p] = "enqueue" /\ who'[p] = o
      /\ \A q \in Players \ {p} :
           pc'[q] = pc[q] /\ match'[q] = match[q] /\ who'[q] = who[q]
      /\ UNCHANGED <<c2s, playerQueue, matches, pending>>
  BY <1>1, <1>2
     DEF SendMatchCancelled, Goto, IInv, TypeOK, ThreadTypes, queueVars, matchVars
<1>4. /\ c \notin pending /\ p \in PlayersOf(c) /\ o \in PlayersOf(c)
      /\ matches[c].a # matches[c].b /\ Holds(c, o)
  <2>1. c \notin pending /\ p \in PlayersOf(c) /\ matches[c].a # matches[c].b
    BY <1>1, <1>3 DEF OnePlace, TakenOut, TwoDifferentPlayers, Seating, ThreadsKnow
  <2>2. o \in PlayersOf(c)
    BY <1>2 DEF Other, PlayersOf
  <2> QED BY <1>1, <1>2, <1>3, <2>1, <2>2 DEF Holds, Cancels
<1>5. \A m \in 1 .. Len(matches), x \in Players : Holds(m, x)' => Holds(m, x)
  <2>1. \A q \in Players, m \in 1 .. Len(matches) : Cancels(q, m)' => Cancels(q, m)
    BY <1>3 DEF Cancels
  <2> QED BY <1>3, <2>1, NoNewHoldHolds, SameMatches DEF NoNewHold
<1>6. \A m \in 1 .. Len(matches) : ~Holds(m, o)'
  <2>1. SUFFICES ASSUME Holds(c, o)'
                 PROVE  FALSE
    BY <1>4, <1>5 DEF OnePlace, HeldByOne
  <2>2. PICK q \in Players : Cancels(q, c)' /\ Other(c, q)' = o
    BY <1>3, <1>4, <2>1 DEF Holds
  <2>3. q # p /\ pc[q] \in {"dcCancel", "dcNotify"} /\ match[q] = c
    BY <1>3, <2>2 DEF Cancels
  <2>4. q \in PlayersOf(c)
    BY <2>3 DEF Seating, ThreadsKnow
  <2>5. Other(c, q) = o
    BY <1>3, <2>2 DEF Other
  <2> QED BY <1>2, <1>4, <2>3, <2>4, <2>5 DEF Other, PlayersOf
<1>7. ~Queued(o) /\ ~Queueing(o)
  BY <1>4 DEF OnePlace, OneKind
<1>8. \A x \in Players : (Queued(x)' <=> Queued(x)) /\ (Queueing(x)' => Queueing(x) \/ x = o)
  BY <1>3 DEF Queued, Queueing
<1>9. NoRequeues' /\ InQueueOnce' /\ TakenOut' /\ TwoDifferentPlayers'
  BY <1>3 DEF OnePlace, NoRequeues, InQueueOnce, TakenOut, TwoDifferentPlayers
<1>10. QueuedByOne'
  BY <1>3, <1>7 DEF OnePlace, QueuedByOne, Queueing
<1>11. HeldByOne'
  BY <1>3, <1>5 DEF OnePlace, HeldByOne
<1>12. OneKind'
  BY <1>3, <1>5, <1>6, <1>7, <1>8 DEF OnePlace, OneKind
<1> QED BY <1>9, <1>10, <1>11, <1>12 DEF OnePlace

LEMMA ReadThreadPlaces ==
  ASSUME IInv, Seating, OnePlace, NEW p \in Players, ReadThread(p)
  PROVE  OnePlace'
<1>1. CASE ReadEnqueue(p)
  BY <1>1, ReadEnqueuePlaces
<1>2. CASE ReadAccept(p) \/ ReadInGame(p)
  <2>1. PICK state, msgs : Reads(p, state, msgs)
    BY <1>2 DEF ReadAccept, ReadInGame
  <2>2. NoRequeues'
    BY <2>1, ReadsPlaces
  <2>3. UNCHANGED <<playerQueue, matches, pending>>
    BY <2>1 DEF Reads, queueVars, matchVars
  <2>4. \A q \in Players :
          pc'[q] \in {"enqueue", "dcCancel", "dcNotify"} =>
            pc'[q] = pc[q] /\ match'[q] = match[q] /\ who'[q] = who[q]
    BY <1>2, <2>1 DEF ReadAccept, ReadInGame, Reads, Goto, threadVars, IInv, TypeOK,
           ThreadTypes
  <2> QED BY <2>2, <2>3, <2>4, QuietPlaces, SameMatches
<1>3. CASE EnqueuePlayer(p)
  BY <1>3, EnqueuePlayerPlaces
<1>4. CASE TryCreateMatch(p)
  BY <1>4, TryCreateMatchPlaces
<1>5. CASE ReadEof(p) \/ SendMatchFoundA(p) \/ StartSession(p)
  <2>1. UNCHANGED <<c2s, playerQueue, matches, pending>>
    BY <1>5 DEF ReadEof, SendMatchFoundA, StartSession, netVars, queueVars, matchVars
  <2>2. \A q \in Players :
          pc'[q] \in {"enqueue", "dcCancel", "dcNotify"} =>
            pc'[q] = pc[q] /\ match'[q] = match[q] /\ who'[q] = who[q]
    BY <1>5 DEF ReadEof, SendMatchFoundA, StartSession, Goto, IInv, TypeOK, ThreadTypes
  <2>3. NoRequeues'
    BY <2>1 DEF OnePlace, NoRequeues
  <2> QED BY <2>1, <2>2, <2>3, QuietPlaces, SameMatches
<1>6. CASE SendMatchFoundB(p)
  <2>1. ~PairsLeft(playerQueue)
    <3>1. Len(playerQueue) = 0
      BY <1>6 DEF SendMatchFoundB, IInv, QueueOK
    <3> QED BY <3>1 DEF PairsLeft
  <2>2. UNCHANGED <<c2s, playerQueue, matches, pending>>
    BY <1>6 DEF SendMatchFoundB, matchVars
  <2>3. \A q \in Players :
          pc'[q] \in {"enqueue", "dcCancel", "dcNotify"} =>
            pc'[q] = pc[q] /\ match'[q] = match[q] /\ who'[q] = who[q]
    BY <1>6, <2>1 DEF SendMatchFoundB, Unlock, Return, Goto, IInv, TypeOK, ThreadTypes
  <2>4. NoRequeues'
    BY <2>2 DEF OnePlace, NoRequeues
  <2> QED BY <2>2, <2>3, <2>4, QuietPlaces, SameMatches
<1>7. CASE RemovePlayer(p)
  BY <1>7, RemovePlayerPlaces
<1>8. CASE OnAccept(p)
  BY <1>8, OnAcceptPlaces
<1>9. CASE FindDisconnected(p)
  <2>1. /\ pc[p] = "dcFind" /\ match'[p] = FindPending(p)
        /\ pc'[p] = IF FindPending(p) = 0 THEN "done" ELSE "dcCancel"
        /\ \A q \in Players \ {p} : pc'[q] = pc[q] /\ match'[q] = match[q]
        /\ UNCHANGED <<c2s, playerQueue, matches, pending, who>>
    BY <1>9 DEF FindDisconnected, Goto, IInv, TypeOK, ThreadTypes, netVars, queueVars,
           matchVars
  <2>2. NoNewHold
    BY <2>1, FindPendingIn DEF NoNewHold, Cancels
  <2>3. NoRequeues' /\ TakenOut'
    BY <2>1 DEF OnePlace, NoRequeues, TakenOut
  <2>4. \A q \in Players : pc'[q] = "enqueue" => pc[q] = "enqueue" /\ who'[q] = who[q]
    BY <2>1
  <2> QED BY <2>1, <2>2, <2>3, <2>4, NoNewPlace, SameMatches
<1>10. CASE RemovePending(p)
  <2>1. /\ pc[p] = "dcCancel" /\ pc'[p] = "dcNotify" /\ pending' = pending \ {match[p]}
        /\ \A q \in Players \ {p} : pc'[q] = pc[q]
        /\ UNCHANGED <<c2s, playerQueue, matches, who, match>>
    BY <1>10 DEF RemovePending, Removed, Goto, IInv, TypeOK, ThreadTypes, netVars, queueVars
  <2>2. NoNewHold
    BY <2>1 DEF NoNewHold, Cancels
  <2>3. NoRequeues' /\ TakenOut'
    BY <2>1 DEF OnePlace, NoRequeues, TakenOut
  <2>4. \A q \in Players : pc'[q] = "enqueue" => pc[q] = "enqueue" /\ who'[q] = who[q]
    BY <2>1
  <2> QED BY <2>1, <2>2, <2>3, <2>4, NoNewPlace, SameMatches
<1>11. CASE SendMatchCancelled(p)
  BY <1>11, SendMatchCancelledPlaces
<1> QED BY <1>1, <1>2, <1>3, <1>4, <1>5, <1>6, <1>7, <1>8, <1>9, <1>10, <1>11
        DEF ReadThread

-----------------------------------------------------------------------------
(***************************************************************************)
(* The theorem                                                             *)
(***************************************************************************)

LEMMA InitOnePlace == Init => OnePlace
<1> SUFFICES ASSUME Init PROVE OnePlace
  OBVIOUS
<1>1. Len(<<>>) = 0
  BY EmptySeq
<1>2. NoRequeues /\ InQueueOnce /\ QueuedByOne /\ TakenOut
  BY <1>1 DEF Init, NoRequeues, Within, InQueueOnce, QueuedByOne, TakenOut
<1>3. HeldByOne /\ OneKind /\ TwoDifferentPlayers
  BY <1>1 DEF Init, HeldByOne, OneKind, TwoDifferentPlayers, Queueing, Queued
<1> QED BY <1>2, <1>3 DEF OnePlace

LEMMA NextOnePlace ==
  ASSUME MaxRequeues = 0, IInv, Seating, OnePlace, [Next]_vars
  PROVE  OnePlace'
BY ClientPlaces, ReadThreadPlaces, OtherThreadPlaces DEF Next

\* However many clients connect, accept and leave, and however their disconnect callbacks
\* interleave with acceptances, with each other and with the queue, no client is ever
\* paired with itself (Matchmaker::tryCreateMatch, which does not look).  The assumption
\* is needed: a client whose match was cancelled after it had begun stands in the queue,
\* and a requeue puts it there again.
THEOREM PairsAreTwo ==
  ASSUME MaxRequeues = 0
  PROVE  Spec => []TwoDifferentPlayers
<1>1. Init => IInv /\ Seating /\ OnePlace
  BY InitIInv, InitSeating, InitOnePlace
<1>2. (IInv /\ Seating /\ OnePlace) /\ [Next]_vars => (IInv /\ Seating /\ OnePlace)'
  BY NextIInv, NextSeating, NextOnePlace
<1>3. OnePlace => TwoDifferentPlayers
  BY DEF OnePlace
<1> QED BY <1>1, <1>2, <1>3, PTL DEF Spec

-----------------------------------------------------------------------------
(***************************************************************************)
(* The refinement: Matchmaking implements Lobby, for any number of clients *)
(* that come, accept at most once what they are offered, and requeue as    *)
(* often as they like, while none of them leaves.                          *)
(*                                                                         *)
(* A client is passed from hand to hand: from its own connect to a message *)
(* in its box, to its read thread, to the queue, to a pending match, to a  *)
(* game thread, to a result in the other box, and back.  The steps match   *)
(* those of Lobby because nobody is ever in two hands (OneAt), and because *)
(* each acceptance is on its way at most once and is for a match that is   *)
(* still pending (AcceptsOnce).                                            *)
(***************************************************************************)

Asks == {"player_info", "QUEUE"}
Results == {"MATCH_WON", "MATCH_LOST"}

Has(seq, msgs) == \E i \in 1 .. Len(seq) : seq[i] \in msgs
Once(seq, msgs) == \A i, j \in 1 .. Len(seq) : seq[i] \in msgs /\ seq[j] \in msgs => i = j

Serving == {"idle", "enqueue", "pair", "foundA", "foundB", "accept", "start"}

NobodyLeaves ==
  \A p \in Players : ui[p] # "Left" /\ pc[p] \in Serving /\ who[p] = p /\ back[p] = "idle"

\* The game thread of session s has not told player x the result.
Fights(x, s) ==
  /\ x \in PlayersOf(sessions[s].match)
  /\ \/ sessions[s].phase \in {"built", "spawned", "running"}
     \/ sessions[s].phase = "rewarding" /\ x = Loser(s)

Fighting(x) == \E s \in 1 .. Len(sessions) : Fights(x, s)

Resulted(x) == ui[x] = "Over" \/ Has(s2c[x], Results)

Place == {"new", "asked", "entering", "queued", "offered", "fighting", "resulted"}

At(x, place) ==
  \/ place = "new" /\ ui[x] = "New"
  \/ place = "asked" /\ Has(c2s[x], Asks)
  \/ place = "entering" /\ pc[x] = "enqueue"
  \/ place = "queued" /\ Queued(x)
  \/ place = "offered" /\ Offered(x)
  \/ place = "fighting" /\ Fighting(x)
  \/ place = "resulted" /\ Resulted(x)

OneAt == \A x \in Players, k, l \in Place : At(x, k) /\ At(x, l) => k = l

OfferedOnce == \A x \in Players, m, n \in pending : x \in PlayersOf(m) /\ x \in PlayersOf(n) => m = n

MessagesOnce ==
  \A x \in Players :
    /\ Once(c2s[x], Asks)
    /\ Once(s2c[x], Results)
    /\ ui[x] = "Over" => ~Has(s2c[x], Results)

PlaysIn(x, s) == On(s) /\ x \in PlayersOf(sessions[s].match)

OnSessions ==
  \A x \in Players, s \in 1 .. Len(sessions) :
    PlaysIn(x, s) =>
      /\ ui[x] # "New" /\ pc[x] # "enqueue" /\ ~Queued(x) /\ ~Offered(x)
      /\ \A t \in 1 .. Len(sessions) : PlaysIn(x, t) => s = t
      /\ sessions[s].phase # "built" => connState[x] = "Playing"

StartsOne ==
  /\ \A p \in Players : pc[p] = "start" => sessions[session[p]].phase = "built"
  /\ \A p, q \in Players : pc[p] = "start" /\ pc[q] = "start" /\ session[p] = session[q] => p = q

\* The thread of q has paired player x, and has not told x.
Tells(q, x) ==
  \/ pc[q] = "foundA" /\ x \in PlayersOf(match[q])
  \/ pc[q] = "foundB" /\ x = matches[match[q]].b

Stage == {"telling", "found", "deciding", "sent", "accepting"}

\* How far the acceptance of player x has come.
Accepts(x, stage) ==
  \/ stage = "telling" /\ \E q \in Players : Tells(q, x)
  \/ stage = "found" /\ Has(s2c[x], {"MATCH_FOUND"})
  \/ stage = "deciding" /\ ui[x] = "Found" /\ accepts[x] < MaxAccepts
  \/ stage = "sent" /\ Has(c2s[x], {"MATCH_ACCEPT"})
  \/ stage = "accepting" /\ pc[x] = "accept"

HasAccepted(x, m) ==
  \/ matches[m].a = x /\ matches[m].aAccepted
  \/ matches[m].b = x /\ matches[m].bAccepted

OneStage == \A x \in Players, k, l \in Stage : Accepts(x, k) /\ Accepts(x, l) => k = l

AcceptsOnce ==
  \A x \in Players : Once(s2c[x], {"MATCH_FOUND"}) /\ Once(c2s[x], {"MATCH_ACCEPT"})

Awaited ==
  \A x \in Players, k \in Stage :
    Accepts(x, k) => \E m \in pending : x \in PlayersOf(m) /\ ~HasAccepted(x, m)

AcceptsPending ==
  \A x \in Players : pc[x] = "accept" => match[x] \in pending /\ x \in PlayersOf(match[x])

Handed == OneAt /\ InQueueOnce /\ OfferedOnce /\ MessagesOnce
Playable == OnSessions /\ StartsOne
Acceptable == OneStage /\ AcceptsOnce /\ Awaited /\ AcceptsPending

LInv == NobodyLeaves /\ Handed /\ Playable /\ Acceptable /\ TwoDifferentPlayers

-----------------------------------------------------------------------------
(***************************************************************************)
(* Lemmas about messages                                                   *)
(***************************************************************************)

LEMMA HasAppend ==
  ASSUME NEW S, NEW seq \in Seq(S), NEW e \in S, NEW msgs
  PROVE  /\ Has(Append(seq, e), msgs) <=> Has(seq, msgs) \/ e \in msgs
         /\ Once(seq, msgs) /\ (e \in msgs => ~Has(seq, msgs)) => Once(Append(seq, e), msgs)
<1>1. /\ Len(seq) \in Nat /\ Len(Append(seq, e)) = Len(seq) + 1
      /\ \A i \in 1 .. Len(seq) : Append(seq, e)[i] = seq[i]
      /\ Append(seq, e)[Len(seq) + 1] = e
  BY AppendProperties, LenProperties
<1>2. \A i \in 1 .. (Len(seq) + 1) : i \in 1 .. Len(seq) \/ i = Len(seq) + 1
  BY <1>1
<1>3. 1 .. Len(seq) \subseteq 1 .. (Len(seq) + 1) /\ Len(seq) + 1 \in 1 .. (Len(seq) + 1)
  BY <1>1
<1>4. Has(Append(seq, e), msgs) <=> Has(seq, msgs) \/ e \in msgs
  BY <1>1, <1>2, <1>3 DEF Has
<1>5. ASSUME Once(seq, msgs), e \in msgs => ~Has(seq, msgs)
      PROVE  Once(Append(seq, e), msgs)
  BY <1>1, <1>2, <1>5 DEF Once, Has
<1> QED BY <1>4, <1>5

LEMMA HasTail ==
  ASSUME NEW S, NEW seq \in Seq(S), seq # <<>>, NEW msgs
  PROVE  /\ Has(Tail(seq), msgs) => Has(seq, msgs)
         /\ Head(seq) \in msgs => Has(seq, msgs)
         /\ Once(seq, msgs) => Once(Tail(seq), msgs)
         /\ Once(seq, msgs) /\ Head(seq) \in msgs => ~Has(Tail(seq), msgs)
<1>1. /\ Len(Tail(seq)) = Len(seq) - 1 /\ Len(seq) \in Nat /\ Len(seq) > 0
      /\ \A j \in 1 .. Len(Tail(seq)) : Tail(seq)[j] = seq[j + 1]
      /\ Head(seq) = seq[1]
  BY HeadTailProperties, LenProperties, EmptySeq
<1>2. \A j \in 1 .. Len(Tail(seq)) : j + 1 \in 1 .. Len(seq) /\ j + 1 # 1 /\ j \in Nat
  BY <1>1
<1>3. 1 \in 1 .. Len(seq)
  BY <1>1
<1>4. Has(Tail(seq), msgs) => Has(seq, msgs)
  BY <1>1, <1>2 DEF Has
<1>5. Once(seq, msgs) => Once(Tail(seq), msgs)
  <2>1. \A i, j \in Nat : i + 1 = j + 1 => i = j
    OBVIOUS
  <2> QED BY <1>1, <1>2, <2>1 DEF Once
<1>6. Once(seq, msgs) /\ Head(seq) \in msgs => ~Has(Tail(seq), msgs)
  BY <1>1, <1>2, <1>3 DEF Once, Has
<1>7. Head(seq) \in msgs => Has(seq, msgs)
  BY <1>1, <1>3 DEF Has
<1> QED BY <1>4, <1>5, <1>6, <1>7

\* Everybody is there: what is sent arrives.
LEMMA SendReaches ==
  ASSUME NobodyLeaves, NEW box \in [Players -> Seq(ServerMessage)], NEW p \in Players,
         NEW e \in ServerMessage
  PROVE  /\ Send(box, p, e) \in [Players -> Seq(ServerMessage)]
         /\ Send(box, p, e)[p] = Append(box[p], e)
         /\ \A x \in Players \ {p} : Send(box, p, e)[x] = box[x]
<1>1. Send(box, p, e) \in [Players -> Seq(ServerMessage)]
  BY SendType
<1>2. Send(box, p, e) = [box EXCEPT ![p] = Append(@, e)]
  BY DEF Send, NobodyLeaves
<1> QED BY <1>1, <1>2

\* What a message to p puts into the boxes.
LEMMA SendHas ==
  ASSUME NobodyLeaves, NEW box \in [Players -> Seq(ServerMessage)], NEW p \in Players,
         NEW e \in ServerMessage, NEW x \in Players, NEW msgs
  PROVE  /\ Has(Send(box, p, e)[x], msgs) <=> Has(box[x], msgs) \/ (x = p /\ e \in msgs)
         /\ Once(box[x], msgs) /\ (x = p /\ e \in msgs => ~Has(box[x], msgs))
              => Once(Send(box, p, e)[x], msgs)
<1>1. CASE x = p
  <2>1. Send(box, p, e)[x] = Append(box[x], e) /\ box[x] \in Seq(ServerMessage)
    BY <1>1, SendReaches
  <2> QED BY <1>1, <2>1, HasAppend
<1>2. CASE x # p
  <2>1. Send(box, p, e)[x] = box[x]
    BY <1>2, SendReaches
  <2> QED BY <1>2, <2>1
<1> QED BY <1>1, <1>2

\* What a client's screen makes of a message.
LEMMA ScreenMoves ==
  ASSUME NEW p, NEW msg, NEW screen \in ScreenAfter(p, msg)
  PROVE  /\ screen = "New" => ui[p] = "New"
         /\ screen = "Left" => ui[p] = "Left"
         /\ screen = "Over" => ui[p] = "Over" \/ msg \in Results
         /\ screen = "Found" => ui[p] = "Found" \/ (msg = "MATCH_FOUND" /\ ui[p] \in {"Waiting", "Found"})
BY DEF ScreenAfter, Results

-----------------------------------------------------------------------------
(***************************************************************************)
(* Lemmas about places and stages                                          *)
(***************************************************************************)

\* A player who is passed on was somewhere, and is not there any more.
Moved(x, from, to) ==
  /\ At(x, from) /\ ~At(x, from)'
  /\ \A k \in Place : At(x, k)' => k = to \/ At(x, k)

Unmoved(x) == \A k \in Place : At(x, k)' => At(x, k)

LEMMA OneAtKept ==
  ASSUME OneAt,
         \A x \in Players : Unmoved(x) \/ \E from \in Place, to \in Place : Moved(x, from, to)
  PROVE  OneAt'
<1> SUFFICES ASSUME NEW x \in Players, NEW k \in Place, NEW l \in Place, At(x, k)', At(x, l)'
             PROVE  k = l
  BY DEF OneAt
<1>1. CASE Unmoved(x)
  BY <1>1 DEF OneAt, Unmoved
<1>2. ASSUME NEW from \in Place, NEW to \in Place, Moved(x, from, to)
      PROVE  k = l
  <2>1. \A j \in Place : At(x, j)' => j = to
    BY <1>2 DEF Moved, OneAt
  <2> QED BY <2>1
<1> QED BY <1>1, <1>2

Advanced(x, from, to) ==
  /\ Accepts(x, from) /\ ~Accepts(x, from)'
  /\ \A k \in Stage : Accepts(x, k)' => k = to \/ Accepts(x, k)

Waited(x) == \A k \in Stage : Accepts(x, k)' => Accepts(x, k)

LEMMA OneStageKept ==
  ASSUME OneStage,
         \A x \in Players : Waited(x) \/ \E from \in Stage, to \in Stage : Advanced(x, from, to)
  PROVE  OneStage'
<1> SUFFICES ASSUME NEW x \in Players, NEW k \in Stage, NEW l \in Stage,
                    Accepts(x, k)', Accepts(x, l)'
             PROVE  k = l
  BY DEF OneStage
<1>1. CASE Waited(x)
  BY <1>1 DEF OneStage, Waited
<1>2. ASSUME NEW from \in Stage, NEW to \in Stage, Advanced(x, from, to)
      PROVE  k = l
  <2>1. \A j \in Stage : Accepts(x, j)' => j = to
    BY <1>2 DEF Advanced, OneStage
  <2> QED BY <2>1
<1> QED BY <1>1, <1>2

\* What was awaited of a player still is, if the player's pending matches are what they were.
StillOwes(x) ==
  \A m \in pending : x \in PlayersOf(m) /\ ~HasAccepted(x, m) =>
    m \in pending' /\ x \in PlayersOf(m)' /\ ~HasAccepted(x, m)'

LEMMA AwaitedKept ==
  ASSUME Awaited,
         \A x \in Players : \A k \in Stage : Accepts(x, k)' =>
           StillOwes(x) /\ \E l \in Stage : Accepts(x, l)
  PROVE  Awaited'
BY DEF Awaited, StillOwes

LEMMA WaitedAccepts ==
  ASSUME NEW x \in Players, Waited(x) \/ \E from \in Stage, to \in Stage : Advanced(x, from, to)
  PROVE  \A k \in Stage : Accepts(x, k)' => \E l \in Stage : Accepts(x, l)
BY DEF Waited, Advanced

\* The queue and the matches are left alone.
SameMatchmaking == UNCHANGED <<playerQueue, matches, pending, sessions>>

LEMMA SameMatchmakingSeats ==
  ASSUME SameMatchmaking
  PROVE  /\ \A x : Queued(x)' = Queued(x) /\ Offered(x)' = Offered(x) /\ Fighting(x)' = Fighting(x)
         /\ \A x, s : PlaysIn(x, s)' = PlaysIn(x, s)
         /\ \A x, m : HasAccepted(x, m)' = HasAccepted(x, m)
         /\ \A m : PlayersOf(m)' = PlayersOf(m)
         /\ \A x : StillOwes(x)
<1>1. \A m : PlayersOf(m)' = PlayersOf(m)
  BY DEF SameMatchmaking, PlayersOf
<1>2. \A x, s : Fights(x, s)' = Fights(x, s) /\ PlaysIn(x, s)' = PlaysIn(x, s)
  BY <1>1 DEF SameMatchmaking, Fights, PlaysIn, On, Loser, PlayerA, PlayerB
<1>3. \A x : Queued(x)' = Queued(x) /\ Offered(x)' = Offered(x) /\ Fighting(x)' = Fighting(x)
  BY <1>1, <1>2 DEF SameMatchmaking, Queued, Offered, Fighting
<1>4. \A x, m : HasAccepted(x, m)' = HasAccepted(x, m)
  BY DEF SameMatchmaking, HasAccepted
<1>5. \A x : StillOwes(x)
  BY <1>1, <1>4 DEF StillOwes, SameMatchmaking
<1> QED BY <1>1, <1>2, <1>3, <1>4, <1>5

LEMMA SameMatchmakingKept ==
  ASSUME SameMatchmaking, LInv
  PROVE  InQueueOnce' /\ OfferedOnce' /\ TwoDifferentPlayers'
BY SameMatchmakingSeats
   DEF SameMatchmaking, LInv, Handed, InQueueOnce, OfferedOnce, TwoDifferentPlayers

\* While nobody leaves, no thread is on its way out.
LEMMA NobodyGoes ==
  ASSUME Leavers = {}, NobodyLeaves, NEW p \in Players
  PROVE  /\ ~ClientLeave(p) /\ ~ReadEof(p) /\ ~RemovePlayer(p)
         /\ ~FindDisconnected(p) /\ ~RemovePending(p) /\ ~SendMatchCancelled(p)
BY DEF NobodyLeaves, Serving, ClientLeave, ReadEof, RemovePlayer, FindDisconnected,
       RemovePending, SendMatchCancelled

\* What the steps of one client or thread change of it, they leave of the others.
LEMMA NobodyLeavesKept ==
  ASSUME NobodyLeaves, NEW p \in Players,
         \A x \in Players \ {p} :
           ui'[x] = ui[x] /\ pc'[x] = pc[x] /\ who'[x] = who[x] /\ back'[x] = back[x],
         ui'[p] # "Left", pc'[p] \in Serving, who'[p] = p, back'[p] = "idle"
  PROVE  NobodyLeaves'
BY DEF NobodyLeaves

-----------------------------------------------------------------------------
(***************************************************************************)
(* Steps of the clients, and of the read threads that take their messages  *)
(***************************************************************************)

LEMMA SameUnmoved ==
  ASSUME SameMatchmaking, NEW x \in Players,
         ui'[x] = "New" => ui[x] = "New",
         Has(c2s'[x], Asks) => Has(c2s[x], Asks),
         pc'[x] = "enqueue" => pc[x] = "enqueue",
         Resulted(x)' => Resulted(x)
  PROVE  Unmoved(x)
BY SameMatchmakingSeats DEF Unmoved, At

LEMMA SameWaited ==
  ASSUME SameMatchmaking, NEW x \in Players,
         \A q \in Players :
           pc'[q] \in {"foundA", "foundB"} => pc'[q] = pc[q] /\ match'[q] = match[q],
         Has(s2c'[x], {"MATCH_FOUND"}) => Has(s2c[x], {"MATCH_FOUND"}),
         ui'[x] = "Found" /\ accepts'[x] < MaxAccepts => ui[x] = "Found" /\ accepts[x] < MaxAccepts,
         Has(c2s'[x], {"MATCH_ACCEPT"}) => Has(c2s[x], {"MATCH_ACCEPT"}),
         pc'[x] = "accept" => pc[x] = "accept"
  PROVE  Waited(x)
<1>1. \A q \in Players : Tells(q, x)' => Tells(q, x)
  BY SameMatchmakingSeats DEF Tells, SameMatchmaking
<1> QED BY <1>1 DEF Waited, Accepts

LEMMA SameStep ==
  ASSUME IInv, LInv, SameMatchmaking, NobodyLeaves', MessagesOnce', AcceptsOnce', AcceptsPending',
         UNCHANGED connState,
         \A x \in Players : Unmoved(x) \/ \E from \in Place, to \in Place : Moved(x, from, to),
         \A x \in Players : Waited(x) \/ \E from \in Stage, to \in Stage : Advanced(x, from, to),
         \A x \in Players : ui'[x] = "New" => ui[x] = "New",
         \A x \in Players, s \in 1 .. Len(sessions) : PlaysIn(x, s) => pc'[x] # "enqueue",
         \A x \in Players : pc'[x] = "start" => pc[x] = "start" /\ session'[x] = session[x]
  PROVE  LInv'
<1>1. OneAt' /\ InQueueOnce' /\ OfferedOnce' /\ TwoDifferentPlayers'
  BY OneAtKept, SameMatchmakingKept DEF LInv, Handed
<1>2. OneStage'
  BY OneStageKept DEF LInv, Acceptable
<1>3. Awaited'
  <2>1. \A x \in Players : \A k \in Stage : Accepts(x, k)' => \E l \in Stage : Accepts(x, l)
    BY WaitedAccepts
  <2> QED BY <2>1, SameMatchmakingSeats, AwaitedKept DEF LInv, Acceptable
<1>4. OnSessions'
  BY SameMatchmakingSeats DEF LInv, Playable, OnSessions, SameMatchmaking
<1>5. StartsOne'
  BY DEF LInv, Playable, StartsOne, SameMatchmaking
<1> QED BY <1>1, <1>2, <1>3, <1>4, <1>5 DEF LInv, Handed, Playable, Acceptable

\* player_info of a client that connects, or QUEUE of one that has its result.
LEMMA ClientAsks ==
  ASSUME IInv, LInv, NEW p \in Players, NEW e \in Asks, ui[p] \in {"New", "Over"},
         ui' = [ui EXCEPT ![p] = "Waiting"], c2s' = [c2s EXCEPT ![p] = Append(@, e)],
         UNCHANGED <<accepts, s2c, connState, queueVars, matchVars, threadVars>>
  PROVE  LInv'
<1>0. PICK from \in Place : from = (IF ui[p] = "New" THEN "new" ELSE "resulted")
  BY DEF Place
<1>1. /\ SameMatchmaking
      /\ UNCHANGED <<accepts, s2c, connState, pc, who, match, session, back>>
  BY DEF SameMatchmaking, queueVars, matchVars, threadVars
<1>2. /\ ui'[p] = "Waiting" /\ \A x \in Players \ {p} : ui'[x] = ui[x]
      /\ c2s[p] \in Seq(ClientMessage) /\ c2s'[p] = Append(c2s[p], e) /\ e \in ClientMessage
      /\ \A x \in Players \ {p} : c2s'[x] = c2s[x]
  BY DEF IInv, TypeOK, ClientTypes, NetTypes, Asks, ClientMessage
<1>3. NobodyLeaves'
  BY <1>1, <1>2, NobodyLeavesKept DEF LInv, NobodyLeaves
<1>4. At(p, from) /\ ~Has(c2s[p], Asks)
  <2>1. At(p, from)
    BY <1>0 DEF At, Resulted
  <2>2. Has(c2s[p], Asks) => At(p, "asked")
    BY DEF At
  <2> QED BY <1>0, <2>1, <2>2 DEF LInv, Handed, OneAt, Place
<1>5. Moved(p, from, "asked")
  <2>1. ~At(p, from)'
    <3>1. CASE ui[p] = "New"
      BY <1>0, <1>2, <3>1 DEF At
    <3>2. CASE ui[p] = "Over"
      <4>1. ~Has(s2c[p], Results)
        BY <3>2 DEF LInv, Handed, MessagesOnce
      <4> QED BY <1>0, <1>1, <1>2, <3>2, <4>1 DEF At, Resulted
    <3> QED BY <3>1, <3>2
  <2>2. \A k \in Place : At(p, k)' => k = "asked" \/ At(p, k)
    BY <1>1, <1>2, SameMatchmakingSeats DEF At, Resulted
  <2> QED BY <1>4, <2>1, <2>2 DEF Moved
<1>6. \A x \in Players \ {p} : Unmoved(x)
  BY <1>1, <1>2, SameUnmoved DEF Resulted
<1>7. MessagesOnce'
  <2>1. Once(c2s'[p], Asks)
    BY <1>2, <1>4, HasAppend DEF LInv, Handed, MessagesOnce
  <2> QED BY <1>1, <1>2, <2>1 DEF LInv, Handed, MessagesOnce
<1>8. Has(c2s'[p], {"MATCH_ACCEPT"}) => Has(c2s[p], {"MATCH_ACCEPT"})
  BY <1>2, HasAppend DEF Asks
<1>9. AcceptsOnce' /\ AcceptsPending'
  <2>1. Once(c2s'[p], {"MATCH_ACCEPT"})
    BY <1>2, HasAppend DEF LInv, Acceptable, AcceptsOnce, Asks
  <2>2. AcceptsPending'
    BY <1>1, SameMatchmakingSeats DEF LInv, Acceptable, AcceptsPending, SameMatchmaking
  <2> QED BY <1>1, <1>2, <2>1, <2>2 DEF LInv, Acceptable, AcceptsOnce
<1>10. \A x \in Players : Waited(x)
  BY <1>1, <1>2, <1>8, SameWaited
<1>11. \A x \in Players : Unmoved(x) \/ \E k \in Place, l \in Place : Moved(x, k, l)
  <2>1. "asked" \in Place
    BY DEF Place
  <2> QED BY <1>0, <1>5, <1>6, <2>1
<1>12. \A x \in Players, s \in 1 .. Len(sessions) : PlaysIn(x, s) => pc'[x] # "enqueue"
  BY <1>1 DEF LInv, Playable, OnSessions
<1>13. \A x \in Players : ui'[x] = "New" => ui[x] = "New"
  BY <1>2
<1> QED BY <1>1, <1>3, <1>7, <1>9, <1>10, <1>11, <1>12, <1>13, SameStep

LEMMA ClientReceiveKeeps ==
  ASSUME IInv, LInv, NEW p \in Players, ClientReceive(p)
  PROVE  LInv'
<1> DEFINE msg == Head(s2c[p])
<1>1. /\ SameMatchmaking
      /\ UNCHANGED <<c2s, connState, pc, who, match, session, back>>
  BY DEF ClientReceive, SameMatchmaking, queueVars, matchVars, threadVars
<1>2. PICK screen \in ScreenAfter(p, msg) : ui' = [ui EXCEPT ![p] = screen]
  BY DEF ClientReceive
<1>3. /\ ui'[p] = screen /\ \A x \in Players \ {p} : ui'[x] = ui[x]
      /\ s2c[p] # <<>> /\ s2c[p] \in Seq(ServerMessage) /\ msg \in ServerMessage
      /\ s2c'[p] = Tail(s2c[p]) /\ \A x \in Players \ {p} : s2c'[x] = s2c[x]
  BY <1>2, HeadTailProperties DEF ClientReceive, IInv, TypeOK, ClientTypes, NetTypes
<1>4. /\ \A x \in Players \ {p} : accepts'[x] = accepts[x]
      /\ ~(msg = "MATCH_FOUND" /\ ui[p] \in {"Waiting", "Found"}) => accepts'[p] = accepts[p]
  BY DEF ClientReceive, IInv, TypeOK, ClientTypes
<1>5. /\ screen = "New" => ui[p] = "New"
      /\ screen = "Left" => ui[p] = "Left"
      /\ screen = "Over" => ui[p] = "Over" \/ msg \in Results
      /\ screen = "Found" => ui[p] = "Found" \/ (msg = "MATCH_FOUND" /\ ui[p] \in {"Waiting", "Found"})
  BY <1>2, ScreenMoves
<1>6. \A msgs :
        /\ Has(s2c'[p], msgs) => Has(s2c[p], msgs)
        /\ msg \in msgs => Has(s2c[p], msgs)
        /\ Once(s2c[p], msgs) => Once(s2c'[p], msgs)
        /\ Once(s2c[p], msgs) /\ msg \in msgs => ~Has(s2c'[p], msgs)
  BY <1>3, HasTail
<1> HIDE DEF msg
<1>7. NobodyLeaves'
  BY <1>1, <1>3, <1>5, NobodyLeavesKept DEF LInv, NobodyLeaves
<1>8. MessagesOnce' /\ AcceptsOnce' /\ AcceptsPending'
  <2>1. MessagesOnce'
    BY <1>1, <1>3, <1>5, <1>6 DEF LInv, Handed, MessagesOnce
  <2>2. AcceptsOnce'
    BY <1>1, <1>3, <1>6 DEF LInv, Acceptable, AcceptsOnce
  <2>3. AcceptsPending'
    BY <1>1, SameMatchmakingSeats DEF LInv, Acceptable, AcceptsPending, SameMatchmaking
  <2> QED BY <2>1, <2>2, <2>3
<1>9. \A x \in Players : Unmoved(x)
  <2>1. \A x \in Players : Resulted(x)' => Resulted(x)
    BY <1>3, <1>5, <1>6 DEF Resulted
  <2>2. \A x \in Players : ui'[x] = "New" => ui[x] = "New"
    BY <1>3, <1>5
  <2> QED BY <1>1, <2>1, <2>2, SameUnmoved
<1>10. \A x \in Players : Waited(x) \/ \E k \in Stage, l \in Stage : Advanced(x, k, l)
  <2>1. \A x \in Players \ {p} : Waited(x)
    BY <1>1, <1>3, <1>4, SameWaited
  <2>2. CASE msg = "MATCH_FOUND" /\ ui[p] \in {"Waiting", "Found"}
    <3>1. Accepts(p, "found") /\ ~Accepts(p, "found")'
      BY <1>6, <2>2 DEF Accepts, LInv, Acceptable, AcceptsOnce
    <3>2. \A q \in Players : Tells(q, p)' => Tells(q, p)
      BY <1>1, SameMatchmakingSeats DEF Tells, SameMatchmaking
    <3>3. \A k \in Stage : Accepts(p, k)' => k = "deciding" \/ Accepts(p, k)
      BY <1>1, <1>6, <3>2 DEF Accepts
    <3>4. "found" \in Stage /\ "deciding" \in Stage
      BY DEF Stage
    <3> QED BY <2>1, <3>1, <3>3, <3>4 DEF Advanced
  <2>3. CASE ~(msg = "MATCH_FOUND" /\ ui[p] \in {"Waiting", "Found"})
    <3>1. Waited(p)
      BY <1>1, <1>3, <1>4, <1>5, <1>6, <2>3, SameWaited
    <3> QED BY <2>1, <3>1
  <2> QED BY <2>2, <2>3
<1>11. \A x \in Players, s \in 1 .. Len(sessions) : PlaysIn(x, s) => pc'[x] # "enqueue"
  BY <1>1 DEF LInv, Playable, OnSessions
<1>12. \A x \in Players : ui'[x] = "New" => ui[x] = "New"
  BY <1>3, <1>5
<1> QED BY <1>1, <1>7, <1>8, <1>9, <1>10, <1>11, <1>12, SameStep

\* The one click that is allowed.
LEMMA ClientAcceptKeeps ==
  ASSUME MaxAccepts <= 1, IInv, LInv, NEW p \in Players, ClientAccept(p)
  PROVE  LInv'
<1>1. /\ SameMatchmaking
      /\ UNCHANGED <<ui, s2c, connState, pc, who, match, session, back>>
  BY DEF ClientAccept, SameMatchmaking, queueVars, matchVars, threadVars
<1>2. /\ ui[p] = "Found" /\ accepts[p] < MaxAccepts
      /\ c2s[p] \in Seq(ClientMessage) /\ "MATCH_ACCEPT" \in ClientMessage
      /\ c2s'[p] = Append(c2s[p], "MATCH_ACCEPT")
      /\ \A x \in Players \ {p} : c2s'[x] = c2s[x] /\ accepts'[x] = accepts[x]
      /\ ~(accepts'[p] < MaxAccepts)
  BY MatchmakingAssumption
     DEF MatchmakingAssumption, ClientAccept, IInv, TypeOK, ClientTypes, NetTypes, ClientMessage
<1>3. Has(c2s'[p], Asks) => Has(c2s[p], Asks)
  BY <1>2, HasAppend DEF Asks
<1>4. NobodyLeaves'
  BY <1>1 DEF LInv, NobodyLeaves
<1>5. \A x \in Players : Unmoved(x)
  BY <1>1, <1>2, <1>3, SameUnmoved DEF Resulted
<1>6. Accepts(p, "deciding") /\ ~Accepts(p, "deciding")' /\ ~Has(c2s[p], {"MATCH_ACCEPT"})
  <2>1. Accepts(p, "deciding") /\ ~Accepts(p, "deciding")'
    BY <1>1, <1>2 DEF Accepts
  <2>2. Has(c2s[p], {"MATCH_ACCEPT"}) => Accepts(p, "sent")
    BY DEF Accepts
  <2> QED BY <2>1, <2>2 DEF LInv, Acceptable, OneStage, Stage
<1>7. Advanced(p, "deciding", "sent")
  <2>1. \A q \in Players : Tells(q, p)' => Tells(q, p)
    BY <1>1, SameMatchmakingSeats DEF Tells, SameMatchmaking
  <2>2. \A k \in Stage : Accepts(p, k)' => k = "sent" \/ Accepts(p, k)
    BY <1>1, <1>6, <2>1 DEF Accepts
  <2> QED BY <1>6, <2>2 DEF Advanced
<1>8. \A x \in Players : Waited(x) \/ \E k \in Stage, l \in Stage : Advanced(x, k, l)
  <2>1. \A x \in Players \ {p} : Waited(x)
    BY <1>1, <1>2, SameWaited
  <2>2. "deciding" \in Stage /\ "sent" \in Stage
    BY DEF Stage
  <2> QED BY <1>7, <2>1, <2>2
<1>9. MessagesOnce' /\ AcceptsOnce' /\ AcceptsPending'
  <2>1. Once(c2s'[p], Asks) /\ Once(c2s'[p], {"MATCH_ACCEPT"})
    BY <1>2, <1>6, HasAppend DEF LInv, Handed, MessagesOnce, Acceptable, AcceptsOnce, Asks
  <2>2. AcceptsPending'
    BY <1>1, SameMatchmakingSeats DEF LInv, Acceptable, AcceptsPending, SameMatchmaking
  <2> QED BY <1>1, <1>2, <2>1, <2>2 DEF LInv, Handed, MessagesOnce, Acceptable, AcceptsOnce
<1>10. \A x \in Players, s \in 1 .. Len(sessions) : PlaysIn(x, s) => pc'[x] # "enqueue"
  BY <1>1 DEF LInv, Playable, OnSessions
<1>11. \A x \in Players : ui'[x] = "New" => ui[x] = "New"
  BY <1>1
<1> QED BY <1>1, <1>4, <1>5, <1>8, <1>9, <1>10, <1>11, SameStep

\* The read thread of p has taken the first message of its box.
LEMMA ReadsKeeps ==
  ASSUME IInv, LInv, NEW p \in Players, NEW state, NEW msgs, Reads(p, state, msgs),
         UNCHANGED <<who, session, back>>, pc'[p] \in {"idle", "enqueue", "accept"},
         \A x \in Players \ {p} : pc'[x] = pc[x] /\ match'[x] = match[x],
         pc'[p] = "enqueue" => state = "Waiting" /\ Head(c2s[p]) \in Asks,
         pc'[p] = "accept" =>
           /\ Head(c2s[p]) = "MATCH_ACCEPT"
           /\ match'[p] \in pending /\ p \in PlayersOf(match'[p])
  PROVE  LInv'
<1> DEFINE msg == Head(c2s[p])
<1>1. /\ SameMatchmaking
      /\ UNCHANGED <<ui, accepts, s2c, connState>>
      /\ pc[p] = "idle" /\ connState[p] = state
  BY DEF Reads, SameMatchmaking, queueVars, matchVars, clientVars
<1>2. /\ c2s[p] # <<>> /\ c2s[p] \in Seq(ClientMessage)
      /\ c2s'[p] = Tail(c2s[p]) /\ \A x \in Players \ {p} : c2s'[x] = c2s[x]
  BY DEF Reads, IInv, TypeOK, NetTypes
<1>3. \A ms :
        /\ Has(c2s'[p], ms) => Has(c2s[p], ms)
        /\ msg \in ms => Has(c2s[p], ms)
        /\ Once(c2s[p], ms) => Once(c2s'[p], ms)
        /\ Once(c2s[p], ms) /\ msg \in ms => ~Has(c2s'[p], ms)
  BY <1>2, HasTail
<1>4. pc'[p] = "enqueue" => state = "Waiting" /\ msg \in Asks
  OBVIOUS
<1>5. pc'[p] = "accept" =>
        msg = "MATCH_ACCEPT" /\ match'[p] \in pending /\ p \in PlayersOf(match'[p])
  OBVIOUS
<1> HIDE DEF msg
<1>6. NobodyLeaves'
  BY <1>1, NobodyLeavesKept DEF LInv, NobodyLeaves, Serving
<1>7. MessagesOnce' /\ AcceptsOnce'
  BY <1>1, <1>2, <1>3 DEF LInv, Handed, MessagesOnce, Acceptable, AcceptsOnce
<1>8. AcceptsPending'
  BY <1>1, <1>5, SameMatchmakingSeats DEF LInv, Acceptable, AcceptsPending, SameMatchmaking
<1>9. \A x \in Players : Unmoved(x) \/ \E k \in Place, l \in Place : Moved(x, k, l)
  <2>1. \A x \in Players \ {p} : Unmoved(x)
    BY <1>1, <1>2, SameUnmoved DEF Resulted
  <2>2. CASE pc'[p] = "enqueue"
    <3>1. At(p, "asked") /\ ~At(p, "asked")'
      BY <1>3, <1>4, <2>2 DEF At, LInv, Handed, MessagesOnce
    <3>2. \A k \in Place : At(p, k)' => k = "entering" \/ At(p, k)
      BY <1>1, <1>3, SameMatchmakingSeats DEF At, Resulted
    <3>3. "asked" \in Place /\ "entering" \in Place
      BY DEF Place
    <3> QED BY <2>1, <3>1, <3>2, <3>3 DEF Moved
  <2>3. CASE pc'[p] # "enqueue"
    <3>1. Unmoved(p)
      BY <1>1, <1>3, <2>3, SameUnmoved DEF Resulted
    <3> QED BY <2>1, <3>1
  <2> QED BY <2>2, <2>3
<1>10. \A x \in Players : Waited(x) \/ \E k \in Stage, l \in Stage : Advanced(x, k, l)
  <2>1. \A x \in Players \ {p} : Waited(x)
    BY <1>1, <1>2, SameWaited
  <2>2. CASE pc'[p] = "accept"
    <3>1. Accepts(p, "sent") /\ ~Accepts(p, "sent")'
      BY <1>3, <1>5, <2>2 DEF Accepts, LInv, Acceptable, AcceptsOnce
    <3>2. \A q \in Players : Tells(q, p)' => Tells(q, p)
      BY <1>1, SameMatchmakingSeats DEF Tells, SameMatchmaking
    <3>3. \A k \in Stage : Accepts(p, k)' => k = "accepting" \/ Accepts(p, k)
      BY <1>1, <1>3, <3>2 DEF Accepts
    <3>4. "sent" \in Stage /\ "accepting" \in Stage
      BY DEF Stage
    <3> QED BY <2>1, <3>1, <3>3, <3>4 DEF Advanced
  <2>3. CASE pc'[p] # "accept"
    <3>1. Waited(p)
      BY <1>1, <1>3, <2>3, SameWaited
    <3> QED BY <2>1, <3>1
  <2> QED BY <2>2, <2>3
<1>11. \A x \in Players, s \in 1 .. Len(sessions) : PlaysIn(x, s) => pc'[x] # "enqueue"
  <2>1. SUFFICES ASSUME NEW s \in 1 .. Len(sessions), PlaysIn(p, s), pc'[p] = "enqueue"
                 PROVE  FALSE
    BY <1>1 DEF LInv, Playable, OnSessions
  <2>2. sessions[s].phase = "built"
    BY <1>1, <1>4, <2>1 DEF LInv, Playable, OnSessions
  <2>3. At(p, "fighting")
    BY <2>1, <2>2 DEF At, Fighting, Fights, PlaysIn
  <2>4. At(p, "asked")
    BY <1>3, <1>4, <2>1 DEF At
  <2> QED BY <2>3, <2>4 DEF LInv, Handed, OneAt, Place
<1>12. \A x \in Players : ui'[x] = "New" => ui[x] = "New"
  BY <1>1
<1>13. \A x \in Players : pc'[x] = "start" => pc[x] = "start" /\ session'[x] = session[x]
  OBVIOUS
<1> QED BY <1>1, <1>6, <1>7, <1>8, <1>9, <1>10, <1>11, <1>12, <1>13, SameStep

LEMMA ReadEnqueueKeeps ==
  ASSUME IInv, LInv, NEW p \in Players, ReadEnqueue(p)
  PROVE  LInv'
<1>1. Reads(p, "Waiting", {"player_info", "QUEUE"}) /\ UNCHANGED <<who, match, session, back>>
  BY DEF ReadEnqueue
<1>2. pc'[p] = "enqueue" /\ \A x \in Players \ {p} : pc'[x] = pc[x]
  BY DEF ReadEnqueue, Goto, IInv, TypeOK, ThreadTypes
<1>3. Head(c2s[p]) \in Asks
  BY <1>1 DEF Reads, Asks
<1> QED BY <1>1, <1>2, <1>3, ReadsKeeps

LEMMA ReadAcceptKeeps ==
  ASSUME IInv, LInv, NEW p \in Players, ReadAccept(p)
  PROVE  LInv'
<1>1. Reads(p, "Waiting", {"MATCH_ACCEPT"}) /\ UNCHANGED <<who, session, back>>
  BY DEF ReadAccept
<1>2. /\ pc[p] = "idle" /\ Head(c2s[p]) = "MATCH_ACCEPT"
      /\ match'[p] = FindPending(p)
      /\ \A x \in Players \ {p} : pc'[x] = pc[x] /\ match'[x] = match[x]
      /\ pc'[p] = IF FindPending(p) = 0 THEN "idle" ELSE "accept"
  BY DEF ReadAccept, Reads, Goto, IInv, TypeOK, ThreadTypes
<1>3. FindPending(p) # 0 => FindPending(p) \in pending /\ p \in PlayersOf(FindPending(p))
  BY FindPendingIn
<1> QED BY <1>1, <1>2, <1>3, ReadsKeeps

LEMMA ReadInGameKeeps ==
  ASSUME IInv, LInv, NEW p \in Players, ReadInGame(p)
  PROVE  LInv'
<1>1. Reads(p, "Playing", ClientMessage) /\ UNCHANGED <<pc, who, match, session, back>>
  BY DEF ReadInGame, threadVars
<1>2. pc'[p] = "idle"
  BY <1>1 DEF Reads
<1> QED BY <1>1, <1>2, ReadsKeeps

-----------------------------------------------------------------------------
(***************************************************************************)
(* Steps of the read threads that pair                                     *)
(***************************************************************************)

\* One thread pairs at a time.
LEMMA OneTells ==
  ASSUME IInv, NEW p \in Players, pc[p] \in {"pair", "foundA", "foundB"}, NEW q \in Players, NEW x,
         Tells(q, x)
  PROVE  q = p
BY DEF Tells, IInv, QueueOK

\* The thread of p tells player y of the match.
LEMMA FoundKeeps ==
  ASSUME IInv, LInv, NEW p \in Players, NEW y \in Players, Tells(p, y),
         s2c' = Send(s2c, y, "MATCH_FOUND"), SameMatchmaking,
         UNCHANGED <<ui, accepts, c2s, connState, who, session, back>>,
         \A x \in Players \ {p} : pc'[x] = pc[x] /\ match'[x] = match[x],
         pc'[p] \in {"foundB", "idle"},
         \A x \in Players : Tells(p, x)' => Tells(p, x) /\ x # y
  PROVE  LInv'
<1>1. pc[p] \in {"foundA", "foundB"} /\ \A q \in Players : \A x : Tells(q, x) => q = p
  BY OneTells DEF Tells
<1>2. \A q \in Players, x \in Players : Tells(q, x)' => Tells(q, x) /\ x # y
  <2>1. SUFFICES ASSUME NEW q \in Players, NEW x \in Players, q # p, Tells(q, x)' PROVE FALSE
    OBVIOUS
  <2>2. Tells(q, x)
    BY <2>1, SameMatchmakingSeats DEF Tells, SameMatchmaking
  <2> QED BY <1>1, <2>1, <2>2
<1>3. NobodyLeaves'
  BY NobodyLeavesKept DEF LInv, NobodyLeaves, Serving
<1>4. s2c \in [Players -> Seq(ServerMessage)] /\ "MATCH_FOUND" \in ServerMessage
  BY DEF IInv, TypeOK, NetTypes, ServerMessage
<1>5. \A x \in Players : \A ms :
        /\ Has(s2c'[x], ms) <=> Has(s2c[x], ms) \/ (x = y /\ "MATCH_FOUND" \in ms)
        /\ Once(s2c[x], ms) /\ (x = y /\ "MATCH_FOUND" \in ms => ~Has(s2c[x], ms))
             => Once(s2c'[x], ms)
  BY <1>4, SendHas DEF LInv
<1>6. \A x \in Players : Has(s2c'[x], Results) <=> Has(s2c[x], Results)
  <2>1. "MATCH_FOUND" \notin Results
    BY DEF Results
  <2> QED BY <1>5, <2>1
<1>7. \A x \in Players : Unmoved(x)
  BY <1>6, SameUnmoved DEF Resulted
<1>8. Accepts(y, "telling") /\ ~Has(s2c[y], {"MATCH_FOUND"})
  <2>1. Accepts(y, "telling")
    BY DEF Accepts
  <2>2. Has(s2c[y], {"MATCH_FOUND"}) => Accepts(y, "found")
    BY DEF Accepts
  <2> QED BY <2>1, <2>2 DEF LInv, Acceptable, OneStage, Stage
<1>9. \A x \in Players \ {y} : Waited(x)
  <2>1. SUFFICES ASSUME NEW x \in Players, x # y PROVE Waited(x)
    OBVIOUS
  <2>2. (\E q \in Players : Tells(q, x)') => \E q \in Players : Tells(q, x)
    BY <1>2
  <2>3. Has(s2c'[x], {"MATCH_FOUND"}) => Has(s2c[x], {"MATCH_FOUND"})
    BY <1>5, <2>1
  <2> QED BY <2>2, <2>3 DEF Waited, Accepts
<1>10. Advanced(y, "telling", "found")
  <2>1. ~Accepts(y, "telling")'
    BY <1>2 DEF Accepts
  <2>2. \A k \in Stage : Accepts(y, k)' => k = "found" \/ Accepts(y, k)
    BY <1>2 DEF Accepts
  <2> QED BY <1>8, <2>1, <2>2 DEF Advanced
<1>11. \A x \in Players : Waited(x) \/ \E k \in Stage, l \in Stage : Advanced(x, k, l)
  <2>1. "telling" \in Stage /\ "found" \in Stage
    BY DEF Stage
  <2> QED BY <1>9, <1>10, <2>1
<1>12. MessagesOnce' /\ AcceptsOnce'
  <2>1. \A x \in Players : Once(s2c'[x], Results)
    <3>1. "MATCH_FOUND" \notin Results
      BY DEF Results
    <3> QED BY <1>5, <3>1 DEF LInv, Handed, MessagesOnce
  <2>2. \A x \in Players : Once(s2c'[x], {"MATCH_FOUND"})
    BY <1>5, <1>8 DEF LInv, Acceptable, AcceptsOnce
  <2> QED BY <1>6, <2>1, <2>2 DEF LInv, Handed, MessagesOnce, Acceptable, AcceptsOnce
<1>13. AcceptsPending'
  BY SameMatchmakingSeats DEF LInv, Acceptable, AcceptsPending, SameMatchmaking
<1>14. \A x \in Players, s \in 1 .. Len(sessions) : PlaysIn(x, s) => pc'[x] # "enqueue"
  BY DEF LInv, Playable, OnSessions
<1>15. \A x \in Players : pc'[x] = "start" => pc[x] = "start" /\ session'[x] = session[x]
  OBVIOUS
<1> QED BY <1>3, <1>7, <1>11, <1>12, <1>13, <1>14, <1>15, SameStep

LEMMA SendMatchFoundAKeeps ==
  ASSUME IInv, LInv, NEW p \in Players, SendMatchFoundA(p)
  PROVE  LInv'
<1> DEFINE y == matches[match[p]].a
<1>1. match[p] \in 1 .. Len(matches) /\ y \in Players /\ y # matches[match[p]].b
  BY MatchRecord DEF SendMatchFoundA, IInv, TypeOK, LocalsOK, HoldsMatch, LInv, TwoDifferentPlayers
<1>2. /\ pc[p] = "foundA" /\ pc'[p] = "foundB" /\ s2c' = Send(s2c, y, "MATCH_FOUND")
      /\ \A x \in Players \ {p} : pc'[x] = pc[x]
      /\ UNCHANGED <<ui, accepts, c2s, connState, who, match, session, back>>
      /\ SameMatchmaking
  BY DEF SendMatchFoundA, Goto, IInv, TypeOK, ThreadTypes, clientVars, queueVars, matchVars,
         SameMatchmaking
<1>3. Tells(p, y)
  BY <1>2 DEF Tells, PlayersOf
<1>4. \A x \in Players : Tells(p, x)' => Tells(p, x) /\ x # y
  BY <1>1, <1>2 DEF Tells, PlayersOf, SameMatchmaking
<1> HIDE DEF y
<1> QED BY <1>1, <1>2, <1>3, <1>4, FoundKeeps

LEMMA SendMatchFoundBKeeps ==
  ASSUME IInv, LInv, NEW p \in Players, SendMatchFoundB(p)
  PROVE  LInv'
<1> DEFINE y == matches[match[p]].b
<1>1. match[p] \in 1 .. Len(matches) /\ y \in Players
  BY MatchRecord DEF SendMatchFoundB, IInv, TypeOK, LocalsOK, HoldsMatch
<1>2. ~PairsLeft(playerQueue)
  <2>1. Len(playerQueue) = 0
    BY DEF SendMatchFoundB, IInv, QueueOK
  <2> QED BY <2>1 DEF PairsLeft
<1>3. /\ pc[p] = "foundB" /\ s2c' = Send(s2c, y, "MATCH_FOUND")
      /\ UNCHANGED <<ui, accepts, c2s, connState, session, back>>
      /\ SameMatchmaking
      /\ Return(p)
  BY <1>2 DEF SendMatchFoundB, Unlock, Return, clientVars, matchVars, SameMatchmaking
<1>4. /\ pc'[p] = "idle" /\ who' = who
      /\ \A x \in Players \ {p} : pc'[x] = pc[x] /\ match'[x] = match[x]
  BY <1>3 DEF Return, Goto, IInv, TypeOK, ThreadTypes, LInv, NobodyLeaves
<1>5. Tells(p, y)
  BY <1>3 DEF Tells, PlayersOf
<1>6. \A x \in Players : Tells(p, x)' => Tells(p, x) /\ x # y
  BY <1>4 DEF Tells
<1> HIDE DEF y
<1> QED BY <1>1, <1>3, <1>4, <1>5, <1>6, FoundKeeps

LEMMA EnqueuePlayerKeeps ==
  ASSUME IInv, LInv, NEW p \in Players, EnqueuePlayer(p)
  PROVE  LInv'
<1>1. /\ pc[p] = "enqueue" /\ who[p] = p /\ back[p] = "idle"
      /\ playerQueue \in Seq(Players) /\ playerQueue' = Append(playerQueue, p)
      /\ UNCHANGED <<ui, accepts, c2s, s2c, connState, matches, pending, sessions>>
  BY DEF EnqueuePlayer, IInv, TypeOK, QueueTypes, LInv, NobodyLeaves, clientVars, netVars,
         matchVars
<1>2. /\ pc'[p] \in {"pair", "idle"} /\ UNCHANGED <<who, session, back>>
      /\ \A x \in Players \ {p} : pc'[x] = pc[x] /\ match'[x] = match[x]
  BY <1>1 DEF EnqueuePlayer, Return, Goto, IInv, TypeOK, ThreadTypes
<1>3. /\ \A x : Offered(x)' = Offered(x)
      /\ \A x : Fighting(x)' = Fighting(x)
      /\ \A x, s : PlaysIn(x, s)' = PlaysIn(x, s)
      /\ \A x, m : HasAccepted(x, m)' = HasAccepted(x, m)
      /\ \A m : PlayersOf(m)' = PlayersOf(m)
  <2>1. \A m : PlayersOf(m)' = PlayersOf(m)
    BY <1>1 DEF PlayersOf
  <2>2. \A x, s : Fights(x, s)' = Fights(x, s) /\ PlaysIn(x, s)' = PlaysIn(x, s)
    BY <1>1, <2>1 DEF Fights, PlaysIn, On, Loser, PlayerA, PlayerB
  <2>3. \A x, m : HasAccepted(x, m)' = HasAccepted(x, m)
    BY <1>1 DEF HasAccepted
  <2> QED BY <1>1, <2>1, <2>2, <2>3 DEF Offered, Fighting
<1>4. NobodyLeaves'
  BY <1>1, <1>2, NobodyLeavesKept DEF LInv, NobodyLeaves, Serving
<1>5. At(p, "entering") /\ ~Queued(p)
  <2>1. At(p, "entering") /\ (Queued(p) => At(p, "queued"))
    BY <1>1 DEF At
  <2> QED BY <2>1 DEF LInv, Handed, OneAt, Place
<1>6. \A x \in Players : Queued(x)' <=> Queued(x) \/ x = p
  <2>1. \A x \in Players : Within(playerQueue', x) <=> Within(playerQueue, x) \/ p = x
    BY <1>1, WithinAppend
  <2> QED BY <2>1 DEF Within, Queued
<1>7. InQueueOnce'
  <2>1. /\ Len(playerQueue) \in Nat /\ Len(playerQueue') = Len(playerQueue) + 1
        /\ \A i \in 1 .. Len(playerQueue) : playerQueue'[i] = playerQueue[i]
        /\ playerQueue'[Len(playerQueue) + 1] = p
    BY <1>1, AppendProperties, LenProperties
  <2>2. \A i \in 1 .. Len(playerQueue) : playerQueue[i] # p
    BY <1>5 DEF Queued
  <2> QED BY <2>1, <2>2 DEF LInv, Handed, InQueueOnce
<1>8. \A x \in Players \ {p} : Unmoved(x)
  BY <1>1, <1>2, <1>3, <1>6 DEF Unmoved, At, Resulted
<1>9. Moved(p, "entering", "queued")
  <2>1. ~At(p, "entering")'
    BY <1>2 DEF At
  <2>2. \A k \in Place : At(p, k)' => k = "queued" \/ At(p, k)
    BY <1>1, <1>2, <1>3 DEF At, Resulted
  <2> QED BY <1>5, <2>1, <2>2 DEF Moved
<1>10. OneAt'
  <2>1. "entering" \in Place /\ "queued" \in Place
    BY DEF Place
  <2> QED BY <1>8, <1>9, <2>1, OneAtKept DEF LInv, Handed
<1>11. OfferedOnce' /\ MessagesOnce' /\ TwoDifferentPlayers' /\ AcceptsOnce'
  BY <1>1, <1>3 DEF LInv, Handed, OfferedOnce, MessagesOnce, TwoDifferentPlayers, Acceptable,
         AcceptsOnce
<1>12. OnSessions'
  BY <1>1, <1>2, <1>3, <1>6 DEF LInv, Playable, OnSessions
<1>13. StartsOne'
  BY <1>1, <1>2 DEF LInv, Playable, StartsOne
<1>14. \A x \in Players : Waited(x)
  <2>1. \A q \in Players, x \in Players : Tells(q, x)' => Tells(q, x)
    BY <1>1, <1>2, <1>3 DEF Tells
  <2> QED BY <1>1, <1>2, <2>1 DEF Waited, Accepts
<1>15. OneStage'
  BY <1>14, OneStageKept DEF LInv, Acceptable
<1>16. Awaited'
  <2>1. \A x \in Players : StillOwes(x)
    BY <1>1, <1>3 DEF StillOwes
  <2> QED BY <1>14, <2>1, WaitedAccepts, AwaitedKept DEF LInv, Acceptable
<1>17. AcceptsPending'
  BY <1>1, <1>2, <1>3 DEF LInv, Acceptable, AcceptsPending
<1> QED BY <1>4, <1>7, <1>10, <1>11, <1>12, <1>13, <1>15, <1>16, <1>17
        DEF LInv, Handed, Playable, Acceptable

\* What the thread that pairs takes from the queue, and what it makes of it.
LEMMA PairFacts ==
  ASSUME IInv, LInv, NEW p \in Players, TryCreateMatch(p)
  PROVE  \E a, b \in Players, n \in Nat :
           /\ a # b /\ Queued(a) /\ Queued(b) /\ \A x : Queued(x) => x = a \/ x = b
           /\ n - 1 = Len(matches) /\ Len(matches') = n
           /\ matches'[n] = [a |-> a, b |-> b, aAccepted |-> FALSE, bAccepted |-> FALSE]
           /\ \A m \in 1 .. Len(matches) : matches'[m] = matches[m] /\ m # n
           /\ pending \subseteq 1 .. Len(matches) /\ pending' = pending \cup {n}
           /\ Len(playerQueue') = 0
<1> DEFINE new == [a |-> Front(playerQueue)[1], b |-> Front(playerQueue)[2],
                   aAccepted |-> FALSE, bAccepted |-> FALSE]
<1>1. pc[p] = "pair" /\ Len(playerQueue) = 2 /\ playerQueue \in Seq(Players)
  BY DEF TryCreateMatch, IInv, TypeOK, QueueOK, QueueTypes
<1>2. 1 \in 1 .. Len(playerQueue) /\ 2 \in 1 .. Len(playerQueue)
  BY <1>1
<1>3. playerQueue[1] \in Players /\ playerQueue[2] \in Players
  BY <1>1, <1>2, ElementOfSeq
<1>4. playerQueue[1] # playerQueue[2]
  BY <1>2 DEF LInv, Handed, InQueueOnce
<1>5. Queued(playerQueue[1]) /\ Queued(playerQueue[2])
  BY <1>2 DEF Queued
<1>6. \A x : Queued(x) => x = playerQueue[1] \/ x = playerQueue[2]
  BY <1>1 DEF Queued
<1>7. /\ new = [a |-> playerQueue[1], b |-> playerQueue[2], aAccepted |-> FALSE, bAccepted |-> FALSE]
      /\ new \in PendingMatch
  BY <1>3 DEF PendingMatch, Front
<1>8. matches' = Append(matches, new) /\ pending' = pending \cup {Len(matches')}
  BY DEF TryCreateMatch
<1> HIDE DEF new
<1>9. /\ Len(matches) \in Nat /\ Len(matches') = Len(matches) + 1
      /\ matches'[Len(matches) + 1] = new
      /\ \A m \in 1 .. Len(matches) : matches'[m] = matches[m] /\ m # Len(matches) + 1
      /\ pending \subseteq 1 .. Len(matches)
  BY <1>7, <1>8, AppendProperties, LenProperties DEF IInv, TypeOK, MatchTypes
<1>10. Len(playerQueue') = 0
  <2>1. IInv' /\ pc'[p] = "foundA"
    BY TryCreateMatchStep DEF TryCreateMatch, Goto, IInv, TypeOK, ThreadTypes
  <2> QED BY <2>1 DEF IInv, QueueOK
<1>11. PICK n \in Nat : n = Len(matches) + 1
  BY <1>9
<1>12. n - 1 = Len(matches)
  BY <1>9, <1>11
<1> QED BY <1>3, <1>4, <1>5, <1>6, <1>7, <1>8, <1>9, <1>10, <1>11, <1>12

LEMMA TryCreateMatchKeeps ==
  ASSUME IInv, LInv, NEW p \in Players, TryCreateMatch(p)
  PROVE  LInv'
<1>1. PICK a \in Players, b \in Players, n \in Nat :
        /\ a # b /\ Queued(a) /\ Queued(b) /\ \A x : Queued(x) => x = a \/ x = b
        /\ n - 1 = Len(matches) /\ Len(matches') = n
        /\ matches'[n] = [a |-> a, b |-> b, aAccepted |-> FALSE, bAccepted |-> FALSE]
        /\ \A m \in 1 .. Len(matches) : matches'[m] = matches[m] /\ m # n
        /\ pending \subseteq 1 .. Len(matches) /\ pending' = pending \cup {n}
        /\ Len(playerQueue') = 0
  BY PairFacts
<1>2. /\ pc[p] = "pair" /\ pc'[p] = "foundA" /\ match'[p] = n
      /\ \A x \in Players \ {p} : pc'[x] = pc[x] /\ match'[x] = match[x]
      /\ UNCHANGED <<ui, accepts, c2s, s2c, connState, sessions, who, session, back>>
  BY <1>1 DEF TryCreateMatch, Goto, IInv, TypeOK, ThreadTypes, clientVars, netVars
<1>3. /\ \A s \in 1 .. Len(sessions) : sessions[s].match \in 1 .. Len(matches)
      /\ \A q \in Players : pc[q] \in HoldsMatch => match[q] \in 1 .. Len(matches)
  BY DEF IInv, LocalsOK
<1>4. n \in 1 .. n /\ \A m \in 1 .. n : m \in 1 .. Len(matches) \/ m = n
  <2>1. 1 <= n
    <3>1. Len(matches) \in Nat
      BY LenProperties DEF IInv, TypeOK, MatchTypes
    <3> QED BY <1>1, <3>1
  <2> QED BY <1>1, <2>1
<1>5. /\ PlayersOf(n)' = {a, b}
      /\ \A m \in 1 .. Len(matches) : PlayersOf(m)' = PlayersOf(m)
      /\ \A m \in 1 .. Len(matches) : \A x : HasAccepted(x, m)' = HasAccepted(x, m)
      /\ \A x : ~HasAccepted(x, n)'
  BY <1>1 DEF PlayersOf, HasAccepted
<1>6. \A s \in 1 .. Len(sessions) : \A x :
        Fights(x, s)' = Fights(x, s) /\ PlaysIn(x, s)' = PlaysIn(x, s)
  <2>1. SUFFICES ASSUME NEW s \in 1 .. Len(sessions), NEW x
                 PROVE  Fights(x, s)' = Fights(x, s) /\ PlaysIn(x, s)' = PlaysIn(x, s)
    OBVIOUS
  <2>2. sessions'[s] = sessions[s] /\ matches'[sessions[s].match] = matches[sessions[s].match]
    BY <1>1, <1>2, <1>3
  <2>3. PlayersOf(sessions[s].match)' = PlayersOf(sessions[s].match) /\ Loser(s)' = Loser(s)
    BY <2>2 DEF PlayersOf, Loser, PlayerA, PlayerB
  <2> QED BY <2>2, <2>3 DEF Fights, PlaysIn, On
<1>7. \A x : ~Queued(x)' /\ (Offered(x)' <=> Offered(x) \/ x = a \/ x = b)
  <2>1. \A x : Offered(x)' <=> Offered(x) \/ x = a \/ x = b
    BY <1>1, <1>5 DEF Offered
  <2> QED BY <1>1, <2>1 DEF Queued
<1>8. NobodyLeaves'
  BY <1>2, NobodyLeavesKept DEF LInv, NobodyLeaves, Serving
<1>9. \A x \in Players : At(x, "queued") <=> Queued(x)
  BY DEF At
<1>10. ~Offered(a) /\ ~Offered(b)
  <2>1. \A x : Offered(x) => At(x, "offered")
    BY DEF At
  <2> QED BY <1>1, <1>9, <2>1 DEF LInv, Handed, OneAt, Place
<1>11. \A x \in Players : x # a /\ x # b => Unmoved(x)
  BY <1>2, <1>6, <1>7 DEF Unmoved, At, Resulted, Fighting
<1>12. \A x \in Players : x = a \/ x = b => Moved(x, "queued", "offered")
  <2>1. SUFFICES ASSUME NEW x \in Players, x = a \/ x = b PROVE Moved(x, "queued", "offered")
    OBVIOUS
  <2>2. At(x, "queued") /\ ~At(x, "queued")'
    BY <1>1, <1>7, <2>1 DEF At
  <2>3. \A k \in Place : At(x, k)' => k = "offered" \/ At(x, k)
    BY <1>2, <1>6, <1>7 DEF At, Resulted, Fighting
  <2> QED BY <2>2, <2>3 DEF Moved
<1>13. OneAt'
  <2>1. "queued" \in Place /\ "offered" \in Place
    BY DEF Place
  <2> QED BY <1>11, <1>12, <2>1, OneAtKept DEF LInv, Handed
<1>14. InQueueOnce' /\ MessagesOnce' /\ AcceptsOnce'
  BY <1>1, <1>2 DEF InQueueOnce, LInv, Handed, MessagesOnce, Acceptable, AcceptsOnce
<1>15. OfferedOnce'
  BY <1>1, <1>5, <1>10 DEF LInv, Handed, OfferedOnce, Offered
<1>16. TwoDifferentPlayers'
  BY <1>1, <1>4 DEF LInv, TwoDifferentPlayers
<1>17. OnSessions'
  <2>1. \A s \in 1 .. Len(sessions) : ~PlaysIn(a, s) /\ ~PlaysIn(b, s)
    BY <1>1 DEF LInv, Playable, OnSessions
  <2>2. \A x \in Players : pc'[x] = "enqueue" => pc[x] = "enqueue"
    BY <1>2
  <2> QED BY <1>2, <1>6, <1>7, <2>1, <2>2 DEF LInv, Playable, OnSessions
<1>18. StartsOne'
  BY <1>2 DEF LInv, Playable, StartsOne
<1>19. \A q \in Players, x \in Players : Tells(q, x)' => x = a \/ x = b
  <2>1. SUFFICES ASSUME NEW q \in Players, NEW x \in Players, Tells(q, x)', q # p PROVE FALSE
    BY <1>2, <1>5 DEF Tells
  <2>2. match[q] \in 1 .. Len(matches)
    BY <1>2, <1>3, <2>1 DEF Tells, HoldsMatch
  <2>3. Tells(q, x)
    BY <1>1, <1>2, <1>5, <2>1, <2>2 DEF Tells
  <2> QED BY <1>2, <2>1, <2>3, OneTells
<1>20. \A x \in Players, k \in Stage :
         Accepts(x, k)' => Accepts(x, k) \/ (k = "telling" /\ (x = a \/ x = b))
  BY <1>2, <1>19 DEF Accepts
<1>21. \A x \in Players, k \in Stage : Accepts(x, k) => x # a /\ x # b
  BY <1>10 DEF LInv, Acceptable, Awaited, Offered
<1>22. OneStage'
  BY <1>20, <1>21 DEF LInv, Acceptable, OneStage
<1>23. Awaited'
  <2>1. SUFFICES ASSUME NEW x \in Players, NEW k \in Stage, Accepts(x, k)'
                 PROVE  \E m \in pending' : x \in PlayersOf(m)' /\ ~HasAccepted(x, m)'
    BY DEF Awaited
  <2>2. CASE x = a \/ x = b
    BY <1>1, <1>5, <2>2
  <2>3. CASE x # a /\ x # b
    <3>1. PICK m \in pending : x \in PlayersOf(m) /\ ~HasAccepted(x, m)
      BY <1>20, <2>1, <2>3 DEF LInv, Acceptable, Awaited
    <3> QED BY <1>1, <1>5, <3>1
  <2> QED BY <2>2, <2>3
<1>24. AcceptsPending'
  <2>1. SUFFICES ASSUME NEW x \in Players, pc'[x] = "accept"
                 PROVE  match'[x] \in pending' /\ x \in PlayersOf(match[x])' /\ match'[x] = match[x]
    BY DEF AcceptsPending, PlayersOf
  <2>2. pc[x] = "accept" /\ match'[x] = match[x]
    BY <1>2, <2>1
  <2>3. match[x] \in pending /\ x \in PlayersOf(match[x])
    BY <2>2 DEF LInv, Acceptable, AcceptsPending
  <2>4. \A m \in pending : m \in pending' /\ PlayersOf(m)' = PlayersOf(m)
    BY <1>1, <1>5
  <2>5. \A m : m = match[x] => x \in PlayersOf(m)'
    BY <2>3, <2>4
  <2> QED BY <2>2, <2>3, <2>4, <2>5 DEF PlayersOf
<1> QED BY <1>8, <1>13, <1>14, <1>15, <1>16, <1>17, <1>18, <1>22, <1>23, <1>24
        DEF LInv, Handed, Playable, Acceptable

-----------------------------------------------------------------------------
(***************************************************************************)
(* Steps of the read threads that accept                                   *)
(***************************************************************************)

\* The locked part of onAccept on match m, for player p.
Marks(p, m) ==
  /\ pc[p] = "accept" /\ m \in pending /\ p \in PlayersOf(m)
  /\ pending \subseteq 1 .. Len(matches) /\ Len(matches') = Len(matches)
  /\ \A n \in 1 .. Len(matches) :
       /\ matches'[n].a = matches[n].a /\ matches'[n].b = matches[n].b
       /\ n # m => matches'[n] = matches[n]
  /\ matches'[m].aAccepted <=> matches[m].aAccepted \/ matches[m].a = p
  /\ matches'[m].bAccepted <=> matches[m].bAccepted \/ matches[m].b = p
  /\ \A x \in Players \ {p} : pc'[x] = pc[x] /\ match'[x] = match[x] /\ session'[x] = session[x]
  /\ UNCHANGED <<ui, accepts, c2s, s2c, connState, playerQueue, who, back>>

\* The other player has not accepted.
StaysPending(p) ==
  pc'[p] = "idle" /\ UNCHANGED <<pending, sessions, session>>

\* Both have: session n is built.
Builds(p, m, n) ==
  /\ pc'[p] = "start" /\ session'[p] = n
  /\ matches'[m].aAccepted /\ matches'[m].bAccepted
  /\ pending' = pending \ {m}
  /\ n - 1 = Len(sessions) /\ Len(sessions') = n
  /\ sessions'[n] = [match |-> m, phase |-> "built", winner |-> None]
  /\ \A s \in 1 .. Len(sessions) : sessions'[s] = sessions[s] /\ s # n
  /\ \A s \in 1 .. n : s \in 1 .. Len(sessions) \/ s = n
  /\ n \in 1 .. n

LEMMA AcceptFacts ==
  ASSUME IInv, LInv, NEW p \in Players, OnAccept(p)
  PROVE  \E m \in pending : Marks(p, m) /\ (StaysPending(p) \/ \E n \in Nat : Builds(p, m, n))
<1> DEFINE m == match[p]
<1> DEFINE accepted == [matches[m] EXCEPT !.aAccepted = @ \/ matches[m].a = p,
                                          !.bAccepted = @ \/ matches[m].b = p]
<1>1. m \in 1 .. Len(matches) /\ matches[m] \in PendingMatch
  BY ElementOfSeq DEF OnAccept, IInv, TypeOK, LocalsOK, HoldsMatch, MatchTypes
<1>2. /\ accepted \in PendingMatch /\ accepted.a = matches[m].a /\ accepted.b = matches[m].b
      /\ accepted.aAccepted <=> matches[m].aAccepted \/ matches[m].a = p
      /\ accepted.bAccepted <=> matches[m].bAccepted \/ matches[m].b = p
  BY <1>1, Zenon DEF PendingMatch
<1>3. /\ pc[p] = "accept" /\ matches' = [matches EXCEPT ![m] = accepted]
      /\ UNCHANGED <<ui, accepts, c2s, s2c, connState, playerQueue>>
  BY DEF OnAccept, clientVars, netVars, queueVars
<1>4. m \in pending /\ p \in PlayersOf(m) /\ pending \subseteq 1 .. Len(matches)
  BY <1>3 DEF LInv, Acceptable, AcceptsPending, IInv, TypeOK, MatchTypes
<1>5. who[p] = p /\ back[p] = "idle"
  BY DEF LInv, NobodyLeaves
<1>6. CASE ~Ready(accepted)
  <2>1. Return(p) /\ UNCHANGED <<pending, sessions>>
    BY <1>6 DEF OnAccept
  <2>2. /\ pc'[p] = "idle" /\ UNCHANGED <<who, session, back>>
        /\ \A x \in Players \ {p} : pc'[x] = pc[x] /\ match'[x] = match[x]
    BY <1>5, <2>1 DEF Return, Goto, IInv, TypeOK, ThreadTypes
  <2> HIDE DEF accepted
  <2>3. /\ Len(matches') = Len(matches) /\ matches'[m] = accepted
        /\ \A n \in 1 .. Len(matches) : n # m => matches'[n] = matches[n]
    BY <1>1, <1>2, <1>3, MatchUpdated DEF IInv, TypeOK
  <2>4. Marks(p, m)
    BY <1>2, <1>3, <1>4, <2>2, <2>3 DEF Marks
  <2> QED BY <1>4, <2>1, <2>2, <2>4 DEF StaysPending
<1>7. CASE Ready(accepted)
  <2> DEFINE new == [match |-> m, phase |-> "built", winner |-> None]
  <2>1. /\ sessions' = Append(sessions, new) /\ pending' = pending \ {m}
        /\ session' = [session EXCEPT ![p] = Len(sessions')]
        /\ Goto(p, "start") /\ UNCHANGED <<who, match, back>>
    BY <1>7 DEF OnAccept, Removed
  <2>2. /\ pc'[p] = "start" /\ session'[p] = Len(sessions')
        /\ \A x \in Players \ {p} : pc'[x] = pc[x] /\ match'[x] = match[x] /\ session'[x] = session[x]
    BY <2>1 DEF Goto, IInv, TypeOK, ThreadTypes
  <2>3. accepted.aAccepted /\ accepted.bAccepted
    BY <1>7 DEF Ready
  <2> HIDE DEF accepted
  <2>4. /\ Len(matches') = Len(matches) /\ matches'[m] = accepted
        /\ \A n \in 1 .. Len(matches) : n # m => matches'[n] = matches[n]
    BY <1>1, <1>2, <1>3, MatchUpdated DEF IInv, TypeOK
  <2>5. Marks(p, m)
    BY <1>2, <1>3, <1>4, <2>1, <2>2, <2>4 DEF Marks
  <2>6. new \in MatchSession
    <3>1. m \in Nat \ {0}
      BY <1>1, LenProperties DEF IInv, TypeOK, MatchTypes
    <3> QED BY <3>1 DEF MatchSession, Phase
  <2> HIDE DEF new
  <2>7. /\ Len(sessions) \in Nat /\ Len(sessions') = Len(sessions) + 1
        /\ sessions'[Len(sessions) + 1] = new
        /\ \A s \in 1 .. Len(sessions) : sessions'[s] = sessions[s]
    BY <2>1, <2>6, AppendProperties, LenProperties DEF IInv, TypeOK, MatchTypes
  <2>8. PICK n \in Nat : n = Len(sessions) + 1
    BY <2>7
  <2>9. /\ n - 1 = Len(sessions) /\ n \in 1 .. n /\ Len(sessions') = n
        /\ \A s \in 1 .. n : s \in 1 .. Len(sessions) \/ s = n
        /\ \A s \in 1 .. Len(sessions) : s # n
    BY <2>7, <2>8
  <2>10. sessions'[n] = [match |-> m, phase |-> "built", winner |-> None]
    BY <2>7, <2>8 DEF new
  <2>11. Builds(p, m, n)
    BY <2>1, <2>2, <2>3, <2>4, <2>7, <2>9, <2>10 DEF Builds
  <2> QED BY <1>4, <2>5, <2>11
<1> QED BY <1>6, <1>7

\* What marking the match does not change.
LEMMA MarksKeeps ==
  ASSUME IInv, LInv, NEW p \in Players, NEW m \in pending, Marks(p, m)
  PROVE  /\ \A n \in 1 .. Len(matches) : PlayersOf(n)' = PlayersOf(n)
         /\ \A n \in pending, x \in Players :
              x # p => (HasAccepted(x, n)' <=> HasAccepted(x, n))
         /\ \A x \in Players : Queued(x)' = Queued(x)
         /\ \A s \in 1 .. Len(sessions) : \A x :
              sessions'[s] = sessions[s] =>
                Fights(x, s)' = Fights(x, s) /\ PlaysIn(x, s)' = PlaysIn(x, s)
         /\ MessagesOnce' /\ AcceptsOnce' /\ InQueueOnce' /\ TwoDifferentPlayers'
<1>1. \A n \in 1 .. Len(matches) : PlayersOf(n)' = PlayersOf(n)
  BY DEF Marks, PlayersOf
<1>2. \A n \in pending, x \in Players : x # p => (HasAccepted(x, n)' <=> HasAccepted(x, n))
  BY DEF Marks, HasAccepted
<1>3. \A x \in Players : Queued(x)' = Queued(x)
  BY DEF Marks, Queued
<1>4. ASSUME NEW s \in 1 .. Len(sessions), NEW x, sessions'[s] = sessions[s]
      PROVE  Fights(x, s)' = Fights(x, s) /\ PlaysIn(x, s)' = PlaysIn(x, s)
  <2>1. sessions[s].match \in 1 .. Len(matches)
    BY DEF IInv, LocalsOK
  <2>2. PlayersOf(sessions[s].match)' = PlayersOf(sessions[s].match) /\ Loser(s)' = Loser(s)
    BY <1>4, <2>1 DEF Marks, PlayersOf, Loser, PlayerA, PlayerB
  <2> QED BY <1>4, <2>2 DEF Fights, PlaysIn, On
<1>5. MessagesOnce' /\ AcceptsOnce' /\ InQueueOnce'
  BY DEF Marks, LInv, Handed, MessagesOnce, InQueueOnce, Acceptable, AcceptsOnce
<1>6. TwoDifferentPlayers'
  BY DEF Marks, LInv, TwoDifferentPlayers
<1> QED BY <1>1, <1>2, <1>3, <1>4, <1>5, <1>6

\* The acceptance of p is over; nobody else's has moved.
LEMMA MarksStages ==
  ASSUME IInv, LInv, NEW p \in Players, NEW m \in pending, Marks(p, m), pc'[p] \in {"idle", "start"}
  PROVE  /\ \A x \in Players, k \in Stage : Accepts(x, k)' => Accepts(x, k) /\ x # p
         /\ OneStage'
<1>1. \A q \in Players, x \in Players : Tells(q, x)' => Tells(q, x)
  <2>1. SUFFICES ASSUME NEW q \in Players, NEW x \in Players, Tells(q, x)' PROVE Tells(q, x)
    OBVIOUS
  <2>2. pc[q] \in {"foundA", "foundB"} /\ pc'[q] = pc[q] /\ match'[q] = match[q]
    BY <2>1 DEF Tells, Marks
  <2>3. match[q] \in 1 .. Len(matches)
    BY <2>2 DEF IInv, LocalsOK, HoldsMatch
  <2> QED BY <2>1, <2>2, <2>3 DEF Tells, Marks, PlayersOf
<1>2. \A x \in Players, k \in Stage : Accepts(x, k)' => Accepts(x, k)
  BY <1>1 DEF Accepts, Marks
<1>3. Accepts(p, "accepting") /\ ~Accepts(p, "accepting")' /\ "accepting" \in Stage
  BY DEF Accepts, Marks, Stage
<1>4. \A k \in Stage : ~Accepts(p, k)'
  BY <1>2, <1>3 DEF LInv, Acceptable, OneStage
<1>5. OneStage'
  BY <1>2 DEF LInv, Acceptable, OneStage
<1> QED BY <1>2, <1>4, <1>5

LEMMA FirstAcceptKeeps ==
  ASSUME IInv, LInv, NEW p \in Players, NEW m \in pending, Marks(p, m), StaysPending(p)
  PROVE  LInv'
<1>1. /\ pc'[p] = "idle" /\ UNCHANGED <<pending, sessions, session, ui, c2s, s2c, connState, who, back>>
      /\ \A x \in Players \ {p} : pc'[x] = pc[x] /\ match'[x] = match[x]
      /\ pending \subseteq 1 .. Len(matches)
  BY DEF Marks, StaysPending
<1>2. /\ \A n \in pending : PlayersOf(n)' = PlayersOf(n)
      /\ \A n \in pending, x \in Players : x # p => (HasAccepted(x, n)' <=> HasAccepted(x, n))
      /\ \A x \in Players : Queued(x)' = Queued(x)
      /\ \A s \in 1 .. Len(sessions) : \A x :
           Fights(x, s)' = Fights(x, s) /\ PlaysIn(x, s)' = PlaysIn(x, s)
      /\ MessagesOnce' /\ AcceptsOnce' /\ InQueueOnce' /\ TwoDifferentPlayers'
  BY <1>1, MarksKeeps
<1>3. \A x : Offered(x)' = Offered(x)
  BY <1>1, <1>2 DEF Offered
<1>4. NobodyLeaves'
  BY <1>1, NobodyLeavesKept DEF LInv, NobodyLeaves, Serving
<1>5. OneAt'
  <2>1. \A x \in Players : Unmoved(x)
    BY <1>1, <1>2, <1>3 DEF Unmoved, At, Resulted, Fighting
  <2> QED BY <2>1, OneAtKept DEF LInv, Handed
<1>6. OfferedOnce'
  BY <1>1, <1>2 DEF LInv, Handed, OfferedOnce
<1>7. OnSessions'
  <2>1. \A x \in Players : pc'[x] = "enqueue" => pc[x] = "enqueue"
    BY <1>1
  <2> QED BY <1>1, <1>2, <1>3, <2>1 DEF LInv, Playable, OnSessions
<1>8. StartsOne'
  BY <1>1 DEF LInv, Playable, StartsOne
<1>9. OneStage' /\ \A x \in Players, k \in Stage : Accepts(x, k)' => Accepts(x, k) /\ x # p
  BY <1>1, MarksStages
<1>10. Awaited'
  <2>1. \A x \in Players : x # p => StillOwes(x)
    BY <1>1, <1>2 DEF StillOwes
  <2> QED BY <1>9, <2>1, AwaitedKept DEF LInv, Acceptable
<1>11. AcceptsPending'
  <2>1. SUFFICES ASSUME NEW x \in Players, pc'[x] = "accept"
                 PROVE  match'[x] \in pending' /\ x \in PlayersOf(match[x])' /\ match'[x] = match[x]
    BY DEF AcceptsPending, PlayersOf
  <2>2. pc[x] = "accept" /\ match'[x] = match[x]
    BY <1>1, <2>1
  <2>3. match[x] \in pending /\ x \in PlayersOf(match[x])
    BY <2>2 DEF LInv, Acceptable, AcceptsPending
  <2>4. \A n : n = match[x] => x \in PlayersOf(n)'
    BY <1>2, <2>3
  <2> QED BY <1>1, <2>2, <2>3, <2>4 DEF PlayersOf
<1> QED BY <1>2, <1>4, <1>5, <1>6, <1>7, <1>8, <1>9, <1>10, <1>11
        DEF LInv, Handed, Playable, Acceptable

\* Who was offered match m plays in session n, and in no other.
LEMMA BuildPlays ==
  ASSUME IInv, LInv, NEW p \in Players, NEW m \in pending, Marks(p, m), NEW n \in Nat,
         Builds(p, m, n)
  PROVE  /\ \A s \in 1 .. Len(sessions) : \A x :
              Fights(x, s)' = Fights(x, s) /\ PlaysIn(x, s)' = PlaysIn(x, s)
         /\ \A x : (Fights(x, n)' <=> x \in PlayersOf(m)) /\ (PlaysIn(x, n)' <=> x \in PlayersOf(m))
         /\ \A x \in Players : Offered(x)' <=> Offered(x) /\ x \notin PlayersOf(m)
         /\ \A x \in PlayersOf(m) : x \in Players /\ Offered(x)
         /\ \A x \in PlayersOf(m), k \in Stage : ~Accepts(x, k)'
<1>1. m \in 1 .. Len(matches) /\ pending \subseteq 1 .. Len(matches) /\ pending' = pending \ {m}
  BY DEF Marks, Builds
<1>2. \A s \in 1 .. Len(sessions) : sessions'[s] = sessions[s]
  BY DEF Builds
<1>3. /\ \A k \in 1 .. Len(matches) : PlayersOf(k)' = PlayersOf(k)
      /\ \A k \in pending, x \in Players : x # p => (HasAccepted(x, k)' <=> HasAccepted(x, k))
      /\ \A s \in 1 .. Len(sessions) : \A x :
           Fights(x, s)' = Fights(x, s) /\ PlaysIn(x, s)' = PlaysIn(x, s)
  BY <1>2, MarksKeeps
<1>4. \A x : (Fights(x, n)' <=> x \in PlayersOf(m)) /\ (PlaysIn(x, n)' <=> x \in PlayersOf(m))
  <2>1. sessions'[n].match = m /\ sessions'[n].phase = "built"
    BY DEF Builds
  <2>2. PlayersOf(sessions[n].match)' = PlayersOf(m)
    BY <1>1, <2>1 DEF Marks, PlayersOf
  <2> QED BY <2>1, <2>2 DEF Fights, PlaysIn, On
<1>5. \A x \in PlayersOf(m) : x \in Players /\ Offered(x)
  BY <1>1, MatchRecord DEF IInv, TypeOK, PlayersOf, Offered
<1>6. \A x \in Players : Offered(x)' <=> Offered(x) /\ x \notin PlayersOf(m)
  BY <1>1, <1>3 DEF Offered, LInv, Handed, OfferedOnce
<1>7. \A x \in PlayersOf(m), k \in Stage : ~Accepts(x, k)'
  <2>1. SUFFICES ASSUME NEW x \in PlayersOf(m), NEW k \in Stage, Accepts(x, k)' PROVE FALSE
    OBVIOUS
  <2>2. Accepts(x, k) /\ x # p /\ x \in Players
    BY <1>5, <2>1, MarksStages DEF Builds
  <2>3. PICK j \in pending : x \in PlayersOf(j) /\ ~HasAccepted(x, j)
    BY <2>2 DEF LInv, Acceptable, Awaited
  <2>4. j = m
    BY <2>2, <2>3 DEF LInv, Handed, OfferedOnce
  <2>5. ~HasAccepted(x, m)'
    BY <1>3, <2>2, <2>3, <2>4
  <2> QED BY <1>1, <2>1, <2>5 DEF HasAccepted, PlayersOf, Builds, Marks
<1> QED BY <1>3, <1>4, <1>5, <1>6, <1>7

LEMMA LastAcceptKeeps ==
  ASSUME IInv, LInv, NEW p \in Players, NEW m \in pending, Marks(p, m), NEW n \in Nat,
         Builds(p, m, n)
  PROVE  LInv'
<1>1. /\ pc'[p] = "start" /\ session'[p] = n /\ pending' = pending \ {m}
      /\ UNCHANGED <<ui, c2s, s2c, connState, who, back>>
      /\ \A x \in Players \ {p} :
           pc'[x] = pc[x] /\ match'[x] = match[x] /\ session'[x] = session[x]
      /\ pending \subseteq 1 .. Len(matches)
  BY DEF Marks, Builds
<1>2. /\ Len(sessions') = n /\ n \in 1 .. n /\ sessions'[n].phase = "built"
      /\ \A s \in 1 .. Len(sessions) : sessions'[s] = sessions[s] /\ s # n
      /\ \A s \in 1 .. Len(sessions') : s \in 1 .. Len(sessions) \/ s = n
  BY DEF Builds
<1>3. /\ \A s \in 1 .. Len(sessions) : \A x :
           Fights(x, s)' = Fights(x, s) /\ PlaysIn(x, s)' = PlaysIn(x, s)
      /\ \A x : (Fights(x, n)' <=> x \in PlayersOf(m)) /\ (PlaysIn(x, n)' <=> x \in PlayersOf(m))
      /\ \A x \in Players : Offered(x)' <=> Offered(x) /\ x \notin PlayersOf(m)
      /\ \A x \in PlayersOf(m) : x \in Players /\ Offered(x)
      /\ \A x \in PlayersOf(m), k \in Stage : ~Accepts(x, k)'
  BY BuildPlays
<1>4. /\ \A k \in 1 .. Len(matches) : PlayersOf(k)' = PlayersOf(k)
      /\ \A k \in pending, x \in Players : x # p => (HasAccepted(x, k)' <=> HasAccepted(x, k))
      /\ \A x \in Players : Queued(x)' = Queued(x)
      /\ MessagesOnce' /\ AcceptsOnce' /\ InQueueOnce' /\ TwoDifferentPlayers'
  BY MarksKeeps
<1>5. OneStage' /\ \A x \in Players, k \in Stage : Accepts(x, k)' => Accepts(x, k) /\ x # p
  BY <1>1, MarksStages
<1>6. NobodyLeaves'
  BY <1>1, NobodyLeavesKept DEF LInv, NobodyLeaves, Serving
<1>7. \A x \in Players : Fighting(x)' => Fighting(x) \/ x \in PlayersOf(m)
  BY <1>2, <1>3 DEF Fighting
<1>8. OneAt'
  <2>1. \A x \in Players : x \notin PlayersOf(m) => Unmoved(x)
    BY <1>1, <1>3, <1>4, <1>7 DEF Unmoved, At, Resulted
  <2>2. \A x \in Players : x \in PlayersOf(m) => Moved(x, "offered", "fighting")
    <3>1. SUFFICES ASSUME NEW x \in Players, x \in PlayersOf(m) PROVE Moved(x, "offered", "fighting")
      OBVIOUS
    <3>2. At(x, "offered") /\ ~At(x, "offered")'
      BY <1>3, <3>1 DEF At
    <3>3. \A k \in Place : At(x, k)' => k = "fighting" \/ At(x, k)
      BY <1>1, <1>3, <1>4 DEF At, Resulted
    <3> QED BY <3>2, <3>3 DEF Moved
  <2>3. "offered" \in Place /\ "fighting" \in Place
    BY DEF Place
  <2> QED BY <2>1, <2>2, <2>3, OneAtKept DEF LInv, Handed
<1>9. OfferedOnce'
  BY <1>1, <1>4 DEF LInv, Handed, OfferedOnce
<1>10. \A x \in PlayersOf(m) :
         /\ ui[x] # "New" /\ pc[x] # "enqueue" /\ ~Queued(x)
         /\ \A s \in 1 .. Len(sessions) : ~PlaysIn(x, s)
  <2>1. \A x \in PlayersOf(m) : At(x, "offered")
    BY <1>3 DEF At
  <2>2. \A x \in PlayersOf(m) : ~At(x, "new") /\ ~At(x, "entering") /\ ~At(x, "queued")
    BY <1>3, <2>1 DEF LInv, Handed, OneAt, Place
  <2>3. \A x \in PlayersOf(m) : ui[x] # "New" /\ pc[x] # "enqueue" /\ ~Queued(x)
    BY <2>2 DEF At
  <2> QED BY <1>3, <2>3 DEF LInv, Playable, OnSessions
<1>11. OnSessions'
  <2>1. SUFFICES ASSUME NEW x \in Players, NEW s \in 1 .. Len(sessions'), PlaysIn(x, s)'
                 PROVE  /\ ui'[x] # "New" /\ pc'[x] # "enqueue" /\ ~Queued(x)' /\ ~Offered(x)'
                        /\ \A t \in 1 .. Len(sessions') : PlaysIn(x, t)' => s = t
                        /\ sessions'[s].phase # "built" => connState'[x] = "Playing"
    BY DEF OnSessions
  <2>2. CASE x \in PlayersOf(m)
    <3>1. \A t \in 1 .. Len(sessions') : PlaysIn(x, t)' => t = n
      BY <1>2, <1>3, <1>10, <2>2
    <3>2. pc'[x] # "enqueue"
      BY <1>1, <1>10, <2>2
    <3> QED BY <1>1, <1>2, <1>3, <1>4, <1>10, <2>1, <2>2, <3>1, <3>2
  <2>3. CASE x \notin PlayersOf(m)
    <3>1. s \in 1 .. Len(sessions) /\ PlaysIn(x, s)
      BY <1>2, <1>3, <2>1, <2>3
    <3>2. \A t \in 1 .. Len(sessions') : PlaysIn(x, t)' => t \in 1 .. Len(sessions) /\ PlaysIn(x, t)
      BY <1>2, <1>3, <2>3
    <3>3. /\ ui[x] # "New" /\ pc[x] # "enqueue" /\ ~Queued(x) /\ ~Offered(x)
          /\ \A t \in 1 .. Len(sessions) : PlaysIn(x, t) => s = t
          /\ sessions[s].phase # "built" => connState[x] = "Playing"
      BY <3>1 DEF LInv, Playable, OnSessions
    <3>4. pc'[x] # "enqueue"
      BY <1>1, <3>3
    <3> QED BY <1>1, <1>2, <1>3, <1>4, <3>1, <3>2, <3>3, <3>4
  <2> QED BY <2>2, <2>3
<1>12. StartsOne'
  <2>1. \A q \in Players : pc[q] = "start" => session[q] \in 1 .. Len(sessions)
    BY DEF IInv, LocalsOK
  <2>2. \A q \in Players : q # p /\ pc'[q] = "start" =>
          session'[q] # n /\ sessions'[session'[q]].phase = "built" /\ pc[q] = "start"
    BY <1>1, <1>2, <2>1 DEF LInv, Playable, StartsOne
  <2> QED BY <1>1, <1>2, <2>2 DEF LInv, Playable, StartsOne
<1>13. Awaited'
  <2>1. \A x \in Players : x # p /\ x \notin PlayersOf(m) => StillOwes(x)
    BY <1>1, <1>4 DEF StillOwes
  <2> QED BY <1>3, <1>5, <2>1, AwaitedKept DEF LInv, Acceptable
<1>14. AcceptsPending'
  <2>1. SUFFICES ASSUME NEW x \in Players, pc'[x] = "accept"
                 PROVE  match'[x] \in pending' /\ x \in PlayersOf(match[x])' /\ match'[x] = match[x]
    BY DEF AcceptsPending, PlayersOf
  <2>2. pc[x] = "accept" /\ match'[x] = match[x]
    BY <1>1, <2>1
  <2>3. match[x] \in pending /\ x \in PlayersOf(match[x])
    BY <2>2 DEF LInv, Acceptable, AcceptsPending
  <2>4. x \notin PlayersOf(m)
    <3>1. Accepts(x, "accepting")' /\ "accepting" \in Stage
      BY <2>1 DEF Accepts, Stage
    <3> QED BY <1>3, <3>1
  <2>5. \A k : k = match[x] => x \in PlayersOf(k)'
    BY <1>1, <1>4, <2>3
  <2> QED BY <1>1, <2>2, <2>3, <2>4, <2>5 DEF PlayersOf
<1> QED BY <1>4, <1>5, <1>6, <1>8, <1>9, <1>11, <1>12, <1>13, <1>14
        DEF LInv, Handed, Playable, Acceptable

-----------------------------------------------------------------------------
(***************************************************************************)
(* Steps of a session: StartSession and the game threads                   *)
(***************************************************************************)

\* Session s becomes r; the queue, the matches and the read threads' positions in the
\* lobby are left alone.
Goes(s, r) ==
  /\ r \in MatchSession /\ r.match = sessions[s].match
  /\ sessions' = [sessions EXCEPT ![s] = r]
  /\ UNCHANGED <<playerQueue, matches, pending>>

LEMMA GoesFacts ==
  ASSUME IInv, NEW s \in 1 .. Len(sessions), NEW r, Goes(s, r)
  PROVE  /\ Len(sessions') = Len(sessions) /\ sessions'[s] = r
         /\ \A t \in 1 .. Len(sessions) : t # s => sessions'[t] = sessions[t]
         /\ \A m : PlayersOf(m)' = PlayersOf(m)
         /\ \A x : Queued(x)' = Queued(x) /\ Offered(x)' = Offered(x)
         /\ \A x, m : HasAccepted(x, m)' = HasAccepted(x, m)
         /\ \A x, t : t \in 1 .. Len(sessions) /\ t # s =>
              Fights(x, t)' = Fights(x, t) /\ PlaysIn(x, t)' = PlaysIn(x, t)
         /\ \A x : PlaysIn(x, s)' <=>
              r.phase \notin {"left", "ended"} /\ x \in PlayersOf(sessions[s].match)
         /\ \A x : StillOwes(x)
<1>1. /\ Len(sessions') = Len(sessions) /\ sessions'[s] = r
      /\ \A t \in 1 .. Len(sessions) : t # s => sessions'[t] = sessions[t]
  BY ExceptSeq DEF Goes, IInv, TypeOK, MatchTypes
<1>2. \A m : PlayersOf(m)' = PlayersOf(m)
  BY DEF Goes, PlayersOf
<1>3. \A x : Queued(x)' = Queued(x) /\ Offered(x)' = Offered(x)
  BY <1>2 DEF Goes, Queued, Offered
<1>4. \A x, m : HasAccepted(x, m)' = HasAccepted(x, m)
  BY DEF Goes, HasAccepted
<1>5. ASSUME NEW x, NEW t \in 1 .. Len(sessions), t # s
      PROVE  Fights(x, t)' = Fights(x, t) /\ PlaysIn(x, t)' = PlaysIn(x, t)
  <2>1. sessions'[t] = sessions[t] /\ matches' = matches
    BY <1>1, <1>5 DEF Goes
  <2>2. PlayersOf(sessions[t].match)' = PlayersOf(sessions[t].match) /\ Loser(t)' = Loser(t)
    BY <2>1 DEF PlayersOf, Loser, PlayerA, PlayerB
  <2> QED BY <2>1, <2>2 DEF Fights, PlaysIn, On
<1>6. \A x : PlaysIn(x, s)' <=>
        r.phase \notin {"left", "ended"} /\ x \in PlayersOf(sessions[s].match)
  <2>1. PlayersOf(sessions[s].match)' = PlayersOf(sessions[s].match)
    BY <1>1 DEF Goes, PlayersOf
  <2> QED BY <1>1, <2>1 DEF PlaysIn, On
<1>7. \A x : StillOwes(x)
  BY <1>2, <1>4 DEF StillOwes, Goes
<1> QED BY <1>1, <1>2, <1>3, <1>4, <1>5, <1>6, <1>7

\* The part of the invariant that is about connections and starting threads.
ConnectionsOK(s, r) ==
  /\ \A x \in Players :
       pc'[x] = "start" => pc[x] = "start" /\ session'[x] = session[x] /\ session[x] # s
  /\ \A x \in PlayersOf(sessions[s].match) :
       r.phase \notin {"built", "left", "ended"} => connState'[x] = "Playing"
  /\ \A x \in Players :
       connState'[x] = connState[x] \/ connState'[x] = "Playing" \/ PlaysIn(x, s)
  /\ r.phase \notin {"left", "ended"} => On(s)

LEMMA GoesKeeps ==
  ASSUME IInv, LInv, NEW s \in 1 .. Len(sessions), NEW r, Goes(s, r), ConnectionsOK(s, r),
         NobodyLeaves', MessagesOnce', UNCHANGED <<ui, accepts, c2s>>,
         \A x \in Players : pc'[x] = pc[x] \/ pc'[x] = "idle",
         \A x \in Players : pc'[x] # "idle" => match'[x] = match[x],
         \A x \in Players : Unmoved(x) \/ \E k \in Place, l \in Place : Moved(x, k, l),
         \A x \in Players :
           /\ Has(s2c'[x], {"MATCH_FOUND"}) => Has(s2c[x], {"MATCH_FOUND"})
           /\ Once(s2c'[x], {"MATCH_FOUND"})
  PROVE  LInv'
<1>1. /\ Len(sessions') = Len(sessions) /\ sessions'[s] = r
      /\ \A t \in 1 .. Len(sessions) : t # s => sessions'[t] = sessions[t]
      /\ \A m : PlayersOf(m)' = PlayersOf(m)
      /\ \A x : Queued(x)' = Queued(x) /\ Offered(x)' = Offered(x)
      /\ \A x, m : HasAccepted(x, m)' = HasAccepted(x, m)
      /\ \A x, t : t \in 1 .. Len(sessions) /\ t # s => PlaysIn(x, t)' = PlaysIn(x, t)
      /\ \A x : PlaysIn(x, s)' <=>
           r.phase \notin {"left", "ended"} /\ x \in PlayersOf(sessions[s].match)
      /\ \A x : StillOwes(x)
  BY GoesFacts
<1>2. UNCHANGED <<playerQueue, matches, pending>>
  BY DEF Goes
<1>3. OneAt'
  BY OneAtKept DEF LInv, Handed
<1>4. InQueueOnce' /\ OfferedOnce' /\ TwoDifferentPlayers'
  BY <1>1, <1>2 DEF LInv, Handed, InQueueOnce, OfferedOnce, TwoDifferentPlayers
<1>5. OnSessions'
  <2>1. SUFFICES ASSUME NEW x \in Players, NEW t \in 1 .. Len(sessions), PlaysIn(x, t)'
                 PROVE  /\ ui'[x] # "New" /\ pc'[x] # "enqueue" /\ ~Queued(x)' /\ ~Offered(x)'
                        /\ \A u \in 1 .. Len(sessions) : PlaysIn(x, u)' => t = u
                        /\ sessions'[t].phase # "built" => connState'[x] = "Playing"
    BY <1>1 DEF OnSessions
  <2>2. \A u \in 1 .. Len(sessions) : PlaysIn(x, u)' => PlaysIn(x, u)
    BY <1>1 DEF ConnectionsOK, PlaysIn
  <2>3. /\ ui[x] # "New" /\ pc[x] # "enqueue" /\ ~Queued(x) /\ ~Offered(x)
        /\ \A u \in 1 .. Len(sessions) : PlaysIn(x, u) => t = u
        /\ sessions[t].phase # "built" => connState[x] = "Playing"
    BY <2>1, <2>2 DEF LInv, Playable, OnSessions
  <2>4. sessions'[t].phase # "built" => connState'[x] = "Playing"
    <3>1. CASE t = s
      BY <1>1, <2>1, <3>1 DEF ConnectionsOK
    <3>2. CASE t # s
      BY <1>1, <2>1, <2>3, <3>2 DEF ConnectionsOK
    <3> QED BY <3>1, <3>2
  <2> QED BY <1>1, <2>2, <2>3, <2>4
<1>6. StartsOne'
  <2>1. \A x \in Players : pc[x] = "start" => session[x] \in 1 .. Len(sessions)
    BY DEF IInv, LocalsOK
  <2> QED BY <1>1, <2>1 DEF LInv, Playable, StartsOne, ConnectionsOK
<1>7. \A x \in Players : Waited(x)
  <2>1. \A q \in Players, x \in Players : Tells(q, x)' => Tells(q, x)
    BY <1>1, <1>2 DEF Tells
  <2> QED BY <2>1 DEF Waited, Accepts
<1>8. OneStage'
  BY <1>7, OneStageKept DEF LInv, Acceptable
<1>9. Awaited'
  BY <1>1, <1>7, WaitedAccepts, AwaitedKept DEF LInv, Acceptable
<1>10. AcceptsOnce'
  BY DEF LInv, Acceptable, AcceptsOnce
<1>11. AcceptsPending'
  <2>1. SUFFICES ASSUME NEW x \in Players, pc'[x] = "accept"
                 PROVE  match'[x] \in pending /\ x \in PlayersOf(match[x])' /\ match'[x] = match[x]
    BY <1>2 DEF AcceptsPending, PlayersOf
  <2>2. pc[x] = "accept" /\ match'[x] = match[x]
    BY <2>1
  <2>3. match[x] \in pending /\ x \in PlayersOf(match[x])
    BY <2>2 DEF LInv, Acceptable, AcceptsPending
  <2>4. \A m : m = match[x] => x \in PlayersOf(m)'
    BY <1>1, <2>3
  <2> QED BY <2>2, <2>3, <2>4 DEF PlayersOf
<1> QED BY <1>3, <1>4, <1>5, <1>6, <1>8, <1>9, <1>10, <1>11
        DEF LInv, Handed, Playable, Acceptable

\* Nobody is put anywhere, if nobody fights in session s who did not.
LEMMA GoesUnmoved ==
  ASSUME IInv, NEW s \in 1 .. Len(sessions), NEW r, Goes(s, r), UNCHANGED <<ui, c2s>>, NEW x \in Players,
         pc'[x] = pc[x] \/ pc'[x] = "idle",
         Fights(x, s)' => Fights(x, s), Has(s2c'[x], Results) => Has(s2c[x], Results)
  PROVE  Unmoved(x)
<1>1. /\ Len(sessions') = Len(sessions)
      /\ \A t \in 1 .. Len(sessions) : t # s => Fights(x, t)' = Fights(x, t)
      /\ Queued(x)' = Queued(x) /\ Offered(x)' = Offered(x)
  BY GoesFacts
<1>2. Fighting(x)' => Fighting(x)
  BY <1>1 DEF Fighting
<1> QED BY <1>1, <1>2 DEF Unmoved, At, Resulted

LEMMA StartSessionKeeps ==
  ASSUME IInv, LInv, NEW p \in Players, StartSession(p)
  PROVE  LInv'
<1>1. /\ pc[p] = "start" /\ pc'[p] = "idle" /\ session[p] \in 1 .. Len(sessions)
      /\ \A x \in Players \ {p} : pc'[x] = pc[x] /\ match'[x] = match[x] /\ session'[x] = session[x]
      /\ UNCHANGED <<ui, accepts, c2s, s2c, playerQueue, matches, pending, who, back>>
  BY DEF StartSession, Goto, IInv, TypeOK, ThreadTypes, LocalsOK, clientVars, queueVars
<1>2. PICK s \in 1 .. Len(sessions) : s = session[p]
  BY <1>1
<1>3. sessions[s] \in MatchSession /\ sessions[s].match \in 1 .. Len(matches) /\ sessions[s].phase = "built"
  BY <1>1, <1>2, SessionPlayers DEF LInv, Playable, StartsOne, IInv, LocalsOK
<1>4. PICK r \in MatchSession : r = [sessions[s] EXCEPT !.phase = "spawned"]
  BY <1>3 DEF MatchSession, Phase
<1>5. Goes(s, r) /\ r.phase = "spawned"
  <2>1. sessions' = [sessions EXCEPT ![s] = r]
    BY <1>2, <1>4 DEF StartSession
  <2> QED BY <1>1, <1>3, <1>4, <2>1 DEF Goes, MatchSession
<1>6. \A x \in Players :
        connState'[x] = IF x \in PlayersOf(sessions[s].match) THEN "Playing" ELSE connState[x]
  BY <1>2 DEF StartSession, PlayersOf, IInv, TypeOK, NetTypes
<1>7. ConnectionsOK(s, r)
  <2>1. \A x \in Players :
          pc'[x] = "start" => pc[x] = "start" /\ session'[x] = session[x] /\ session[x] # s
    BY <1>1, <1>2 DEF LInv, Playable, StartsOne
  <2>2. PlayersOf(sessions[s].match) \subseteq Players
    BY <1>3, MatchRecord DEF IInv, TypeOK, PlayersOf
  <2> QED BY <1>3, <1>6, <2>1, <2>2 DEF ConnectionsOK, On
<1>8. NobodyLeaves' /\ MessagesOnce'
  BY <1>1 DEF LInv, NobodyLeaves, Serving, Handed, MessagesOnce
<1>9. \A x \in Players : Unmoved(x)
  <2>1. \A x \in Players : Fights(x, s)' => Fights(x, s)
    <3>1. sessions'[s] = r /\ \A m : PlayersOf(m)' = PlayersOf(m)
      BY <1>5, GoesFacts
    <3>2. PlayersOf(sessions[s].match)' = PlayersOf(sessions[s].match)
      BY <1>1, <1>5, <3>1 DEF Goes, PlayersOf
    <3> QED BY <1>3, <1>5, <3>1, <3>2 DEF Fights
  <2> QED BY <1>1, <1>5, <2>1, GoesUnmoved
<1>10. \A x \in Players :
         /\ Has(s2c'[x], {"MATCH_FOUND"}) => Has(s2c[x], {"MATCH_FOUND"})
         /\ Once(s2c'[x], {"MATCH_FOUND"})
  BY <1>1 DEF LInv, Acceptable, AcceptsOnce
<1>11. \A x \in Players : pc'[x] = pc[x] \/ pc'[x] = "idle"
  BY <1>1
<1>12. \A x \in Players : pc'[x] # "idle" => match'[x] = match[x]
  BY <1>1
<1> QED BY <1>1, <1>5, <1>7, <1>8, <1>9, <1>10, <1>11, <1>12, GoesKeeps

\* A game thread changes its own session and leaves the read threads where they are.
LEMMA ConnectionsStay ==
  ASSUME IInv, LInv, NEW s \in 1 .. Len(sessions), NEW r, sessions[s].phase # "built",
         r.phase \notin {"left", "ended"} => On(s), UNCHANGED <<connState, pc, session>>
  PROVE  ConnectionsOK(s, r)
<1>1. \A x \in Players : pc[x] = "start" => session[x] # s
  BY DEF LInv, Playable, StartsOne
<1>2. \A x \in PlayersOf(sessions[s].match) : x \in Players
  <2>1. sessions[s].match \in 1 .. Len(matches)
    BY DEF IInv, LocalsOK
  <2> QED BY <2>1, MatchRecord DEF IInv, TypeOK, PlayersOf
<1>3. \A x \in PlayersOf(sessions[s].match) : On(s) => connState[x] = "Playing"
  BY <1>2 DEF LInv, Playable, OnSessions, PlaysIn
<1> QED BY <1>1, <1>3 DEF ConnectionsOK

\* Nothing in box is news of an acceptance or a result.
SaysNoMore(box) ==
  /\ box \in [Players -> Seq(ServerMessage)]
  /\ \A x \in Players, ms \in {Results, {"MATCH_FOUND"}} :
       (Has(box[x], ms) <=> Has(s2c[x], ms)) /\ Once(box[x], ms)

LEMMA SaysNoMoreSend ==
  ASSUME IInv, LInv, NEW box, SaysNoMore(box), NEW y \in Players,
         NEW e \in {"MATCH_START", "OPPONENT_DISCONNECTED"}
  PROVE  SaysNoMore(Send(box, y, e))
<1>1. e \in ServerMessage /\ e \notin Results /\ e \notin {"MATCH_FOUND"}
  BY DEF ServerMessage, Results
<1>2. box \in [Players -> Seq(ServerMessage)]
  BY DEF SaysNoMore
<1>3. Send(box, y, e) \in [Players -> Seq(ServerMessage)]
  BY <1>1, <1>2, SendType
<1>4. \A x \in Players, ms \in {Results, {"MATCH_FOUND"}} :
        /\ Has(Send(box, y, e)[x], ms) <=> Has(box[x], ms)
        /\ Once(box[x], ms) => Once(Send(box, y, e)[x], ms)
  <2>1. SUFFICES ASSUME NEW x \in Players, NEW ms \in {Results, {"MATCH_FOUND"}}
                 PROVE  /\ Has(Send(box, y, e)[x], ms) <=> Has(box[x], ms)
                        /\ Once(box[x], ms) => Once(Send(box, y, e)[x], ms)
    OBVIOUS
  <2>2. /\ Has(Send(box, y, e)[x], ms) <=> Has(box[x], ms) \/ (x = y /\ e \in ms)
        /\ Once(box[x], ms) /\ (x = y /\ e \in ms => ~Has(box[x], ms))
             => Once(Send(box, y, e)[x], ms)
    BY <1>1, <1>2, SendHas DEF LInv
  <2>3. e \notin ms
    BY <1>1
  <2> QED BY <2>2, <2>3
<1> QED BY <1>3, <1>4 DEF SaysNoMore

LEMMA SaysNothing ==
  ASSUME IInv, LInv
  PROVE  SaysNoMore(s2c)
BY DEF SaysNoMore, IInv, TypeOK, NetTypes, LInv, Handed, MessagesOnce, Acceptable, AcceptsOnce

\* A step that tells nobody the result.
LEMMA QuietSession ==
  ASSUME IInv, LInv, NEW s \in 1 .. Len(sessions), NEW r, Goes(s, r), ConnectionsOK(s, r),
         UNCHANGED <<ui, accepts, c2s, pc, who, match, session, back>>,
         \A x \in Players : Fights(x, s)' => Fights(x, s), SaysNoMore(s2c')
  PROVE  LInv'
<1>1. \A x \in Players, ms \in {Results, {"MATCH_FOUND"}} :
        (Has(s2c'[x], ms) <=> Has(s2c[x], ms)) /\ Once(s2c'[x], ms)
  BY DEF SaysNoMore
<1>2. \A x \in Players :
        /\ Has(s2c'[x], Results) <=> Has(s2c[x], Results)
        /\ Once(s2c'[x], Results)
        /\ Has(s2c'[x], {"MATCH_FOUND"}) => Has(s2c[x], {"MATCH_FOUND"})
        /\ Once(s2c'[x], {"MATCH_FOUND"})
  BY <1>1
<1>3. NobodyLeaves' /\ MessagesOnce'
  BY <1>2 DEF LInv, NobodyLeaves, Handed, MessagesOnce
<1>4. \A x \in Players : Unmoved(x)
  BY <1>2, GoesUnmoved
<1> QED BY <1>2, <1>3, <1>4, GoesKeeps

\* Player y is told the result, and has stopped fighting.
LEMMA ToldSession ==
  ASSUME IInv, LInv, NEW s \in 1 .. Len(sessions), NEW r, Goes(s, r), ConnectionsOK(s, r),
         UNCHANGED <<ui, accepts, c2s, pc, who, match, session, back>>,
         NEW y \in Players, Fights(y, s), ~Fights(y, s)',
         \A x \in Players : Fights(x, s)' => Fights(x, s),
         NEW box, SaysNoMore(box), NEW e \in Results, s2c' = Send(box, y, e)
  PROVE  LInv'
<1>1. box \in [Players -> Seq(ServerMessage)] /\ e \in ServerMessage /\ e \notin {"MATCH_FOUND"}
  BY DEF SaysNoMore, Results, ServerMessage
<1>2. At(y, "fighting") /\ ~Resulted(y)
  <2>1. At(y, "fighting") /\ (Resulted(y) => At(y, "resulted"))
    BY DEF At, Fighting
  <2> QED BY <2>1 DEF LInv, Handed, OneAt, Place
<1>3. \A x \in Players, ms \in {Results, {"MATCH_FOUND"}} :
        /\ Has(s2c'[x], ms) <=> Has(box[x], ms) \/ (x = y /\ e \in ms)
        /\ Once(box[x], ms) /\ (x = y /\ e \in ms => ~Has(box[x], ms)) => Once(s2c'[x], ms)
  <2>1. SUFFICES ASSUME NEW x \in Players, NEW ms \in {Results, {"MATCH_FOUND"}}
                 PROVE  /\ Has(s2c'[x], ms) <=> Has(box[x], ms) \/ (x = y /\ e \in ms)
                        /\ Once(box[x], ms) /\ (x = y /\ e \in ms => ~Has(box[x], ms))
                             => Once(s2c'[x], ms)
    OBVIOUS
  <2>2. /\ Has(Send(box, y, e)[x], ms) <=> Has(box[x], ms) \/ (x = y /\ e \in ms)
        /\ Once(box[x], ms) /\ (x = y /\ e \in ms => ~Has(box[x], ms))
             => Once(Send(box, y, e)[x], ms)
    <3>1. NobodyLeaves
      BY DEF LInv
    <3> QED BY ONLY <1>1, <3>1, y \in Players, x \in Players, SendHas
  <2> QED BY <2>2
<1>4. \A x \in Players, ms \in {Results, {"MATCH_FOUND"}} :
        (Has(box[x], ms) <=> Has(s2c[x], ms)) /\ Once(box[x], ms)
  BY DEF SaysNoMore
<1>5. \A x \in Players :
        /\ Has(s2c'[x], Results) <=> Has(s2c[x], Results) \/ x = y
        /\ Once(s2c'[x], Results)
        /\ Has(s2c'[x], {"MATCH_FOUND"}) => Has(s2c[x], {"MATCH_FOUND"})
        /\ Once(s2c'[x], {"MATCH_FOUND"})
  BY <1>1, <1>2, <1>3, <1>4 DEF Resulted
<1>6. NobodyLeaves' /\ MessagesOnce'
  <2>1. ui[y] # "Over"
    BY <1>2 DEF Resulted
  <2> QED BY <1>5, <2>1 DEF LInv, NobodyLeaves, Handed, MessagesOnce
<1>7. \A x \in Players \ {y} : Unmoved(x)
  BY <1>5, GoesUnmoved
<1>8. Moved(y, "fighting", "resulted")
  <2>1. /\ Len(sessions') = Len(sessions)
        /\ \A t \in 1 .. Len(sessions) : t # s => Fights(y, t)' = Fights(y, t)
        /\ Queued(y)' = Queued(y) /\ Offered(y)' = Offered(y)
    BY GoesFacts
  <2>2. \A t \in 1 .. Len(sessions) : Fights(y, t) => PlaysIn(y, t)
    BY DEF Fights, PlaysIn, On
  <2>3. \A t \in 1 .. Len(sessions) : Fights(y, t) => t = s
    BY <2>2 DEF LInv, Playable, OnSessions
  <2>4. ~Fighting(y)'
    BY <2>1, <2>3 DEF Fighting
  <2>5. ~At(y, "fighting")'
    BY <2>4 DEF At
  <2>6. \A k \in Place : At(y, k)' => k = "resulted" \/ At(y, k)
    BY <2>1, <2>4 DEF At
  <2> QED BY <1>2, <2>5, <2>6 DEF Moved
<1>9. \A x \in Players : Unmoved(x) \/ \E k \in Place, l \in Place : Moved(x, k, l)
  <2>1. "fighting" \in Place /\ "resulted" \in Place
    BY DEF Place
  <2> QED BY <1>7, <1>8, <2>1
<1> QED BY <1>5, <1>6, <1>9, GoesKeeps

LEMMA EndMatchKeeps ==
  ASSUME IInv, LInv, NEW s \in 1 .. Len(sessions), sessions[s].phase = "running",
         NEW w \in {PlayerA(s), PlayerB(s)}, NEW box, SaysNoMore(box), EndMatch(s, w, box)
  PROVE  LInv'
<1>1. /\ sessions[s] \in MatchSession /\ sessions[s].match \in 1 .. Len(matches)
      /\ PlayerA(s) \in Players /\ PlayerB(s) \in Players /\ PlayerA(s) # PlayerB(s)
      /\ PlayersOf(sessions[s].match) = {PlayerA(s), PlayerB(s)}
  BY SessionPlayers DEF IInv, LocalsOK, LInv, TwoDifferentPlayers, PlayerA, PlayerB, PlayersOf
<1>2. w \in Players
  BY <1>1
<1>3. PICK r \in MatchSession : r = [sessions[s] EXCEPT !.phase = "rewarding", !.winner = w]
  BY <1>1, <1>2 DEF MatchSession, Phase
<1>4. /\ Goes(s, r) /\ r.phase = "rewarding" /\ r.winner = w /\ r.match = sessions[s].match
      /\ s2c' = Send(box, w, "MATCH_WON")
      /\ UNCHANGED <<ui, accepts, c2s, connState, pc, who, match, session, back>>
  <2>1. sessions' = [sessions EXCEPT ![s] = r]
    BY <1>3 DEF EndMatch
  <2>2. r.phase = "rewarding" /\ r.winner = w /\ r.match = sessions[s].match
    BY <1>1, <1>3 DEF MatchSession
  <2> QED BY <2>1, <2>2 DEF EndMatch, Goes, clientVars, queueVars, threadVars
<1>5. ConnectionsOK(s, r)
  <2>1. sessions[s].phase # "built" /\ On(s)
    BY DEF On
  <2> QED BY <1>4, <2>1, ConnectionsStay
<1>6. Fights(w, s)
  BY <1>1 DEF Fights
<1>7. sessions'[s] = r /\ \A m : PlayersOf(m)' = PlayersOf(m)
  BY <1>4, GoesFacts
<1>8. Loser(s)' # w
  BY <1>1, <1>4, <1>7 DEF Loser, PlayerA, PlayerB, Goes
<1>9. ~Fights(w, s)'
  BY <1>4, <1>7, <1>8 DEF Fights
<1>10. \A x \in Players : Fights(x, s)' => Fights(x, s)
  <2>1. PlayersOf(sessions[s].match)' = PlayersOf(sessions[s].match)
    BY <1>4, <1>7 DEF PlayersOf, Goes
  <2> QED BY <2>1 DEF Fights
<1>11. "MATCH_WON" \in Results
  BY DEF Results
<1> QED BY <1>2, <1>4, <1>5, <1>6, <1>9, <1>10, <1>11, ToldSession

LEMMA GameThreadKeeps ==
  ASSUME IInv, LInv, NEW s \in 1 .. Len(sessions), GameThread(s)
  PROVE  LInv'
<1>1. /\ sessions[s] \in MatchSession /\ sessions[s].match \in 1 .. Len(matches)
      /\ PlayerA(s) \in Players /\ PlayerB(s) \in Players /\ PlayerA(s) # PlayerB(s)
      /\ PlayersOf(sessions[s].match) = {PlayerA(s), PlayerB(s)}
      /\ Loser(s) \in {PlayerA(s), PlayerB(s)}
  BY SessionPlayers DEF IInv, LocalsOK, LInv, TwoDifferentPlayers, PlayerA, PlayerB, PlayersOf, Loser
<1>2. SaysNoMore(s2c)
  BY SaysNothing
<1>3. ASSUME NEW ph \in Phase, sessions' = [sessions EXCEPT ![s].phase = ph],
             UNCHANGED <<playerQueue, matches, pending>>
      PROVE  \E r \in MatchSession :
               /\ Goes(s, r) /\ r.phase = ph
               /\ sessions'[s] = r /\ r.winner = sessions[s].winner
               /\ \A x : Fights(x, s)' <=>
                    /\ x \in PlayersOf(sessions[s].match)
                    /\ ph \in {"built", "spawned", "running"} \/ (ph = "rewarding" /\ x = Loser(s))
  <2>1. PICK r \in MatchSession : r = [sessions[s] EXCEPT !.phase = ph]
    BY <1>1 DEF MatchSession
  <2>2. r.phase = ph /\ r.winner = sessions[s].winner /\ r.match = sessions[s].match
    BY <1>1, <2>1 DEF MatchSession
  <2>3. Goes(s, r)
    BY <1>3, <2>1, <2>2 DEF Goes
  <2>4. sessions'[s] = r
    BY <2>3, GoesFacts
  <2>5. PlayersOf(sessions[s].match)' = PlayersOf(sessions[s].match) /\ Loser(s)' = Loser(s)
    BY <1>3, <2>2, <2>4 DEF PlayersOf, Loser, PlayerA, PlayerB
  <2>6. \A x : Fights(x, s)' <=>
          /\ x \in PlayersOf(sessions[s].match)
          /\ ph \in {"built", "spawned", "running"} \/ (ph = "rewarding" /\ x = Loser(s))
    BY <2>2, <2>4, <2>5 DEF Fights
  <2> QED BY <2>2, <2>3, <2>4, <2>6
<1>4. CASE SendMatchStart(s)
  <2>1. /\ sessions[s].phase = "spawned" /\ sessions' = [sessions EXCEPT ![s].phase = "running"]
        /\ s2c' = Send(Send(s2c, PlayerA(s), "MATCH_START"), PlayerB(s), "MATCH_START")
        /\ UNCHANGED <<ui, accepts, c2s, connState, pc, who, match, session, back, playerQueue,
                       matches, pending>>
    BY <1>4 DEF SendMatchStart, clientVars, queueVars, threadVars
  <2>2. PICK r \in MatchSession :
          /\ Goes(s, r) /\ r.phase = "running"
          /\ \A x : Fights(x, s)' <=> x \in PlayersOf(sessions[s].match)
    BY <1>3, <2>1 DEF Phase
  <2>3. ConnectionsOK(s, r)
    <3>1. sessions[s].phase # "built" /\ On(s)
      BY <2>1 DEF On
    <3> QED BY <2>1, <3>1, ConnectionsStay
  <2>4. SaysNoMore(s2c')
    BY <1>1, <1>2, <2>1, SaysNoMoreSend
  <2>5. \A x \in Players : Fights(x, s)' => Fights(x, s)
    BY <2>1, <2>2 DEF Fights
  <2> QED BY <2>1, <2>2, <2>3, <2>4, <2>5, QuietSession
<1>5. CASE HandleDisconnect(s)
  <2>1. PICK w \in {PlayerA(s), PlayerB(s)} :
          EndMatch(s, w, IF alive[w] THEN Send(s2c, w, "OPPONENT_DISCONNECTED") ELSE s2c)
    BY <1>5 DEF HandleDisconnect
  <2>2. SaysNoMore(IF alive[w] THEN Send(s2c, w, "OPPONENT_DISCONNECTED") ELSE s2c)
    BY <1>1, <1>2, SaysNoMoreSend
  <2>3. sessions[s].phase = "running"
    BY <1>5 DEF HandleDisconnect
  <2> QED BY <2>1, <2>2, <2>3, EndMatchKeeps
<1>6. CASE \E winner \in Players : GameOver(s, winner)
  <2>1. PICK w \in {PlayerA(s), PlayerB(s)} : EndMatch(s, w, s2c) /\ sessions[s].phase = "running"
    BY <1>6 DEF GameOver
  <2> QED BY <1>2, <2>1, EndMatchKeeps
<1>7. CASE SendMatchLost(s)
  <2>1. /\ sessions[s].phase = "rewarding" /\ sessions' = [sessions EXCEPT ![s].phase = "told"]
        /\ s2c' = Send(s2c, Loser(s), "MATCH_LOST")
        /\ UNCHANGED <<ui, accepts, c2s, connState, pc, who, match, session, back, playerQueue,
                       matches, pending>>
    BY <1>7 DEF SendMatchLost, clientVars, queueVars, threadVars
  <2>2. PICK r \in MatchSession : Goes(s, r) /\ r.phase = "told" /\ \A x : ~Fights(x, s)'
    BY <1>3, <2>1 DEF Phase
  <2>3. ConnectionsOK(s, r)
    <3>1. sessions[s].phase # "built" /\ On(s)
      BY <2>1 DEF On
    <3> QED BY <2>1, <3>1, ConnectionsStay
  <2>4. Fights(Loser(s), s) /\ Loser(s) \in Players /\ "MATCH_LOST" \in Results
    BY <1>1, <2>1 DEF Fights, Results
  <2> QED BY <1>2, <2>1, <2>2, <2>3, <2>4, ToldSession
<1>8. CASE BackToWaiting(s)
  <2>1. /\ sessions[s].phase = "told" /\ sessions' = [sessions EXCEPT ![s].phase = "left"]
        /\ connState' = [connState EXCEPT ![PlayerA(s)] = "Waiting", ![PlayerB(s)] = "Waiting"]
        /\ UNCHANGED <<ui, accepts, c2s, s2c, pc, who, match, session, back, playerQueue,
                       matches, pending>>
    BY <1>8 DEF BackToWaiting, clientVars, queueVars, threadVars
  <2>2. PICK r \in MatchSession : Goes(s, r) /\ r.phase = "left" /\ \A x : ~Fights(x, s)'
    BY <1>3, <2>1 DEF Phase
  <2>3. ConnectionsOK(s, r)
    <3>1. \A x \in Players : connState'[x] = connState[x] \/ PlaysIn(x, s)
      BY <1>1, <2>1 DEF PlaysIn, On, IInv, TypeOK, NetTypes
    <3>2. \A x \in Players : pc[x] = "start" => session[x] # s
      BY <2>1 DEF LInv, Playable, StartsOne
    <3> QED BY <2>1, <2>2, <3>1, <3>2 DEF ConnectionsOK
  <2> QED BY <1>2, <2>1, <2>2, <2>3, QuietSession
<1>9. CASE OnMatchEnd(s)
  <2>1. /\ sessions[s].phase = "left" /\ sessions' = [sessions EXCEPT ![s].phase = "ended"]
        /\ UNCHANGED <<ui, accepts, c2s, s2c, connState, pc, who, match, session, back, playerQueue,
                       matches, pending>>
    BY <1>9 DEF OnMatchEnd, clientVars, netVars, queueVars, threadVars
  <2>2. PICK r \in MatchSession : Goes(s, r) /\ r.phase = "ended" /\ \A x : ~Fights(x, s)'
    BY <1>3, <2>1 DEF Phase
  <2>3. ConnectionsOK(s, r)
    <3>1. sessions[s].phase # "built"
      BY <2>1
    <3> QED BY <2>1, <2>2, <3>1, ConnectionsStay
  <2> QED BY <1>2, <2>1, <2>2, <2>3, QuietSession
<1> QED BY <1>4, <1>5, <1>6, <1>7, <1>8, <1>9 DEF GameThread, Ending

-----------------------------------------------------------------------------
(***************************************************************************)
(* The invariant                                                           *)
(***************************************************************************)

LEMMA OnAcceptKeeps ==
  ASSUME IInv, LInv, NEW p \in Players, OnAccept(p)
  PROVE  LInv'
BY AcceptFacts, FirstAcceptKeeps, LastAcceptKeeps

LEMMA IdleKeeps ==
  ASSUME LInv, UNCHANGED <<ui, accepts, c2s, s2c, connState, playerQueue, matches, pending, sessions,
                           pc, who, match, session, back>>
  PROVE  LInv'
BY DEF LInv, NobodyLeaves, Handed, OneAt, At, Queued, Offered, Fighting, Fights, Resulted, PlayersOf,
       Loser, PlayerA, PlayerB, InQueueOnce, OfferedOnce, MessagesOnce, Playable, OnSessions, PlaysIn,
       On, StartsOne, Acceptable, OneStage, Accepts, Tells, AcceptsOnce, Awaited, HasAccepted,
       AcceptsPending, TwoDifferentPlayers

LEMMA NextLInv ==
  ASSUME Leavers = {}, MaxAccepts <= 1, IInv, LInv, [Next]_vars
  PROVE  LInv'
<1>1. CASE \E p \in Players : Client(p)
  <2>1. PICK p \in Players : Client(p)
    BY <1>1
  <2>2. CASE ClientConnect(p)
    <3>1. "player_info" \in Asks /\ ui[p] \in {"New", "Over"}
      BY <2>2 DEF ClientConnect, Asks
    <3> QED BY <2>2, <3>1, ClientAsks DEF ClientConnect
  <2>3. CASE ClientRequeue(p)
    <3>1. "QUEUE" \in Asks /\ ui[p] \in {"New", "Over"}
      BY <2>3 DEF ClientRequeue, Asks
    <3> QED BY <2>3, <3>1, ClientAsks DEF ClientRequeue
  <2>4. ~ClientLeave(p)
    BY NobodyGoes DEF LInv
  <2> QED BY <2>1, <2>2, <2>3, <2>4, ClientReceiveKeeps, ClientAcceptKeeps DEF Client
<1>2. CASE \E p \in Players : ReadThread(p)
  <2>1. PICK p \in Players : ReadThread(p)
    BY <1>2
  <2>2. /\ ~ReadEof(p) /\ ~RemovePlayer(p) /\ ~FindDisconnected(p) /\ ~RemovePending(p)
        /\ ~SendMatchCancelled(p)
    BY NobodyGoes DEF LInv
  <2> QED BY <2>1, <2>2, ReadEnqueueKeeps, ReadAcceptKeeps, ReadInGameKeeps, EnqueuePlayerKeeps,
             TryCreateMatchKeeps, SendMatchFoundAKeeps, SendMatchFoundBKeeps, OnAcceptKeeps,
             StartSessionKeeps DEF ReadThread
<1>3. CASE DisconnectThread
  BY <1>3, IdleKeeps DEF DisconnectThread, TakeDisconnect, JoinReadThread, clientVars, netVars,
     queueVars, matchVars, threadVars
<1>4. CASE \E s \in 1 .. Len(sessions) : GameThread(s)
  BY <1>4, GameThreadKeeps
<1>5. CASE UNCHANGED vars
  BY <1>5, IdleKeeps DEF vars, clientVars, netVars, queueVars, matchVars, threadVars
<1> QED BY <1>1, <1>2, <1>3, <1>4, <1>5 DEF Next

LEMMA InitLInv == Init => LInv
<1> SUFFICES ASSUME Init PROVE LInv
  OBVIOUS
<1>1. Len(<<>>) = 0 /\ \A ms : ~Has(<<>>, ms) /\ Once(<<>>, ms)
  BY EmptySeq DEF Has, Once
<1>2. NobodyLeaves /\ Playable /\ TwoDifferentPlayers
  BY <1>1 DEF Init, NobodyLeaves, Serving, Playable, OnSessions, StartsOne, TwoDifferentPlayers
<1>3. Handed
  BY <1>1 DEF Init, Handed, OneAt, At, Queued, Offered, Fighting, Resulted, InQueueOnce, OfferedOnce,
              MessagesOnce
<1>4. Acceptable
  BY <1>1 DEF Init, Acceptable, OneStage, Accepts, Tells, AcceptsOnce, Awaited, AcceptsPending
<1> QED BY <1>2, <1>3, <1>4 DEF LInv

-----------------------------------------------------------------------------
(***************************************************************************)
(* Seats                                                                   *)
(***************************************************************************)

OpponentIn(x, s) == Other(sessions[s].match, x)

\* What the queue, the pending matches and the sessions say of player x.
SitsAt(x, seat, other) ==
  \/ seat = "waiting" /\ other = None /\ Queued(x)
  \/ seat = "offered" /\ \E m \in pending : x \in PlayersOf(m) /\ other = Other(m, x)
  \/ seat = "playing" /\ \E s \in 1 .. Len(sessions) : PlaysIn(x, s) /\ other = OpponentIn(x, s)
  \/ seat = "away" /\ other = None /\ ~Queued(x) /\ ~Offered(x) /\ ~Playing(x)

\* They never contradict each other, and say what the refinement mapping says.
SeatsAgree ==
  \A x \in Players : \A seat, other :
    SitsAt(x, seat, other) => SeatOf(x) = seat /\ OpponentOf(x) = other

LEMMA InvSeatsAgree == IInv /\ LInv => SeatsAgree
<1> SUFFICES ASSUME IInv, LInv, NEW x \in Players, NEW seat, NEW other, SitsAt(x, seat, other)
             PROVE  SeatOf(x) = seat /\ OpponentOf(x) = other
  BY DEF SeatsAgree
<1>1. \A s \in 1 .. Len(sessions) : PlaysIn(x, s) => ~Queued(x) /\ ~Offered(x)
  BY DEF LInv, Playable, OnSessions
<1>2. Playing(x) => ~Queued(x) /\ ~Offered(x)
  BY <1>1 DEF Playing, PlaysIn
<1>3. Offered(x) => ~Queued(x)
  <2>1. At(x, "queued") /\ At(x, "offered") => "queued" = "offered"
    BY DEF LInv, Handed, OneAt, Place
  <2> QED BY <2>1 DEF At
<1>4. CASE seat = "waiting" /\ other = None /\ Queued(x)
  BY <1>2, <1>3, <1>4 DEF SeatOf, OpponentOf
<1>5. CASE seat = "away" /\ other = None /\ ~Queued(x) /\ ~Offered(x) /\ ~Playing(x)
  BY <1>5 DEF SeatOf, OpponentOf
<1>6. ASSUME NEW m \in pending, seat = "offered", x \in PlayersOf(m), other = Other(m, x)
      PROVE  SeatOf(x) = seat /\ OpponentOf(x) = other
  <2>1. Offered(x) /\ ~Playing(x) /\ m \in 1 .. Len(matches)
    BY <1>2, <1>6 DEF Offered, IInv, TypeOK, MatchTypes
  <2>2. \A k \in 1 .. Len(matches) :
          /\ x \in PlayersOf(k)
          /\ k \in pending \/ \E s \in 1 .. Len(sessions) : On(s) /\ sessions[s].match = k
          <=> k = m
    BY <1>6, <2>1 DEF Playing, LInv, Handed, OfferedOnce
  <2>3. MatchOf(x) = m
    BY <2>1, <2>2 DEF MatchOf
  <2> QED BY <1>6, <2>1, <2>3 DEF SeatOf, OpponentOf
<1>7. ASSUME NEW s \in 1 .. Len(sessions), seat = "playing", PlaysIn(x, s), other = OpponentIn(x, s)
      PROVE  SeatOf(x) = seat /\ OpponentOf(x) = other
  <2>1. Playing(x) /\ ~Offered(x) /\ sessions[s].match \in 1 .. Len(matches)
    BY <1>2, <1>7 DEF Playing, PlaysIn, IInv, LocalsOK
  <2>2. \A t \in 1 .. Len(sessions) : PlaysIn(x, t) => s = t
    BY <1>7 DEF LInv, Playable, OnSessions
  <2>3. \A k \in 1 .. Len(matches) :
          /\ x \in PlayersOf(k)
          /\ k \in pending \/ \E t \in 1 .. Len(sessions) : On(t) /\ sessions[t].match = k
          <=> k = sessions[s].match
    BY <1>7, <2>1, <2>2 DEF Offered, PlaysIn
  <2>4. MatchOf(x) = sessions[s].match
    BY <2>1, <2>3 DEF MatchOf
  <2> QED BY <1>7, <2>1, <2>4 DEF SeatOf, OpponentOf, OpponentIn
<1> QED BY <1>4, <1>5, <1>6, <1>7 DEF SitsAt

LEMMA InvSeatsAgreeNext == (IInv /\ LInv)' => SeatsAgree'
BY InvSeatsAgree, PTL

\* A player whom the step does not concern.
Stays(x) == \A seat, other : SitsAt(x, seat, other) => SitsAt(x, seat, other)'

LEMMA StaysSeated ==
  ASSUME SeatsAgree, SeatsAgree', NEW x \in Players, Stays(x)
  PROVE  SeatOf(x)' = SeatOf(x) /\ OpponentOf(x)' = OpponentOf(x)
<1>1. PICK seat, other : SitsAt(x, seat, other)
  BY DEF SitsAt, Offered, Playing, PlaysIn
<1>2. SitsAt(x, seat, other)'
  BY <1>1 DEF Stays
<1>3. SeatOf(x) = seat /\ OpponentOf(x) = other
  BY <1>1 DEF SeatsAgree
<1>4. SeatOf(x)' = seat /\ OpponentOf(x)' = other
  BY <1>2 DEF SeatsAgree
<1> QED BY <1>3, <1>4

LEMMA QuietStays ==
  ASSUME NEW x, Queued(x)' <=> Queued(x), Offered(x)' => Offered(x), Playing(x)' => Playing(x),
         \A m \in pending : x \in PlayersOf(m) =>
           m \in pending' /\ x \in PlayersOf(m)' /\ Other(m, x)' = Other(m, x),
         \A s \in 1 .. Len(sessions) : PlaysIn(x, s) =>
           s \in 1 .. Len(sessions') /\ PlaysIn(x, s)' /\ OpponentIn(x, s)' = OpponentIn(x, s)
  PROVE  Stays(x)
<1> SUFFICES ASSUME NEW seat, NEW other, SitsAt(x, seat, other)
             PROVE  SitsAt(x, seat, other)'
  BY DEF Stays
<1>1. CASE seat = "waiting" /\ other = None /\ Queued(x)
  BY <1>1 DEF SitsAt
<1>2. CASE seat = "away" /\ other = None /\ ~Queued(x) /\ ~Offered(x) /\ ~Playing(x)
  BY <1>2 DEF SitsAt
<1>3. CASE seat = "offered" /\ \E m \in pending : x \in PlayersOf(m) /\ other = Other(m, x)
  BY <1>3 DEF SitsAt
<1>4. CASE seat = "playing" /\ \E s \in 1 .. Len(sessions) : PlaysIn(x, s) /\ other = OpponentIn(x, s)
  BY <1>4 DEF SitsAt
<1> QED BY <1>1, <1>2, <1>3, <1>4 DEF SitsAt

SeatsStep == [Seats!Next]_<<[p \in Players |-> SeatOf(p)], [p \in Players |-> OpponentOf(p)]>>

LEMMA EverybodyStays ==
  ASSUME SeatsAgree, SeatsAgree', \A x \in Players : Stays(x)
  PROVE  SeatsStep
BY StaysSeated DEF SeatsStep

LEMMA SameStays ==
  ASSUME SameMatchmaking, NEW x
  PROVE  Stays(x)
<1>1. /\ Queued(x)' = Queued(x) /\ Offered(x)' = Offered(x)
      /\ \A s : PlaysIn(x, s)' = PlaysIn(x, s)
      /\ \A m : PlayersOf(m)' = PlayersOf(m)
  BY SameMatchmakingSeats
<1>2. Playing(x)' => Playing(x)
  BY <1>1 DEF Playing, PlaysIn, SameMatchmaking
<1>3. \A m : Other(m, x)' = Other(m, x)
  BY DEF Other, SameMatchmaking
<1>4. \A s : OpponentIn(x, s)' = OpponentIn(x, s)
  BY DEF OpponentIn, Other, SameMatchmaking
<1> QED BY <1>1, <1>2, <1>3, <1>4, QuietStays DEF SameMatchmaking

\* A session goes on, or is over already: nobody sits down or gets up.
LEMMA GoesStays ==
  ASSUME IInv, NEW s \in 1 .. Len(sessions), NEW r, Goes(s, r), NEW x,
         PlaysIn(x, s) <=> r.phase \notin {"left", "ended"} /\ x \in PlayersOf(sessions[s].match)
  PROVE  Stays(x)
<1>1. /\ Len(sessions') = Len(sessions) /\ sessions'[s] = r
      /\ \A t \in 1 .. Len(sessions) : t # s => sessions'[t] = sessions[t]
      /\ \A m : PlayersOf(m)' = PlayersOf(m)
      /\ Queued(x)' = Queued(x) /\ Offered(x)' = Offered(x)
      /\ \A t \in 1 .. Len(sessions) : PlaysIn(x, t)' <=> PlaysIn(x, t)
  BY GoesFacts
<1>2. Playing(x)' => Playing(x)
  BY <1>1 DEF Playing, PlaysIn
<1>3. \A m : Other(m, x)' = Other(m, x)
  BY DEF Other, Goes
<1>4. \A t \in 1 .. Len(sessions) : OpponentIn(x, t)' = OpponentIn(x, t)
  <2>1. \A t \in 1 .. Len(sessions) : sessions'[t].match = sessions[t].match
    BY <1>1 DEF Goes
  <2> QED BY <2>1 DEF OpponentIn, Other, Goes
<1> QED BY <1>1, <1>2, <1>3, <1>4, QuietStays DEF Goes

\* enqueuePlayer seats the player of the read thread.
LEMMA EnqueueMoves ==
  ASSUME IInv, LInv, SeatsAgree, SeatsAgree', NEW p \in Players, EnqueuePlayer(p)
  PROVE  SeatsStep
<1>1. /\ pc[p] = "enqueue" /\ playerQueue \in Seq(Players) /\ playerQueue' = Append(playerQueue, p)
      /\ UNCHANGED <<matches, pending, sessions>>
  BY DEF EnqueuePlayer, IInv, TypeOK, QueueTypes, LInv, NobodyLeaves, matchVars
<1>2. \A x : /\ Offered(x)' = Offered(x)
             /\ \A m : PlayersOf(m)' = PlayersOf(m) /\ Other(m, x)' = Other(m, x)
  BY <1>1 DEF Offered, PlayersOf, Other
<1>3. \A x, s : PlaysIn(x, s)' = PlaysIn(x, s) /\ OpponentIn(x, s)' = OpponentIn(x, s)
  BY <1>1, <1>2 DEF PlaysIn, On, OpponentIn, PlayersOf, Other
<1>4. \A x : Playing(x)' <=> Playing(x)
  BY <1>1, <1>3 DEF Playing, PlaysIn
<1>5. Queued(p)' /\ \A x : x # p => (Queued(x)' <=> Queued(x))
  <2>1. /\ Len(playerQueue) \in Nat /\ Len(playerQueue') = Len(playerQueue) + 1
        /\ \A i \in 1 .. Len(playerQueue) : playerQueue'[i] = playerQueue[i]
        /\ playerQueue'[Len(playerQueue) + 1] = p
    BY <1>1, AppendProperties, LenProperties
  <2>2. \A i \in 1 .. Len(playerQueue') : i \in 1 .. Len(playerQueue) \/ i = Len(playerQueue) + 1
    BY <2>1
  <2>3. 1 .. Len(playerQueue) \subseteq 1 .. Len(playerQueue')
    BY <2>1
  <2>4. Len(playerQueue) + 1 \in 1 .. Len(playerQueue')
    BY <2>1
  <2> QED BY <2>1, <2>2, <2>3, <2>4 DEF Queued
<1>6. ~Queued(p) /\ ~Offered(p) /\ ~Playing(p)
  <2>1. At(p, "entering") /\ \A k \in Place : At(p, k) => k = "entering"
    BY <1>1 DEF At, LInv, Handed, OneAt, Place
  <2>2. ~At(p, "queued") /\ ~At(p, "offered")
    BY <2>1 DEF Place
  <2>3. ~Queued(p) /\ ~Offered(p)
    BY <2>2 DEF At
  <2>4. ~Playing(p)
    BY <1>1 DEF Playing, LInv, Playable, OnSessions, PlaysIn
  <2> QED BY <2>3, <2>4
<1>7. SeatOf(p) = "away" /\ OpponentOf(p) = None /\ SeatOf(p)' = "waiting" /\ OpponentOf(p)' = None
  <2>1. SitsAt(p, "away", None) /\ SitsAt(p, "waiting", None)'
    BY <1>5, <1>6 DEF SitsAt
  <2> QED BY <2>1 DEF SeatsAgree
<1>8. \A x \in Players \ {p} : SeatOf(x)' = SeatOf(x) /\ OpponentOf(x)' = OpponentOf(x)
  <2>1. SUFFICES ASSUME NEW x \in Players \ {p} PROVE Stays(x)
    BY StaysSeated
  <2> QED BY <1>1, <1>2, <1>3, <1>4, <1>5, QuietStays
<1>9. Seats!Join(p)
  BY <1>7, <1>8 DEF Seats!Join
<1> QED BY <1>9 DEF SeatsStep, Seats!Next

\* tryCreateMatch offers the two that wait to each other.
LEMMA OfferMoves ==
  ASSUME IInv, LInv, SeatsAgree, SeatsAgree', NEW p \in Players, TryCreateMatch(p)
  PROVE  SeatsStep
<1>1. PICK a \in Players, b \in Players, n \in Nat :
        /\ a # b /\ Queued(a) /\ Queued(b) /\ \A x : Queued(x) => x = a \/ x = b
        /\ n - 1 = Len(matches) /\ Len(matches') = n
        /\ matches'[n] = [a |-> a, b |-> b, aAccepted |-> FALSE, bAccepted |-> FALSE]
        /\ \A m \in 1 .. Len(matches) : matches'[m] = matches[m] /\ m # n
        /\ pending \subseteq 1 .. Len(matches) /\ pending' = pending \cup {n}
        /\ Len(playerQueue') = 0
  BY PairFacts
<1>2. /\ UNCHANGED sessions
      /\ \A s \in 1 .. Len(sessions) : sessions[s].match \in 1 .. Len(matches)
  BY DEF TryCreateMatch, IInv, LocalsOK
<1>3. /\ PlayersOf(n)' = {a, b} /\ Other(n, a)' = b /\ Other(n, b)' = a
      /\ \A m \in 1 .. Len(matches) : PlayersOf(m)' = PlayersOf(m)
      /\ \A m \in 1 .. Len(matches) : \A x : Other(m, x)' = Other(m, x)
  BY <1>1 DEF PlayersOf, Other
<1>4. \A s \in 1 .. Len(sessions) : \A x :
        PlaysIn(x, s)' = PlaysIn(x, s) /\ OpponentIn(x, s)' = OpponentIn(x, s)
  BY <1>1, <1>2 DEF PlaysIn, On, OpponentIn, PlayersOf, Other
<1>5. \A x : Playing(x)' <=> Playing(x)
  BY <1>2, <1>4 DEF Playing, PlaysIn
<1>6. /\ SeatOf(a) = "waiting" /\ SeatOf(b) = "waiting"
      /\ SeatOf(a)' = "offered" /\ OpponentOf(a)' = b
      /\ SeatOf(b)' = "offered" /\ OpponentOf(b)' = a
  <2>1. SitsAt(a, "waiting", None) /\ SitsAt(b, "waiting", None)
    BY <1>1 DEF SitsAt
  <2>2. SitsAt(a, "offered", b)' /\ SitsAt(b, "offered", a)'
    BY <1>1, <1>3 DEF SitsAt
  <2> QED BY <2>1, <2>2 DEF SeatsAgree
<1>7. \A x \in Players \ {a, b} : SeatOf(x)' = SeatOf(x) /\ OpponentOf(x)' = OpponentOf(x)
  <2>1. SUFFICES ASSUME NEW x \in Players \ {a, b} PROVE Stays(x)
    BY StaysSeated
  <2>2. ~Queued(x) /\ ~Queued(x)'
    BY <1>1 DEF Queued
  <2>3. Offered(x)' => Offered(x)
    BY <1>1, <1>3 DEF Offered
  <2>4. \A m \in pending : x \in PlayersOf(m) =>
          m \in pending' /\ x \in PlayersOf(m)' /\ Other(m, x)' = Other(m, x)
    BY <1>1, <1>3
  <2> QED BY <1>2, <1>4, <1>5, <2>2, <2>3, <2>4, QuietStays
<1>8. Seats!Offer(a, b)
  BY <1>1, <1>6, <1>7 DEF Seats!Offer
<1> QED BY <1>8 DEF SeatsStep, Seats!Next

\* The first acceptance changes no seat.
LEMMA FirstAcceptStays ==
  ASSUME IInv, LInv, NEW p \in Players, NEW m \in pending, Marks(p, m), StaysPending(p), NEW x \in Players
  PROVE  Stays(x)
<1>1. /\ pending \subseteq 1 .. Len(matches) /\ UNCHANGED <<pending, sessions>>
      /\ \A s \in 1 .. Len(sessions) : sessions[s].match \in 1 .. Len(matches)
  BY DEF Marks, StaysPending, IInv, LocalsOK
<1>2. /\ \A n \in 1 .. Len(matches) : PlayersOf(n)' = PlayersOf(n)
      /\ Queued(x)' = Queued(x)
      /\ \A s \in 1 .. Len(sessions) : PlaysIn(x, s)' = PlaysIn(x, s)
  BY <1>1, MarksKeeps
<1>3. \A n \in 1 .. Len(matches) : Other(n, x)' = Other(n, x)
  BY DEF Marks, Other
<1>4. \A s \in 1 .. Len(sessions) : OpponentIn(x, s)' = OpponentIn(x, s)
  BY <1>1 DEF Marks, OpponentIn, Other
<1>5. (Offered(x)' => Offered(x)) /\ (Playing(x)' => Playing(x))
  BY <1>1, <1>2 DEF Offered, Playing, PlaysIn
<1> QED BY <1>1, <1>2, <1>3, <1>4, <1>5, QuietStays

\* The second takes both players of the match out of the pending ones and into a session.
LEMMA BeginMoves ==
  ASSUME IInv, LInv, SeatsAgree, SeatsAgree', NEW p \in Players, NEW m \in pending, Marks(p, m),
         NEW n \in Nat, Builds(p, m, n)
  PROVE  SeatsStep
<1>1. /\ pending \subseteq 1 .. Len(matches) /\ pending' = pending \ {m}
      /\ Len(sessions') = n /\ n \in 1 .. n /\ sessions'[n].match = m
      /\ \A s \in 1 .. Len(sessions) : sessions'[s] = sessions[s] /\ s \in 1 .. n
      /\ \A s \in 1 .. n : s \in 1 .. Len(sessions) \/ s = n
      /\ \A s \in 1 .. Len(sessions) : sessions[s].match \in 1 .. Len(matches)
  BY DEF Marks, Builds, IInv, LocalsOK
<1>2. PICK a \in Players, b \in Players :
        matches[m].a = a /\ matches[m].b = b /\ a # b /\ PlayersOf(m) = {a, b}
  BY <1>1, MatchRecord DEF IInv, TypeOK, PlayersOf, LInv, TwoDifferentPlayers
<1>3. /\ \A s \in 1 .. Len(sessions) : \A x : PlaysIn(x, s)' = PlaysIn(x, s)
      /\ \A x : PlaysIn(x, n)' <=> x \in {a, b}
      /\ \A x \in Players : Offered(x)' <=> Offered(x) /\ x \notin {a, b}
  BY <1>2, BuildPlays
<1>4. /\ \A k \in 1 .. Len(matches) : PlayersOf(k)' = PlayersOf(k)
      /\ \A x \in Players : Queued(x)' = Queued(x)
  BY MarksKeeps
<1>5. \A k \in 1 .. Len(matches) : \A x : Other(k, x)' = Other(k, x)
  BY DEF Marks, Other
<1>6. \A s \in 1 .. Len(sessions) : \A x : OpponentIn(x, s)' = OpponentIn(x, s)
  BY <1>1 DEF Marks, OpponentIn, Other
<1>7. /\ SeatOf(a) = "offered" /\ OpponentOf(a) = b
      /\ SeatOf(b) = "offered" /\ OpponentOf(b) = a
  <2>1. SitsAt(a, "offered", b) /\ SitsAt(b, "offered", a)
    BY <1>2 DEF SitsAt, Other
  <2> QED BY <2>1 DEF SeatsAgree
<1>8. /\ SeatOf(a)' = "playing" /\ OpponentOf(a)' = b
      /\ SeatOf(b)' = "playing" /\ OpponentOf(b)' = a
  <2>1. OpponentIn(a, n)' = b /\ OpponentIn(b, n)' = a
    BY <1>1, <1>2 DEF Marks, OpponentIn, Other
  <2>2. SitsAt(a, "playing", b)' /\ SitsAt(b, "playing", a)'
    BY <1>1, <1>3, <2>1 DEF SitsAt
  <2> QED BY <2>2 DEF SeatsAgree
<1>9. \A x \in Players \ {a, b} : SeatOf(x)' = SeatOf(x) /\ OpponentOf(x)' = OpponentOf(x)
  <2>1. SUFFICES ASSUME NEW x \in Players \ {a, b} PROVE Stays(x)
    BY StaysSeated
  <2>2. \A k \in pending : x \in PlayersOf(k) =>
          k \in pending' /\ x \in PlayersOf(k)' /\ Other(k, x)' = Other(k, x)
    BY <1>1, <1>2, <1>4, <1>5
  <2>3. Playing(x)' => Playing(x)
    BY <1>1, <1>3 DEF Playing, PlaysIn
  <2> QED BY <1>1, <1>3, <1>4, <1>6, <2>2, <2>3, QuietStays
<1>10. Seats!Begin(a, b)
  BY <1>2, <1>7, <1>8, <1>9 DEF Seats!Begin
<1> QED BY <1>10 DEF SeatsStep, Seats!Next

\* The end of endMatch frees both players of the session.
LEMMA FinishMoves ==
  ASSUME IInv, LInv, SeatsAgree, SeatsAgree', NEW s \in 1 .. Len(sessions), BackToWaiting(s)
  PROVE  SeatsStep
<1>1. PICK r : Goes(s, r) /\ r.phase = "left"
  <2>1. PICK r : r = [sessions[s] EXCEPT !.phase = "left"]
    OBVIOUS
  <2>2. r \in MatchSession /\ r.match = sessions[s].match /\ r.phase = "left"
    BY <2>1, SessionPlayers DEF MatchSession, Phase
  <2> QED BY <2>1, <2>2 DEF BackToWaiting, Goes, queueVars
<1>2. PICK a \in Players, b \in Players :
        /\ PlayerA(s) = a /\ PlayerB(s) = b /\ a # b /\ PlayersOf(sessions[s].match) = {a, b}
  BY SessionPlayers DEF IInv, LocalsOK, LInv, TwoDifferentPlayers, PlayerA, PlayerB, PlayersOf
<1>3. /\ Len(sessions') = Len(sessions)
      /\ \A m : PlayersOf(m)' = PlayersOf(m)
      /\ \A x : Queued(x)' = Queued(x) /\ Offered(x)' = Offered(x)
      /\ \A t \in 1 .. Len(sessions) : \A x : t # s => PlaysIn(x, t)' = PlaysIn(x, t)
      /\ \A x : ~PlaysIn(x, s)'
      /\ \A t \in 1 .. Len(sessions) : t # s => sessions'[t] = sessions[t]
  BY <1>1, GoesFacts
<1>4. PlaysIn(a, s) /\ PlaysIn(b, s)
  BY <1>2 DEF BackToWaiting, PlaysIn, On
<1>5. /\ SeatOf(a) = "playing" /\ OpponentOf(a) = b
      /\ SeatOf(b) = "playing" /\ OpponentOf(b) = a
  <2>1. OpponentIn(a, s) = b /\ OpponentIn(b, s) = a
    BY <1>2 DEF OpponentIn, Other, PlayerA, PlayerB
  <2>2. SitsAt(a, "playing", b) /\ SitsAt(b, "playing", a)
    BY <1>4, <2>1 DEF SitsAt
  <2> QED BY <2>2 DEF SeatsAgree
<1>6. ASSUME NEW x \in {a, b}
      PROVE  SeatOf(x)' = "away" /\ OpponentOf(x)' = None
  <2>1. /\ ~Queued(x) /\ ~Offered(x)
        /\ \A t \in 1 .. Len(sessions) : PlaysIn(x, t) => s = t
    BY <1>4, <1>6 DEF LInv, Playable, OnSessions
  <2>2. ~Queued(x)' /\ ~Offered(x)' /\ ~Playing(x)'
    BY <1>3, <2>1 DEF Playing, PlaysIn
  <2>3. SitsAt(x, "away", None)'
    BY <2>2 DEF SitsAt
  <2> QED BY <2>3 DEF SeatsAgree
<1>7. \A x \in Players \ {a, b} : SeatOf(x)' = SeatOf(x) /\ OpponentOf(x)' = OpponentOf(x)
  <2>1. SUFFICES ASSUME NEW x \in Players \ {a, b} PROVE Stays(x)
    BY StaysSeated
  <2>2. PlaysIn(x, s) <=> r.phase \notin {"left", "ended"} /\ x \in PlayersOf(sessions[s].match)
    BY <1>1, <1>2 DEF PlaysIn
  <2> QED BY <1>1, <2>2, GoesStays
<1>8. Seats!Finish(a, b)
  BY <1>5, <1>6, <1>7 DEF Seats!Finish
<1> QED BY <1>8 DEF SeatsStep, Seats!Next

\* Session s goes from one phase in which its match is on to another, or is closed.
LEMMA PhaseStays ==
  ASSUME IInv, NEW s \in 1 .. Len(sessions), NEW ph \in Phase, ph \notin {"left", "ended"} <=> On(s),
         sessions' = [sessions EXCEPT ![s].phase = ph], UNCHANGED <<playerQueue, matches, pending>>
  PROVE  \A x : Stays(x)
<1>1. PICK r : r = [sessions[s] EXCEPT !.phase = ph]
  OBVIOUS
<1>2. r \in MatchSession /\ r.match = sessions[s].match /\ r.phase = ph
  BY <1>1, SessionPlayers DEF MatchSession
<1>3. Goes(s, r)
  BY <1>1, <1>2 DEF Goes
<1>4. \A x : PlaysIn(x, s) <=> r.phase \notin {"left", "ended"} /\ x \in PlayersOf(sessions[s].match)
  BY <1>2 DEF PlaysIn
<1> QED BY <1>3, <1>4, GoesStays

LEMMA EndMatchStays ==
  ASSUME IInv, NEW s \in 1 .. Len(sessions), sessions[s].phase = "running",
         NEW w \in Players, NEW box, EndMatch(s, w, box)
  PROVE  \A x : Stays(x)
<1>1. PICK r : r = [sessions[s] EXCEPT !.phase = "rewarding", !.winner = w]
  OBVIOUS
<1>2. r \in MatchSession /\ r.match = sessions[s].match /\ r.phase = "rewarding"
  BY <1>1, SessionPlayers DEF MatchSession, Phase
<1>3. sessions' = [sessions EXCEPT ![s] = r]
  BY <1>1 DEF EndMatch
<1>4. Goes(s, r)
  BY <1>2, <1>3 DEF EndMatch, Goes, queueVars
<1>5. \A x : PlaysIn(x, s) <=> r.phase \notin {"left", "ended"} /\ x \in PlayersOf(sessions[s].match)
  BY <1>2 DEF PlaysIn, On
<1> QED BY <1>4, <1>5, GoesStays

LEMMA GameThreadMoves ==
  ASSUME IInv, LInv, SeatsAgree, SeatsAgree', NEW s \in 1 .. Len(sessions), GameThread(s)
  PROVE  SeatsStep
<1>1. CASE BackToWaiting(s)
  BY <1>1, FinishMoves
<1>2. CASE SendMatchStart(s) \/ SendMatchLost(s) \/ OnMatchEnd(s)
  <2>1. PICK ph \in {"running", "told", "ended"} :
          /\ sessions' = [sessions EXCEPT ![s].phase = ph]
          /\ UNCHANGED <<playerQueue, matches, pending>>
          /\ ph \notin {"left", "ended"} <=> On(s)
    BY <1>2 DEF SendMatchStart, SendMatchLost, OnMatchEnd, queueVars, On
  <2>2. ph \in Phase
    BY DEF Phase
  <2> QED BY <2>1, <2>2, PhaseStays, EverybodyStays
<1>3. CASE HandleDisconnect(s) \/ \E winner \in Players : GameOver(s, winner)
  <2>1. PICK w \in Players : sessions[s].phase = "running" /\ \E box : EndMatch(s, w, box)
    BY <1>3, SessionPlayers DEF HandleDisconnect, GameOver
  <2> QED BY <2>1, EndMatchStays, EverybodyStays
<1> QED BY <1>1, <1>2, <1>3 DEF GameThread, Ending

LEMMA OnAcceptMoves ==
  ASSUME IInv, LInv, SeatsAgree, SeatsAgree', NEW p \in Players, OnAccept(p)
  PROVE  SeatsStep
<1>1. PICK m \in pending : Marks(p, m) /\ (StaysPending(p) \/ \E n \in Nat : Builds(p, m, n))
  BY AcceptFacts
<1>2. CASE StaysPending(p)
  BY <1>1, <1>2, FirstAcceptStays, EverybodyStays
<1>3. CASE \E n \in Nat : Builds(p, m, n)
  BY <1>1, <1>3, BeginMoves
<1> QED BY <1>1, <1>2, <1>3

LEMMA StartSessionMoves ==
  ASSUME IInv, LInv, SeatsAgree, SeatsAgree', NEW p \in Players, StartSession(p)
  PROVE  SeatsStep
<1>1. PICK s \in 1 .. Len(sessions) : s = session[p] /\ sessions[s].phase = "built"
  BY DEF StartSession, IInv, LocalsOK, LInv, Playable, StartsOne
<1>2. /\ sessions' = [sessions EXCEPT ![s].phase = "spawned"]
      /\ UNCHANGED <<playerQueue, matches, pending>>
  BY <1>1 DEF StartSession, queueVars
<1>3. "spawned" \in Phase /\ ("spawned" \notin {"left", "ended"} <=> On(s))
  BY <1>1 DEF Phase, On
<1> QED BY <1>2, <1>3, PhaseStays, EverybodyStays

LEMMA NextMoves ==
  ASSUME Leavers = {}, IInv, LInv, SeatsAgree, SeatsAgree', [Next]_vars
  PROVE  SeatsStep
<1>1. SUFFICES ASSUME ~SameMatchmaking
               PROVE  SeatsStep
  BY SameStays, EverybodyStays
<1>2. CASE \E p \in Players : ReadThread(p)
  <2>1. PICK p \in Players : ReadThread(p)
    BY <1>2
  <2>2. /\ ~ReadEof(p) /\ ~RemovePlayer(p) /\ ~FindDisconnected(p) /\ ~RemovePending(p)
        /\ ~SendMatchCancelled(p)
    BY NobodyGoes DEF LInv
  <2>3. ~ReadEnqueue(p) /\ ~ReadAccept(p) /\ ~ReadInGame(p)
    BY <1>1 DEF ReadEnqueue, ReadAccept, ReadInGame, Reads, SameMatchmaking, queueVars, matchVars
  <2>4. ~SendMatchFoundA(p) /\ ~SendMatchFoundB(p)
    BY <1>1 DEF SendMatchFoundA, SendMatchFoundB, SameMatchmaking, queueVars, matchVars
  <2> QED BY <2>1, <2>2, <2>3, <2>4, EnqueueMoves, OfferMoves, OnAcceptMoves, StartSessionMoves
          DEF ReadThread
<1>3. CASE \E s \in 1 .. Len(sessions) : GameThread(s)
  BY <1>3, GameThreadMoves
<1>4. ~ \E p \in Players : Client(p)
  BY <1>1 DEF Client, ClientConnect, ClientReceive, ClientAccept, ClientRequeue, ClientLeave,
              SameMatchmaking, queueVars, matchVars
<1>5. ~DisconnectThread /\ ~UNCHANGED vars
  BY <1>1 DEF DisconnectThread, TakeDisconnect, JoinReadThread, vars, SameMatchmaking, queueVars, matchVars
<1> QED BY <1>2, <1>3, <1>4, <1>5 DEF Next

LEMMA InitIsInit == Init => Seats!Init
<1> SUFFICES ASSUME Init PROVE Seats!Init
  OBVIOUS
<1>1. Len(<<>>) = 0
  BY EmptySeq
<1>2. \A x : ~Playing(x) /\ ~Offered(x) /\ ~Queued(x)
  BY <1>1 DEF Init, Playing, Offered, Queued
<1>3. \A x : SeatOf(x) = "away" /\ OpponentOf(x) = None
  BY <1>2 DEF SeatOf, OpponentOf
<1> QED BY <1>3 DEF Seats!Init

-----------------------------------------------------------------------------
(***************************************************************************)
(* The theorems                                                            *)
(***************************************************************************)

\* However many clients there are, whatever the order in which their read threads, the
\* pairing and the game threads run, and however often they requeue: each of the lobby's
\* steps seats one player who was nowhere, or moves two players who belong together
\* (Matchmaker::tryCreateMatch, MatchManager::onAccept, MatchSession::endMatch), or moves
\* nobody.  Both assumptions are needed: a client that leaves takes the other one's seat
\* away, and a second MATCH_ACCEPT of one player that has found the match when the other
\* player's first one is counted builds a second session for it.
THEOREM LobbyIsImplemented ==
  ASSUME Leavers = {}, MaxAccepts <= 1
  PROVE  Spec => ImplementsLobby
<1>1. Init => IInv /\ LInv /\ Seats!Init
  BY InitIInv, InitLInv, InitIsInit
<1>2. (IInv /\ LInv) /\ [Next]_vars => (IInv /\ LInv)'
  BY NextIInv, NextLInv
<1>3. (IInv /\ LInv) /\ (IInv /\ LInv)' /\ [Next]_vars =>
        [Seats!Next]_<<[p \in Players |-> SeatOf(p)], [p \in Players |-> OpponentOf(p)]>>
  BY InvSeatsAgree, InvSeatsAgreeNext, NextMoves DEF SeatsStep
<1> QED BY <1>1, <1>2, <1>3, PTL DEF Spec, ImplementsLobby, Seats!Spec

\* With clients that stay, requeueing pairs nobody with himself either: a player who asks
\* for the queue is in no queue, pending match or session.
THEOREM PairsAreTwoWhoStay ==
  ASSUME Leavers = {}, MaxAccepts <= 1
  PROVE  Spec => []TwoDifferentPlayers
<1>1. Init => IInv /\ LInv
  BY InitIInv, InitLInv
<1>2. (IInv /\ LInv) /\ [Next]_vars => (IInv /\ LInv)'
  BY NextIInv, NextLInv
<1>3. LInv => TwoDifferentPlayers
  BY DEF LInv
<1> QED BY <1>1, <1>2, <1>3, PTL DEF Spec
=============================================================================
