------------------------------- MODULE Lobby -------------------------------
(***************************************************************************)
(* What the lobby promises its players, with no threads, mutexes or        *)
(* messages: a player waits, is offered one opponent, plays that opponent, *)
(* and is free again; players change seats two by two.                     *)
(* Matchmaking.tla is shown to implement it while nobody disconnects.      *)
(***************************************************************************)
CONSTANTS Players, None

VARIABLES seat, opponent

Seat == {"away", "waiting", "offered", "playing"}

Init ==
  /\ seat = [p \in Players |-> "away"]
  /\ opponent = [p \in Players |-> None]

Join(p) ==
  /\ seat[p] = "away"
  /\ seat' = [seat EXCEPT ![p] = "waiting"]
  /\ UNCHANGED opponent

\* Two players who wait are offered to each other.
Offer(p, q) ==
  /\ p # q
  /\ seat[p] = "waiting" /\ seat[q] = "waiting"
  /\ seat' = [seat EXCEPT ![p] = "offered", ![q] = "offered"]
  /\ opponent' = [opponent EXCEPT ![p] = q, ![q] = p]

\* They begin to play together, and stop together.
Begin(p, q) ==
  /\ seat[p] = "offered" /\ opponent[p] = q
  /\ seat' = [seat EXCEPT ![p] = "playing", ![q] = "playing"]
  /\ UNCHANGED opponent

Finish(p, q) ==
  /\ seat[p] = "playing" /\ opponent[p] = q
  /\ seat' = [seat EXCEPT ![p] = "away", ![q] = "away"]
  /\ opponent' = [opponent EXCEPT ![p] = None, ![q] = None]

Next ==
  \/ \E p \in Players : Join(p)
  \/ \E p, q \in Players : Offer(p, q) \/ Begin(p, q) \/ Finish(p, q)

Spec == Init /\ [][Next]_<<seat, opponent>>
=============================================================================
