--------------------------- MODULE MCClientBoard ---------------------------
(* Instances of ClientBoard: decks small enough that a card is needed twice. *)
EXTENDS ClientBoard

\* The other player has three copies of a creature and draws two at the start; the
\* client's player has one of it, drawn at the start, and a spell.
SmallDecks ==
  [p \in Players |->
     IF p = Remote THEN [c \in Cards |-> IF c \in Creatures THEN 3 ELSE 0]
     ELSE [c \in Cards |-> 1]]

FirstCards == [p \in Players |-> IF p = Remote THEN <<"goblin", "goblin">> ELSE <<"goblin">>]

\* Short frames: at the end of each an animation that was queued runs, or waits for the
\* one before it, which runs (they take 260 ms or more and start 100 ms apart).
SmoothNext ==
  ServerNext \/ (ClientNext /\ (EndOfFrame /\ queued => active'))

SmoothSpec == Init /\ [][SmoothNext]_vars
=============================================================================
