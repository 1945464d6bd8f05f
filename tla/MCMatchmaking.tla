--------------------------- MODULE MCMatchmaking ---------------------------
(***************************************************************************)
(* Matchmaking on small sets of clients.                                   *)
(***************************************************************************)
EXTENDS Matchmaking, TLC

\* Clients that may do the same things are interchangeable: FindPending chooses
\* by the index of a match, and nothing else chooses between players.
Sym == Permutations(Leavers) \cup Permutations(Players \ Leavers)
=============================================================================
