------------------------------ MODULE MCDecks ------------------------------
(* Instances of DeckBuilder: its handlers are interchangeable.              *)
EXTENDS DeckBuilder, TLC

HandlerSymmetry == Permutations(Handlers)
=============================================================================
