----------------------------- MODULE MCAccounts -----------------------------
(* Instances of Accounts: clients, workers, handlers and sessions are each  *)
(* interchangeable.                                                         *)
EXTENDS Accounts, TLC

AccountSymmetry ==
  Permutations(Clients) \cup Permutations(Workers) \cup Permutations(Handlers)
    \cup Permutations(Sessions)
=============================================================================
