----------------------------- MODULE MCAccounts -----------------------------
(* TLC instance of Accounts: users, requests, sessions and addresses are    *)
(* interchangeable.                                                         *)
EXTENDS Accounts, TLC

Symmetry ==
    Permutations(Users) \cup Permutations(Requests) \cup Permutations(Sids) \cup Permutations(Clients)
=============================================================================
