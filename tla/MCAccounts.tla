------------------------------ MODULE MCAccounts ------------------------------
(* Accounts with requests and users that are all alike. *)
EXTENDS Accounts, TLC

Alike == Permutations(Request) \union Permutations(User)
=============================================================================
