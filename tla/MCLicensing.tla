------------------------------ MODULE MCLicensing ------------------------------
(* Licensing with threads and features that are all alike. *)
EXTENDS Licensing, TLC

Alike == Permutations(Thread) \union Permutations(Feature)
=============================================================================
