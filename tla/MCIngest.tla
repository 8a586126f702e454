------------------------------ MODULE MCIngest ------------------------------
(***************************************************************************)
(* Instances of Ingest for TLC: two threads of one receiver.               *)
(***************************************************************************)
EXTENDS Ingest, TLC

CONSTANTS t1, t2

Alike == Permutations({t1, t2})
=============================================================================
