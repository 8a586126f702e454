-------------------------- MODULE MCReceiverClient --------------------------
(***************************************************************************)
(* Instances of ReceiverClient for TLC: three request handlers.            *)
(***************************************************************************)
EXTENDS ReceiverClient, TLC

CONSTANTS t1, t2, t3

Handlers == Permutations({t1, t2, t3})
=============================================================================
