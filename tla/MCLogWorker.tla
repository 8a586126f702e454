---------------------------- MODULE MCLogWorker ----------------------------
(***************************************************************************)
(* Instances of LogWorker for TLC: two threads, in one process as          *)
(* start_consumer_workers starts them, or one in each of two replicas.     *)
(***************************************************************************)
EXTENDS LogWorker, TLC

CONSTANTS w1, w2, p1, p2

OneProcess  == [w \in {w1, w2} |-> p1]
TwoReplicas == [w \in {w1, w2} |-> IF w = w1 THEN p1 ELSE p2]

\* The threads, with their processes, are alike.
Swap == {(w1 :> w2) @@ (w2 :> w1) @@ (p1 :> p2) @@ (p2 :> p1)}
=============================================================================
