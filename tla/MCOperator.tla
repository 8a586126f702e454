------------------------------ MODULE MCOperator ------------------------------
(***************************************************************************)
(* Instances of Operator for TLC: one manager, or two that overtake each   *)
(* other, and specs that differ in what reaches the children.              *)
(***************************************************************************)
EXTENDS Operator, TLC

CONSTANTS m1, m2

\* A spec that leaves everything to the defaults, and one that asks for another
\* database and another size, which a StatefulSet can be updated to.
Plain  == [database |-> Unset, storage |-> Unset, size |-> 0, replicas |-> 0]
Larger == [database |-> "metrics", storage |-> Unset, size |-> 2, replicas |-> 0]

\* One that asks for other storage, which it cannot be updated to.
Roomier == [Plain EXCEPT !.storage = "20Gi"]

Specs        == {Plain, Larger, Roomier}
SpecsThatFit == {Plain, Larger}

\* The managers are interchangeable.
Alike == Permutations({m1, m2})

\* A pass's copy of the resource and what it has seen of the children mean something
\* until the pass ends; the next Get overwrites them before anything reads them.
InPass(m) == pc[m] \notin {"idle", "get"}

InUse ==
    <<resource, children, caches, queued, timer, pc, world,
      [m \in Manager |-> IF InPass(m) THEN <<killkrill[m], current[m], seen[m]>> ELSE <<>>]>>
=============================================================================
