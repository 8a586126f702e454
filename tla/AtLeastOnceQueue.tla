-------------------------- MODULE AtLeastOnceQueue --------------------------
(***************************************************************************)
(* What a KillKrill stream with one consumer group promises its producers: *)
(* messages are handed out in the order they were added, a message stays   *)
(* open until somebody has tried to deliver it to its destination, and     *)
(* only then is it closed, once and for all.  "Tried" is all the promise   *)
(* says: whether the destination kept the document is not part of it (see  *)
(* AckedIsIndexed in LogWorker).                                           *)
(***************************************************************************)
EXTENDS Integers

CONSTANT Msg            \* message numbers, in stream order

VARIABLES added,        \* messages in the stream
          open,         \* handed to a consumer and not acknowledged
          tried,        \* messages whose delivery to the destination was tried
          closed        \* acknowledged messages

vars == <<added, open, tried, closed>>

Init ==
    /\ added = {}
    /\ open = {}
    /\ tried = {}
    /\ closed = {}

Add(m) ==
    /\ m \notin added
    /\ added' = added \union {m}
    /\ UNCHANGED <<open, tried, closed>>

\* Everything added before a message that is handed out was handed out too.
HandOut(S) ==
    /\ S \subseteq added \ (open \union closed)
    /\ \A m \in S, k \in added : k < m => k \in open \union closed \union S
    /\ open' = open \union S
    /\ UNCHANGED <<added, tried, closed>>

Try(S) ==
    /\ S \subseteq open \union closed
    /\ tried' = tried \union S
    /\ UNCHANGED <<added, open, closed>>

Close(S) ==
    /\ S \subseteq open \intersect tried
    /\ open' = open \ S
    /\ closed' = closed \union S
    /\ UNCHANGED <<added, tried>>

Next ==
    \/ \E m \in Msg : Add(m)
    \/ \E S \in SUBSET Msg : HandOut(S) \/ Try(S) \/ Close(S)

Spec == Init /\ [][Next]_vars

=============================================================================
