-------------------------- MODULE LogReceiverProofs --------------------------
(***************************************************************************)
(* Proofs about the log receiver: about Ingest, its two endpoints (and     *)
(* those of the metrics receiver, which take the same steps), for any      *)
(* number of threads, requests, records and restarts; and about XdpFilter, *)
(* the packet filter in front of it, for any number of CPUs, any sizes of  *)
(* the tables, and any packets, configurations and failures.               *)
(***************************************************************************)
EXTENDS Ingest, XdpFilter, SequenceTheorems, FiniteSetTheorems, TLAPS

USE DEF Request, Item

\* What pc tells of a thread's connection and of the request it serves.
ThreadInv(t) ==
    /\ request[t] <= requests
    /\ \A x \in open[t] : x[1] = request[t]
    /\ failed[t] => open[t] = {}
    /\ pc[t] \in {"idle", "insert", "add"} => open[t] = {}
    /\ pc[t] \in {"insert", "commit", "add"} => request[t] \in singles /\ next[t] = 1
    /\ pc[t] = "commit" => <<request[t], 1>> \in open[t]
    /\ pc[t] = "add" => <<request[t], 1>> \in rows
    /\ pc[t] \in {"record", "push"} => /\ request[t] \in Request \ singles
                                       /\ processed[t] < next[t]
    /\ pc[t] = "record" => next[t] <= size[t] + 1
    /\ pc[t] = "push" => next[t] <= size[t]

\* No item is ahead of its request.
StreamInv ==
    /\ \A r \in singles : r <= requests
    /\ \A x \in stream : x[1] <= requests
    /\ StreamedIsStored
    /\ AcceptedIsKept

IInv == TypeOK /\ StreamInv /\ \A t \in Thread : ThreadInv(t)

\* A step of t leaves the variables of the other threads alone.
Others(t) ==
    \A u \in Thread : u # t =>
        /\ pc'[u] = pc[u] /\ request'[u] = request[u] /\ size'[u] = size[u]
        /\ next'[u] = next[u] /\ processed'[u] = processed[u]
        /\ open'[u] = open[u] /\ failed'[u] = failed[u]

ThreadTypes ==
    /\ pc \in [Thread -> {"idle", "insert", "commit", "add", "record", "push"}]
    /\ request \in [Thread -> 0..MaxRequest]
    /\ size \in [Thread -> 0..MaxRecords]
    /\ next \in [Thread -> 1..(MaxRecords + 1)]
    /\ processed \in [Thread -> 0..MaxRecords]
    /\ open \in [Thread -> SUBSET Item]
    /\ failed \in [Thread -> BOOLEAN]

WorldTypes ==
    /\ rows \subseteq Item
    /\ stream \subseteq Item
    /\ requests \in 0..MaxRequest
    /\ restarts \in 0..MaxRestart
    /\ singles \subseteq Request
    /\ accepted \subseteq Request
    /\ reported \subseteq Item

LEMMA Types == TypeOK <=> ThreadTypes /\ WorldTypes
BY DEF TypeOK, ThreadTypes, WorldTypes

\* What the others rely on: rows stay, and a request turns out to be a single one
\* only when it is made.
LEMMA OtherThreads ==
    ASSUME TypeOK, NEW u \in Thread, ThreadInv(u),
           pc'[u] = pc[u], request'[u] = request[u], size'[u] = size[u],
           next'[u] = next[u], processed'[u] = processed[u],
           open'[u] = open[u], failed'[u] = failed[u],
           rows \subseteq rows',
           requests' \in {requests, requests + 1},
           singles \subseteq singles',
           singles' \subseteq singles \union {requests + 1}
    PROVE  ThreadInv(u)'
<1>1. request[u] \in Nat /\ requests \in Nat /\ request[u] <= requests
  BY DEF TypeOK, ThreadInv
<1>2. request'[u] <= requests'
  BY <1>1
<1>3. request[u] # requests + 1
  BY <1>1
<1>. QED BY <1>2, <1>3 DEF ThreadInv
-----------------------------------------------------------------------------
(* The steps of one thread *)

\* An insert, a refusal, and the end of a transaction, successful or not.
LEMMA InsertEffect ==
    ASSUME TypeOK, NEW t \in Thread, InsertRow(t), request[t] \in Request,
           next[t] \in 1..MaxRecords
    PROVE  /\ open' = [open EXCEPT ![t] = open[t] \union {<<request[t], next[t]>>}]
           /\ open' \in [Thread -> SUBSET Item] /\ failed' \in [Thread -> BOOLEAN]
           /\ ~failed[t] /\ failed' = failed
<1>1. <<request[t], next[t]>> \in Item
  OBVIOUS
<1>. QED BY <1>1 DEF InsertRow, Current, TypeOK

LEMMA RefuseEffect ==
    ASSUME TypeOK, NEW t \in Thread, RefuseRow(t)
    PROVE  /\ open' = [open EXCEPT ![t] = {}]
           /\ failed' = [failed EXCEPT ![t] = TRUE]
           /\ open' \in [Thread -> SUBSET Item] /\ failed' \in [Thread -> BOOLEAN]
BY DEF RefuseRow, TypeOK

LEMMA CommitEffect ==
    ASSUME TypeOK, NEW t \in Thread, CommitRows(t) \/ CommitRaises(t)
    PROVE  /\ rows' \in {rows, rows \union open[t]}
           /\ CommitRows(t) => rows' = rows \union open[t]
           /\ open' = [open EXCEPT ![t] = {}]
           /\ failed' = [failed EXCEPT ![t] = FALSE]
           /\ rows' \subseteq Item
           /\ open' \in [Thread -> SUBSET Item] /\ failed' \in [Thread -> BOOLEAN]
<1>1. open[t] \subseteq Item /\ rows \subseteq Item
  BY DEF TypeOK
<1>. QED BY <1>1 DEF CommitRows, CommitRaises, EndTransaction, TypeOK

\* A request begins.
LEMMA BeginEffect ==
    ASSUME TypeOK, NEW t \in Thread, NEW n \in 0..MaxRecords, Begin(t, n)
    PROVE  /\ pc[t] = "idle" /\ requests' = requests + 1 /\ requests' \in Request
           /\ request' \in [Thread -> 0..MaxRequest] /\ request'[t] = requests + 1
           /\ size' \in [Thread -> 0..MaxRecords] /\ size'[t] = n
           /\ next' \in [Thread -> 1..(MaxRecords + 1)] /\ next'[t] = 1
           /\ processed' \in [Thread -> 0..MaxRecords] /\ processed'[t] = 0
           /\ \A u \in Thread : u # t =>
                /\ request'[u] = request[u] /\ size'[u] = size[u]
                /\ next'[u] = next[u] /\ processed'[u] = processed[u]
<1>1. requests + 1 \in Request /\ requests + 1 \in 0..MaxRequest
  BY IngestAssumption DEF Begin, TypeOK
<1>2. 1 \in 1..(MaxRecords + 1) /\ 0 \in 0..MaxRecords
  BY IngestAssumption
<1>. QED BY <1>1, <1>2 DEF Begin, TypeOK
-----------------------------------------------------------------------------
(* What a step of t must show.  The rest of the invariant follows. *)

Relied(t) ==
    /\ Others(t)
    /\ rows \subseteq rows'
    /\ requests' \in {requests, requests + 1}
    /\ singles \subseteq singles'
    /\ singles' \subseteq singles \union {requests + 1}

Kept(t) == TypeOK' /\ StreamInv' /\ ThreadInv(t)' /\ Relied(t)

LEMMA KeptIsEnough ==
    ASSUME IInv, NEW t \in Thread, Kept(t)
    PROVE  IInv'
<1>1. ASSUME NEW u \in Thread, u # t
      PROVE  ThreadInv(u)'
  <2>. USE <1>1
  <2>1. /\ pc'[u] = pc[u] /\ request'[u] = request[u] /\ size'[u] = size[u]
        /\ next'[u] = next[u] /\ processed'[u] = processed[u]
        /\ open'[u] = open[u] /\ failed'[u] = failed[u]
    BY DEF Kept, Relied, Others
  <2>2. TypeOK /\ ThreadInv(u)
    BY DEF IInv
  <2>. QED BY <2>1, <2>2, OtherThreads DEF Kept, Relied
<1>. QED BY <1>1 DEF IInv, Kept

LEMMA PostKeeps ==
    ASSUME IInv, NEW t \in Thread, Post(t)
    PROVE  Kept(t)
<1>. USE DEF IInv
<1>1. 1 \in 0..MaxRecords
  BY IngestAssumption
<1>2. Begin(t, 1) /\ pc' = [pc EXCEPT ![t] = "insert"] /\ singles' = singles \union {requests + 1}
  BY DEF Post, Goto
<1>3. /\ pc[t] = "idle" /\ requests' = requests + 1 /\ requests' \in Request
      /\ request' \in [Thread -> 0..MaxRequest] /\ request'[t] = requests + 1
      /\ size' \in [Thread -> 0..MaxRecords]
      /\ next' \in [Thread -> 1..(MaxRecords + 1)] /\ next'[t] = 1
      /\ processed' \in [Thread -> 0..MaxRecords]
      /\ \A u \in Thread : u # t =>
           /\ request'[u] = request[u] /\ size'[u] = size[u]
           /\ next'[u] = next[u] /\ processed'[u] = processed[u]
  BY <1>1, <1>2, BeginEffect
<1>4. UNCHANGED <<rows, stream, open, failed, restarts, accepted, reported>>
  BY DEF Post
<1>5. TypeOK'
  <2>1. pc' \in [Thread -> {"idle", "insert", "commit", "add", "record", "push"}]
    BY <1>2 DEF TypeOK
  <2>2. singles' \subseteq Request
    BY <1>2, <1>3 DEF TypeOK
  <2>3. requests' \in 0..MaxRequest
    BY <1>3
  <2>. QED BY <2>1, <2>2, <2>3, <1>3, <1>4 DEF TypeOK
<1>6. Relied(t)
  BY <1>2, <1>3, <1>4 DEF Relied, Others, TypeOK
<1>7. ThreadInv(t)'
  <2>1. pc'[t] = "insert" /\ open'[t] = {} /\ request'[t] \in singles'
    BY <1>2, <1>3, <1>4 DEF TypeOK, ThreadInv
  <2>. QED BY <2>1, <1>3 DEF ThreadInv, TypeOK
<1>8. StreamInv'
  <2>1. requests \in Nat /\ \A x \in stream : x[1] # requests + 1
    BY DEF TypeOK, StreamInv
  <2>2. <<requests + 1, 1>> \notin stream
    BY <2>1
  <2>. QED BY <2>1, <2>2, <1>2, <1>3, <1>4
         DEF StreamInv, StreamedIsStored, AcceptedIsKept, TypeOK
<1>. QED BY <1>5, <1>6, <1>7, <1>8 DEF Kept

LEMMA PostFleetKeeps ==
    ASSUME IInv, NEW t \in Thread, PostFleet(t)
    PROVE  Kept(t)
<1>. USE DEF IInv
<1>1. PICK n \in 0..MaxRecords : Begin(t, n)
  BY DEF PostFleet
<1>2. pc' = [pc EXCEPT ![t] = "record"]
  BY DEF PostFleet, Goto
<1>3. /\ pc[t] = "idle" /\ requests' = requests + 1 /\ requests' \in Request
      /\ request' \in [Thread -> 0..MaxRequest] /\ request'[t] = requests + 1
      /\ size' \in [Thread -> 0..MaxRecords] /\ size'[t] = n
      /\ next' \in [Thread -> 1..(MaxRecords + 1)] /\ next'[t] = 1
      /\ processed' \in [Thread -> 0..MaxRecords] /\ processed'[t] = 0
      /\ \A u \in Thread : u # t =>
           /\ request'[u] = request[u] /\ size'[u] = size[u]
           /\ next'[u] = next[u] /\ processed'[u] = processed[u]
  BY <1>1, BeginEffect
<1>4. UNCHANGED <<rows, stream, open, failed, restarts, singles, accepted, reported>>
  BY DEF PostFleet
<1>5. TypeOK'
  <2>1. ThreadTypes'
    BY <1>2, <1>3, <1>4 DEF TypeOK, ThreadTypes
  <2>2. requests' \in 0..MaxRequest
    BY <1>3
  <2>3. WorldTypes'
    BY <2>2, <1>4 DEF TypeOK, WorldTypes
  <2>. QED BY <2>1, <2>3 DEF TypeOK, ThreadTypes, WorldTypes
<1>6. Relied(t)
  BY <1>2, <1>3, <1>4 DEF Relied, Others, TypeOK
<1>7. ThreadInv(t)'
  <2>1. pc'[t] = "record" /\ open'[t] = {}
    BY <1>2, <1>3, <1>4 DEF TypeOK, ThreadInv
  <2>2. requests \in Nat /\ requests + 1 \notin singles
    BY DEF TypeOK, StreamInv
  <2>3. n \in Nat /\ 1 <= n + 1
    OBVIOUS
  <2>. QED BY <2>1, <2>2, <2>3, <1>3, <1>4 DEF ThreadInv, TypeOK
<1>8. StreamInv'
  BY <1>3, <1>4 DEF StreamInv, StreamedIsStored, AcceptedIsKept, TypeOK
<1>. QED BY <1>5, <1>6, <1>7, <1>8 DEF Kept

LEMMA InsertKeeps ==
    ASSUME IInv, NEW t \in Thread, Insert(t)
    PROVE  Kept(t)
<1>. USE DEF IInv
<1>1. /\ pc[t] = "insert" /\ InsertRow(t) /\ pc' = [pc EXCEPT ![t] = "commit"]
      /\ UNCHANGED <<rows, stream, request, size, next, processed>>
      /\ UNCHANGED <<requests, restarts, singles, accepted, reported>>
  BY DEF Insert, Goto, handler, world
<1>2. request[t] \in singles /\ next[t] = 1 /\ open[t] = {}
  BY <1>1 DEF ThreadInv
<1>3. request[t] \in Request /\ next[t] \in 1..MaxRecords
  BY <1>2, IngestAssumption DEF TypeOK
<1>4. /\ open' = [open EXCEPT ![t] = open[t] \union {<<request[t], next[t]>>}]
      /\ open' \in [Thread -> SUBSET Item] /\ failed' \in [Thread -> BOOLEAN]
      /\ ~failed[t] /\ failed' = failed
  BY <1>1, <1>3, InsertEffect
<1>5. TypeOK'
  BY <1>1, <1>4 DEF TypeOK
<1>6. Relied(t)
  BY <1>1, <1>4 DEF Relied, Others, TypeOK
<1>7. ThreadInv(t)'
  <2>1. pc'[t] = "commit" /\ open'[t] = {<<request[t], 1>>} /\ ~failed'[t]
    BY <1>1, <1>2, <1>4 DEF TypeOK
  <2>2. \A x \in open'[t] : x[1] = request[t]
    <3>1. \A x \in {<<request[t], 1>>} : x[1] = request[t]
      OBVIOUS
    <3>. QED BY <2>1, <3>1
  <2>3. <<request[t], 1>> \in open'[t]
    BY <2>1
  <2>. QED BY <2>1, <2>2, <2>3, <1>1, <1>2 DEF ThreadInv
<1>8. StreamInv'
  BY <1>1 DEF StreamInv, StreamedIsStored, AcceptedIsKept
<1>. QED BY <1>5, <1>6, <1>7, <1>8 DEF Kept

LEMMA InsertFailsKeeps ==
    ASSUME IInv, NEW t \in Thread, InsertFails(t)
    PROVE  Kept(t)
<1>. USE DEF IInv
<1>1. /\ pc[t] = "insert" /\ pc' = [pc EXCEPT ![t] = "idle"]
      /\ UNCHANGED <<rows, stream, request, size, next, processed>>
      /\ UNCHANGED <<requests, restarts, singles, accepted, reported>>
  BY DEF InsertFails, Answer, Goto, handler, world
<1>2. /\ open'[t] = {}
      /\ \A u \in Thread : u # t => open'[u] = open[u] /\ failed'[u] = failed[u]
      /\ open' \in [Thread -> SUBSET Item] /\ failed' \in [Thread -> BOOLEAN]
  <2>1. CASE RefuseRow(t)
    BY <2>1, RefuseEffect DEF TypeOK
  <2>2. CASE UNCHANGED <<open, failed>>
    BY <2>2, <1>1 DEF TypeOK, ThreadInv
  <2>. QED BY <2>1, <2>2 DEF InsertFails
<1>3. TypeOK'
  BY <1>1, <1>2 DEF TypeOK
<1>4. Relied(t)
  BY <1>1, <1>2 DEF Relied, Others, TypeOK
<1>5. ThreadInv(t)'
  <2>1. pc'[t] = "idle"
    BY <1>1 DEF TypeOK
  <2>. QED BY <2>1, <1>1, <1>2 DEF ThreadInv
<1>6. StreamInv'
  BY <1>1 DEF StreamInv, StreamedIsStored, AcceptedIsKept
<1>. QED BY <1>3, <1>4, <1>5, <1>6 DEF Kept

LEMMA CommitKeeps ==
    ASSUME IInv, NEW t \in Thread, Commit(t)
    PROVE  Kept(t)
<1>. USE DEF IInv
<1>1. /\ pc[t] = "commit" /\ pc' = [pc EXCEPT ![t] = "add"]
      /\ UNCHANGED <<stream, request, size, next, processed>>
      /\ UNCHANGED <<requests, restarts, singles, accepted>>
      /\ reported' = reported
  BY DEF Commit, Answer, Goto, handler, world, AtEnd
<1>2. /\ rows' \in {rows, rows \union open[t]}
      /\ open' = [open EXCEPT ![t] = {}]
      /\ failed' = [failed EXCEPT ![t] = FALSE]
      /\ rows' \subseteq Item
      /\ open' \in [Thread -> SUBSET Item] /\ failed' \in [Thread -> BOOLEAN]
  BY CommitEffect DEF Commit
<1>3. reported' \subseteq Item
  BY <1>1 DEF TypeOK
<1>4. TypeOK'
  BY <1>1, <1>2, <1>3 DEF TypeOK
<1>5. Relied(t)
  BY <1>1, <1>2 DEF Relied, Others, TypeOK
<1>6. ThreadInv(t)'
  <2>1. pc'[t] = "add" /\ open'[t] = {}
    BY <1>1, <1>2 DEF TypeOK
  <2>2. <<request[t], 1>> \in rows' /\ request[t] \in singles /\ next[t] = 1
    BY <1>1, CommitEffect DEF Commit, ThreadInv
  <2>. QED BY <2>1, <2>2, <1>1 DEF ThreadInv
<1>7. StreamInv'
  BY <1>1, <1>2 DEF StreamInv, StreamedIsStored, AcceptedIsKept
<1>. QED BY <1>4, <1>5, <1>6, <1>7 DEF Kept

LEMMA CommitFailsKeeps ==
    ASSUME IInv, NEW t \in Thread, CommitFails(t)
    PROVE  Kept(t)
<1>. USE DEF IInv
<1>1. /\ pc[t] = "commit" /\ pc' = [pc EXCEPT ![t] = "idle"]
      /\ UNCHANGED <<stream, request, size, next, processed>>
      /\ UNCHANGED <<requests, restarts, singles, accepted>>
      /\ reported' = reported
  BY DEF CommitFails, Answer, Goto, handler, world, AtEnd
<1>2. /\ rows' \in {rows, rows \union open[t]}
      /\ open' = [open EXCEPT ![t] = {}]
      /\ failed' = [failed EXCEPT ![t] = FALSE]
      /\ rows' \subseteq Item
      /\ open' \in [Thread -> SUBSET Item] /\ failed' \in [Thread -> BOOLEAN]
  BY CommitEffect DEF CommitFails
<1>3. reported' \subseteq Item
  BY <1>1 DEF TypeOK
<1>4. TypeOK'
  BY <1>1, <1>2, <1>3 DEF TypeOK
<1>5. Relied(t)
  BY <1>1, <1>2 DEF Relied, Others, TypeOK
<1>6. ThreadInv(t)'
  <2>1. pc'[t] = "idle" /\ open'[t] = {}
    BY <1>1, <1>2 DEF TypeOK
  <2>. QED BY <2>1, <1>1 DEF ThreadInv
<1>7. StreamInv'
  BY <1>1, <1>2 DEF StreamInv, StreamedIsStored, AcceptedIsKept
<1>. QED BY <1>4, <1>5, <1>6, <1>7 DEF Kept

LEMMA CommitBatchKeeps ==
    ASSUME IInv, NEW t \in Thread, CommitBatch(t)
    PROVE  Kept(t)
<1>. USE DEF IInv
<1>1. /\ pc[t] = "record" /\ pc' = [pc EXCEPT ![t] = "idle"]
      /\ UNCHANGED <<stream, request, size, next, processed>>
      /\ UNCHANGED <<requests, restarts, singles, accepted>>
      /\ reported' = reported \union Reply(t)
  BY DEF CommitBatch, Answer, Goto, handler, world, AtEnd
<1>2. /\ rows' \in {rows, rows \union open[t]}
      /\ open' = [open EXCEPT ![t] = {}]
      /\ failed' = [failed EXCEPT ![t] = FALSE]
      /\ rows' \subseteq Item
      /\ open' \in [Thread -> SUBSET Item] /\ failed' \in [Thread -> BOOLEAN]
  BY CommitEffect DEF CommitBatch
<1>3. reported' \subseteq Item
  <2>1. request[t] \in Request /\ processed[t] \in 0..MaxRecords
    BY <1>1 DEF ThreadInv, TypeOK
  <2>2. \A i \in 1..processed[t] : i \in 1..MaxRecords
    BY <2>1, IngestAssumption
  <2>3. \A i \in 1..processed[t] : <<request[t], i>> \in Item
    BY <2>1, <2>2
  <2>4. Reply(t) \subseteq Item
    BY <2>3 DEF Reply
  <2>. QED BY <2>4, <1>1 DEF TypeOK
<1>4. TypeOK'
  BY <1>1, <1>2, <1>3 DEF TypeOK
<1>5. Relied(t)
  BY <1>1, <1>2 DEF Relied, Others, TypeOK
<1>6. ThreadInv(t)'
  <2>1. pc'[t] = "idle" /\ open'[t] = {}
    BY <1>1, <1>2 DEF TypeOK
  <2>. QED BY <2>1, <1>1 DEF ThreadInv
<1>7. StreamInv'
  BY <1>1, <1>2 DEF StreamInv, StreamedIsStored, AcceptedIsKept
<1>. QED BY <1>4, <1>5, <1>6, <1>7 DEF Kept

LEMMA CommitBatchFailsKeeps ==
    ASSUME IInv, NEW t \in Thread, CommitBatchFails(t)
    PROVE  Kept(t)
<1>. USE DEF IInv
<1>1. /\ pc[t] = "record" /\ pc' = [pc EXCEPT ![t] = "idle"]
      /\ UNCHANGED <<stream, request, size, next, processed>>
      /\ UNCHANGED <<requests, restarts, singles, accepted>>
      /\ reported' = reported
  BY DEF CommitBatchFails, Answer, Goto, handler, world, AtEnd
<1>2. /\ rows' \in {rows, rows \union open[t]}
      /\ open' = [open EXCEPT ![t] = {}]
      /\ failed' = [failed EXCEPT ![t] = FALSE]
      /\ rows' \subseteq Item
      /\ open' \in [Thread -> SUBSET Item] /\ failed' \in [Thread -> BOOLEAN]
  BY CommitEffect DEF CommitBatchFails
<1>3. reported' \subseteq Item
  BY <1>1 DEF TypeOK
<1>4. TypeOK'
  BY <1>1, <1>2, <1>3 DEF TypeOK
<1>5. Relied(t)
  BY <1>1, <1>2 DEF Relied, Others, TypeOK
<1>6. ThreadInv(t)'
  <2>1. pc'[t] = "idle" /\ open'[t] = {}
    BY <1>1, <1>2 DEF TypeOK
  <2>. QED BY <2>1, <1>1 DEF ThreadInv
<1>7. StreamInv'
  BY <1>1, <1>2 DEF StreamInv, StreamedIsStored, AcceptedIsKept
<1>. QED BY <1>4, <1>5, <1>6, <1>7 DEF Kept

LEMMA AddKeeps ==
    ASSUME IInv, NEW t \in Thread, Add(t) \/ AddFails(t)
    PROVE  Kept(t)
<1>. USE DEF IInv
<1>1. /\ pc[t] = "add" /\ pc' = [pc EXCEPT ![t] = "idle"]
      /\ stream' \in {stream, stream \union {<<request[t], next[t]>>}}
      /\ \/ accepted' = accepted
         \/ /\ accepted' = accepted \union {request[t]}
            /\ stream' = stream \union {<<request[t], next[t]>>}
      /\ UNCHANGED <<rows, open, failed, request, size, next, processed>>
      /\ UNCHANGED <<requests, restarts, singles, reported>>
  BY DEF Add, AddFails, Answer, Goto, Current, handler, world
<1>2. /\ request[t] \in singles /\ next[t] = 1 /\ <<request[t], 1>> \in rows
      /\ open[t] = {} /\ request[t] <= requests
  BY <1>1 DEF ThreadInv
<1>3. request[t] \in Request /\ <<request[t], next[t]>> \in Item
  BY <1>2, IngestAssumption DEF TypeOK
<1>4. TypeOK'
  BY <1>1, <1>3 DEF TypeOK
<1>5. Relied(t)
  BY <1>1 DEF Relied, Others, TypeOK
<1>6. ThreadInv(t)'
  <2>1. pc'[t] = "idle"
    BY <1>1 DEF TypeOK
  <2>. QED BY <2>1, <1>1 DEF ThreadInv
<1>7. StreamInv'
  BY <1>1, <1>2 DEF StreamInv, StreamedIsStored, AcceptedIsKept
<1>. QED BY <1>4, <1>5, <1>6, <1>7 DEF Kept

LEMMA InsertRecordKeeps ==
    ASSUME IInv, NEW t \in Thread, InsertRecord(t)
    PROVE  Kept(t)
<1>. USE DEF IInv
<1>1. /\ pc[t] = "record" /\ next[t] <= size[t] /\ InsertRow(t)
      /\ pc' = [pc EXCEPT ![t] = "push"]
      /\ UNCHANGED <<rows, stream, request, size, next, processed>>
      /\ UNCHANGED <<requests, restarts, singles, accepted, reported>>
  BY DEF InsertRecord, AtRecord, Goto, handler, world
<1>2. request[t] \in Request \ singles /\ processed[t] < next[t]
  BY <1>1 DEF ThreadInv
<1>3. next[t] \in 1..MaxRecords
  BY <1>1, IngestAssumption DEF TypeOK
<1>4. /\ open' = [open EXCEPT ![t] = open[t] \union {<<request[t], next[t]>>}]
      /\ open' \in [Thread -> SUBSET Item] /\ failed' \in [Thread -> BOOLEAN]
      /\ ~failed[t] /\ failed' = failed
  BY <1>1, <1>2, <1>3, InsertEffect
<1>5. TypeOK'
  BY <1>1, <1>4 DEF TypeOK
<1>6. Relied(t)
  BY <1>1, <1>4 DEF Relied, Others, TypeOK
<1>7. ThreadInv(t)'
  <2>1. /\ pc'[t] = "push" /\ ~failed'[t]
        /\ open'[t] = open[t] \union {<<request[t], next[t]>>}
    BY <1>1, <1>4 DEF TypeOK
  <2>2. \A x \in open[t] : x[1] = request[t]
    BY DEF ThreadInv
  <2>3. \A x \in open'[t] : x[1] = request[t]
    <3>1. \A x \in {<<request[t], next[t]>>} : x[1] = request[t]
      OBVIOUS
    <3>. QED BY <2>1, <2>2, <3>1
  <2>. QED BY <2>1, <2>3, <1>1, <1>2 DEF ThreadInv
<1>8. StreamInv'
  BY <1>1 DEF StreamInv, StreamedIsStored, AcceptedIsKept
<1>. QED BY <1>5, <1>6, <1>7, <1>8 DEF Kept

\* The loop goes on to the next record.
LEMMA NextEffect ==
    ASSUME TypeOK, NEW t \in Thread, NextRecord(t), next[t] <= size[t]
    PROVE  /\ pc' = [pc EXCEPT ![t] = "record"]
           /\ next' = [next EXCEPT ![t] = next[t] + 1]
           /\ next' \in [Thread -> 1..(MaxRecords + 1)]
           /\ UNCHANGED <<request, size>>
<1>1. next[t] + 1 \in 1..(MaxRecords + 1)
  BY IngestAssumption DEF TypeOK
<1>. QED BY <1>1 DEF NextRecord, Goto, TypeOK

LEMMA SkipRecordKeeps ==
    ASSUME IInv, NEW t \in Thread, SkipRecord(t)
    PROVE  Kept(t)
<1>. USE DEF IInv
<1>1. /\ pc[t] = "record" /\ next[t] <= size[t] /\ NextRecord(t)
      /\ UNCHANGED <<rows, stream, processed>>
      /\ UNCHANGED <<requests, restarts, singles, accepted, reported>>
  BY DEF SkipRecord, AtRecord, world
<1>2. /\ pc' = [pc EXCEPT ![t] = "record"]
      /\ next' = [next EXCEPT ![t] = next[t] + 1]
      /\ next' \in [Thread -> 1..(MaxRecords + 1)]
      /\ UNCHANGED <<request, size>>
  BY <1>1, NextEffect
<1>3. request[t] \in Request \ singles /\ processed[t] < next[t]
  BY <1>1 DEF ThreadInv
<1>4. next[t] \in 1..MaxRecords
  BY <1>1, IngestAssumption DEF TypeOK
<1>5. /\ open' \in [Thread -> SUBSET Item] /\ failed' \in [Thread -> BOOLEAN]
      /\ \A u \in Thread : u # t => open'[u] = open[u] /\ failed'[u] = failed[u]
      /\ \A x \in open'[t] : x[1] = request[t]
      /\ failed'[t] => open'[t] = {}
  <2>1. CASE InsertRow(t)
    <3>1. /\ open' = [open EXCEPT ![t] = open[t] \union {<<request[t], next[t]>>}]
          /\ open' \in [Thread -> SUBSET Item] /\ failed' \in [Thread -> BOOLEAN]
          /\ ~failed[t] /\ failed' = failed
      BY <2>1, <1>3, <1>4, InsertEffect
    <3>2. \A x \in {<<request[t], next[t]>>} : x[1] = request[t]
      OBVIOUS
    <3>3. \A x \in open[t] : x[1] = request[t]
      BY DEF ThreadInv
    <3>4. \A x \in open'[t] : x[1] = request[t]
      BY <3>1, <3>2, <3>3 DEF TypeOK
    <3>. QED BY <3>1, <3>4 DEF TypeOK
  <2>2. CASE RefuseRow(t)
    BY <2>2, RefuseEffect DEF TypeOK
  <2>3. CASE UNCHANGED <<open, failed>>
    BY <2>3 DEF ThreadInv, TypeOK
  <2>. QED BY <2>1, <2>2, <2>3 DEF SkipRecord
<1>6. TypeOK'
  BY <1>1, <1>2, <1>5 DEF TypeOK
<1>7. Relied(t)
  BY <1>1, <1>2, <1>5 DEF Relied, Others, TypeOK
<1>8. ThreadInv(t)'
  <2>1. pc'[t] = "record" /\ next'[t] = next[t] + 1
    BY <1>2 DEF TypeOK
  <2>2. processed'[t] < next'[t] /\ next'[t] <= size'[t] + 1
    BY <2>1, <1>1, <1>2, <1>3 DEF TypeOK
  <2>. QED BY <2>1, <2>2, <1>1, <1>2, <1>3, <1>5 DEF ThreadInv
<1>9. StreamInv'
  BY <1>1 DEF StreamInv, StreamedIsStored, AcceptedIsKept
<1>. QED BY <1>6, <1>7, <1>8, <1>9 DEF Kept

LEMMA PushKeeps ==
    ASSUME IInv, NEW t \in Thread, PushRecord(t) \/ PushFails(t)
    PROVE  Kept(t)
<1>. USE DEF IInv
<1>1. /\ pc[t] = "push" /\ NextRecord(t)
      /\ stream' \in {stream, stream \union {<<request[t], next[t]>>}}
      /\ processed' \in {processed, [processed EXCEPT ![t] = processed[t] + 1]}
      /\ UNCHANGED <<rows, open, failed>>
      /\ UNCHANGED <<requests, restarts, singles, accepted, reported>>
  BY DEF PushRecord, PushFails, Current, world
<1>2. /\ request[t] \in Request \ singles /\ processed[t] < next[t]
      /\ next[t] <= size[t] /\ request[t] <= requests
  BY <1>1 DEF ThreadInv
<1>3. /\ pc' = [pc EXCEPT ![t] = "record"]
      /\ next' = [next EXCEPT ![t] = next[t] + 1]
      /\ next' \in [Thread -> 1..(MaxRecords + 1)]
      /\ UNCHANGED <<request, size>>
  BY <1>1, <1>2, NextEffect
<1>4. next[t] \in 1..MaxRecords /\ processed[t] + 1 \in 0..MaxRecords
  BY <1>2, IngestAssumption DEF TypeOK
<1>5. <<request[t], next[t]>> \in Item
  BY <1>2, <1>4
<1>6. processed' \in [Thread -> 0..MaxRecords]
  BY <1>1, <1>4 DEF TypeOK
<1>7. TypeOK'
  BY <1>1, <1>3, <1>5, <1>6 DEF TypeOK
<1>8. Relied(t)
  BY <1>1, <1>3 DEF Relied, Others, TypeOK
<1>9. ThreadInv(t)'
  <2>1. pc'[t] = "record" /\ next'[t] = next[t] + 1
    BY <1>3 DEF TypeOK
  <2>2. processed'[t] \in {processed[t], processed[t] + 1}
    BY <1>1 DEF TypeOK
  <2>3. processed'[t] < next'[t] /\ next'[t] <= size'[t] + 1
    BY <2>1, <2>2, <1>2, <1>3 DEF TypeOK
  <2>. QED BY <2>1, <2>3, <1>1, <1>2, <1>3 DEF ThreadInv
<1>10. StreamInv'
  <2>1. \A r \in singles : <<r, 1>> \in stream' => <<r, 1>> \in stream
    BY <1>1, <1>2
  <2>2. \A x \in stream' : x[1] <= requests
    BY <1>1, <1>2 DEF StreamInv
  <2>. QED BY <2>1, <2>2, <1>1 DEF StreamInv, StreamedIsStored, AcceptedIsKept
<1>. QED BY <1>7, <1>8, <1>9, <1>10 DEF Kept
-----------------------------------------------------------------------------
LEMMA InitInv == Init => IInv
<1>. SUFFICES ASSUME Init PROVE IInv
  OBVIOUS
<1>1. TypeOK
  BY IngestAssumption DEF Init, TypeOK
<1>2. StreamInv
  BY DEF Init, StreamInv, StreamedIsStored, AcceptedIsKept
<1>3. \A t \in Thread : ThreadInv(t)
  BY DEF Init, ThreadInv
<1>. QED BY <1>1, <1>2, <1>3 DEF IInv

LEMMA RestartKeeps == IInv /\ Restart => IInv'
<1>. SUFFICES ASSUME IInv, Restart PROVE IInv'
  OBVIOUS
<1>. USE DEF IInv
<1>1. TypeOK'
  BY IngestAssumption DEF Restart, TypeOK, handler
<1>2. StreamInv'
  BY DEF Restart, StreamInv, StreamedIsStored, AcceptedIsKept
<1>3. ASSUME NEW t \in Thread
      PROVE  ThreadInv(t)'
  BY DEF Restart, ThreadInv, handler
<1>. QED BY <1>1, <1>2, <1>3

LEMMA NextInv == IInv /\ [Next]_vars => IInv'
<1>. SUFFICES ASSUME IInv, [Next]_vars PROVE IInv'
  OBVIOUS
<1>1. ASSUME NEW t \in Thread, Single(t)
      PROVE  IInv'
  <2>. USE <1>1
  <2>1. Kept(t)
    BY PostKeeps, InsertKeeps, InsertFailsKeeps, CommitKeeps, CommitFailsKeeps, AddKeeps
       DEF Single
  <2>. QED BY <2>1, KeptIsEnough
<1>2. ASSUME NEW t \in Thread, Fleet(t)
      PROVE  IInv'
  <2>. USE <1>2
  <2>1. Kept(t)
    BY PostFleetKeeps, InsertRecordKeeps, SkipRecordKeeps, PushKeeps, CommitBatchKeeps,
       CommitBatchFailsKeeps DEF Fleet
  <2>. QED BY <2>1, KeptIsEnough
<1>3. CASE Restart
  BY <1>3, RestartKeeps
<1>4. CASE UNCHANGED vars
  BY <1>4 DEF vars, IInv, TypeOK, StreamInv, StreamedIsStored, AcceptedIsKept, ThreadInv
<1>. QED BY <1>1, <1>2, <1>3, <1>4 DEF Next
-----------------------------------------------------------------------------
\* The inductive invariant holds in every reachable state.
THEOREM Correct == Spec => []IInv
BY InitInv, NextInv, PTL DEF Spec

\* Every variable keeps its type: no request goes past its records.
THEOREM TypeCorrect == Spec => []TypeOK
<1>1. IInv => TypeOK
  BY DEF IInv
<1>. QED BY <1>1, Correct, PTL

\* What the endpoints of one entry put on the stream has a committed row.
THEOREM StreamedAfterStored == Spec => []StreamedIsStored
<1>1. IInv => StreamedIsStored
  BY DEF IInv, StreamInv
<1>. QED BY <1>1, Correct, PTL

\* What was answered "accepted" is in the database and on the stream.
THEOREM AcceptedIsSafe == Spec => []AcceptedIsKept
<1>1. IInv => AcceptedIsKept
  BY DEF IInv, StreamInv
<1>. QED BY <1>1, Correct, PTL

\* A commit takes the rows of the request being served and no others.
THEOREM CommitsOwnRows == Spec => OwnRows
<1>1. ASSUME IInv, [Next]_vars, rows' # rows
      PROVE  \E t \in Thread : /\ pc[t] # "idle"
                               /\ \A x \in rows' \ rows : x[1] = request[t]
  <2>1. PICK t \in Thread : /\ pc[t] \in {"commit", "record"}
                            /\ CommitRows(t) \/ CommitRaises(t)
    BY <1>1 DEF Next, Single, Fleet, vars, Post, Insert, InsertFails, Commit, CommitFails,
       Add, AddFails, PostFleet, InsertRecord, SkipRecord, PushRecord, PushFails,
       CommitBatch, CommitBatchFails, AtEnd, Restart
  <2>2. rows' \in {rows, rows \union open[t]}
    BY <2>1 DEF CommitRows, CommitRaises
  <2>3. \A x \in open[t] : x[1] = request[t]
    BY <1>1 DEF IInv, ThreadInv
  <2>. QED BY <2>1, <2>2, <2>3
<1>. QED BY <1>1, Correct, PTL DEF OwnRows, Spec
-----------------------------------------------------------------------------
(* The counts of a batch.  Its items on the stream come from the records before  *)
(* the next one, so each addition that is counted brings a new item.             *)

Of(S, r) == {x \in S : x[1] = r}

Serving(t) == pc[t] \in {"record", "push"}

BatchInv(t) ==
    Serving(t) => /\ \A x \in Of(stream, request[t]) : x[2] < next[t]
                  /\ processed[t] <= Cardinality(Of(stream, request[t]))
                  /\ Of(reported, request[t]) = {}

CountInv ==
    /\ \A t \in Thread : BatchInv(t)
    /\ \A t, u \in Thread : Serving(t) /\ Serving(u) /\ t # u => request[t] # request[u]
    /\ \A x \in reported : x[1] <= requests
    /\ CountedIsPushed

LEMMA ItemsOfOne ==
    ASSUME NEW S, S \subseteq Item, NEW r
    PROVE  IsFiniteSet(Of(S, r)) /\ Cardinality(Of(S, r)) \in Nat
<1>1. IsFiniteSet(Request) /\ IsFiniteSet(1..MaxRecords)
  BY IngestAssumption, FS_Interval
<1>2. IsFiniteSet(Item)
  BY <1>1, FS_Product
<1>3. Of(S, r) \in SUBSET Item
  BY DEF Of
<1>4. IsFiniteSet(Of(S, r))
  BY <1>2, <1>3, FS_Subset
<1>. QED BY <1>4, FS_CardinalityType

\* More items are not counted lower.
LEMMA MoreItems ==
    ASSUME NEW S, NEW T, S \subseteq T, T \subseteq Item, NEW r
    PROVE  Cardinality(Of(S, r)) <= Cardinality(Of(T, r))
<1>1. IsFiniteSet(Of(T, r))
  BY ItemsOfOne
<1>2. Of(S, r) \in SUBSET Of(T, r)
  BY DEF Of
<1>. QED BY <1>1, <1>2, FS_Subset

\* The answer of a batch names as many items as were processed, all of the batch.
LEMMA ItemsOfReply ==
    ASSUME NEW r, NEW n \in Nat
    PROVE  Cardinality({<<r, i>> : i \in 1..n}) <= n
<1>. DEFINE T == {<<r, i>> : i \in 1..n}
            f == [i \in 1..n |-> <<r, i>>]
<1>1. f \in Surjection(1..n, T)
  BY DEF Surjection
<1>2. IsFiniteSet(1..n) /\ Cardinality(1..n) = n
  <2>1. 1 \in Int /\ n \in Int
    OBVIOUS
  <2>2. IsFiniteSet(1..n) /\ Cardinality(1..n) = IF 1 > n THEN 0 ELSE n - 1 + 1
    BY <2>1, FS_Interval
  <2>. QED BY <2>2
<1>3. Cardinality(T) <= Cardinality(1..n)
  BY <1>1, <1>2, FS_Surjection
<1>. QED BY <1>2, <1>3

\* A step that neither adds, nor reports, nor begins a request.
LEMMA QuietCounts ==
    ASSUME TypeOK, TypeOK', CountInv,
           stream' = stream, reported' = reported, requests' = requests,
           \A t \in Thread : Serving(t)' => /\ Serving(t)
                                           /\ request'[t] = request[t]
                                           /\ processed'[t] = processed[t]
                                           /\ next[t] <= next'[t]
    PROVE  CountInv'
<1>1. ASSUME NEW t \in Thread
      PROVE  BatchInv(t)'
  <2>. SUFFICES ASSUME Serving(t)'
                PROVE  /\ \A x \in Of(stream, request[t])' : x[2] < next'[t]
                       /\ (processed[t] <= Cardinality(Of(stream, request[t])))'
                       /\ (Of(reported, request[t]) = {})'
    BY DEF BatchInv
  <2>1. /\ \A x \in Of(stream, request[t]) : x[2] < next[t]
        /\ processed[t] <= Cardinality(Of(stream, request[t]))
        /\ Of(reported, request[t]) = {}
    BY DEF CountInv, BatchInv
  <2>2. Of(stream, request[t])' = Of(stream, request[t])
        /\ Of(reported, request[t])' = Of(reported, request[t])
    BY DEF Of
  <2>3. \A x \in Of(stream, request[t]) : x[2] \in Nat
    BY DEF Of, TypeOK
  <2>4. next[t] \in Nat /\ next'[t] \in Nat /\ next[t] <= next'[t]
    BY DEF TypeOK
  <2>5. \A x \in Of(stream, request[t]) : x[2] < next'[t]
    BY <2>1, <2>3, <2>4
  <2>. QED BY <2>1, <2>2, <2>5
<1>2. CountedIsPushed'
  BY DEF CountInv, CountedIsPushed
<1>3. \A t, u \in Thread : Serving(t)' /\ Serving(u)' /\ t # u => request'[t] # request'[u]
  BY DEF CountInv
<1>. QED BY <1>1, <1>2, <1>3 DEF CountInv

\* A new request has no items yet, on the stream or reported.
LEMMA BeginCounts ==
    ASSUME IInv, CountInv, NEW t \in Thread, NEW n \in 0..MaxRecords, Begin(t, n),
           stream' = stream, reported' = reported,
           \A u \in Thread : u # t => pc'[u] = pc[u]
    PROVE  CountInv'
<1>1. /\ requests' = requests + 1
      /\ request'[t] = requests + 1 /\ next'[t] = 1 /\ processed'[t] = 0
      /\ \A u \in Thread : u # t =>
           /\ request'[u] = request[u] /\ next'[u] = next[u] /\ processed'[u] = processed[u]
  BY BeginEffect DEF IInv
<1>2. requests \in Nat /\ \A u \in Thread : request[u] \in Nat /\ request[u] <= requests
  <2>1. requests \in Nat
    BY IngestAssumption DEF IInv, TypeOK
  <2>2. ASSUME NEW u \in Thread
        PROVE  request[u] \in Nat /\ request[u] <= requests
    <3>1. request[u] \in 0..MaxRequest
      BY DEF IInv, TypeOK
    <3>2. ThreadInv(u)
      BY DEF IInv
    <3>. QED BY <3>1, <3>2, IngestAssumption DEF ThreadInv
  <2>. QED BY <2>1, <2>2
<1>3. \A x \in stream \union reported : x[1] \in Nat /\ x[1] <= requests
  BY DEF IInv, TypeOK, StreamInv, CountInv
<1>4. Of(stream, requests + 1) = {} /\ Of(reported, requests + 1) = {}
  <2>1. \A x \in stream \union reported : x[1] # requests + 1
    BY <1>2, <1>3
  <2>. QED BY <2>1 DEF Of
<1>5. ASSUME NEW u \in Thread
      PROVE  BatchInv(u)'
  <2>1. CASE u = t
    <3>1. Of(stream, request[t])' = {} /\ Of(reported, request[t])' = {}
      BY <1>1, <1>4 DEF Of
    <3>2. Cardinality({}) = 0
      BY FS_EmptySet
    <3>. QED BY <2>1, <3>1, <3>2, <1>1 DEF BatchInv
  <2>2. CASE u # t
    <3>1. BatchInv(u)
      BY DEF CountInv
    <3>2. /\ Serving(u)' = Serving(u) /\ request'[u] = request[u]
          /\ next'[u] = next[u] /\ processed'[u] = processed[u]
      BY <2>2, <1>1 DEF Serving
    <3>3. Of(stream, request[u])' = Of(stream, request[u])
          /\ Of(reported, request[u])' = Of(reported, request[u])
      BY <3>2 DEF Of
    <3>. QED BY <3>1, <3>2, <3>3 DEF BatchInv
  <2>. QED BY <2>1, <2>2
<1>6. \A u, v \in Thread : Serving(u)' /\ Serving(v)' /\ u # v => request'[u] # request'[v]
  <2>1. \A u \in Thread : u # t => request'[u] # requests + 1
    BY <1>1, <1>2
  <2>. QED BY <2>1, <1>1 DEF CountInv, Serving
<1>7. \A x \in reported' : x[1] <= requests'
  BY <1>1, <1>2, <1>3
<1>8. CountedIsPushed'
  BY DEF CountInv, CountedIsPushed
<1>. QED BY <1>5, <1>6, <1>7, <1>8 DEF CountInv

\* An item goes on the stream: it counts for its own request only.
LEMMA OneMoreItem ==
    ASSUME TypeOK, TypeOK', CountInv, NEW c \in Item, stream' \in {stream, stream \union {c}},
           reported' = reported
    PROVE  /\ CountedIsPushed'
           /\ \A r : r # c[1] => Of(stream', r) = Of(stream, r)
<1>1. \A r : r # c[1] => Of(stream', r) = Of(stream, r)
  BY DEF Of
<1>2. ASSUME NEW r \in Request
      PROVE  Cardinality(Of(reported', r)) <= Cardinality(Of(stream', r))
  <2>1. Cardinality(Of(reported, r)) <= Cardinality(Of(stream, r))
    BY DEF CountInv, CountedIsPushed, Of
  <2>2. Cardinality(Of(stream, r)) <= Cardinality(Of(stream', r))
    <3>1. stream \subseteq stream' /\ stream' \subseteq Item
      BY DEF TypeOK
    <3>. QED BY <3>1, MoreItems
  <2>3. /\ Cardinality(Of(reported, r)) \in Nat /\ Cardinality(Of(stream, r)) \in Nat
        /\ Cardinality(Of(stream', r)) \in Nat
    BY ItemsOfOne DEF TypeOK
  <2>. QED BY <2>1, <2>2, <2>3
<1>. QED BY <1>1, <1>2 DEF CountedIsPushed, Of

LEMMA AddCounts ==
    ASSUME IInv, CountInv, TypeOK', NEW t \in Thread, Add(t) \/ AddFails(t)
    PROVE  CountInv'
<1>1. /\ pc[t] = "add" /\ pc' = [pc EXCEPT ![t] = "idle"]
      /\ stream' \in {stream, stream \union {<<request[t], next[t]>>}}
      /\ UNCHANGED <<request, next, processed, requests, reported>>
  BY DEF Add, AddFails, Answer, Goto, Current, handler, world
<1>2. request[t] \in singles /\ <<request[t], next[t]>> \in Item
  BY <1>1, IngestAssumption DEF IInv, ThreadInv, TypeOK
<1>3. /\ CountedIsPushed'
      /\ \A r : r # request[t] => Of(stream', r) = Of(stream, r)
  BY <1>1, <1>2, OneMoreItem DEF IInv
<1>4. ASSUME NEW u \in Thread
      PROVE  BatchInv(u)'
  <2>1. Serving(u)' => Serving(u) /\ request[u] \notin singles
    BY <1>1 DEF Serving, IInv, ThreadInv, TypeOK
  <2>2. BatchInv(u)
    BY DEF CountInv
  <2>3. Serving(u)' => Of(stream', request[u]) = Of(stream, request[u])
    BY <2>1, <1>2, <1>3
  <2>. QED BY <1>1, <2>1, <2>2, <2>3 DEF BatchInv, Of
<1>5. \A u \in Thread : Serving(u)' => Serving(u)
  BY <1>1 DEF Serving, IInv, TypeOK
<1>. QED BY <1>1, <1>3, <1>4, <1>5 DEF CountInv

\* A record that is pushed is none of those pushed before.
LEMMA PushCounts ==
    ASSUME IInv, CountInv, TypeOK', NEW t \in Thread, PushRecord(t) \/ PushFails(t)
    PROVE  CountInv'
<1>. DEFINE c == <<request[t], next[t]>>
<1>1. /\ pc[t] = "push" /\ NextRecord(t)
      /\ stream' \in {stream, stream \union {c}}
      /\ \/ processed' = processed
         \/ /\ processed' = [processed EXCEPT ![t] = processed[t] + 1]
            /\ stream' = stream \union {c}
      /\ UNCHANGED <<requests, reported>>
  BY DEF PushRecord, PushFails, Current, world
<1>2. /\ request[t] \in Request \ singles /\ processed[t] < next[t] /\ next[t] <= size[t]
  BY <1>1 DEF IInv, ThreadInv
<1>3. /\ pc' = [pc EXCEPT ![t] = "record"]
      /\ next' = [next EXCEPT ![t] = next[t] + 1]
      /\ UNCHANGED <<request, size>>
  BY <1>1, <1>2, NextEffect DEF IInv
<1>4. next[t] \in 1..MaxRecords /\ c \in Item
  BY <1>2, IngestAssumption DEF IInv, TypeOK
<1>5. /\ CountedIsPushed'
      /\ \A r : r # request[t] => Of(stream', r) = Of(stream, r)
  BY <1>1, <1>4, OneMoreItem DEF IInv
<1>6. \A u \in Thread : Serving(u)' => Serving(u)
  BY <1>1, <1>3 DEF Serving, IInv, TypeOK
<1>7. ASSUME NEW u \in Thread, u # t
      PROVE  BatchInv(u)'
  <2>. USE <1>7
  <2>1. BatchInv(u) /\ (Serving(u)' => request[u] # request[t])
    BY <1>1, <1>6 DEF CountInv, Serving
  <2>2. Serving(u)' => Of(stream', request[u]) = Of(stream, request[u])
    BY <2>1, <1>5
  <2>3. processed'[u] = processed[u] /\ next'[u] = next[u]
    BY <1>1, <1>3 DEF IInv, TypeOK
  <2>. QED BY <2>1, <2>2, <2>3, <1>1, <1>3, <1>6 DEF BatchInv, Of
<1>8. BatchInv(t)'
  <2>. DEFINE S == Of(stream, request[t])
              T == Of(stream', request[t])
  <2>1. /\ \A x \in S : x[2] < next[t]
        /\ processed[t] <= Cardinality(S) /\ Of(reported, request[t]) = {}
    BY <1>1 DEF CountInv, BatchInv, Serving
  <2>2. T \in {S, S \union {c}} /\ (stream' = stream \union {c} => T = S \union {c})
    <3>1. c[1] = request[t]
      OBVIOUS
    <3>. QED BY <3>1, <1>1 DEF Of
  <2>3. c \notin S
    <3>1. c[2] = next[t] /\ next[t] \in Nat
      BY <1>4
    <3>. QED BY <2>1, <3>1
  <2>4. IsFiniteSet(S) /\ Cardinality(S) \in Nat
    BY ItemsOfOne DEF IInv, TypeOK
  <2>5. Cardinality(S \union {c}) = Cardinality(S) + 1
    BY <2>3, <2>4, FS_AddElement
  <2>6. next'[t] = next[t] + 1 /\ next[t] \in Nat /\ processed[t] \in Nat
    BY <1>3 DEF IInv, TypeOK
  <2>7. \A x \in T : x[2] < next'[t]
    <3>1. \A x \in S : x[2] \in Nat
      BY DEF Of, IInv, TypeOK
    <3>2. \A x \in {c} : x[2] = next[t]
      OBVIOUS
    <3>. QED BY <2>1, <2>2, <2>6, <3>1, <3>2
  <2>8. processed'[t] <= Cardinality(T)
    <3>1. CASE processed' = processed
      <4>1. Cardinality(T) \in {Cardinality(S), Cardinality(S) + 1}
        BY <2>2, <2>5
      <4>. QED BY <3>1, <4>1, <2>1, <2>4, <2>6
    <3>2. CASE processed' # processed
      <4>1. processed'[t] = processed[t] + 1 /\ T = S \union {c}
        BY <3>2, <1>1, <2>2 DEF IInv, TypeOK
      <4>. QED BY <4>1, <2>1, <2>4, <2>5, <2>6
    <3>. QED BY <3>1, <3>2
  <2>. QED BY <2>1, <2>7, <2>8, <1>1, <1>3 DEF BatchInv, Of
<1>9. \A u \in Thread : BatchInv(u)'
  BY <1>7, <1>8
<1>. QED BY <1>1, <1>3, <1>5, <1>6, <1>9 DEF CountInv

\* The answer of a batch reports what was processed of it.
LEMMA ReplyCounts ==
    ASSUME IInv, CountInv, TypeOK', NEW t \in Thread, CommitBatch(t)
    PROVE  CountInv'
<1>1. /\ pc[t] = "record" /\ pc' = [pc EXCEPT ![t] = "idle"]
      /\ UNCHANGED <<stream, request, next, processed, requests>>
      /\ reported' = reported \union Reply(t)
  BY DEF CommitBatch, Answer, Goto, handler, world, AtEnd
<1>2. /\ processed[t] <= Cardinality(Of(stream, request[t]))
      /\ Of(reported, request[t]) = {} /\ processed[t] \in Nat
  BY <1>1 DEF CountInv, BatchInv, Serving, IInv, TypeOK
<1>3. \A x \in Reply(t) : x[1] = request[t]
  BY DEF Reply
<1>4. \A r : r # request[t] => Of(reported', r) = Of(reported, r)
  BY <1>1, <1>3 DEF Of
<1>5. Of(reported', request[t]) = Reply(t)
  BY <1>1, <1>2, <1>3 DEF Of
<1>6. ASSUME NEW r \in Request
      PROVE  Cardinality(Of(reported', r)) <= Cardinality(Of(stream, r))
  <2>1. CASE r = request[t]
    <3>1. Cardinality(Reply(t)) <= processed[t]
      BY <1>2, ItemsOfReply DEF Reply
    <3>2. Cardinality(Of(reported', r)) \in Nat /\ Cardinality(Of(stream, r)) \in Nat
      BY ItemsOfOne DEF TypeOK, IInv
    <3>. QED BY <2>1, <3>1, <3>2, <1>2, <1>5
  <2>2. CASE r # request[t]
    BY <2>2, <1>4 DEF CountInv, CountedIsPushed, Of
  <2>. QED BY <2>1, <2>2
<1>7. CountedIsPushed'
  BY <1>1, <1>6 DEF CountedIsPushed, Of
<1>8. \A u \in Thread : Serving(u)' => Serving(u) /\ u # t
  BY <1>1 DEF Serving, IInv, TypeOK
<1>9. ASSUME NEW u \in Thread
      PROVE  BatchInv(u)'
  <2>1. BatchInv(u) /\ (Serving(u)' => request[u] # request[t])
    BY <1>1, <1>8 DEF CountInv, Serving
  <2>2. Serving(u)' => Of(reported', request[u]) = Of(reported, request[u])
    BY <2>1, <1>4
  <2>. QED BY <2>1, <2>2, <1>1, <1>8 DEF BatchInv, Of
<1>10. \A x \in reported' : x[1] <= requests'
  BY <1>1, <1>3 DEF CountInv, IInv, ThreadInv
<1>. QED BY <1>1, <1>7, <1>8, <1>9, <1>10 DEF CountInv

LEMMA NextCounts == IInv /\ IInv' /\ CountInv /\ [Next]_vars => CountInv'
<1>. SUFFICES ASSUME IInv, IInv', CountInv, [Next]_vars PROVE CountInv'
  OBVIOUS
<1>. USE DEF IInv
<1>1. ASSUME NEW t \in Thread, Insert(t) \/ InsertFails(t) \/ Commit(t) \/ CommitFails(t)
                               \/ InsertRecord(t) \/ CommitBatchFails(t)
      PROVE  CountInv'
  <2>1. UNCHANGED <<stream, reported, requests, request, processed, next>>
    BY <1>1 DEF Insert, InsertFails, Commit, CommitFails, InsertRecord, CommitBatchFails,
                handler, world
  <2>2. \A u \in Thread : Serving(u)' => Serving(u)
    BY <1>1 DEF Serving, Insert, InsertFails, Commit, CommitFails, InsertRecord, AtRecord,
                CommitBatchFails, AtEnd, Goto, Answer, TypeOK
  <2>3. \A u \in Thread : next[u] \in Nat
    BY DEF TypeOK
  <2>. QED BY <2>1, <2>2, <2>3, QuietCounts
<1>2. ASSUME NEW t \in Thread, SkipRecord(t)
      PROVE  CountInv'
  <2>1. /\ UNCHANGED <<stream, reported, requests, processed>>
        /\ pc[t] = "record" /\ NextRecord(t)
    BY <1>2 DEF SkipRecord, AtRecord, world
  <2>2. /\ pc' = [pc EXCEPT ![t] = "record"] /\ request' = request
        /\ next' = [next EXCEPT ![t] = next[t] + 1]
    BY <2>1 DEF NextRecord, Goto
  <2>3. \A u \in Thread : next[u] \in Nat /\ next[u] <= next'[u]
    BY <2>2 DEF TypeOK
  <2>4. \A u \in Thread : Serving(u)' => Serving(u)
    BY <2>1, <2>2 DEF Serving, TypeOK
  <2>. QED BY <2>1, <2>2, <2>3, <2>4, QuietCounts
<1>3. ASSUME NEW t \in Thread, Post(t) \/ PostFleet(t)
      PROVE  CountInv'
  <2>1. 1 \in 0..MaxRecords
    BY IngestAssumption
  <2>2. PICK n \in 0..MaxRecords : Begin(t, n)
    BY <1>3, <2>1 DEF Post, PostFleet
  <2>3. stream' = stream /\ reported' = reported /\ \A u \in Thread : u # t => pc'[u] = pc[u]
    BY <1>3 DEF Post, PostFleet, Goto, TypeOK
  <2>. QED BY <2>2, <2>3, BeginCounts
<1>4. ASSUME NEW t \in Thread, Add(t) \/ AddFails(t)
      PROVE  CountInv'
  BY <1>4, AddCounts
<1>5. ASSUME NEW t \in Thread, PushRecord(t) \/ PushFails(t)
      PROVE  CountInv'
  BY <1>5, PushCounts
<1>6. ASSUME NEW t \in Thread, CommitBatch(t)
      PROVE  CountInv'
  BY <1>6, ReplyCounts
<1>7. CASE Restart
  <2>1. /\ UNCHANGED <<stream, reported, requests, request, processed, next>>
        /\ \A u \in Thread : ~Serving(u)'
    BY <1>7 DEF Restart, handler, Serving
  <2>. QED BY <2>1, QuietCounts
<1>8. CASE UNCHANGED vars
  <2>1. /\ UNCHANGED <<stream, reported, requests, request, processed, next, pc>>
        /\ \A u \in Thread : next[u] \in Nat
    BY <1>8 DEF vars, TypeOK
  <2>. QED BY <2>1, QuietCounts DEF Serving
<1>. QED
  BY <1>1, <1>2, <1>3, <1>4, <1>5, <1>6, <1>7, <1>8 DEF Next, Single, Fleet

\* An answer counts as processed no more records than XADD put on the stream, for any
\* number of threads, records, failures and restarts (processed_count).
THEOREM CountsPushed == Spec => []CountedIsPushed
<1>1. Init => CountInv
  <2>. SUFFICES ASSUME Init PROVE CountInv
    OBVIOUS
  <2>1. \A t \in Thread : ~Serving(t)
    BY DEF Init, Serving
  <2>2. \A r \in Request : {x \in reported : x[1] = r} = {} /\ {x \in stream : x[1] = r} = {}
    BY DEF Init
  <2>3. Cardinality({}) = 0
    BY FS_EmptySet
  <2>4. CountedIsPushed
    BY <2>2, <2>3 DEF CountedIsPushed
  <2>5. reported = {}
    BY DEF Init
  <2>. QED BY <2>1, <2>4, <2>5 DEF CountInv, BatchInv
<1>2. CountInv => CountedIsPushed
  BY DEF CountInv
<1>. QED BY <1>1, <1>2, NextCounts, Correct, PTL DEF Spec
-----------------------------------------------------------------------------
(***************************************************************************)
(* The packet filter                                                       *)
(***************************************************************************)

HIDE DEF Request, Item

\* What row i of a table is to hold of a configuration.
RuleRow(g, i) == IF i <= Len(g.rules) /\ g.rules[i].valid THEN Row(g.rules[i]) ELSE Cleared

PortRow(g, i) == IF i <= Len(g.ports) THEN Wrap(g.ports[i]) ELSE 0

Holds(i, row) == rules[i].net = row.net /\ rules[i].gate = row.gate

\* The rules are those of ruleTable, or an update is under way, or one has failed.
RulesInv ==
    /\ ruleTable # Mixed =>
           /\ at \notin {"clearRules", "fillRules"}
           /\ \A i \in 1..MaxRules : Holds(i, RuleRow(ruleTable, i))
    /\ words # Word =>
           /\ at \in {"clearRules", "fillRules"} /\ idx <= MaxRules
           /\ at = "fillRules" => AtEntry /\ config.rules[idx].valid
    /\ at = "clearRules" =>
           /\ whole
           /\ \A i \in 1..MaxRules :
                 /\ i < idx => Holds(i, Cleared)
                 /\ i = idx /\ "net" \notin words => rules[i].net = Cleared.net
                 /\ i = idx /\ "gate" \notin words => rules[i].gate = Cleared.gate
    /\ at = "fillRules" /\ whole =>
           \A i \in 1..MaxRules :
               /\ i < idx => Holds(i, RuleRow(config, i))
               /\ i > idx => Holds(i, Cleared)
               /\ i = idx =>
                    /\ rules[i].net = IF "net" \in words THEN Cleared.net
                                      ELSE RuleRow(config, i).net
                    /\ rules[i].gate = IF "gate" \in words THEN Cleared.gate
                                       ELSE RuleRow(config, i).gate

PortsInv ==
    /\ portTable # Mixed =>
           /\ at \notin {"clearPorts", "fillPorts"}
           /\ \A i \in 1..MaxPorts : ports[i] = PortRow(portTable, i)
    /\ at = "clearPorts" => \A i \in 1..MaxPorts : i < idx => ports[i] = 0
    /\ at = "fillPorts" =>
           \A i \in 1..MaxPorts : ports[i] = IF i < idx THEN PortRow(config, i) ELSE 0

Hits(g, i, p) == i <= Len(g.rules) /\ Applies(g.rules[i], p)

Gated(g, i, p) ==
    LET gate == RuleRow(g, i).gate IN gate.enabled /\ gate.port \in {0, p.port}

\* What the filter has found of a packet so far.
FilterInv(c) ==
    /\ slot[c] >= 1
    /\ step[c] = "match" => slot[c] <= MaxRules
    /\ step[c] = "idle" => ~undisturbed[c] /\ slot[c] = 1
    /\ step[c] # "idle" => packet[c] \in Packet
    /\ step[c] \in {"idle", "ports", "rules", "match"} => ~allowed[c]
    /\ undisturbed[c] =>
          /\ ruleTable # Mixed /\ portTable # Mixed
          /\ step[c] = "ports" =>
                \A i \in 1..MaxPorts :
                    i < slot[c] => PortRow(portTable, i) \notin {0, packet[c].port}
          /\ step[c] \in {"rules", "match"} =>
                /\ Listed(portTable, packet[c].port)
                /\ \A i \in 1..MaxRules : i < slot[c] => ~Hits(ruleTable, i, packet[c])
          /\ step[c] = "match" => Gated(ruleTable, slot[c], packet[c])
          /\ step[c] \in {"total", "verdict", "kind"} =>
                (allowed[c] <=> Decision(ruleTable, portTable, packet[c]))

\* The counters of a CPU, with the packet that it is counting.
CounterInv(c) ==
    /\ stats[c]["total"] + (IF step[c] \in {"ports", "rules", "match", "total"} THEN 1 ELSE 0)
         <= packets
    /\ stats[c]["allowed"] + stats[c]["blocked"] + (IF step[c] = "verdict" THEN 1 ELSE 0)
         = stats[c]["total"]
    /\ stats[c]["tcp"] + stats[c]["udp"] + (IF step[c] = "kind" THEN 1 ELSE 0)
         = stats[c]["allowed"] + stats[c]["blocked"]

\* The CPUs already read, and the one that is being read, that had a packet.
BusyBefore == Cardinality({c \in Cpu : c < cpu /\ stats[c]["total"] > 0})
BusyNow    == IF stats[cpu]["total"] > 0 THEN 1 ELSE 0

VerdictLag == sum["total"] - (sum["allowed"] + sum["blocked"])
KindLag    == (sum["allowed"] + sum["blocked"]) - (sum["tcp"] + sum["udp"])

\* How far the sums may lag behind, with what of the row is still to be read.
ReadInv ==
    /\ at # "read" => cpu = 1 /\ sum = NoCount
    /\ at = "read" /\ cpu > NCpu => idx = 1
    /\ at = "read" /\ idx = 1 => VerdictLag <= BusyBefore /\ KindLag <= BusyBefore
    /\ at = "read" /\ idx = 2 =>
         /\ VerdictLag <= BusyBefore + BusyNow + stats[cpu]["allowed"] + stats[cpu]["blocked"]
         /\ KindLag <= BusyBefore
    /\ at = "read" /\ idx = 3 =>
         /\ VerdictLag <= BusyBefore + BusyNow + stats[cpu]["blocked"]
         /\ KindLag <= BusyBefore + stats[cpu]["allowed"]
    /\ at = "read" /\ idx = 4 =>
         /\ VerdictLag <= BusyBefore + BusyNow
         /\ KindLag <= BusyBefore + BusyNow + stats[cpu]["tcp"] + stats[cpu]["udp"]
    /\ at = "read" /\ idx = 5 =>
         /\ VerdictLag <= BusyBefore + BusyNow
         /\ KindLag <= BusyBefore + BusyNow + stats[cpu]["udp"]

FilterTypes ==
    /\ step \in [Cpu -> {"idle", "ports", "rules", "match", "total", "verdict", "kind"}]
    /\ packet \in [Cpu -> Packet \union {NoPacket}]
    /\ slot \in [Cpu -> Nat]
    /\ allowed \in [Cpu -> BOOLEAN]
    /\ undisturbed \in [Cpu -> BOOLEAN]
    /\ packets \in 0..MaxPacket

StatTypes == stats \in [Cpu -> [Counter -> Nat]]

TableTypes ==
    /\ rules \in [1..MaxRules -> TableRow]
    /\ ports \in [1..MaxPorts -> UInt16]
    /\ words \in (SUBSET Word) \ {{}}

ManagerTypes ==
    /\ at \in {"idle", "clearRules", "fillRules", "clearPorts", "fillPorts", "read"}
    /\ config \in Config
    /\ idx \in Nat \ {0}
    /\ at \in {"clearRules", "fillRules"} => idx <= MaxRules + 1
    /\ at \in {"clearPorts", "fillPorts"} => idx <= MaxPorts + 1
    /\ whole \in BOOLEAN
    /\ reloads \in 0..MaxReload
    /\ failures \in 0..MaxFailure
    /\ ruleTable \in Config \union {Mixed} /\ portTable \in Config \union {Mixed}

ReadTypes ==
    /\ sum \in [Counter -> Nat] /\ cpu \in 1..(NCpu + 1)
    /\ at = "read" => idx <= 5

FilterPart  == FilterTypes /\ \A c \in Cpu : FilterInv(c)
CountPart   == StatTypes /\ \A c \in Cpu : CounterInv(c)
ManagerPart == TableTypes /\ ManagerTypes /\ RulesInv /\ PortsInv
ReadPart    == ReadTypes /\ ReadInv

XdpInv == FilterPart /\ CountPart /\ ManagerPart /\ ReadPart
-----------------------------------------------------------------------------
(* Rows and configurations *)

\* The lists of a configuration, whose lengths the code does not check.
LEMMA Configured ==
    ASSUME NEW g \in Config
    PROVE  /\ Len(g.ports) \in Nat /\ \A i \in 1..Len(g.ports) : g.ports[i] \in Nat
           /\ Len(g.rules) \in Nat
           /\ \A i \in 1..Len(g.rules) : g.rules[i] \in Entry
<1>1. g.ports \in Seq(Nat) /\ g.rules \in Seq(Entry)
    BY ConfigAssumption
<1>2. Len(g.ports) \in Nat /\ Len(g.rules) \in Nat
    BY <1>1, LenProperties
<1>3. \A i \in 1..Len(g.ports) : g.ports[i] \in Nat
    BY <1>1, ElementOfSeq
<1>4. \A i \in 1..Len(g.rules) : g.rules[i] \in Entry
    BY <1>1, ElementOfSeq
<1> QED
    BY <1>2, <1>3, <1>4

LEMMA Sizes == Size8 \in Nat \ {0} /\ Size16 \in Nat \ {0}
<1>1. Size8 \in Nat \ {0}
    BY DEF Size8
<1>2. \A n \in Nat \ {0} : n * n \in Nat \ {0}
    OBVIOUS
<1> QED
    BY <1>1, <1>2 DEF Size16

LEMMA Zero == 0 \in Byte /\ 0 \in UInt16
BY Sizes DEF Byte, UInt16

LEMMA Wrapped == \A n \in Nat : Wrap(n) \in UInt16
BY Sizes DEF Wrap, UInt16

\* What update_cidr_rules writes of a rule is a row of the table.
LEMMA RowType ==
    ASSUME NEW e \in Entry
    PROVE  Row(e) \in TableRow
<1> DEFINE network == [i \in 1..Bytes |-> IF i <= e.prefix THEN e.network[i] ELSE 0]
<1>1. /\ e.network \in [1..Bytes -> Byte] /\ e.prefix \in 0..Bytes
      /\ e.port \in Nat /\ e.enabled \in BOOLEAN
    BY DEF Entry, Address
<1>2. network \in Address
    BY <1>1, Zero, SizesAssumption DEF Address
<1>3. 1..e.prefix \in SUBSET (1..Bytes)
    BY <1>1, SizesAssumption
<1>4. Wrap(e.port) \in UInt16
    BY <1>1, Wrapped
<1> HIDE DEF network
<1> DEFINE net == [network |-> network, mask |-> 1..e.prefix]
           gate == [port |-> Wrap(e.port), enabled |-> e.enabled]
<1>5. net \in [network : Address, mask : SUBSET (1..Bytes)]
    BY <1>2, <1>3
<1>6. gate \in [port : UInt16, enabled : BOOLEAN]
    BY <1>1, <1>4
<1>7. Row(e) = [net |-> net, gate |-> gate]
    BY DEF Row, network
<1> HIDE DEF net, gate
<1> QED
    BY <1>5, <1>6, <1>7 DEF TableRow

LEMMA ClearedType == Cleared \in TableRow
<1> DEFINE network == [i \in 1..Bytes |-> 0]
<1>1. network \in Address
    BY Zero DEF Address
<1> HIDE DEF network
<1>2. [net |-> [network |-> network, mask |-> {}],
       gate |-> [port |-> 0, enabled |-> FALSE]] \in TableRow
    BY <1>1, Zero DEF TableRow
<1> QED
    BY <1>2 DEF Cleared, network

\* So is what row i is to hold, whether there is a rule for it or not.
LEMMA RuleRowType ==
    ASSUME NEW g \in Config, NEW i \in Nat \ {0}
    PROVE  RuleRow(g, i) \in TableRow
BY Configured, RowType, ClearedType DEF RuleRow

LEMMA PortRowType ==
    ASSUME NEW g \in Config, NEW i \in Nat \ {0}
    PROVE  PortRow(g, i) \in UInt16
<1>1. CASE i <= Len(g.ports)
    <2>1. g.ports[i] \in Nat
        BY <1>1, Configured
    <2> QED
        BY <1>1, <2>1, Wrapped DEF PortRow
<1>2. CASE ~(i <= Len(g.ports))
    BY <1>2, Zero DEF PortRow
<1> QED
    BY <1>1, <1>2

\* A row of the table lets a packet pass exactly if the rule of its number applies.
LEMMA RowApplies ==
    ASSUME NEW g \in Config, NEW p \in Packet, NEW i \in 1..MaxRules
    PROVE  Hits(g, i, p) <=>
               Gated(g, i, p) /\ Matches(Loaded(p.src), RuleRow(g, i).net)
<1>1. i \in Nat \ {0}
    BY SizesAssumption
<1>2. CASE i <= Len(g.rules) /\ g.rules[i].valid
    <2> DEFINE e == g.rules[i]
    <2>1. e \in Entry
        BY <1>1, <1>2, Configured
    <2>2. e.valid /\ RuleRow(g, i) = Row(e)
        BY <1>2 DEF RuleRow
    <2> HIDE DEF e
    <2>3. Gated(g, i, p) <=> e.enabled /\ Wrap(e.port) \in {0, p.port}
        BY <2>2 DEF Gated, Row
    <2>4. Matches(Loaded(p.src), Row(e).net)
             <=> \A j \in 1..e.prefix : p.src[Bytes + 1 - j] = e.network[j]
        <3> DEFINE network == [j \in 1..Bytes |-> IF j <= e.prefix THEN e.network[j] ELSE 0]
        <3>1. \A j \in 1..e.prefix : j \in 1..Bytes /\ j <= e.prefix
            BY <2>1, SizesAssumption DEF Entry
        <3>2. \A j \in 1..e.prefix : network[j] = e.network[j]
            BY <3>1
        <3>3. \A j \in 1..e.prefix : Loaded(p.src)[j] = p.src[Bytes + 1 - j]
            BY <3>1 DEF Loaded
        <3>4. Row(e).net = [network |-> network, mask |-> 1..e.prefix]
            BY DEF Row
        <3> HIDE DEF network
        <3> QED
            BY <3>2, <3>3, <3>4 DEF Matches
    <2>5. Hits(g, i, p) <=> Applies(e, p)
        BY <1>2 DEF Hits, e
    <2> QED
        BY <2>2, <2>3, <2>4, <2>5 DEF Applies
<1>3. CASE ~(i <= Len(g.rules) /\ g.rules[i].valid)
    <2>1. ~Gated(g, i, p)
        BY <1>3 DEF Gated, RuleRow, Cleared
    <2>2. ~Hits(g, i, p)
        BY <1>3 DEF Hits, Applies
    <2> QED
        BY <2>1, <2>2
<1> QED
    BY <1>2, <1>3

\* The table's ports up to the first that is 0 are the listed ones.
LEMMA PortFound ==
    ASSUME NEW g \in Config, NEW i \in 1..MaxPorts, NEW port \in Nat, PortRow(g, i) = port,
           port # 0, \A j \in 1..MaxPorts : j < i => PortRow(g, j) # 0
    PROVE  Listed(g, port)
<1>1. i <= Len(g.ports) /\ Wrap(g.ports[i]) = port
    BY DEF PortRow
<1>2. \A j \in 1..i : j \in 1..MaxPorts /\ j <= Len(g.ports) /\ PortRow(g, j) # 0
    BY <1>1, SizesAssumption, Configured
<1>3. \A j \in 1..i : Wrap(g.ports[j]) # 0
    BY <1>2 DEF PortRow
<1> QED
    BY <1>1, <1>3 DEF Listed

\* And a port that is not met before the first 0, or the table's end, is not listed.
LEMMA PortNotFound ==
    ASSUME NEW g \in Config, NEW n \in Nat \ {0}, NEW port \in Nat,
           n <= MaxPorts => PortRow(g, n) = 0,
           \A j \in 1..MaxPorts : j < n => PortRow(g, j) # port
    PROVE  ~Listed(g, port)
<1> SUFFICES ASSUME NEW i \in 1..MaxPorts, i <= Len(g.ports), Wrap(g.ports[i]) = port,
                    \A j \in 1..i : Wrap(g.ports[j]) # 0
             PROVE  FALSE
    BY DEF Listed
<1>1. PortRow(g, i) = port
    BY DEF PortRow
<1>2. n <= i
    BY <1>1, SizesAssumption
<1>3. n <= MaxPorts /\ n \in 1..i /\ n <= Len(g.ports)
    BY <1>2, SizesAssumption, Configured
<1> QED
    BY <1>3 DEF PortRow
-----------------------------------------------------------------------------
(* The manager rewrites a table *)

LEMMA WordSets ==
    ASSUME NEW S, S \in {{"net"}, {"gate"}, Word}
    PROVE  S \in (SUBSET Word) \ {{}}
<1>1. S \subseteq Word /\ S # {}
    BY DEF Word
<1> QED
    BY <1>1

\* One word of a row is written, and the row is done when it was the last.
LEMMA WriteRuleEffect ==
    ASSUME TableTypes, idx \in 1..MaxRules, NEW row \in TableRow, WriteRule(row)
    PROVE  /\ rules' \in [1..MaxRules -> TableRow]
           /\ words' \in (SUBSET Word) \ {{}}
           /\ \A i \in 1..MaxRules : i # idx => rules'[i] = rules[i]
           /\ rules'[idx].net \in {rules[idx].net, row.net}
           /\ rules'[idx].gate \in {rules[idx].gate, row.gate}
           /\ \/ /\ idx' = idx + 1 /\ words' = Word
                 /\ \/ /\ words = {"net"}
                       /\ rules'[idx].net = row.net /\ rules'[idx].gate = rules[idx].gate
                    \/ /\ words = {"gate"}
                       /\ rules'[idx].gate = row.gate /\ rules'[idx].net = rules[idx].net
              \/ /\ idx' = idx /\ words = Word
                 /\ \/ /\ words' = {"gate"}
                       /\ rules'[idx].net = row.net /\ rules'[idx].gate = rules[idx].gate
                    \/ /\ words' = {"net"}
                       /\ rules'[idx].gate = row.gate /\ rules'[idx].net = rules[idx].net
<1> USE DEF TableTypes
<1>1. PICK w \in words :
          /\ rules' = [rules EXCEPT ![idx][w] = row[w]]
          /\ IF words = {w} THEN words' = Word /\ idx' = idx + 1
                            ELSE words' = words \ {w} /\ UNCHANGED idx
    BY DEF WriteRule
<1>2. words = {"net"} \/ words = {"gate"} \/ words = Word
    BY DEF Word
<1> DEFINE now == [rules[idx] EXCEPT ![w] = row[w]]
<1>3. rules[idx] \in TableRow
    OBVIOUS
<1>4. rules' = [rules EXCEPT ![idx] = now]
    BY <1>1
<1>5. CASE w = "net"
    <2>1. now \in TableRow /\ now.net = row.net /\ now.gate = rules[idx].gate
        BY <1>3, <1>5 DEF TableRow
    <2> HIDE DEF now
    <2>2. rules' \in [1..MaxRules -> TableRow] /\ rules'[idx] = now
        BY <1>4, <2>1
    <2>3. \A i \in 1..MaxRules : i # idx => rules'[i] = rules[i]
        BY <1>4
    <2>4. rules'[idx].net = row.net /\ rules'[idx].gate = rules[idx].gate
        BY <2>1, <2>2
    <2>5. \/ words = {"net"} /\ words' = Word /\ idx' = idx + 1
          \/ words = Word /\ words' = {"gate"} /\ idx' = idx
        BY <1>1, <1>2, <1>5 DEF Word
    <2>6. words' \in (SUBSET Word) \ {{}}
        BY <2>5, WordSets
    <2> QED
        BY <2>2, <2>3, <2>4, <2>5, <2>6
<1>6. CASE w = "gate"
    <2>1. now \in TableRow /\ now.gate = row.gate /\ now.net = rules[idx].net
        BY <1>3, <1>6 DEF TableRow
    <2> HIDE DEF now
    <2>2. rules' \in [1..MaxRules -> TableRow] /\ rules'[idx] = now
        BY <1>4, <2>1
    <2>3. \A i \in 1..MaxRules : i # idx => rules'[i] = rules[i]
        BY <1>4
    <2>4. rules'[idx].gate = row.gate /\ rules'[idx].net = rules[idx].net
        BY <2>1, <2>2
    <2>5. \/ words = {"gate"} /\ words' = Word /\ idx' = idx + 1
          \/ words = Word /\ words' = {"net"} /\ idx' = idx
        BY <1>1, <1>2, <1>6 DEF Word
    <2>6. words' \in (SUBSET Word) \ {{}}
        BY <2>5, WordSets
    <2> QED
        BY <2>2, <2>3, <2>4, <2>5, <2>6
<1> QED
    BY <1>5, <1>6 DEF Word

\* What a step of reload_config must show.
ManagerKeeps ==
    /\ ManagerPart'
    /\ at' # "read"
    /\ UNCHANGED <<stats, filter, reading>>
    /\ \/ undisturbed' = [c \in Cpu |-> FALSE]
       \/ /\ undisturbed' = undisturbed /\ ruleTable' = ruleTable
          /\ portTable' = portTable \/ portTable = Mixed

\* The actions of reload_config, one by one.
LEMMA ReloadKeeps ==
    ASSUME ManagerPart, NEW g \in Config, Reload(g)
    PROVE  ManagerKeeps
<1> USE DEF ManagerPart, Reload, Move, Disturb
<1>1. TableTypes' /\ ManagerTypes'
    BY SizesAssumption DEF TableTypes, ManagerTypes
<1>2. words = Word
    BY DEF RulesInv
<1>3. RulesInv'
    BY <1>2, SizesAssumption DEF RulesInv, AtEntry, Word
<1>4. PortsInv'
    BY DEF PortsInv
<1> QED
    BY <1>1, <1>3, <1>4 DEF ManagerKeeps

LEMMA ClearRuleKeeps ==
    ASSUME ManagerPart, ClearRule
    PROVE  ManagerKeeps
<1> USE DEF ManagerPart
<1>1. /\ at = "clearRules" /\ idx \in 1..MaxRules /\ WriteRule(Cleared)
      /\ UNCHANGED <<at, ports, config, whole, reloads, failures, ruleTable, portTable,
                     undisturbed, stats, filter, reading>>
    BY SizesAssumption DEF ClearRule, ManagerTypes
<1>2. ruleTable = Mixed
    BY <1>1 DEF RulesInv
<1>3. TableTypes' /\ ManagerTypes'
    BY <1>1, ClearedType, WriteRuleEffect, SizesAssumption DEF TableTypes, ManagerTypes
<1>4. PortsInv'
    BY <1>1 DEF PortsInv
<1>5. RulesInv'
    <2>1. /\ \A i \in 1..MaxRules : i < idx => Holds(i, Cleared)
          /\ "net" \notin words => rules[idx].net = Cleared.net
          /\ "gate" \notin words => rules[idx].gate = Cleared.gate
        BY <1>1 DEF RulesInv
    <2>2. whole
        BY <1>1 DEF RulesInv
    <2>3. ASSUME NEW i \in 1..MaxRules
          PROVE  /\ i < idx' => rules'[i].net = Cleared.net /\ rules'[i].gate = Cleared.gate
                 /\ i = idx' /\ "net" \notin words' => rules'[i].net = Cleared.net
                 /\ i = idx' /\ "gate" \notin words' => rules'[i].gate = Cleared.gate
        BY <1>1, <2>1, ClearedType, WriteRuleEffect DEF Holds, Word
    <2>4. words' # Word => idx' <= MaxRules
        BY <1>1, ClearedType, WriteRuleEffect
    <2> QED
        BY <1>1, <1>2, <2>2, <2>3, <2>4 DEF RulesInv, Holds
<1> QED
    BY <1>1, <1>3, <1>4, <1>5 DEF ManagerKeeps

LEMMA RulesClearedKeeps ==
    ASSUME ManagerPart, RulesCleared
    PROVE  ManagerKeeps
<1> USE DEF ManagerPart, RulesCleared, Move, Stay
<1>1. words = Word /\ ruleTable = Mixed
    BY SizesAssumption DEF RulesInv, ManagerTypes
<1>2. TableTypes' /\ ManagerTypes'
    BY SizesAssumption DEF TableTypes, ManagerTypes
<1>3. \A i \in 1..MaxRules : Holds(i, Cleared)
    BY SizesAssumption DEF RulesInv, ManagerTypes
<1>4. RulesInv'
    BY <1>1, <1>3 DEF RulesInv, Holds, AtEntry, Word
<1>5. PortsInv'
    BY DEF PortsInv
<1> QED
    BY <1>1, <1>2, <1>4, <1>5 DEF ManagerKeeps

LEMMA ClearRuleFailsKeeps ==
    ASSUME ManagerPart, ClearRuleFails
    PROVE  ManagerKeeps
<1> USE DEF ManagerPart, ClearRuleFails, Move, Disturb
<1>1. ruleTable = Mixed
    BY DEF RulesInv
<1>2. TableTypes' /\ ManagerTypes'
    BY SizesAssumption DEF TableTypes, ManagerTypes
<1>3. RulesInv'
    BY <1>1 DEF RulesInv
<1>4. PortsInv'
    BY SizesAssumption DEF PortsInv
<1> QED
    BY <1>2, <1>3, <1>4 DEF ManagerKeeps

LEMMA AddRuleKeeps ==
    ASSUME ManagerPart, AddRule
    PROVE  ManagerKeeps
<1> USE DEF ManagerPart
<1> DEFINE row == Row(config.rules[idx])
<1>1. /\ at = "fillRules" /\ idx \in 1..MaxRules /\ idx <= Len(config.rules)
      /\ config.rules[idx].valid /\ WriteRule(row)
      /\ UNCHANGED <<at, ports, config, whole, reloads, failures, ruleTable, portTable,
                     undisturbed, stats, filter, reading>>
    BY SizesAssumption DEF AddRule, AtEntry, ManagerTypes
<1>2. ruleTable = Mixed /\ config \in Config /\ idx \in Nat \ {0}
    BY <1>1 DEF RulesInv, ManagerTypes
<1>3. row = RuleRow(config, idx)
    BY <1>1 DEF RuleRow
<1>4. row \in TableRow
    BY <1>2, <1>3, RuleRowType
<1> HIDE DEF row
<1>5. TableTypes' /\ ManagerTypes'
    BY <1>1, <1>4, WriteRuleEffect, SizesAssumption DEF TableTypes, ManagerTypes
<1>6. PortsInv'
    BY <1>1 DEF PortsInv
<1>7. RulesInv'
    <2>1. ASSUME whole
          PROVE  /\ \A i \in 1..MaxRules : i < idx => Holds(i, RuleRow(config, i))
                 /\ \A i \in 1..MaxRules : i > idx => Holds(i, Cleared)
                 /\ rules[idx].net = IF "net" \in words THEN Cleared.net ELSE row.net
                 /\ rules[idx].gate = IF "gate" \in words THEN Cleared.gate ELSE row.gate
        BY <1>1, <1>3, <2>1 DEF RulesInv
    <2>2. words' # Word => idx' = idx
        BY <1>1, <1>4, WriteRuleEffect
    <2>3. words' # Word => AtEntry' /\ config'.rules[idx'].valid
        BY <1>1, <2>2 DEF AtEntry
    <2>4. ASSUME whole, NEW i \in 1..MaxRules
          PROVE  /\ i < idx' => Holds(i, RuleRow(config, i))'
                 /\ i > idx' => Holds(i, Cleared)'
                 /\ i = idx' =>
                      /\ rules'[i].net = IF "net" \in words' THEN Cleared.net
                                         ELSE RuleRow(config, i).net
                      /\ rules'[i].gate = IF "gate" \in words' THEN Cleared.gate
                                          ELSE RuleRow(config, i).gate
        <3>1. CASE idx' = idx
            BY <1>1, <1>3, <1>4, <2>1, <2>4, <3>1, WriteRuleEffect DEF Holds, Word
        <3>2. CASE idx' = idx + 1
            <4>1. /\ words' = Word
                  /\ rules'[idx].net = row.net /\ rules'[idx].gate = row.gate
                BY <1>1, <1>4, <2>1, <2>4, <3>2, WriteRuleEffect DEF Word
            <4>2. i # idx => rules'[i] = rules[i]
                BY <1>1, <1>4, WriteRuleEffect
            <4> QED
                BY <1>1, <1>3, <2>1, <2>4, <3>2, <4>1, <4>2 DEF Holds, Word
        <3> QED
            BY <1>1, <1>4, <3>1, <3>2, WriteRuleEffect
    <2> QED
        BY <1>1, <1>2, <2>2, <2>3, <2>4 DEF RulesInv
<1> QED
    BY <1>1, <1>5, <1>6, <1>7 DEF ManagerKeeps

LEMMA SkipRuleKeeps ==
    ASSUME ManagerPart, SkipRule \/ AddRuleFails
    PROVE  ManagerKeeps
<1> USE DEF ManagerPart
<1>1. /\ at = "fillRules" /\ idx \in 1..MaxRules /\ idx' = idx + 1 /\ words = Word
      /\ whole' => ~config.rules[idx].valid /\ whole
      /\ UNCHANGED <<at, rules, ports, words, config, ruleTable, portTable,
                     undisturbed, stats, filter, reading>>
    BY SizesAssumption DEF SkipRule, AddRuleFails, AtEntry, ManagerTypes, Stay, RulesInv
<1>2. whole' \in BOOLEAN
    BY DEF SkipRule, AddRuleFails, Stay, ManagerTypes
<1>3. reloads' \in 0..MaxReload /\ failures' \in 0..MaxFailure
    BY SizesAssumption DEF SkipRule, AddRuleFails, Stay, ManagerTypes
<1>4. TableTypes' /\ ManagerTypes'
    BY <1>1, <1>2, <1>3, SizesAssumption DEF TableTypes, ManagerTypes
<1>5. PortsInv'
    BY <1>1 DEF PortsInv
<1>6. ruleTable = Mixed
    BY <1>1 DEF RulesInv
<1>7. ASSUME whole', NEW i \in 1..MaxRules
      PROVE  /\ i < idx' => Holds(i, RuleRow(config, i))
             /\ i >= idx' => Holds(i, Cleared)
    <2>1. /\ i < idx => Holds(i, RuleRow(config, i))
          /\ i >= idx => Holds(i, Cleared)
        BY <1>1, <1>7 DEF RulesInv, Holds, Word
    <2>2. RuleRow(config, idx) = Cleared
        BY <1>1, <1>7 DEF RuleRow
    <2> QED
        BY <1>1, <2>1, <2>2
<1>8. RulesInv'
    BY <1>1, <1>6, <1>7 DEF RulesInv, Holds, Word
<1> QED
    BY <1>1, <1>4, <1>5, <1>8 DEF ManagerKeeps

LEMMA RulesFilledKeeps ==
    ASSUME ManagerPart, RulesFilled
    PROVE  ManagerKeeps
<1> USE DEF ManagerPart, RulesFilled, Move, Stay, Disturb
<1>1. words = Word
    BY DEF RulesInv
<1>2. TableTypes' /\ ManagerTypes'
    BY SizesAssumption DEF TableTypes, ManagerTypes
<1>3. PortsInv'
    BY SizesAssumption DEF PortsInv
<1>4. ASSUME whole, NEW i \in 1..MaxRules
      PROVE  Holds(i, RuleRow(config, i))
    <2>1. /\ i < idx => Holds(i, RuleRow(config, i))
          /\ i >= idx => Holds(i, Cleared)
        BY <1>1, <1>4, SizesAssumption DEF RulesInv, Holds, Word, ManagerTypes
    <2>2. ASSUME i >= idx
          PROVE  RuleRow(config, i) = Cleared
        <3>1. idx \in Nat /\ Len(config.rules) \in Nat /\ idx <= MaxRules
            BY <2>2, Configured, SizesAssumption DEF ManagerTypes
        <3>2. ~(idx <= Len(config.rules))
            BY <3>1 DEF AtEntry
        <3>3. ~(i <= Len(config.rules))
            BY <2>2, <3>1, <3>2
        <3> QED
            BY <3>3 DEF RuleRow
    <2>3. i < idx \/ i >= idx
        BY SizesAssumption DEF ManagerTypes
    <2> QED
        BY <2>1, <2>2, <2>3
<1>5. RulesInv'
    BY <1>1, <1>4 DEF RulesInv, Holds
<1> QED
    BY <1>2, <1>3, <1>5 DEF ManagerKeeps

LEMMA ClearPortKeeps ==
    ASSUME ManagerPart, ClearPort
    PROVE  ManagerKeeps
<1> USE DEF ManagerPart, ClearPort
<1>1. idx \in 1..MaxPorts /\ portTable = Mixed
    BY SizesAssumption DEF ManagerTypes, PortsInv
<1>2. TableTypes' /\ ManagerTypes'
    BY <1>1, Zero, SizesAssumption DEF TableTypes, ManagerTypes
<1>3. RulesInv'
    BY DEF RulesInv, Holds, AtEntry
<1>4. PortsInv'
    BY <1>1 DEF PortsInv, TableTypes
<1> QED
    BY <1>2, <1>3, <1>4 DEF ManagerKeeps

LEMMA PortsClearedKeeps ==
    ASSUME ManagerPart, PortsCleared
    PROVE  ManagerKeeps
<1> USE DEF ManagerPart, PortsCleared, Move, Stay
<1>1. TableTypes' /\ ManagerTypes'
    BY SizesAssumption DEF TableTypes, ManagerTypes
<1>2. RulesInv'
    BY DEF RulesInv, Holds, AtEntry
<1>3. PortsInv'
    BY SizesAssumption DEF PortsInv, ManagerTypes
<1> QED
    BY <1>1, <1>2, <1>3 DEF ManagerKeeps

LEMMA AddPortKeeps ==
    ASSUME ManagerPart, AddPort
    PROVE  ManagerKeeps
<1> USE DEF ManagerPart, AddPort
<1>1. /\ at = "fillPorts" /\ idx \in 1..MaxPorts /\ portTable = Mixed
      /\ config \in Config /\ idx \in Nat \ {0}
    BY SizesAssumption DEF AtPort, ManagerTypes, PortsInv
<1>2. Wrap(config.ports[idx]) = PortRow(config, idx)
    BY DEF AtPort, PortRow
<1>3. PortRow(config, idx) \in UInt16
    BY <1>1, PortRowType
<1>4. ports' = [ports EXCEPT ![idx] = PortRow(config, idx)]
    BY <1>2
<1>5. TableTypes'
    BY <1>1, <1>3, <1>4 DEF TableTypes
<1>6. ManagerTypes'
    BY <1>1, SizesAssumption DEF ManagerTypes
<1>7. RulesInv'
    BY <1>1 DEF RulesInv, Holds, AtEntry
<1>8. PortsInv'
    BY <1>1, <1>4 DEF PortsInv, TableTypes
<1> QED
    BY <1>1, <1>5, <1>6, <1>7, <1>8 DEF ManagerKeeps

LEMMA PortFailsKeeps ==
    ASSUME ManagerPart, PortFails
    PROVE  ManagerKeeps
<1> USE DEF ManagerPart, PortFails, Move
<1>1. at \in {"clearPorts", "fillPorts"} /\ portTable = Mixed
    BY DEF AtPort, PortsInv
<1>2. TableTypes' /\ ManagerTypes'
    BY SizesAssumption DEF TableTypes, ManagerTypes
<1>3. RulesInv'
    BY <1>1 DEF RulesInv, Holds, AtEntry
<1>4. PortsInv'
    BY <1>1 DEF PortsInv
<1> QED
    BY <1>2, <1>3, <1>4 DEF ManagerKeeps

LEMMA PortsFilledKeeps ==
    ASSUME ManagerPart, PortsFilled
    PROVE  ManagerKeeps
<1> USE DEF ManagerPart, PortsFilled, Move, Stay
<1>1. portTable = Mixed
    BY DEF PortsInv
<1>2. TableTypes' /\ ManagerTypes'
    BY SizesAssumption DEF TableTypes, ManagerTypes
<1>3. RulesInv'
    BY DEF RulesInv, Holds, AtEntry
<1>4. ASSUME NEW i \in 1..MaxPorts
      PROVE  ports[i] = PortRow(config, i)
    <2>1. ports[i] = IF i < idx THEN PortRow(config, i) ELSE 0
        BY DEF PortsInv
    <2>2. ASSUME ~(i < idx)
          PROVE  PortRow(config, i) = 0
        <3>1. idx \in Nat /\ Len(config.ports) \in Nat /\ idx <= MaxPorts /\ idx <= i
            BY <2>2, Configured, SizesAssumption DEF ManagerTypes
        <3>2. ~(i <= Len(config.ports))
            BY <3>1 DEF AtPort
        <3> QED
            BY <3>2 DEF PortRow
    <2> QED
        BY <2>1, <2>2
<1>5. PortsInv'
    BY <1>4 DEF PortsInv
<1> QED
    BY <1>1, <1>2, <1>3, <1>5 DEF ManagerKeeps
-----------------------------------------------------------------------------
(* The filter decides on a packet *)

\* A step of the filter on CPU c leaves the manager, and the other CPUs, where they are.
OthersStay(c) ==
    \A d \in Cpu : d # c =>
        /\ step'[d] = step[d] /\ packet'[d] = packet[d] /\ slot'[d] = slot[d]
        /\ allowed'[d] = allowed[d] /\ undisturbed'[d] = undisturbed[d]

DecisionKeeps(c) ==
    /\ FilterTypes'
    /\ FilterInv(c)'
    /\ OthersStay(c)
    /\ UNCHANGED <<at, idx, reading, writing>>

\* What another CPU has found out is not touched.
LEMMA OtherFilters ==
    ASSUME NEW c \in Cpu, NEW d \in Cpu, d # c, FilterInv(d), OthersStay(c), UNCHANGED writing
    PROVE  FilterInv(d)'
<1>1. UNCHANGED <<ruleTable, portTable>>
    BY DEF writing
<1> QED
    BY <1>1 DEF FilterInv, OthersStay

LEMMA PacketPort == \A p \in Packet : p.port \in UInt16 /\ p.port \in Nat
<1>1. UInt16 \subseteq Nat
    BY Sizes DEF UInt16
<1> QED
    BY <1>1, PacketAssumption

\* The steps of xdp_filter_func, one by one.
LEMMA ReceiveKeeps ==
    ASSUME FilterPart, NEW c \in Cpu, NEW p \in Packet, Receive(c, p)
    PROVE  DecisionKeeps(c)
<1> USE DEF FilterPart, Receive, GoOn, writing
<1>1. FilterInv(c)
    OBVIOUS
<1>2. FilterTypes' /\ OthersStay(c)
    BY SizesAssumption DEF FilterTypes, OthersStay
<1>3. /\ step[c] = "idle" /\ step'[c] = "ports" /\ packet'[c] = p /\ slot'[c] = 1 /\ ~allowed'[c]
      /\ undisturbed'[c] => ruleTable # Mixed /\ portTable # Mixed
    BY <1>1 DEF FilterTypes, FilterInv
<1>4. UNCHANGED <<ruleTable, portTable>>
    OBVIOUS
<1>5. FilterInv(c)'
    BY <1>3, <1>4, SizesAssumption DEF FilterInv
<1> QED
    BY <1>2, <1>5 DEF DecisionKeeps

\* What the filter reads in the tables while nobody writes them.
LEMMA SettledTables ==
    ASSUME ManagerPart, FilterPart, NEW c \in Cpu, undisturbed[c]
    PROVE  /\ ruleTable \in Config /\ portTable \in Config
           /\ \A i \in 1..MaxRules : Holds(i, RuleRow(ruleTable, i))
           /\ \A i \in 1..MaxPorts : ports[i] = PortRow(portTable, i)
<1>1. ruleTable # Mixed /\ portTable # Mixed
    BY DEF FilterPart, FilterInv
<1> QED
    BY <1>1 DEF ManagerPart, ManagerTypes, RulesInv, PortsInv

LEMMA LookAtPortKeeps ==
    ASSUME FilterPart, ManagerPart, NEW c \in Cpu, LookAtPort(c)
    PROVE  DecisionKeeps(c)
<1> USE DEF FilterPart
<1> DEFINE port == packet[c].port
<1>1. /\ FilterInv(c) /\ step[c] = "ports" /\ slot[c] \in Nat \ {0} /\ packet[c] \in Packet
      /\ UNCHANGED <<packet, allowed, packets, undisturbed, at, idx, reading, writing>>
    BY DEF LookAtPort, FilterInv, FilterTypes
<1>2. UNCHANGED <<ruleTable, portTable>>
    BY <1>1 DEF writing
<1>3. port \in Nat
    BY <1>1, PacketPort
<1>4. CASE (slot[c] <= MaxPorts => ports[slot[c]] = 0) /\ GoOn(c, "total") /\ UNCHANGED slot
    <2>1. FilterTypes' /\ OthersStay(c) /\ step'[c] = "total"
        BY <1>1, <1>4 DEF GoOn, FilterTypes, OthersStay
    <2>2. ASSUME undisturbed[c]
          PROVE  ~Decision(ruleTable, portTable, packet[c])
        <3>1. slot[c] <= MaxPorts => PortRow(portTable, slot[c]) = 0
            BY <1>1, <1>4, <2>2, SettledTables, SizesAssumption
        <3>2. \A j \in 1..MaxPorts : j < slot[c] => PortRow(portTable, j) # port
            BY <1>1, <2>2 DEF FilterInv
        <3>3. ~Listed(portTable, port)
            BY <1>1, <1>3, <2>2, <3>1, <3>2, SettledTables, PortNotFound
        <3> QED
            BY <3>3 DEF Decision
    <2>3. FilterInv(c)'
        BY <1>1, <1>2, <1>4, <2>1, <2>2 DEF FilterInv
    <2> QED
        BY <1>1, <2>1, <2>3 DEF DecisionKeeps
<1>5. CASE /\ slot[c] <= MaxPorts /\ ports[slot[c]] # 0 /\ ports[slot[c]] = port
           /\ GoOn(c, "rules") /\ slot' = [slot EXCEPT ![c] = 1]
    <2>1. FilterTypes' /\ OthersStay(c) /\ step'[c] = "rules" /\ slot'[c] = 1
        BY <1>1, <1>5 DEF GoOn, FilterTypes, OthersStay
    <2>2. ASSUME undisturbed[c]
          PROVE  Listed(portTable, port)
        <3>1. slot[c] \in 1..MaxPorts /\ PortRow(portTable, slot[c]) = port /\ port # 0
            BY <1>1, <1>5, <2>2, SettledTables, SizesAssumption
        <3>2. \A j \in 1..MaxPorts : j < slot[c] => PortRow(portTable, j) # 0
            BY <1>1, <2>2 DEF FilterInv
        <3> QED
            BY <1>3, <2>2, <3>1, <3>2, SettledTables, PortFound
    <2>3. FilterInv(c)'
        BY <1>1, <1>2, <2>1, <2>2, SizesAssumption DEF FilterInv
    <2> QED
        BY <1>1, <2>1, <2>3 DEF DecisionKeeps
<1>6. CASE /\ slot[c] <= MaxPorts /\ ports[slot[c]] # 0 /\ ports[slot[c]] # port
           /\ slot' = [slot EXCEPT ![c] = @ + 1] /\ UNCHANGED step
    <2>1. FilterTypes' /\ OthersStay(c) /\ step'[c] = "ports" /\ slot'[c] = slot[c] + 1
        BY <1>1, <1>6 DEF FilterTypes, OthersStay
    <2>2. ASSUME undisturbed[c], NEW i \in 1..MaxPorts, i < slot[c] + 1
          PROVE  PortRow(portTable, i) \notin {0, port}
        <3>1. CASE i = slot[c]
            BY <1>6, <2>2, <3>1, SettledTables
        <3>2. CASE i < slot[c]
            BY <1>1, <2>2, <3>2 DEF FilterInv
        <3> QED
            BY <1>1, <2>2, <3>1, <3>2, SizesAssumption
    <2>3. FilterInv(c)'
        BY <1>1, <1>2, <2>1, <2>2 DEF FilterInv
    <2> QED
        BY <1>1, <2>1, <2>3 DEF DecisionKeeps
<1> QED
    BY <1>4, <1>5, <1>6 DEF LookAtPort

\* No rule but those in the table's rows applies to a packet.
LEMMA NoRuleLeft ==
    ASSUME NEW rg \in Config, NEW pg, NEW p \in Packet, \A i \in 1..MaxRules : ~Hits(rg, i, p)
    PROVE  ~Decision(rg, pg, p)
BY DEF Decision, Hits

LEMMA LookAtRuleKeeps ==
    ASSUME FilterPart, ManagerPart, NEW c \in Cpu, LookAtRule(c)
    PROVE  DecisionKeeps(c)
<1> USE DEF FilterPart
<1>1. /\ FilterInv(c) /\ step[c] = "rules" /\ slot[c] \in Nat \ {0} /\ packet[c] \in Packet
      /\ UNCHANGED <<packet, allowed, packets, undisturbed, at, idx, reading, writing>>
    BY DEF LookAtRule, FilterInv, FilterTypes
<1>2. UNCHANGED <<ruleTable, portTable>>
    BY <1>1 DEF writing
<1> DEFINE fits == /\ rules[slot[c]].gate.enabled
                   /\ rules[slot[c]].gate.port \in {0, packet[c].port}
<1>3. ASSUME undisturbed[c], slot[c] <= MaxRules
      PROVE  fits <=> Gated(ruleTable, slot[c], packet[c])
    <2>1. slot[c] \in 1..MaxRules
        BY <1>1, <1>3, SizesAssumption
    <2>2. rules[slot[c]].gate = RuleRow(ruleTable, slot[c]).gate
        BY <1>3, <2>1, SettledTables DEF Holds
    <2> QED
        BY <2>2 DEF Gated
<1>4. CASE slot[c] > MaxRules /\ GoOn(c, "total") /\ UNCHANGED slot
    <2>1. FilterTypes' /\ OthersStay(c) /\ step'[c] = "total"
        BY <1>1, <1>4 DEF GoOn, FilterTypes, OthersStay
    <2>2. ASSUME undisturbed[c]
          PROVE  ~Decision(ruleTable, portTable, packet[c])
        <3>1. \A i \in 1..MaxRules : i < slot[c]
            BY <1>1, <1>4, SizesAssumption
        <3>2. \A i \in 1..MaxRules : ~Hits(ruleTable, i, packet[c])
            BY <1>1, <2>2, <3>1 DEF FilterInv
        <3> QED
            BY <1>1, <2>2, <3>2, SettledTables, NoRuleLeft
    <2>3. FilterInv(c)'
        BY <1>1, <1>2, <1>4, <2>1, <2>2 DEF FilterInv
    <2> QED
        BY <1>1, <2>1, <2>3 DEF DecisionKeeps
<1>5. CASE slot[c] <= MaxRules /\ fits /\ GoOn(c, "match") /\ UNCHANGED slot
    <2>1. FilterTypes' /\ OthersStay(c) /\ step'[c] = "match"
        BY <1>1, <1>5 DEF GoOn, FilterTypes, OthersStay
    <2>2. undisturbed[c] => Gated(ruleTable, slot[c], packet[c])
        BY <1>3, <1>5
    <2> HIDE DEF fits
    <2>3. FilterInv(c)'
        BY <1>1, <1>2, <1>5, <2>1, <2>2 DEF FilterInv
    <2> QED
        BY <1>1, <2>1, <2>3 DEF DecisionKeeps
<1>6. CASE /\ slot[c] <= MaxRules /\ ~fits
           /\ slot' = [slot EXCEPT ![c] = @ + 1] /\ UNCHANGED step
    <2>1. FilterTypes' /\ OthersStay(c) /\ step'[c] = "rules" /\ slot'[c] = slot[c] + 1
        BY <1>1, <1>6 DEF FilterTypes, OthersStay
    <2>2. ASSUME undisturbed[c], NEW i \in 1..MaxRules, i < slot[c] + 1
          PROVE  ~Hits(ruleTable, i, packet[c])
        <3>1. CASE i = slot[c]
            <4>1. ~Gated(ruleTable, i, packet[c])
                BY <1>3, <1>6, <2>2, <3>1
            <4> QED
                BY <1>1, <2>2, <4>1, SettledTables, RowApplies
        <3>2. CASE i < slot[c]
            BY <1>1, <2>2, <3>2 DEF FilterInv
        <3> QED
            BY <1>1, <2>2, <3>1, <3>2, SizesAssumption
    <2> HIDE DEF fits
    <2>3. FilterInv(c)'
        BY <1>1, <1>2, <2>1, <2>2 DEF FilterInv
    <2> QED
        BY <1>1, <2>1, <2>3 DEF DecisionKeeps
<1> QED
    BY <1>4, <1>5, <1>6 DEF LookAtRule

LEMMA MatchRuleKeeps ==
    ASSUME FilterPart, ManagerPart, NEW c \in Cpu, MatchRule(c)
    PROVE  DecisionKeeps(c)
<1> USE DEF FilterPart
<1> DEFINE match == Matches(Loaded(packet[c].src), rules[slot[c]].net)
<1>1. /\ FilterInv(c) /\ step[c] = "match" /\ slot[c] \in 1..MaxRules /\ packet[c] \in Packet
      /\ UNCHANGED <<packet, packets, undisturbed, at, idx, reading, writing>>
    BY SizesAssumption DEF MatchRule, FilterInv, FilterTypes
<1>2. UNCHANGED <<ruleTable, portTable>>
    BY <1>1 DEF writing
<1>3. ASSUME undisturbed[c]
      PROVE  /\ match <=> Hits(ruleTable, slot[c], packet[c])
             /\ rules[slot[c]].gate.enabled
    <2>1. /\ rules[slot[c]].net = RuleRow(ruleTable, slot[c]).net
          /\ rules[slot[c]].gate = RuleRow(ruleTable, slot[c]).gate
        BY <1>1, <1>3, SettledTables DEF Holds
    <2>2. Gated(ruleTable, slot[c], packet[c])
        BY <1>1, <1>3 DEF FilterInv
    <2>3. ruleTable \in Config
        BY <1>3, SettledTables
    <2>4. match <=> Hits(ruleTable, slot[c], packet[c])
        BY <1>1, <2>1, <2>2, <2>3, RowApplies
    <2> QED
        BY <2>1, <2>2, <2>4 DEF Gated
<1>4. CASE match /\ allowed' = [allowed EXCEPT ![c] = TRUE] /\ GoOn(c, "total") /\ UNCHANGED slot
    <2>1. FilterTypes' /\ OthersStay(c) /\ step'[c] = "total" /\ allowed'[c] = TRUE
        BY <1>1, <1>4 DEF GoOn, FilterTypes, OthersStay
    <2>2. ASSUME undisturbed[c]
          PROVE  Decision(ruleTable, portTable, packet[c])
        <3>1. Hits(ruleTable, slot[c], packet[c])
            BY <1>3, <1>4, <2>2
        <3>2. Listed(portTable, packet[c].port)
            BY <1>1, <2>2 DEF FilterInv
        <3> QED
            BY <1>1, <3>1, <3>2 DEF Decision, Hits
    <2> HIDE DEF match
    <2>3. FilterInv(c)'
        BY <1>1, <1>2, <1>4, <2>1, <2>2 DEF FilterInv
    <2> QED
        BY <1>1, <2>1, <2>3 DEF DecisionKeeps
<1>5. CASE /\ ~match \/ ~rules[slot[c]].gate.enabled
           /\ slot' = [slot EXCEPT ![c] = @ + 1] /\ GoOn(c, "rules")
           /\ UNCHANGED allowed
    <2>1. FilterTypes' /\ OthersStay(c) /\ step'[c] = "rules" /\ slot'[c] = slot[c] + 1
        BY <1>1, <1>5 DEF GoOn, FilterTypes, OthersStay
    <2>2. ASSUME undisturbed[c], NEW i \in 1..MaxRules, i < slot[c] + 1
          PROVE  ~Hits(ruleTable, i, packet[c])
        <3>1. CASE i = slot[c]
            BY <1>3, <1>5, <2>2, <3>1
        <3>2. CASE i < slot[c]
            BY <1>1, <2>2, <3>2 DEF FilterInv
        <3> QED
            BY <1>1, <2>2, <3>1, <3>2, SizesAssumption
    <2> HIDE DEF match
    <2>3. FilterInv(c)'
        BY <1>1, <1>2, <1>5, <2>1, <2>2, SizesAssumption DEF FilterInv
    <2> QED
        BY <1>1, <2>1, <2>3 DEF DecisionKeeps
<1> QED
    BY <1>4, <1>5 DEF MatchRule

LEMMA CountingKeeps ==
    ASSUME FilterPart, NEW c \in Cpu, CountTotal(c) \/ CountVerdict(c) \/ CountKind(c)
    PROVE  DecisionKeeps(c)
<1> USE DEF FilterPart
<1>1. FilterInv(c) /\ UNCHANGED <<packets, at, idx, reading, writing>>
    BY DEF CountTotal, CountVerdict, CountKind
<1>2. UNCHANGED <<ruleTable, portTable>>
    BY <1>1 DEF writing
<1>3. CASE CountTotal(c) \/ CountVerdict(c)
    <2>1. /\ FilterTypes' /\ OthersStay(c) /\ step[c] \in {"total", "verdict"}
          /\ step'[c] \in {"verdict", "kind"} /\ UNCHANGED <<packet, slot, allowed, undisturbed>>
        BY <1>3 DEF CountTotal, CountVerdict, GoOn, FilterTypes, OthersStay
    <2>2. FilterInv(c)'
        BY <1>1, <1>2, <2>1 DEF FilterInv
    <2> QED
        BY <1>1, <2>1, <2>2 DEF DecisionKeeps
<1>4. CASE CountKind(c)
    <2>1. /\ FilterTypes' /\ OthersStay(c)
          /\ step'[c] = "idle" /\ slot'[c] = 1 /\ ~allowed'[c] /\ ~undisturbed'[c]
        BY <1>4 DEF CountKind, GoOn, FilterTypes, OthersStay
    <2>2. FilterInv(c)'
        BY <2>1, SizesAssumption DEF FilterInv
    <2> QED
        BY <1>1, <2>1, <2>2 DEF DecisionKeeps
<1> QED
    BY <1>3, <1>4
-----------------------------------------------------------------------------
(* The filter counts, and the manager reads the counters *)

LEMMA CounterSet ==
    /\ Counter = {"total", "allowed", "blocked", "tcp", "udp"}
    /\ Counters[1] = "total" /\ Counters[2] = "allowed" /\ Counters[3] = "blocked"
    /\ Counters[4] = "tcp" /\ Counters[5] = "udp"
<1>1. /\ Counters[1] = "total" /\ Counters[2] = "allowed" /\ Counters[3] = "blocked"
      /\ Counters[4] = "tcp" /\ Counters[5] = "udp"
    BY DEF Counters
<1>2. \A i \in 1..5 : i \in {1, 2, 3, 4, 5}
    OBVIOUS
<1>3. \A i \in {1, 2, 3, 4, 5} : i \in 1..5
    OBVIOUS
<1>4. Counter \subseteq {"total", "allowed", "blocked", "tcp", "udp"}
    BY <1>1, <1>2 DEF Counter
<1>5. {"total", "allowed", "blocked", "tcp", "udp"} \subseteq Counter
    BY <1>1, <1>3 DEF Counter
<1> QED
    BY <1>1, <1>4, <1>5

\* A row of the statistics.
LEMMA RowCounts ==
    ASSUME StatTypes, NEW c \in Cpu
    PROVE  /\ stats[c]["total"] \in Nat /\ stats[c]["allowed"] \in Nat
           /\ stats[c]["blocked"] \in Nat /\ stats[c]["tcp"] \in Nat /\ stats[c]["udp"] \in Nat
BY CounterSet DEF StatTypes

\* update_stats adds to the CPU's own row and to no other.
LEMMA CountEffect ==
    ASSUME StatTypes, NEW c \in Cpu, NEW S, Count(c, S)
    PROVE  /\ StatTypes'
           /\ \A d \in Cpu : d # c => stats'[d] = stats[d]
           /\ \A k \in Counter : stats'[c][k] = stats[c][k] + (IF k \in S THEN 1 ELSE 0)
<1> DEFINE row == [k \in Counter |-> stats[c][k] + IF k \in S THEN 1 ELSE 0]
<1>1. stats' = [stats EXCEPT ![c] = row]
    BY DEF Count
<1>2. row \in [Counter -> Nat]
    BY DEF StatTypes
<1>3. \A k \in Counter : row[k] = stats[c][k] + (IF k \in S THEN 1 ELSE 0)
    OBVIOUS
<1> HIDE DEF row
<1> QED
    BY <1>1, <1>2, <1>3 DEF StatTypes

\* No counter goes back.
Grown == \A d \in Cpu : \A k \in Counter : stats'[d][k] >= stats[d][k]

CountKeeps == CountPart' /\ Grown

\* A step that only looks at tables leaves the counters behind by the same packet.
LEMMA NoCounting ==
    ASSUME CountPart, FilterPart, NEW c \in Cpu, stats' = stats,
           packets' \in {packets, packets + 1}, OthersStay(c),
           step[c] = "idle" => /\ step'[c] \in {"idle", "ports"}
                               /\ step'[c] = "ports" => packets' = packets + 1,
           step[c] # "idle" => /\ step[c] \in {"ports", "rules", "match"}
                               /\ step'[c] \in {"ports", "rules", "match", "total"}
    PROVE  CountKeeps
<1> USE DEF CountPart, FilterPart
<1>1. StatTypes'
    BY DEF StatTypes
<1>2. ASSUME NEW d \in Cpu
      PROVE  CounterInv(d)'
    <2>1. CounterInv(d) /\ packets \in Nat
        BY SizesAssumption DEF FilterTypes
    <2>2. /\ stats[d]["total"] \in Nat /\ stats[d]["allowed"] \in Nat
          /\ stats[d]["blocked"] \in Nat /\ stats[d]["tcp"] \in Nat /\ stats[d]["udp"] \in Nat
        BY RowCounts
    <2>3. CASE d # c
        <3>1. step'[d] = step[d]
            BY <2>3 DEF OthersStay
        <3> QED
            BY <2>1, <2>2, <3>1 DEF CounterInv
    <2>4. CASE d = c
        BY <2>1, <2>2, <2>4 DEF CounterInv
    <2> QED
        BY <2>3, <2>4
<1>3. Grown
    BY DEF Grown, StatTypes
<1> QED
    BY <1>1, <1>2, <1>3 DEF CountKeeps

\* Each of the three additions moves the packet that is counted one sum further.
LEMMA Counting ==
    ASSUME CountPart, FilterPart, NEW c \in Cpu, CountTotal(c) \/ CountVerdict(c) \/ CountKind(c)
    PROVE  CountKeeps
<1> USE DEF CountPart, FilterPart
<1>1. OthersStay(c) /\ packets' = packets /\ packets \in Nat
    <2>1. OthersStay(c)
        BY CountingKeeps DEF DecisionKeeps
    <2>2. packets' = packets
        BY DEF CountTotal, CountVerdict, CountKind
    <2>3. packets \in Nat
        BY SizesAssumption DEF FilterTypes
    <2> QED
        BY <2>1, <2>2, <2>3
<1>2. PICK S : /\ Count(c, S)
               /\ \/ step[c] = "total" /\ S = {"total"} /\ step'[c] = "verdict"
                  \/ step[c] = "verdict" /\ S \in {{"allowed"}, {"blocked"}} /\ step'[c] = "kind"
                  \/ step[c] = "kind" /\ S \in {{"tcp"}, {"udp"}} /\ step'[c] = "idle"
    <2>1. CASE CountTotal(c)
        BY <2>1 DEF CountTotal, GoOn, FilterTypes
    <2>2. CASE CountVerdict(c)
        <3>1. {Verdict(c)} \in {{"allowed"}, {"blocked"}}
            BY DEF Verdict
        <3> QED
            BY <2>2, <3>1 DEF CountVerdict, GoOn, FilterTypes
    <2>3. CASE CountKind(c)
        <3>1. {Kind(c)} \in {{"tcp"}, {"udp"}}
            BY DEF Kind
        <3> QED
            BY <2>3, <3>1 DEF CountKind, GoOn, FilterTypes
    <2> QED
        BY <2>1, <2>2, <2>3
<1>3. /\ StatTypes'
      /\ \A d \in Cpu : d # c => stats'[d] = stats[d]
      /\ \A k \in Counter : stats'[c][k] = stats[c][k] + (IF k \in S THEN 1 ELSE 0)
    BY <1>2, CountEffect
<1>4. /\ stats'[c]["total"] = stats[c]["total"] + (IF "total" \in S THEN 1 ELSE 0)
      /\ stats'[c]["allowed"] = stats[c]["allowed"] + (IF "allowed" \in S THEN 1 ELSE 0)
      /\ stats'[c]["blocked"] = stats[c]["blocked"] + (IF "blocked" \in S THEN 1 ELSE 0)
      /\ stats'[c]["tcp"] = stats[c]["tcp"] + (IF "tcp" \in S THEN 1 ELSE 0)
      /\ stats'[c]["udp"] = stats[c]["udp"] + (IF "udp" \in S THEN 1 ELSE 0)
    BY <1>3, CounterSet
<1>5. /\ stats[c]["total"] \in Nat /\ stats[c]["allowed"] \in Nat
      /\ stats[c]["blocked"] \in Nat /\ stats[c]["tcp"] \in Nat /\ stats[c]["udp"] \in Nat
    BY RowCounts
<1>6. CounterInv(c)'
    <2>1. CounterInv(c)
        OBVIOUS
    <2>2. CASE step[c] = "total"
        BY <1>1, <1>2, <1>4, <1>5, <2>1, <2>2 DEF CounterInv
    <2>3. CASE step[c] = "verdict"
        BY <1>1, <1>2, <1>4, <1>5, <2>1, <2>3 DEF CounterInv
    <2>4. CASE step[c] = "kind"
        BY <1>1, <1>2, <1>4, <1>5, <2>1, <2>4 DEF CounterInv
    <2> QED
        BY <1>2, <2>2, <2>3, <2>4
<1>7. ASSUME NEW d \in Cpu, d # c
      PROVE  CounterInv(d)'
    BY <1>1, <1>3, <1>7 DEF CounterInv, OthersStay
<1>8. Grown
    <2> SUFFICES ASSUME NEW d \in Cpu, NEW k \in Counter
                 PROVE  stats'[d][k] >= stats[d][k]
        BY DEF Grown
    <2>1. stats[d][k] \in Nat
        BY DEF StatTypes
    <2> QED
        BY <1>3, <2>1
<1> QED
    BY <1>3, <1>6, <1>7, <1>8 DEF CountKeeps

\* While the counters grow, what is still to be read only grows.
LEMMA BusyGrows ==
    ASSUME StatTypes, StatTypes', Grown, NEW n \in Nat
    PROVE  /\ Cardinality({c \in Cpu : c < n /\ stats[c]["total"] > 0}) \in Nat
           /\ Cardinality({c \in Cpu : c < n /\ stats'[c]["total"] > 0}) \in Nat
           /\ Cardinality({c \in Cpu : c < n /\ stats[c]["total"] > 0})
                <= Cardinality({c \in Cpu : c < n /\ stats'[c]["total"] > 0})
<1> DEFINE before == {c \in Cpu : c < n /\ stats[c]["total"] > 0}
           after  == {c \in Cpu : c < n /\ stats'[c]["total"] > 0}
<1>1. IsFiniteSet(Cpu)
    BY FS_Interval, SizesAssumption DEF Cpu
<1>2. before \subseteq after
    <2> SUFFICES ASSUME NEW c \in Cpu, stats[c]["total"] > 0
                 PROVE  stats'[c]["total"] > 0
        OBVIOUS
    <2>1. stats'[c]["total"] >= stats[c]["total"]
        BY CounterSet DEF Grown
    <2>2. stats[c]["total"] \in Nat /\ stats'[c]["total"] \in Nat
        BY CounterSet DEF StatTypes
    <2> QED
        BY <2>1, <2>2
<1>3. IsFiniteSet(before) /\ IsFiniteSet(after)
    BY <1>1, FS_Subset
<1> HIDE DEF before, after
<1>4. /\ Cardinality(before) \in Nat /\ Cardinality(after) \in Nat
      /\ Cardinality(before) <= Cardinality(after)
    BY <1>2, <1>3, FS_Subset, FS_CardinalityType
<1> QED
    BY <1>4 DEF before, after

\* A CPU whose row has been copied counts among those before.
LEMMA BusyNext ==
    ASSUME StatTypes, NEW n \in Cpu
    PROVE  /\ Cardinality({c \in Cpu : c < n /\ stats[c]["total"] > 0}) \in Nat
           /\ Cardinality({c \in Cpu : c < n + 1 /\ stats[c]["total"] > 0})
                = Cardinality({c \in Cpu : c < n /\ stats[c]["total"] > 0})
                    + (IF stats[n]["total"] > 0 THEN 1 ELSE 0)
<1> DEFINE before == {c \in Cpu : c < n /\ stats[c]["total"] > 0}
           after  == {c \in Cpu : c < n + 1 /\ stats[c]["total"] > 0}
<1>1. IsFiniteSet(before)
    <2>1. IsFiniteSet(Cpu)
        BY FS_Interval, SizesAssumption DEF Cpu
    <2> QED
        BY <2>1, FS_Subset
<1>2. n \in Nat /\ \A c \in Cpu : c \in Nat
    BY SizesAssumption DEF Cpu
<1>3. n \notin before
    BY <1>2
<1>4. after = IF stats[n]["total"] > 0 THEN before \union {n} ELSE before
    <2>1. \A c \in Cpu : c < n + 1 <=> c < n \/ c = n
        BY <1>2
    <2>2. CASE stats[n]["total"] > 0
        BY <2>1, <2>2
    <2>3. CASE ~(stats[n]["total"] > 0)
        BY <2>1, <2>3
    <2> QED
        BY <2>2, <2>3
<1> HIDE DEF before, after
<1>5. /\ Cardinality(before) \in Nat
      /\ Cardinality(before \union {n}) = Cardinality(before) + 1
    BY <1>1, <1>3, FS_AddElement, FS_CardinalityType
<1>6. Cardinality(after) = Cardinality(before) + (IF stats[n]["total"] > 0 THEN 1 ELSE 0)
    BY <1>4, <1>5
<1> QED
    BY <1>5, <1>6 DEF before, after

LEMMA SumTypes ==
    ASSUME ReadPart
    PROVE  /\ sum["total"] \in Nat /\ sum["allowed"] \in Nat
           /\ sum["blocked"] \in Nat /\ sum["tcp"] \in Nat /\ sum["udp"] \in Nat
BY CounterSet DEF ReadPart, ReadTypes

LEMMA LagStays ==
    ASSUME NEW lag \in Int, NEW b \in Int, NEW n \in Int, NEW c \in Int, NEW m \in Int,
           lag <= b + n, b <= c, n <= m
    PROVE  lag <= c + m
OBVIOUS

\* Of a row that is still to be read there can only be more.
LEMMA ReadWhileCounting ==
    ASSUME StatTypes, StatTypes', Grown, ReadPart, UNCHANGED <<at, idx, reading>>
    PROVE  ReadPart'
<1> USE DEF ReadPart
<1>1. at' = at /\ idx' = idx /\ cpu' = cpu /\ sum' = sum /\ cpu \in Nat
    BY SizesAssumption DEF reading, ReadTypes
<1>2. BusyBefore \in Nat /\ BusyBefore' \in Nat /\ BusyBefore <= BusyBefore'
    <2>1. BusyBefore' = Cardinality({c \in Cpu : c < cpu /\ stats'[c]["total"] > 0})
        BY <1>1 DEF BusyBefore
    <2> QED
        BY <1>1, <2>1, BusyGrows DEF BusyBefore
<1>3. ReadTypes'
    BY <1>1 DEF ReadTypes
<1>4. VerdictLag' = VerdictLag /\ KindLag' = KindLag /\ VerdictLag \in Int /\ KindLag \in Int
    BY <1>1, SumTypes DEF VerdictLag, KindLag
<1>5. CASE at # "read" \/ cpu > NCpu \/ idx = 1
    BY <1>1, <1>2, <1>3, <1>4, <1>5 DEF ReadInv
<1>6. CASE at = "read" /\ cpu <= NCpu /\ idx # 1
    <2>1. cpu \in Cpu /\ ~(cpu > NCpu)
        BY <1>1, <1>6, SizesAssumption DEF ReadTypes, Cpu
    <2>2. /\ stats'[cpu]["total"] >= stats[cpu]["total"]
          /\ stats'[cpu]["allowed"] >= stats[cpu]["allowed"]
          /\ stats'[cpu]["blocked"] >= stats[cpu]["blocked"]
          /\ stats'[cpu]["tcp"] >= stats[cpu]["tcp"]
          /\ stats'[cpu]["udp"] >= stats[cpu]["udp"]
        BY <2>1, CounterSet DEF Grown
    <2>3. /\ stats[cpu]["total"] \in Nat /\ stats[cpu]["allowed"] \in Nat
          /\ stats[cpu]["blocked"] \in Nat /\ stats[cpu]["tcp"] \in Nat
          /\ stats[cpu]["udp"] \in Nat
        BY <2>1, RowCounts
    <2>4. /\ stats'[cpu]["total"] \in Nat /\ stats'[cpu]["allowed"] \in Nat
          /\ stats'[cpu]["blocked"] \in Nat /\ stats'[cpu]["tcp"] \in Nat
          /\ stats'[cpu]["udp"] \in Nat
        BY <2>1, CounterSet DEF StatTypes
    <2>5. BusyNow \in Int /\ BusyNow' \in Int /\ BusyNow <= BusyNow'
        BY <1>1, <2>2, <2>3, <2>4 DEF BusyNow
    <2> HIDE DEF ReadPart
    <2>6. BusyBefore \in Int /\ BusyBefore' \in Int /\ BusyBefore <= BusyBefore'
        BY <1>2
    <2>7. ReadInv
        BY DEF ReadPart
    <2> SUFFICES ReadInv'
        BY <1>3 DEF ReadPart
    <2>8. CASE idx = 2
        <3>1. /\ VerdictLag <= BusyBefore + BusyNow + stats[cpu]["allowed"] + stats[cpu]["blocked"]
              /\ KindLag <= BusyBefore
            BY <1>6, <2>7, <2>8 DEF ReadInv
        <3>2. VerdictLag <= BusyBefore' + BusyNow' + stats'[cpu]["allowed"] + stats'[cpu]["blocked"]
            BY <1>2, <1>4, <2>2, <2>3, <2>4, <2>5, <3>1
        <3>3. KindLag <= BusyBefore'
            BY <1>2, <1>4, <2>2, <2>3, <2>4, <2>5, <3>1
        <3> QED
            BY <1>1, <1>4, <1>6, <2>1, <2>8, <3>2, <3>3 DEF ReadInv
    <2>9. CASE idx = 3
        <3>1. /\ VerdictLag <= BusyBefore + BusyNow + stats[cpu]["blocked"]
              /\ KindLag <= BusyBefore + stats[cpu]["allowed"]
            BY <1>6, <2>7, <2>9 DEF ReadInv
        <3>2. VerdictLag <= BusyBefore' + BusyNow' + stats'[cpu]["blocked"]
            BY <1>2, <1>4, <2>2, <2>3, <2>4, <2>5, <3>1
        <3>3. KindLag <= BusyBefore' + stats'[cpu]["allowed"]
            BY <1>2, <1>4, <2>2, <2>3, <2>4, <2>5, <3>1
        <3> QED
            BY <1>1, <1>4, <1>6, <2>1, <2>9, <3>2, <3>3 DEF ReadInv
    <2>10. CASE idx = 4
        <3>1. /\ VerdictLag <= BusyBefore + BusyNow
              /\ KindLag <= BusyBefore + BusyNow + stats[cpu]["tcp"] + stats[cpu]["udp"]
            BY <1>6, <2>7, <2>10 DEF ReadInv
        <3>2. VerdictLag <= BusyBefore' + BusyNow'
            BY <1>4, <2>5, <2>6, <3>1, LagStays, Zenon
        <3>3. KindLag <= BusyBefore' + BusyNow' + stats'[cpu]["tcp"] + stats'[cpu]["udp"]
            BY <1>2, <1>4, <2>2, <2>3, <2>4, <2>5, <3>1
        <3> QED
            BY <1>1, <1>4, <1>6, <2>1, <2>10, <3>2, <3>3 DEF ReadInv
    <2>11. CASE idx = 5
        <3>1. /\ VerdictLag <= BusyBefore + BusyNow
              /\ KindLag <= BusyBefore + BusyNow + stats[cpu]["udp"]
            BY <1>6, <2>7, <2>11 DEF ReadInv
        <3>2. VerdictLag <= BusyBefore' + BusyNow'
            BY <1>4, <2>5, <2>6, <3>1, LagStays, Zenon
        <3>3. KindLag <= BusyBefore' + BusyNow' + stats'[cpu]["udp"]
            BY <1>2, <1>4, <2>2, <2>3, <2>4, <2>5, <3>1
        <3> QED
            BY <1>1, <1>4, <1>6, <2>1, <2>11, <3>2, <3>3 DEF ReadInv
    <2>12. CASE idx \notin {2, 3, 4, 5}
        BY <1>1, <1>6, <2>1, <2>12 DEF ReadInv
    <2> QED
        BY <2>8, <2>9, <2>10, <2>11, <2>12
<1>7. cpu <= NCpu \/ cpu > NCpu
    BY <1>1, SizesAssumption
<1> QED
    BY <1>3, <1>5, <1>6, <1>7

LEMMA NotReading ==
    ASSUME ReadPart, at # "read", at' # "read", UNCHANGED reading
    PROVE  ReadPart'
BY DEF ReadPart, ReadTypes, ReadInv, reading

LEMMA NoCountTypes ==
    /\ NoCount \in [Counter -> Nat]
    /\ NoCount["total"] = 0 /\ NoCount["allowed"] = 0 /\ NoCount["blocked"] = 0
    /\ NoCount["tcp"] = 0 /\ NoCount["udp"] = 0
BY CounterSet DEF NoCount

LEMMA ReadKeeps ==
    ASSUME StatTypes, ReadPart, Read
    PROVE  ReadPart'
<1> USE DEF ReadPart, Read, Move, reading
<1>1. ReadTypes'
    BY DEF ReadTypes
<1>2. cpu = 1 /\ sum = NoCount /\ cpu' = 1 /\ sum' = NoCount /\ stats' = stats
    BY DEF ReadInv
<1>3. BusyBefore' \in Nat
    <2>1. BusyBefore' = Cardinality({c \in Cpu : c < 1 /\ stats[c]["total"] > 0})
        BY <1>2 DEF BusyBefore
    <2>2. Grown
        BY <1>2 DEF Grown, StatTypes
    <2>3. StatTypes'
        BY <1>2 DEF StatTypes
    <2> QED
        BY <2>1, <2>2, <2>3, BusyGrows
<1>4. VerdictLag' = 0 /\ KindLag' = 0
    BY <1>2, NoCountTypes DEF VerdictLag, KindLag
<1>5. ReadInv'
    BY <1>2, <1>3, <1>4 DEF ReadInv
<1> QED
    BY <1>1, <1>5

\* Of what is still to be read, one word has been added to the sums.
LEMMA CopyWordKeeps ==
    ASSUME CountPart, ReadPart, ManagerTypes, CopyWord
    PROVE  ReadPart'
<1> USE DEF ReadPart, CountPart
<1>1. /\ at = "read" /\ at' = "read" /\ cpu \in Cpu /\ cpu \in Nat \ {0} /\ cpu <= NCpu
      /\ stats' = stats /\ idx \in {1, 2, 3, 4, 5}
    BY SizesAssumption DEF CopyWord, ReadTypes, ManagerTypes, Cpu
<1>2. /\ stats[cpu]["total"] \in Nat /\ stats[cpu]["allowed"] \in Nat
      /\ stats[cpu]["blocked"] \in Nat /\ stats[cpu]["tcp"] \in Nat
      /\ stats[cpu]["udp"] \in Nat
    BY <1>1, RowCounts
<1>3. /\ sum["total"] \in Nat /\ sum["allowed"] \in Nat
      /\ sum["blocked"] \in Nat /\ sum["tcp"] \in Nat /\ sum["udp"] \in Nat
    BY SumTypes
<1>4. /\ stats[cpu]["total"] <= stats[cpu]["allowed"] + stats[cpu]["blocked"] + BusyNow
      /\ stats[cpu]["allowed"] + stats[cpu]["blocked"]
           <= stats[cpu]["tcp"] + stats[cpu]["udp"] + BusyNow
      /\ BusyNow \in {0, 1}
    <2>1. CounterInv(cpu)
        BY <1>1
    <2> QED
        BY <1>2, <2>1 DEF CounterInv, BusyNow
<1>5. Counters[idx] \in Counter
    BY <1>1, CounterSet
<1>6. /\ sum' = [sum EXCEPT ![Counters[idx]] = @ + stats[cpu][Counters[idx]]]
      /\ IF idx = 5 THEN cpu' = cpu + 1 /\ idx' = 1 ELSE idx' = idx + 1 /\ cpu' = cpu
    BY DEF CopyWord
<1>7. stats[cpu][Counters[idx]] \in Nat
    BY <1>1, <1>5 DEF StatTypes
<1>8. ReadTypes'
    <2>1. sum' \in [Counter -> Nat]
        BY <1>5, <1>6, <1>7 DEF ReadTypes
    <2>2. cpu' \in 1..(NCpu + 1) /\ idx' <= 5
        BY <1>1, <1>6, SizesAssumption
    <2> QED
        BY <2>1, <2>2 DEF ReadTypes
<1>9. \A k \in Counter :
          sum'[k] = IF k = Counters[idx] THEN sum[k] + stats[cpu][k] ELSE sum[k]
    BY <1>5, <1>6 DEF ReadTypes
<1>10. BusyBefore \in Nat /\ (idx # 5 => BusyBefore' = BusyBefore /\ BusyNow' = BusyNow)
    <2>1. BusyBefore \in Nat
        BY <1>1, BusyNext DEF BusyBefore
    <2>2. ASSUME idx # 5
          PROVE  BusyBefore' = BusyBefore /\ BusyNow' = BusyNow
        BY <1>1, <1>6, <2>2 DEF BusyBefore, BusyNow
    <2> QED
        BY <2>1, <2>2
<1>11. idx = 5 => BusyBefore' = BusyBefore + BusyNow
    <2> SUFFICES ASSUME idx = 5
                 PROVE  BusyBefore' = BusyBefore + BusyNow
        OBVIOUS
    <2>1. BusyBefore' = Cardinality({c \in Cpu : c < cpu + 1 /\ stats[c]["total"] > 0})
        BY <1>1, <1>6 DEF BusyBefore
    <2> QED
        BY <1>1, <2>1, BusyNext DEF BusyBefore, BusyNow
<1>12. ReadInv
    OBVIOUS
<1> HIDE DEF ReadPart, CountPart
<1> SUFFICES ReadInv'
    BY <1>8 DEF ReadPart
<1>13. CASE idx = 1
    <2>1. /\ sum'["total"] = sum["total"] + stats[cpu]["total"]
          /\ sum'["allowed"] = sum["allowed"] /\ sum'["blocked"] = sum["blocked"]
          /\ sum'["tcp"] = sum["tcp"] /\ sum'["udp"] = sum["udp"]
        BY <1>9, <1>13, CounterSet
    <2>2. VerdictLag' = VerdictLag + stats[cpu]["total"] /\ KindLag' = KindLag
        BY <1>2, <1>3, <2>1 DEF VerdictLag, KindLag
    <2>3. VerdictLag \in Int /\ KindLag \in Int
        BY <1>3 DEF VerdictLag, KindLag
    <2>4. idx' = 2 /\ cpu' = cpu /\ BusyBefore' = BusyBefore /\ BusyNow' = BusyNow
        BY <1>6, <1>10, <1>13
    <2>5. VerdictLag <= BusyBefore /\ KindLag <= BusyBefore
        BY <1>1, <1>12, <1>13 DEF ReadInv
    <2> DEFINE seen == BusyBefore + BusyNow + stats[cpu]["allowed"] + stats[cpu]["blocked"]
    <2>6. BusyBefore \in Nat /\ BusyNow \in Nat
        BY <1>4, <1>10
    <2>7. VerdictLag + stats[cpu]["total"] <= seen
        BY <1>2, <1>4, <2>3, <2>5, <2>6
    <2>8. VerdictLag' <= seen
        BY <2>2, <2>7
    <2> QED
        BY <1>1, SizesAssumption, <2>2, <2>4, <2>5, <2>8 DEF ReadInv
<1>14. CASE idx = 2
    <2>1. /\ sum'["allowed"] = sum["allowed"] + stats[cpu]["allowed"]
          /\ sum'["total"] = sum["total"] /\ sum'["blocked"] = sum["blocked"]
          /\ sum'["tcp"] = sum["tcp"] /\ sum'["udp"] = sum["udp"]
        BY <1>9, <1>14, CounterSet
    <2>2. /\ VerdictLag' = VerdictLag - stats[cpu]["allowed"]
          /\ KindLag' = KindLag + stats[cpu]["allowed"]
        BY <1>2, <1>3, <2>1 DEF VerdictLag, KindLag
    <2>3. VerdictLag \in Int /\ KindLag \in Int
        BY <1>3 DEF VerdictLag, KindLag
    <2>4. idx' = 3 /\ cpu' = cpu
        BY <1>6, <1>14
    <2> QED
        BY <1>1, <1>2, <1>4, <1>10, <1>12, <1>14, <2>2, <2>3, <2>4 DEF ReadInv
<1>15. CASE idx = 3
    <2>1. /\ sum'["blocked"] = sum["blocked"] + stats[cpu]["blocked"]
          /\ sum'["total"] = sum["total"] /\ sum'["allowed"] = sum["allowed"]
          /\ sum'["tcp"] = sum["tcp"] /\ sum'["udp"] = sum["udp"]
        BY <1>9, <1>15, CounterSet
    <2>2. /\ VerdictLag' = VerdictLag - stats[cpu]["blocked"]
          /\ KindLag' = KindLag + stats[cpu]["blocked"]
        BY <1>2, <1>3, <2>1 DEF VerdictLag, KindLag
    <2>3. VerdictLag \in Int /\ KindLag \in Int
        BY <1>3 DEF VerdictLag, KindLag
    <2>4. idx' = 4 /\ cpu' = cpu
        BY <1>6, <1>15
    <2> QED
        BY <1>1, <1>2, <1>4, <1>10, <1>12, <1>15, <2>2, <2>3, <2>4 DEF ReadInv
<1>16. CASE idx = 4
    <2>1. /\ sum'["tcp"] = sum["tcp"] + stats[cpu]["tcp"]
          /\ sum'["total"] = sum["total"] /\ sum'["allowed"] = sum["allowed"]
          /\ sum'["blocked"] = sum["blocked"] /\ sum'["udp"] = sum["udp"]
        BY <1>9, <1>16, CounterSet
    <2>2. VerdictLag' = VerdictLag /\ KindLag' = KindLag - stats[cpu]["tcp"]
        BY <1>2, <1>3, <2>1 DEF VerdictLag, KindLag
    <2>3. VerdictLag \in Int /\ KindLag \in Int
        BY <1>3 DEF VerdictLag, KindLag
    <2>4. idx' = 5 /\ cpu' = cpu
        BY <1>6, <1>16
    <2> QED
        BY <1>1, <1>2, <1>4, <1>10, <1>12, <1>16, <2>2, <2>3, <2>4 DEF ReadInv
<1>17. CASE idx = 5
    <2>1. /\ sum'["udp"] = sum["udp"] + stats[cpu]["udp"]
          /\ sum'["total"] = sum["total"] /\ sum'["allowed"] = sum["allowed"]
          /\ sum'["blocked"] = sum["blocked"] /\ sum'["tcp"] = sum["tcp"]
        BY <1>9, <1>17, CounterSet
    <2>2. VerdictLag' = VerdictLag /\ KindLag' = KindLag - stats[cpu]["udp"]
        BY <1>2, <1>3, <2>1 DEF VerdictLag, KindLag
    <2>3. VerdictLag \in Int /\ KindLag \in Int
        BY <1>3 DEF VerdictLag, KindLag
    <2>4. idx' = 1
        BY <1>6, <1>17
    <2> QED
        BY <1>1, <1>2, <1>4, <1>10, <1>11, <1>12, <1>17, <2>2, <2>3, <2>4 DEF ReadInv
<1> QED
    BY <1>1, <1>13, <1>14, <1>15, <1>16, <1>17

LEMMA ReturnKeeps ==
    ASSUME ReadPart, Return
    PROVE  ReadPart'
<1>1. at' = "idle" /\ cpu' = 1 /\ sum' = NoCount
    BY DEF Return, Move
<1> QED
    BY <1>1, NoCountTypes, SizesAssumption DEF ReadPart, ReadTypes, ReadInv
-----------------------------------------------------------------------------
(* The program and its manager *)

LEMMA XdpStart == XdpInit => XdpInv
<1> SUFFICES ASSUME XdpInit
             PROVE  XdpInv
    OBVIOUS
<1> USE DEF XdpInit
<1>1. FilterPart
    BY SizesAssumption DEF FilterPart, FilterTypes, FilterInv
<1>2. CountPart
    <2>1. StatTypes
        BY NoCountTypes DEF StatTypes
    <2>2. ASSUME NEW c \in Cpu
          PROVE  CounterInv(c)
        <3>1. stats[c] = NoCount /\ step[c] = "idle" /\ packets = 0
            OBVIOUS
        <3>2. /\ stats[c]["total"] = 0 /\ stats[c]["allowed"] = 0 /\ stats[c]["blocked"] = 0
              /\ stats[c]["tcp"] = 0 /\ stats[c]["udp"] = 0
            BY <3>1, NoCountTypes
        <3> HIDE DEF XdpInit
        <3> QED
            BY <3>1, <3>2 DEF CounterInv
    <2> QED
        BY <2>1, <2>2 DEF CountPart
<1>3. TableTypes /\ ManagerTypes
    <2>1. Word \in (SUBSET Word) \ {{}}
        BY DEF Word
    <2>2. Empty \in Config
        BY ConfigAssumption
    <2> QED
        BY <2>1, <2>2, ClearedType, Zero, SizesAssumption DEF TableTypes, ManagerTypes
<1>4. RulesInv /\ PortsInv
    <2>1. \A i \in 1..MaxRules : Holds(i, RuleRow(Empty, i))
        <3>1. \A i \in 1..MaxRules : RuleRow(Empty, i) = Cleared
            BY SizesAssumption DEF RuleRow, Empty
        <3> QED
            BY <3>1 DEF Holds
    <2>2. \A i \in 1..MaxPorts : ports[i] = PortRow(Empty, i)
        BY SizesAssumption DEF PortRow, Empty
    <2> QED
        BY <2>1, <2>2 DEF RulesInv, PortsInv
<1>5. ReadPart
    BY NoCountTypes, SizesAssumption DEF ReadPart, ReadTypes, ReadInv
<1> QED
    BY <1>1, <1>2, <1>3, <1>4, <1>5 DEF XdpInv, ManagerPart

\* What the manager reads and writes is as it was.
LEMMA ManagerStays ==
    ASSUME ManagerPart, UNCHANGED <<at, idx, writing>>
    PROVE  ManagerPart'
BY DEF ManagerPart, TableTypes, ManagerTypes, RulesInv, PortsInv, Holds, AtEntry, writing

LEMMA FiltersStay ==
    ASSUME FilterPart, UNCHANGED <<filter, ruleTable, portTable, undisturbed>>
    PROVE  FilterPart'
<1>1. FilterTypes'
    BY DEF FilterPart, FilterTypes, filter
<1>2. ASSUME NEW c \in Cpu
      PROVE  FilterInv(c)'
    <2>1. FilterInv(c)
        BY DEF FilterPart
    <2> QED
        BY <2>1 DEF FilterInv, filter
<1> QED
    BY <1>1, <1>2 DEF FilterPart

LEMMA CountsStay ==
    ASSUME CountPart, UNCHANGED <<filter, stats>>
    PROVE  CountPart'
BY DEF CountPart, StatTypes, CounterInv, filter

\* A step of the filter keeps the whole invariant, and so does one of the manager.
LEMMA FilterKeepsAll ==
    ASSUME XdpInv, NEW c \in Cpu, Filter(c)
    PROVE  XdpInv'
<1> USE DEF XdpInv
<1>1. DecisionKeeps(c)
    BY ReceiveKeeps, LookAtPortKeeps, LookAtRuleKeeps, MatchRuleKeeps, CountingKeeps DEF Filter
<1>2. CountKeeps
    <2>1. OthersStay(c) /\ FilterTypes
        BY <1>1 DEF DecisionKeeps, FilterPart
    <2>2. CASE CountTotal(c) \/ CountVerdict(c) \/ CountKind(c)
        BY <2>2, Counting
    <2>3. ASSUME NEW p \in Packet, Receive(c, p)
          PROVE  CountKeeps
        <3>1. /\ step[c] = "idle" /\ step'[c] = "ports" /\ packets' = packets + 1
              /\ stats' = stats
            BY <2>1, <2>3 DEF Receive, GoOn, FilterTypes
        <3> QED
            BY <2>1, <3>1, NoCounting
    <2>4. CASE LookAtPort(c) \/ LookAtRule(c) \/ MatchRule(c)
        <3>1. /\ step[c] \in {"ports", "rules", "match"}
              /\ step'[c] \in {"ports", "rules", "match", "total"}
              /\ packets' = packets /\ stats' = stats
            BY <2>1, <2>4 DEF LookAtPort, LookAtRule, MatchRule, GoOn, FilterTypes
        <3> QED
            BY <2>1, <3>1, NoCounting
    <2> QED
        BY <2>2, <2>3, <2>4 DEF Filter
<1>3. UNCHANGED <<at, idx, reading, writing>>
    BY <1>1 DEF DecisionKeeps
<1>4. FilterPart'
    <2>1. \A d \in Cpu : d # c => FilterInv(d)'
        BY <1>1, <1>3, OtherFilters DEF DecisionKeeps, FilterPart
    <2> QED
        BY <1>1, <2>1 DEF DecisionKeeps, FilterPart
<1>5. CountPart'
    BY <1>2 DEF CountKeeps
<1>6. ManagerPart'
    BY <1>3, ManagerStays
<1>7. ReadPart'
    BY <1>2, <1>3, <1>5, ReadWhileCounting DEF CountKeeps, CountPart
<1> QED
    BY <1>4, <1>5, <1>6, <1>7

LEMMA ManagerKeepsAll ==
    ASSUME XdpInv, Manage
    PROVE  XdpInv'
<1> USE DEF XdpInv
<1>1. CASE Read \/ CopyWord \/ Return
    <2>1. UNCHANGED <<writing, undisturbed, stats, filter>>
        BY <1>1 DEF Read, CopyWord, Return
    <2>2. FilterPart' /\ CountPart'
        BY <2>1, FiltersStay, CountsStay DEF writing
    <2>3. ReadPart'
        BY <1>1, ReadKeeps, CopyWordKeeps, ReturnKeeps DEF CountPart, ManagerPart
    <2>4. ManagerPart'
        BY <1>1, <2>1 DEF ManagerPart, TableTypes, ManagerTypes, RulesInv, PortsInv, Holds,
                          AtEntry, writing, Read, CopyWord, Return, Move
    <2> QED
        BY <2>2, <2>3, <2>4
<1>2. CASE /\ at # "read"
           /\ ManagerKeeps
    <2>1. ManagerPart' /\ at' # "read" /\ UNCHANGED <<stats, filter, reading>>
        BY <1>2 DEF ManagerKeeps
    <2>2. CountPart' /\ ReadPart'
        BY <1>2, <2>1, CountsStay, NotReading
    <2>3. FilterPart'
        <3>1. FilterTypes'
            BY <1>2, <2>1 DEF ManagerKeeps, FilterPart, FilterTypes, filter
        <3>2. ASSUME NEW c \in Cpu
              PROVE  FilterInv(c)'
            <4>1. FilterInv(c)
                BY DEF FilterPart
            <4>2. UNCHANGED <<step, packet, slot, allowed>>
                BY <2>1 DEF filter
            <4>3. CASE ~undisturbed'[c]
                BY <4>1, <4>2, <4>3 DEF FilterInv
            <4>4. CASE /\ undisturbed' = undisturbed /\ ruleTable' = ruleTable
                       /\ portTable' = portTable \/ portTable = Mixed
                BY <4>1, <4>2, <4>4 DEF FilterInv
            <4> QED
                BY <1>2, <4>3, <4>4 DEF ManagerKeeps
        <3> QED
            BY <3>1, <3>2 DEF FilterPart
    <2> QED
        BY <2>1, <2>2, <2>3
<1>3. ASSUME NEW g \in Config, Reload(g)
      PROVE  at # "read" /\ ManagerKeeps
    BY <1>3, ReloadKeeps DEF Reload
<1>4. CASE ClearRule \/ RulesCleared \/ ClearRuleFails
    BY <1>2, <1>4, ClearRuleKeeps, RulesClearedKeeps, ClearRuleFailsKeeps
       DEF ClearRule, RulesCleared, ClearRuleFails
<1>5. CASE AddRule \/ SkipRule \/ AddRuleFails \/ RulesFilled
    BY <1>2, <1>5, AddRuleKeeps, SkipRuleKeeps, RulesFilledKeeps
       DEF AddRule, SkipRule, AddRuleFails, RulesFilled, AtEntry
<1>6. CASE ClearPort \/ PortsCleared \/ AddPort \/ PortFails \/ PortsFilled
    BY <1>2, <1>6, ClearPortKeeps, PortsClearedKeeps, AddPortKeeps, PortFailsKeeps,
       PortsFilledKeeps
       DEF ClearPort, PortsCleared, AddPort, PortFails, PortsFilled, AtPort
<1> QED
    BY <1>1, <1>2, <1>3, <1>4, <1>5, <1>6 DEF Manage

LEMMA XdpStep == XdpInv /\ [XdpNext]_xdp => XdpInv'
<1> SUFFICES ASSUME XdpInv, [XdpNext]_xdp
             PROVE  XdpInv'
    OBVIOUS
<1>1. CASE UNCHANGED xdp
    <2>1. UNCHANGED <<at, idx, reading, writing, filter, stats, undisturbed, ruleTable, portTable>>
        BY <1>1 DEF xdp, writing
    <2>2. FilterPart' /\ CountPart' /\ ManagerPart'
        BY <2>1, FiltersStay, CountsStay, ManagerStays DEF XdpInv
    <2>3. ReadPart'
        BY <2>1, <2>2, ReadWhileCounting DEF XdpInv, CountPart, StatTypes, Grown
    <2> QED
        BY <2>2, <2>3 DEF XdpInv
<1>2. CASE XdpNext
    BY <1>2, FilterKeepsAll, ManagerKeepsAll DEF XdpNext
<1> QED
    BY <1>1, <1>2

\* Hence it always holds.
LEMMA XdpInvariant == XdpSpec => []XdpInv
BY XdpStart, XdpStep, PTL DEF XdpSpec
-----------------------------------------------------------------------------
\* Whatever the packets, the configurations and the failures of table writes, the tables
\* keep their types, every index stays in its table (check_port_allowed and
\* update_allowed_ports go through them by number), and no counter of update_stats
\* exceeds the packets received.
THEOREM XdpTypeCorrect == XdpSpec => []XdpTypeOK
<1>1. XdpInv => XdpTypeOK
    <2> SUFFICES ASSUME XdpInv
                 PROVE  XdpTypeOK
        OBVIOUS
    <2>1. stats \in [Cpu -> [Counter -> 0..MaxPacket]]
        <3>1. StatTypes
            BY DEF XdpInv, CountPart
        <3>2. ASSUME NEW c \in Cpu, NEW k \in Counter
              PROVE  stats[c][k] \in 0..MaxPacket
            <4>1. CounterInv(c)
                BY DEF XdpInv, CountPart
            <4>2. packets \in Nat /\ packets <= MaxPacket
                BY SizesAssumption DEF XdpInv, FilterPart, FilterTypes
            <4>3. /\ stats[c]["total"] \in Nat /\ stats[c]["allowed"] \in Nat
                  /\ stats[c]["blocked"] \in Nat /\ stats[c]["tcp"] \in Nat
                  /\ stats[c]["udp"] \in Nat
                BY <3>1, RowCounts
            <4>4. stats[c]["total"] <= MaxPacket
                BY <4>1, <4>2, <4>3, SizesAssumption DEF CounterInv
            <4>5. /\ stats[c]["allowed"] <= stats[c]["total"]
                  /\ stats[c]["blocked"] <= stats[c]["total"]
                BY <4>1, <4>3 DEF CounterInv
            <4>6. /\ stats[c]["tcp"] <= stats[c]["total"]
                  /\ stats[c]["udp"] <= stats[c]["total"]
                BY <4>1, <4>3 DEF CounterInv
            <4> QED
                BY <4>3, <4>4, <4>5, <4>6, CounterSet, SizesAssumption
        <3> QED
            BY <3>1, <3>2 DEF StatTypes
    <2>2. \A c \in Cpu : step[c] = "match" => slot[c] \in 1..MaxRules
        BY SizesAssumption DEF XdpInv, FilterPart, FilterInv, FilterTypes
    <2>3. cpu \in Nat
        BY SizesAssumption DEF XdpInv, ReadPart, ReadTypes
    <2> QED
        BY <2>1, <2>2, <2>3
           DEF XdpTypeOK, XdpInv, FilterPart, FilterTypes, ManagerPart, TableTypes, ManagerTypes,
               ReadPart, ReadTypes
<1> QED
    BY <1>1, XdpInvariant, PTL

\* Of a packet that no update disturbed, xdp_filter_func decides as the configurations
\* say that reload_config last wrote whole, whatever longer lists were there before and
\* whichever writes failed.
THEOREM SettledVerdicts == XdpSpec => []SettledVerdict
<1>1. XdpInv => SettledVerdict
    <2> SUFFICES ASSUME XdpInv, NEW c \in Cpu, undisturbed[c],
                        step[c] \in {"total", "verdict", "kind"}
                 PROVE  allowed[c] = Decision(ruleTable, portTable, packet[c])
        BY DEF SettledVerdict
    <2>1. allowed[c] \in BOOLEAN
        BY DEF XdpInv, FilterPart, FilterTypes
    <2>2. allowed[c] <=> Decision(ruleTable, portTable, packet[c])
        BY DEF XdpInv, FilterPart, FilterInv
    <2>3. Decision(ruleTable, portTable, packet[c]) \in BOOLEAN
        BY DEF Decision
    <2> QED
        BY <2>1, <2>2, <2>3
<1> QED
    BY <1>1, XdpInvariant, PTL

\* However the copying of the counters and the counting interleave, the verdicts
\* that get_statistics reports lag behind the packets by no more than one for each
\* CPU that had one, and the protocols likewise behind the verdicts.
THEOREM VerdictsFollow == XdpSpec => []VerdictsKeepUp
<1>1. XdpInv => VerdictsKeepUp
    <2> SUFFICES ASSUME XdpInv, at = "read", cpu > NCpu
                 PROVE  /\ sum["allowed"] + sum["blocked"] >= sum["total"] - Busy
                        /\ sum["tcp"] + sum["udp"] >= sum["allowed"] + sum["blocked"] - Busy
        BY DEF VerdictsKeepUp
    <2>1. ReadPart /\ StatTypes
        BY DEF XdpInv, CountPart
    <2>2. cpu = NCpu + 1 /\ cpu \in Nat
        BY <2>1, SizesAssumption DEF ReadPart, ReadTypes
    <2>3. BusyBefore = Busy
        <3>1. \A c \in Cpu : c < cpu
            BY <2>2, SizesAssumption DEF Cpu
        <3>2. {c \in Cpu : c < cpu /\ stats[c]["total"] > 0} = {c \in Cpu : stats[c]["total"] > 0}
            BY <3>1
        <3> QED
            BY <3>2 DEF BusyBefore, Busy
    <2>4. Busy \in Nat
        <3> DEFINE busy == {c \in Cpu : stats[c]["total"] > 0}
        <3>1. IsFiniteSet(Cpu)
            BY FS_Interval, SizesAssumption DEF Cpu
        <3>2. IsFiniteSet(busy)
            BY <3>1, FS_Subset
        <3> HIDE DEF busy
        <3>3. Cardinality(busy) \in Nat
            BY <3>2, FS_CardinalityType
        <3> QED
            BY <3>3 DEF Busy, busy
    <2>5. VerdictLag <= Busy /\ KindLag <= Busy
        BY <2>1, <2>3 DEF ReadPart, ReadInv
    <2>6. /\ sum["total"] \in Nat /\ sum["allowed"] \in Nat
          /\ sum["blocked"] \in Nat /\ sum["tcp"] \in Nat /\ sum["udp"] \in Nat
        BY <2>1, SumTypes
    <2> QED
        BY <2>4, <2>5, <2>6 DEF VerdictLag, KindLag
<1> QED
    BY <1>1, XdpInvariant, PTL
==============================================================================
