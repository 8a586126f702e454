-------------------------------- MODULE Ingest --------------------------------
(***************************************************************************)
(* The receivers, apps/log-receiver/apps/logreceiver/__init__.py and       *)
(* apps/metrics-receiver/apps/metricsreceiver/__init__.py: the threads of  *)
(* a web server put what callers post in the database and on a Redis       *)
(* stream.  ingest_logs and ingest_metrics take one entry per request,     *)
(* ingest_fleet_logs and ingest_fleet_metrics a batch of records.          *)
(*                                                                         *)
(* Requests are numbered; what a caller sends again is a new request.  An  *)
(* item is one record of a request, a single entry being its record 1.     *)
(***************************************************************************)
EXTENDS Integers, FiniteSets

CONSTANTS
    Thread,        \* threads of the server, one database connection each
    MaxRequest,    \* bound: requests
    MaxRecords,    \* bound: records of a Fleet request
    MaxRestart     \* bound: restarts of the process

ASSUME IngestAssumption ==
    /\ MaxRequest \in Nat
    /\ MaxRecords \in Nat \ {0}
    /\ MaxRestart \in Nat

VARIABLES
    (* the database and Redis *)
    rows,          \* items with a committed row
    stream,        \* items with an entry on the stream
    (* the threads *)
    pc,            \* where the handler is
    request,       \* the request it serves
    size,          \* len(records)
    next,          \* the record it is at
    processed,     \* processed_count
    open,          \* rows inserted in the connection's transaction
    failed,        \* that transaction has seen an error and takes no statement
    (* the callers and the world *)
    requests,      \* requests made so far
    restarts,      \* how much of MaxRestart is used up
    (* history, which no action reads *)
    singles,       \* requests to the endpoints of one entry
    accepted,      \* those of them that were answered "accepted"
    reported       \* items that the answer to a Fleet request calls Ok

handler == <<request, size, next, processed>>
world   == <<requests, restarts, singles>>
vars    == <<rows, stream, pc, request, size, next, processed, open, failed,
             requests, restarts, singles, accepted, reported>>

Request == 1..MaxRequest
Item == Request \X (1..MaxRecords)

Current(t) == <<request[t], next[t]>>

Goto(t, where) == pc' = [pc EXCEPT ![t] = where]
Answer(t) == Goto(t, "idle")
-----------------------------------------------------------------------------
(* The database connection of a thread *)

InsertRow(t) ==
    /\ ~failed[t]
    /\ open' = [open EXCEPT ![t] = @ \union {Current(t)}]
    /\ UNCHANGED failed

\* A statement that the server refuses, or that comes after such a one: what the
\* transaction did is lost, and no handler rolls it back.
RefuseRow(t) ==
    /\ open' = [open EXCEPT ![t] = {}]
    /\ failed' = [failed EXCEPT ![t] = TRUE]

EndTransaction(t) ==
    /\ open' = [open EXCEPT ![t] = {}]
    /\ failed' = [failed EXCEPT ![t] = FALSE]

\* The commit of a failed transaction is a rollback, and raises nothing.
CommitRows(t) ==
    /\ rows' = rows \union open[t]
    /\ EndTransaction(t)

\* The commit raises: the server may have made it or not.
CommitRaises(t) ==
    /\ rows' \in {rows, rows \union open[t]}
    /\ EndTransaction(t)
-----------------------------------------------------------------------------
(* ingest_logs, ingest_metrics *)

Begin(t, n) ==
    /\ pc[t] = "idle"
    /\ requests < MaxRequest
    /\ requests' = requests + 1
    /\ request' = [request EXCEPT ![t] = requests + 1]
    /\ size' = [size EXCEPT ![t] = n]
    /\ next' = [next EXCEPT ![t] = 1]
    /\ processed' = [processed EXCEPT ![t] = 0]

Post(t) ==
    /\ Begin(t, 1)
    /\ Goto(t, "insert")
    /\ singles' = singles \union {requests + 1}
    /\ UNCHANGED <<rows, stream, open, failed, restarts, accepted, reported>>

\* A mutant of Insert: the commit comes with the next request.
InsertOnly(t) ==
    /\ pc[t] = "insert"
    /\ InsertRow(t)
    /\ Goto(t, "add")
    /\ UNCHANGED <<rows, stream, handler, world, accepted, reported>>

Insert(t) ==
    /\ pc[t] = "insert"
    /\ InsertRow(t)
    /\ Goto(t, "commit")
    /\ UNCHANGED <<rows, stream, handler, world, accepted, reported>>

\* The entry does not convert, and the database hears nothing of it, or it
\* refuses the row: 500.
InsertFails(t) ==
    /\ pc[t] = "insert"
    /\ RefuseRow(t) \/ UNCHANGED <<open, failed>>
    /\ Answer(t)
    /\ UNCHANGED <<rows, stream, handler, world, accepted, reported>>

Commit(t) ==
    /\ pc[t] = "commit"
    /\ CommitRows(t)
    /\ Goto(t, "add")
    /\ UNCHANGED <<stream, handler, world, accepted, reported>>

CommitFails(t) ==
    /\ pc[t] = "commit"
    /\ CommitRaises(t)
    /\ Answer(t)
    /\ UNCHANGED <<stream, handler, world, accepted, reported>>

Add(t) ==
    /\ pc[t] = "add"
    /\ stream' = stream \union {Current(t)}
    /\ accepted' = accepted \union {request[t]}
    /\ Answer(t)
    /\ UNCHANGED <<rows, open, failed, handler, world, reported>>

\* A mutant of AddFails: the error of XADD is logged and the entry accepted.
AddFailsSilently(t) ==
    /\ pc[t] = "add"
    /\ accepted' = accepted \union {request[t]}
    /\ Answer(t)
    /\ UNCHANGED <<rows, stream, open, failed, handler, world, reported>>

\* XADD raises, or its reply is lost: 500, and the row stays.
AddFails(t) ==
    /\ pc[t] = "add"
    /\ stream' \in {stream, stream \union {Current(t)}}
    /\ Answer(t)
    /\ UNCHANGED <<rows, open, failed, handler, world, accepted, reported>>
-----------------------------------------------------------------------------
(* ingest_fleet_logs, ingest_fleet_metrics *)

PostFleet(t) ==
    /\ \E n \in 0..MaxRecords : Begin(t, n)
    /\ Goto(t, "record")
    /\ UNCHANGED <<rows, stream, open, failed, restarts, singles, accepted, reported>>

\* A mutant of AtRecord: range(len(records) + 1).
AtRecordPast(t) == pc[t] = "record" /\ next[t] <= size[t] + 1

AtRecord(t) == pc[t] = "record" /\ next[t] <= size[t]
AtEnd(t)    == pc[t] = "record" /\ next[t] > size[t]

NextRecord(t) ==
    /\ Goto(t, "record")
    /\ next' = [next EXCEPT ![t] = @ + 1]
    /\ UNCHANGED <<request, size>>

InsertRecord(t) ==
    /\ AtRecord(t)
    /\ InsertRow(t)
    /\ Goto(t, "push")
    /\ UNCHANGED <<rows, stream, handler, world, accepted, reported>>

\* The record does not convert, before its row is inserted or (the value of a
\* Fleet metric) after, or the database refuses it: the loop goes on.
SkipRecord(t) ==
    /\ AtRecord(t)
    /\ InsertRow(t) \/ RefuseRow(t) \/ UNCHANGED <<open, failed>>
    /\ NextRecord(t)
    /\ UNCHANGED <<rows, stream, processed, world, accepted, reported>>

PushRecord(t) ==
    /\ pc[t] = "push"
    /\ stream' = stream \union {Current(t)}
    /\ processed' = [processed EXCEPT ![t] = @ + 1]
    /\ NextRecord(t)
    /\ UNCHANGED <<rows, open, failed, world, accepted, reported>>

\* A mutant of PushFails: processed_count is incremented before XADD.
PushFailsCounted(t) ==
    /\ pc[t] = "push"
    /\ stream' \in {stream, stream \union {Current(t)}}
    /\ processed' = [processed EXCEPT ![t] = @ + 1]
    /\ NextRecord(t)
    /\ UNCHANGED <<rows, open, failed, world, accepted, reported>>

\* XADD raises, or its reply is lost: the row stays in the transaction.
PushFails(t) ==
    /\ pc[t] = "push"
    /\ stream' \in {stream, stream \union {Current(t)}}
    /\ NextRecord(t)
    /\ UNCHANGED <<rows, processed, open, failed, world, accepted, reported>>

\* The answer calls Ok as many records as were processed, the first ones.
Reply(t) == {<<request[t], i>> : i \in 1..processed[t]}

CommitBatch(t) ==
    /\ AtEnd(t)
    /\ CommitRows(t)
    /\ reported' = reported \union Reply(t)
    /\ Answer(t)
    /\ UNCHANGED <<stream, handler, world, accepted>>

\* 500.
CommitBatchFails(t) ==
    /\ AtEnd(t)
    /\ CommitRaises(t)
    /\ Answer(t)
    /\ UNCHANGED <<stream, handler, world, accepted, reported>>
-----------------------------------------------------------------------------
\* The process ends at any point and is started again.
Restart ==
    /\ restarts < MaxRestart
    /\ restarts' = restarts + 1
    /\ pc' = [t \in Thread |-> "idle"]
    /\ open' = [t \in Thread |-> {}]
    /\ failed' = [t \in Thread |-> FALSE]
    /\ UNCHANGED <<rows, stream, handler, requests, singles, accepted, reported>>

Init ==
    /\ rows = {}
    /\ stream = {}
    /\ pc = [t \in Thread |-> "idle"]
    /\ request = [t \in Thread |-> 0]
    /\ size = [t \in Thread |-> 0]
    /\ next = [t \in Thread |-> 1]
    /\ processed = [t \in Thread |-> 0]
    /\ open = [t \in Thread |-> {}]
    /\ failed = [t \in Thread |-> FALSE]
    /\ requests = 0
    /\ restarts = 0
    /\ singles = {}
    /\ accepted = {}
    /\ reported = {}

Single(t) ==
    \/ Post(t) \/ Insert(t) \/ InsertFails(t) \/ Commit(t) \/ CommitFails(t)
    \/ Add(t) \/ AddFails(t)

Fleet(t) ==
    \/ PostFleet(t) \/ InsertRecord(t) \/ SkipRecord(t) \/ PushRecord(t) \/ PushFails(t)
    \/ CommitBatch(t) \/ CommitBatchFails(t)

Next ==
    \/ \E t \in Thread : Single(t) \/ Fleet(t)
    \/ Restart

Spec == Init /\ [][Next]_vars
-----------------------------------------------------------------------------
(* Properties *)

TypeOK ==
    /\ rows \subseteq Item
    /\ stream \subseteq Item
    /\ pc \in [Thread -> {"idle", "insert", "commit", "add", "record", "push"}]
    /\ request \in [Thread -> 0..MaxRequest]
    /\ size \in [Thread -> 0..MaxRecords]
    /\ next \in [Thread -> 1..(MaxRecords + 1)]
    /\ processed \in [Thread -> 0..MaxRecords]
    /\ open \in [Thread -> SUBSET Item]
    /\ failed \in [Thread -> BOOLEAN]
    /\ requests \in 0..MaxRequest
    /\ restarts \in 0..MaxRestart
    /\ singles \subseteq Request
    /\ accepted \subseteq Request
    /\ reported \subseteq Item

\* What ingest_logs or ingest_metrics put on the stream can be looked up by its
\* id: the row was committed before, whatever this thread's connection had been
\* through and wherever the process died.
StreamedIsStored ==
    \A r \in singles : <<r, 1>> \in stream => <<r, 1>> \in rows

\* A caller that was told "accepted" need not send the entry again: it is in
\* the database and on the stream.
AcceptedIsKept ==
    \A r \in accepted : <<r, 1>> \in rows /\ <<r, 1>> \in stream

\* A commit makes rows of one request permanent, one that is being served, and
\* none that an earlier handler left behind in the thread's transaction.
OwnRows ==
    [][rows' # rows =>
         \E t \in Thread : /\ pc[t] # "idle"
                           /\ \A x \in rows' \ rows : x[1] = request[t]]_vars

\* The FailedRecordCount of a Fleet request errs on one side only: it counts as
\* processed no more records than are on the stream, although XADD, the inserts
\* and the conversions fail one by one.
CountedIsPushed ==
    \A r \in Request :
        Cardinality({x \in reported : x[1] = r}) <= Cardinality({x \in stream : x[1] = r})
=============================================================================
