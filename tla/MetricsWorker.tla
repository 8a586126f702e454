----------------------------- MODULE MetricsWorker -----------------------------
(***************************************************************************)
(* The metrics worker, apps/metrics-worker/app.py: threads of one process  *)
(* read the Redis stream metrics:raw through the group metrics-workers,    *)
(* keep what they read in a buffer each, acknowledge it, and push the      *)
(* buffer to the Prometheus gateway when it is full or its interval is     *)
(* over.                                                                   *)
(*                                                                         *)
(* Metrics are the numbers of their stream entries.  A Redis command and a *)
(* push may fail, or succeed and lose their answer.                        *)
(***************************************************************************)
EXTENDS Integers, Sequences

CONSTANTS
    Worker,     \* MetricsWorker threads
    BatchSize,  \* COUNT of XREADGROUP (config.max_batch_size)
    Full,       \* the buffer size at which it is pushed (100)
    Parsed,     \* metrics whose fields make a MetricEntry
    Decoding,   \* values of decode_responses to look at: TRUE is the one the code sets
    MaxMetric,  \* bound: metrics ever added
    MaxFault,   \* bound: Redis commands and pushes that fail
    MaxRestart  \* bound: crashes and shutdowns of the process

ASSUME MetricsWorkerAssumption ==
    /\ BatchSize \in Nat \ {0} /\ Full \in Nat \ {0}
    /\ Decoding \subseteq BOOLEAN /\ Decoding # {}
    /\ MaxMetric \in Nat /\ MaxFault \in Nat /\ MaxRestart \in Nat
    /\ Parsed \subseteq 1..MaxMetric

VARIABLES
    decodeResponses, \* the setting of redis_client
    (* Redis: the stream and its group *)
    produced,        \* entries 1..produced are in the stream
    cursor,          \* last-delivered-id of the group
    pending,         \* entries delivered and not acknowledged
    (* a worker thread and its PrometheusDestination *)
    pc,              \* where it is in consume_messages
    messages,        \* the batch it works on
    rest,            \* the part of it that the loop has not come to
    buffer,          \* metrics_buffer
    due,             \* push_interval has elapsed since last_push
    (* the world *)
    faults, restarts,
    (* history, which no action reads *)
    pushed,          \* how many of the pushes the gateway got had the metric
    unanswered,      \* metrics of a push whose answer did not come
    lost             \* metrics in a buffer when the process ended

redis  == <<produced, cursor, pending>>
thread == <<pc, messages, rest, buffer, due>>
record == <<pushed, unanswered, lost>>
vars   == <<decodeResponses, produced, cursor, pending, pc, messages, rest, buffer, due,
            faults, restarts, pushed, unanswered, lost>>

Metric == 1..MaxMetric

\* The metrics in a worker's buffer.
Held(w) == {buffer[w][i] : i \in DOMAIN buffer[w]}

Goto(w, place) == pc' = [pc EXCEPT ![w] = place]

Fault == faults < MaxFault /\ faults' = faults + 1

(* consume_messages *)

\* The entries that XREADGROUP delivers: those after the cursor, BatchSize at most.
Undelivered ==
    LET size == IF produced - cursor < BatchSize THEN produced - cursor ELSE BatchSize
    IN  [i \in 1..size |-> cursor + i]

Deliver ==
    /\ Undelivered # <<>>
    /\ cursor' = cursor + Len(Undelivered)
    /\ pending' = pending \union (cursor + 1)..cursor'
    /\ UNCHANGED produced

ReadGroup(w) ==
    /\ pc[w] = "read"
    /\ Deliver
    /\ messages' = [messages EXCEPT ![w] = Undelivered]
    /\ Goto(w, "decode")
    /\ UNCHANGED <<decodeResponses, rest, buffer, due, faults, restarts, record>>

\* The reply is lost with its connection: the entries are pending, and this group's
\* workers only ever ask for new ones.
LoseRead(w) ==
    /\ pc[w] = "read"
    /\ Deliver
    /\ Fault
    /\ UNCHANGED <<decodeResponses, thread, restarts, record>>

\* stream.decode(): with decode_responses the name is a str and has no such method.
\* The exception ends the call, and the batch with it.
DropBatch(w) ==
    /\ pc[w] = "decode"
    /\ decodeResponses
    /\ Goto(w, "read")
    /\ UNCHANGED <<decodeResponses, redis, messages, rest, buffer, due, faults, restarts, record>>

TakeBatch(w) ==
    /\ pc[w] = "decode"
    /\ ~decodeResponses
    /\ rest' = [rest EXCEPT ![w] = messages[w]]
    /\ Goto(w, "process")
    /\ UNCHANGED <<decodeResponses, redis, messages, buffer, due, faults, restarts, record>>
-----------------------------------------------------------------------------
(* process_message_batch, with process_metric and PrometheusDestination *)

\* add_metric of a metric that parses; the placeholder destinations keep nothing.
AddMetric(w) ==
    /\ pc[w] = "process"
    /\ rest[w] # <<>>
    /\ Head(rest[w]) \in Parsed
    /\ buffer' = [buffer EXCEPT ![w] = Append(@, Head(rest[w]))]
    /\ rest' = [rest EXCEPT ![w] = Tail(@)]
    /\ Goto(w, IF Len(buffer'[w]) >= Full \/ due[w] THEN "push" ELSE "process")
    /\ UNCHANGED <<decodeResponses, redis, messages, due, faults, restarts, record>>

\* A mutant of RefuseMetric: the metric is tried until it is taken.
RetryMetric(w) ==
    /\ pc[w] = "process"
    /\ rest[w] # <<>>
    /\ Head(rest[w]) \notin Parsed
    /\ UNCHANGED vars

\* A mutant of RefuseMetric: the fields are buffered as they came.
BufferUnparsed(w) ==
    /\ pc[w] = "process"
    /\ rest[w] # <<>>
    /\ Head(rest[w]) \notin Parsed
    /\ buffer' = [buffer EXCEPT ![w] = Append(@, Head(rest[w]))]
    /\ rest' = [rest EXCEPT ![w] = Tail(@)]
    /\ UNCHANGED <<decodeResponses, redis, pc, messages, due, faults, restarts, record>>

\* One that does not parse is acknowledged with the others.
RefuseMetric(w) ==
    /\ pc[w] = "process"
    /\ rest[w] # <<>>
    /\ Head(rest[w]) \notin Parsed
    /\ rest' = [rest EXCEPT ![w] = Tail(@)]
    /\ UNCHANGED <<decodeResponses, redis, pc, messages, buffer, due, faults, restarts, record>>

\* The gateway is sent the buffer.
Receive(w) == pushed' = [n \in Metric |-> IF n \in Held(w) THEN pushed[n] + 1 ELSE pushed[n]]

\* A mutant of Pushed: the buffer is not cleared.
PushedOnly(w) ==
    /\ pc[w] = "push"
    /\ Receive(w)
    /\ due' = [due EXCEPT ![w] = FALSE]
    /\ Goto(w, "process")
    /\ UNCHANGED <<decodeResponses, redis, messages, rest, buffer, faults, restarts,
                   unanswered, lost>>

Pushed(w) ==
    /\ pc[w] = "push"
    /\ Receive(w)
    /\ buffer' = [buffer EXCEPT ![w] = <<>>]
    /\ due' = [due EXCEPT ![w] = FALSE]
    /\ Goto(w, "process")
    /\ UNCHANGED <<decodeResponses, redis, messages, rest, faults, restarts, unanswered, lost>>

\* A mutant of PushFails: the buffer is cleared whatever the answer.
PushForgets(w) ==
    /\ pc[w] = "push"
    /\ Fault
    /\ buffer' = [buffer EXCEPT ![w] = <<>>]
    /\ Goto(w, "process")
    /\ UNCHANGED <<decodeResponses, redis, messages, rest, due, restarts, record>>

\* The gateway is not reached or answers otherwise: the buffer is kept, and the next
\* metric finds it full or due.
PushFails(w) ==
    /\ pc[w] = "push"
    /\ Fault
    /\ Goto(w, "process")
    /\ UNCHANGED <<decodeResponses, redis, messages, rest, buffer, due, restarts, record>>

\* The gateway has the metrics and the answer is late.
PushUnanswered(w) ==
    /\ pc[w] = "push"
    /\ Fault
    /\ Receive(w)
    /\ unanswered' = unanswered \union Held(w)
    /\ Goto(w, "process")
    /\ UNCHANGED <<decodeResponses, redis, messages, rest, buffer, due, restarts, lost>>

Batch(w) == {messages[w][i] : i \in DOMAIN messages[w]}

\* XACK of the whole batch.  When it fails, or its answer is lost, the loop goes on.
Acknowledge(w) ==
    /\ pc[w] = "process"
    /\ rest[w] = <<>>
    /\ \/ pending' = pending \ Batch(w) /\ UNCHANGED faults
       \/ Fault /\ UNCHANGED pending
    /\ Goto(w, "read")
    /\ UNCHANGED <<decodeResponses, produced, cursor, messages, rest, buffer, due, restarts, record>>
-----------------------------------------------------------------------------
(* The world *)

Produce ==
    /\ produced < MaxMetric
    /\ produced' = produced + 1
    /\ UNCHANGED <<decodeResponses, cursor, pending, thread, faults, restarts, record>>

Elapse(w) ==
    /\ ~due[w]
    /\ due' = [due EXCEPT ![w] = TRUE]
    /\ UNCHANGED <<decodeResponses, redis, pc, messages, rest, buffer, faults, restarts, record>>

\* The process crashes, or is stopped: stop() does not push what is buffered.
Restart ==
    /\ restarts < MaxRestart
    /\ restarts' = restarts + 1
    /\ lost' = lost \union UNION {Held(w) : w \in Worker}
    /\ pc' = [w \in Worker |-> "read"]
    /\ messages' = [w \in Worker |-> <<>>]
    /\ rest' = [w \in Worker |-> <<>>]
    /\ buffer' = [w \in Worker |-> <<>>]
    /\ due' = [w \in Worker |-> TRUE]
    /\ UNCHANGED <<decodeResponses, redis, faults, pushed, unanswered>>

Init ==
    /\ decodeResponses \in Decoding
    /\ produced = 0 /\ cursor = 0 /\ pending = {}
    /\ pc = [w \in Worker |-> "read"]
    /\ messages = [w \in Worker |-> <<>>]
    /\ rest = [w \in Worker |-> <<>>]
    /\ buffer = [w \in Worker |-> <<>>]
    /\ due = [w \in Worker |-> TRUE]
    /\ faults = 0 /\ restarts = 0
    /\ pushed = [n \in Metric |-> 0] /\ unanswered = {} /\ lost = {}

consume_messages(w) ==
    \/ ReadGroup(w) \/ DropBatch(w) \/ TakeBatch(w)
    \/ AddMetric(w) \/ RefuseMetric(w)
    \/ Pushed(w) \/ Acknowledge(w)

Next ==
    \/ \E w \in Worker : \/ consume_messages(w) \/ LoseRead(w)
                         \/ PushFails(w) \/ PushUnanswered(w) \/ Elapse(w)
    \/ Produce
    \/ Restart

Spec == Init /\ [][Next]_vars

\* The threads' loops go on; producers, faults and restarts owe nothing.
FairSpec == Spec /\ \A w \in Worker : WF_vars(consume_messages(w)) /\ WF_vars(Elapse(w))
-----------------------------------------------------------------------------
(* Properties *)

TypeOK ==
    /\ decodeResponses \in BOOLEAN
    /\ produced \in 0..MaxMetric /\ cursor \in 0..produced
    /\ pending \subseteq 1..cursor
    /\ pc \in [Worker -> {"read", "decode", "process", "push"}]
    /\ messages \in [Worker -> Seq(1..cursor)]
    /\ rest \in [Worker -> Seq(1..cursor)]
    /\ buffer \in [Worker -> Seq(Parsed)]
    /\ due \in [Worker -> BOOLEAN]
    /\ faults \in 0..MaxFault /\ restarts \in 0..MaxRestart
    /\ pushed \in [Metric -> Nat]
    /\ unanswered \subseteq Metric /\ lost \subseteq Metric

\* An acknowledged metric is safe in a buffer until the gateway has it; it goes
\* missing only with the process, though failed pushes and failed acknowledgements
\* come in any order with the reads (process_message_batch, _push_metrics).
AcknowledgedIsKept ==
    \A n \in Parsed : n <= cursor /\ n \notin pending =>
        pushed[n] > 0 \/ (\E w \in Worker : n \in Held(w)) \/ n \in lost

\* The gateway is sent a metric again only when an answer did not come: no worker
\* buffers what another has read, and a pushed buffer is cleared.
SentAgainUnanswered ==
    \A n \in Metric : pushed[n] > 1 => n \in unanswered

\* No metric holds up those behind it, whether it parses or not and whatever Redis
\* and the gateway answer: every metric is read, and every batch read comes to its
\* end (process_message_batch: "Still acknowledge to prevent infinite retries").
NoMetricBlocks ==
    /\ \A n \in Metric : n <= produced ~> n <= cursor
    /\ \A w \in Worker : pc[w] # "read" ~> pc[w] = "read"
=============================================================================
