------------------------------ MODULE LogWorker ------------------------------
(***************************************************************************)
(* The log worker, apps/log-worker/app.py: threads of one or more worker   *)
(* processes read the Redis stream logs:raw through the consumer group     *)
(* elk-writers, bulk-index what they read in Elasticsearch, acknowledge it *)
(* and claim what other consumers left pending for more than 60 seconds.   *)
(*                                                                         *)
(* Messages are the numbers of their stream entries.  A Redis command is   *)
(* one step of the server; the reply to it may be lost, and the command    *)
(* may fail before it reaches the server.                                  *)
(***************************************************************************)
EXTENDS Integers, FiniteSets

CONSTANTS
    Worker,        \* consumer threads, one RedisStreamsConsumer each
    Process,       \* worker processes (replicas of the container)
    Host,          \* the process a thread runs in
    MaxMsg,        \* bound: messages the receivers ever add
    BatchSize,     \* COUNT of XREADGROUP (BATCH_SIZE)
    PageSize,      \* COUNT of XPENDING (100)
    Stamped,       \* messages whose timestamp field parses
    LastDay,       \* bound: the calendar runs from day 0 to LastDay
    EventDay,      \* the day the timestamped events carry
    FastBatches,   \* TRUE: no thread keeps a batch for more than 60 seconds
    MaxFault,      \* bound: Redis commands that fail or lose their reply
    MaxDown,       \* bound: crashes and shutdowns of worker processes
    NoWorker       \* owner of an entry that is not in the PEL

ASSUME LogWorkerAssumption ==
    /\ Host \in [Worker -> Process]
    /\ NoWorker \notin Worker
    /\ MaxMsg \in Nat
    /\ BatchSize \in Nat \ {0}
    /\ PageSize \in Nat \ {0}
    /\ Stamped \subseteq 1..MaxMsg
    /\ LastDay \in Nat
    /\ EventDay \in 0..LastDay
    /\ FastBatches \in BOOLEAN
    /\ MaxFault \in Nat
    /\ MaxDown \in Nat

VARIABLES
    (* Redis: the stream and its consumer group *)
    produced,      \* entries 1..produced are in the stream
    cursor,        \* last-delivered-id of the group
    owner,         \* the PEL: the thread each pending entry was delivered to
                   \* (replicas share consumer names; nothing reads the name)
    idle,          \* pending entries last delivered more than 60 seconds ago
    (* Elasticsearch *)
    index,         \* documents, <<message, day of its daily index>>
    (* the worker threads *)
    pc,            \* where the thread is in consume_messages
    batch,         \* messages _process_message_batch works on
    claimed,       \* TRUE while that batch was claimed, not newly read
    built,         \* the day on which the batch's documents were built
    stale,         \* old_messages, as XPENDING reported them
    (* the worker processes and the world *)
    shutdown,      \* processes whose shutdown_requested is set
    today,         \* the calendar
    faults, downs, \* how much of MaxFault and MaxDown is used up
    (* history, which no action reads *)
    tried,         \* messages process_logs_batch has been through
    acked          \* messages removed from the PEL by XACK

redis == <<produced, cursor, owner, idle, acked>>
local == <<pc, batch, claimed, built, stale>>
world == <<shutdown, today, faults, downs>>
vars  == <<produced, cursor, owner, idle, index, pc, batch, claimed,
           built, stale, shutdown, today, faults, downs, tried, acked>>

Msg == 1..MaxMsg
Day == 0..LastDay
Pending == {m \in Msg : owner[m] # NoWorker}

Stage == {"read", "build", "bulk", "ack", "scan", "claim", "stopped", "down"}
-----------------------------------------------------------------------------
(* Redis *)

\* A receiver adds an entry.
XAdd ==
    /\ produced < MaxMsg
    /\ produced' = produced + 1
    /\ UNCHANGED <<cursor, owner, idle, index, local, world, tried, acked>>

\* The entries XREADGROUP ">" delivers: the next BatchSize after the cursor.
Fresh == {m \in Msg : /\ cursor < m
                      /\ m <= produced
                      /\ m <= cursor + BatchSize}

\* A mutant of Deliver: the cursor counts messages that are not there yet.
DeliverPastEnd(w) ==
    /\ cursor' = cursor + BatchSize
    /\ owner' = [m \in Msg |-> IF m \in Fresh THEN w ELSE owner[m]]
    /\ UNCHANGED <<produced, idle, acked>>

\* XREADGROUP moves the cursor and enters the entries in the caller's PEL.
Deliver(w) ==
    /\ cursor' = IF cursor + BatchSize < produced THEN cursor + BatchSize
                                                  ELSE produced
    /\ owner' = [m \in Msg |-> IF m \in Fresh THEN w ELSE owner[m]]
    /\ UNCHANGED <<produced, idle, acked>>

\* XACK removes entries from the PEL, whoever owns them.
XAck(S) ==
    /\ owner' = [m \in Msg |-> IF m \in S THEN NoWorker ELSE owner[m]]
    /\ idle' = idle \ S
    /\ acked' = acked \union (S \intersect Pending)
    /\ UNCHANGED <<produced, cursor>>

\* A mutant of Claimable: XCLAIM without min_idle_time.
ClaimableAny(S) == S \intersect Pending

\* XCLAIM with min_idle_time looks at the PEL again: it passes over entries
\* acknowledged or delivered anew since XPENDING.
Claimable(S) == S \intersect Pending \intersect idle

XClaim(w, S) ==
    /\ owner' = [m \in Msg |-> IF m \in Claimable(S) THEN w ELSE owner[m]]
    /\ idle' = idle \ Claimable(S)
    /\ UNCHANGED <<produced, cursor, acked>>

\* The first page of the PEL, lowest entries first.
PendingPage ==
    {m \in Pending : Cardinality({k \in Pending : k < m}) < PageSize}

\* More than 60 seconds pass since the last delivery of an entry.
Age(m) ==
    /\ m \in Pending \ idle
    /\ FastBatches => \A w \in Worker : m \notin batch[w]
    /\ idle' = idle \union {m}
    /\ UNCHANGED <<produced, cursor, owner, index, local, world, tried, acked>>
-----------------------------------------------------------------------------
(* consume_messages *)

Fault ==
    /\ faults < MaxFault
    /\ faults' = faults + 1
    /\ UNCHANGED <<shutdown, today, downs>>

Goto(w, stage) == pc' = [pc EXCEPT ![w] = stage]

\* A mutant of AtLoop: `while True`.
AtLoopForever(w) == pc[w] = "read"

\* The loop's condition, looked at between iterations only.
AtLoop(w) == pc[w] = "read" /\ Host[w] \notin shutdown

\* A mutant of StartBatch: XACK before the batch is processed.
StartBatchAckFirst(w, S, isClaimed) ==
    /\ Goto(w, "ack")
    /\ batch' = [batch EXCEPT ![w] = S]
    /\ claimed' = [claimed EXCEPT ![w] = isClaimed]
    /\ UNCHANGED built

\* _process_message_batch is called with the messages S.
StartBatch(w, S, isClaimed) ==
    /\ Goto(w, "build")
    /\ batch' = [batch EXCEPT ![w] = S]
    /\ claimed' = [claimed EXCEPT ![w] = isClaimed]
    /\ UNCHANGED built

\* After the batch, or without one: newly read messages are followed by a look
\* at the pending ones, claimed messages end the iteration.
EndBatch(w) ==
    /\ Goto(w, IF claimed[w] THEN "read" ELSE "scan")
    /\ batch' = [batch EXCEPT ![w] = {}]
    /\ claimed' = [claimed EXCEPT ![w] = FALSE]
    /\ UNCHANGED <<built, stale>>

\* A mutant of ReadNew: xreadgroup(noack=True), which leaves the PEL alone.
ReadNewNoAck(w) ==
    /\ AtLoop(w)
    /\ Fresh # {}
    /\ cursor' = IF cursor + BatchSize < produced THEN cursor + BatchSize
                                                  ELSE produced
    /\ StartBatch(w, Fresh, FALSE)
    /\ UNCHANGED <<produced, owner, idle, acked, index, stale, world, tried>>

ReadNew(w) ==
    /\ AtLoop(w)
    /\ Fresh # {}
    /\ Deliver(w)
    /\ StartBatch(w, Fresh, FALSE)
    /\ UNCHANGED <<index, stale, world, tried>>

\* A mutant of ReadNothing: `if not messages: continue`.
ReadNothingContinues(w) ==
    /\ AtLoop(w)
    /\ Fresh = {}
    /\ UNCHANGED <<redis, index, local, world, tried>>

ReadNothing(w) ==
    /\ AtLoop(w)
    /\ Fresh = {}
    /\ Goto(w, "scan")
    /\ UNCHANGED <<redis, index, batch, claimed, built, stale, world, tried>>

\* XREADGROUP raises: the loop logs it, sleeps and starts over.  The entries
\* were delivered to this consumer if only the reply was lost.
ReadFails(w) ==
    /\ AtLoop(w)
    /\ Fault
    /\ Deliver(w) \/ UNCHANGED redis
    /\ UNCHANGED <<index, local, tried>>

\* _convert_to_ecs_document, for the whole batch: the day of the index comes
\* from the event, or from the clock when its timestamp does not parse.
BuildDocuments(w) ==
    /\ pc[w] = "build"
    /\ Goto(w, "bulk")
    /\ built' = [built EXCEPT ![w] = today]
    /\ UNCHANGED <<redis, index, batch, claimed, stale, world, tried>>

\* A mutant of Document: the index is always today's.
DocumentToday(m, day) == <<m, day>>

Document(m, day) == <<m, IF m \in Stamped THEN EventDay ELSE day>>

\* The bulk request indexes any part of the batch: a message that did not convert
\* is not in the request, and when Elasticsearch refuses one helpers.bulk raises
\* and _bulk_insert_elasticsearch returns 0.
BulkInsert(w) ==
    /\ pc[w] = "bulk"
    /\ Goto(w, "ack")
    /\ \E ok \in SUBSET batch[w] :
         index' = index \union {Document(m, built[w]) : m \in ok}
    /\ tried' = tried \union batch[w]
    /\ built' = [built EXCEPT ![w] = 0]
    /\ UNCHANGED <<redis, batch, claimed, stale, world>>

\* The whole batch is acknowledged, whatever process_logs_batch returned.
Acknowledge(w) ==
    /\ pc[w] = "ack"
    /\ XAck(batch[w])
    /\ EndBatch(w)
    /\ UNCHANGED <<index, world, tried>>

AcknowledgeFails(w) ==
    /\ pc[w] = "ack"
    /\ Fault
    /\ XAck(batch[w]) \/ UNCHANGED redis
    /\ EndBatch(w)
    /\ UNCHANGED <<index, tried>>

\* XPENDING: note what has been idle for too long.
ScanPending(w) ==
    /\ pc[w] = "scan"
    /\ stale' = [stale EXCEPT ![w] = PendingPage \intersect idle]
    /\ Goto(w, IF PendingPage \intersect idle = {} THEN "read" ELSE "claim")
    /\ UNCHANGED <<redis, index, batch, claimed, built, world, tried>>

ScanFails(w) ==
    /\ pc[w] = "scan"
    /\ Fault
    /\ Goto(w, "read")
    /\ UNCHANGED <<redis, index, batch, claimed, built, stale, tried>>

ClaimPending(w) ==
    /\ pc[w] = "claim"
    /\ XClaim(w, stale[w])
    /\ IF Claimable(stale[w]) = {}
       THEN Goto(w, "read") /\ UNCHANGED <<batch, claimed, built>>
       ELSE StartBatch(w, Claimable(stale[w]), TRUE)
    /\ stale' = [stale EXCEPT ![w] = {}]
    /\ UNCHANGED <<index, world, tried>>

ClaimFails(w) ==
    /\ pc[w] = "claim"
    /\ Fault
    /\ XClaim(w, stale[w]) \/ UNCHANGED redis
    /\ stale' = [stale EXCEPT ![w] = {}]
    /\ Goto(w, "read")
    /\ UNCHANGED <<index, batch, claimed, built, tried>>

\* The loop ends.
Leave(w) ==
    /\ pc[w] = "read"
    /\ Host[w] \in shutdown
    /\ Goto(w, "stopped")
    /\ UNCHANGED <<redis, index, batch, claimed, built, stale, world, tried>>
-----------------------------------------------------------------------------
(* Processes *)

ThreadsOf(p) == {w \in Worker : Host[w] = p}

GoDown == downs < MaxDown /\ downs' = downs + 1

\* SIGTERM or SIGINT.
SignalHandler(p) ==
    /\ p \notin shutdown
    /\ \E w \in ThreadsOf(p) : pc[w] # "down"
    /\ GoDown
    /\ shutdown' = shutdown \union {p}
    /\ UNCHANGED <<redis, index, local, today, faults, tried>>

\* The process dies with all its threads; what they held stays in the PEL.
Crash(p) ==
    /\ \E w \in ThreadsOf(p) : pc[w] # "down"
    /\ GoDown
    /\ pc' = [w \in Worker |-> IF Host[w] = p THEN "down" ELSE pc[w]]
    /\ batch' = [w \in Worker |-> IF Host[w] = p THEN {} ELSE batch[w]]
    /\ stale' = [w \in Worker |-> IF Host[w] = p THEN {} ELSE stale[w]]
    /\ claimed' = [w \in Worker |-> claimed[w] /\ Host[w] # p]
    /\ built' = [w \in Worker |-> IF Host[w] = p THEN 0 ELSE built[w]]
    /\ UNCHANGED <<redis, index, shutdown, today, faults, tried>>

\* A process that crashed, or ended after its threads left their loops, is
\* started again: the group exists (BUSYGROUP) and keeps its cursor and PEL.
Start(p) ==
    /\ \A w \in ThreadsOf(p) : pc[w] \in {"down", "stopped"}
    /\ pc' = [w \in Worker |-> IF Host[w] = p THEN "read" ELSE pc[w]]
    /\ shutdown' = shutdown \ {p}
    /\ UNCHANGED <<redis, index, batch, claimed, built, stale, today, faults, downs, tried>>

Midnight ==
    /\ today < LastDay
    /\ today' = today + 1
    /\ UNCHANGED <<redis, index, local, shutdown, faults, downs, tried>>
-----------------------------------------------------------------------------
Init ==
    /\ produced = 0
    /\ cursor = 0
    /\ owner = [m \in Msg |-> NoWorker]
    /\ idle = {}
    /\ index = {}
    /\ pc = [w \in Worker |-> "read"]
    /\ batch = [w \in Worker |-> {}]
    /\ claimed = [w \in Worker |-> FALSE]
    /\ built = [w \in Worker |-> 0]
    /\ stale = [w \in Worker |-> {}]
    /\ shutdown = {}
    /\ today = 0
    /\ faults = 0
    /\ downs = 0
    /\ tried = {}
    /\ acked = {}

\* What a thread does while Redis answers.
Work(w) ==
    \/ ReadNew(w) \/ ReadNothing(w)
    \/ BuildDocuments(w) \/ BulkInsert(w) \/ Acknowledge(w)
    \/ ScanPending(w) \/ ClaimPending(w)
    \/ Leave(w)

Failure(w) ==
    ReadFails(w) \/ AcknowledgeFails(w) \/ ScanFails(w) \/ ClaimFails(w)

Next ==
    \/ XAdd
    \/ \E m \in Msg : Age(m)
    \/ \E w \in Worker : Work(w) \/ Failure(w)
    \/ \E p \in Process : SignalHandler(p) \/ Crash(p) \/ Start(p)
    \/ Midnight

Spec == Init /\ [][Next]_vars

\* The threads are scheduled, time passes, and the container runtime restarts a
\* process that ended.  Nothing obliges Redis to fail, or the receivers to add.
Fairness ==
    /\ \A w \in Worker : WF_vars(Work(w))
    /\ \A m \in Msg : WF_vars(Age(m))
    /\ \A p \in Process : WF_vars(Start(p))

FairSpec == Spec /\ Fairness
-----------------------------------------------------------------------------
(* Properties *)

TypeOK ==
    /\ produced \in 0..MaxMsg
    /\ cursor \in 0..MaxMsg
    /\ owner \in [Msg -> Worker \union {NoWorker}]
    /\ idle \subseteq Msg
    /\ index \subseteq Msg \X Day
    /\ pc \in [Worker -> Stage]
    /\ batch \in [Worker -> SUBSET Msg]
    /\ claimed \in [Worker -> BOOLEAN]
    /\ built \in [Worker -> Day]
    /\ stale \in [Worker -> SUBSET Msg]
    /\ shutdown \subseteq Process
    /\ today \in Day
    /\ faults \in 0..MaxFault
    /\ downs \in 0..MaxDown
    /\ tried \subseteq Msg
    /\ acked \subseteq Msg

\* What the group handed out and no process_logs_batch has been through is in the
\* PEL, whichever step its thread is at, whether the reply reached it, and though
\* others claim and acknowledge what it holds: whoever dies, a later scan finds it
\* (the order of XREADGROUP, the bulk request and XACK in consume_messages and
\* _process_message_batch).
UntriedIsPending ==
    \A m \in Msg : m <= cursor /\ m \notin tried => m \in Pending

\* XACK comes after process_logs_batch: whatever leaves the PEL has been through
\* it, in the thread that acknowledges it or in one that held it before.
AckedWasTried == acked \subseteq tried

\* Indexing is idempotent where the event says which day it belongs to: however
\* often such a message is redelivered, retried or processed by two threads at
\* once, across midnight too, Elasticsearch holds one document of it.
StampedOnce ==
    \A m \in Stamped : \A d, e \in Day :
        <<m, d>> \in index /\ <<m, e>> \in index => d = e

\* Threads that finish their batches within 60 seconds never work on the same
\* message at once, although each claims from a list that was read before the
\* other's claims and acknowledgements.
SingleHolder ==
    \A v, w \in Worker : v # w => batch[v] \intersect batch[w] = {}

\* A pending entry changes hands only after it was idle for 60 seconds, and the
\* change restarts its clock: the min_idle_time of XCLAIM.
RedeliverOnlyIdle ==
    [][\A m \in Msg :
         /\ owner[m] \in Worker
         /\ owner'[m] \in Worker
         /\ owner'[m] # owner[m]
         => m \in idle /\ m \notin idle']_vars

\* The group implements the at-least-once queue.
Queue == INSTANCE AtLeastOnceQueue
           WITH added <- 1..produced, open <- Pending, closed <- acked

QueueSpec == Queue!Spec

\* Every message the receivers add is acknowledged in the end: a batch lost in
\* a crash, a lost reply or a failed XACK is found by somebody's XPENDING.
EventuallyAcked ==
    \A m \in Msg : m <= produced ~> m \in acked

\* A process that got SIGTERM comes to rest: its threads finish the batches
\* they hold and leave their loops, unless the process dies first.
ShutdownDrains ==
    \A p \in Process :
        p \in shutdown ~> \A w \in ThreadsOf(p) : /\ pc[w] \in {"stopped", "down"}
                                                  /\ batch[w] = {}

(* Stated by the repository, and not true of the code *)

\* "Don't acknowledge on error - messages will be retried" (app.py:483): a
\* message leaves the PEL only once its document is in an index.
AckedIsIndexed ==
    \A m \in acked : \E d \in Day : <<m, d>> \in index
=============================================================================
