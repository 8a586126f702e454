--------------------------- MODULE LogWorkerProofs ---------------------------
(***************************************************************************)
(* Proofs about LogWorker, for every number of threads, processes and      *)
(* messages, every batch and page size and every number of failures.       *)
(***************************************************************************)
EXTENDS LogWorker, TLAPS

USE DEF redis, local, world

(***************************************************************************)
(* Type correctness.  The Redis commands first: XREADGROUP, XACK and       *)
(* XCLAIM each keep the types of the stream and its group.                 *)
(***************************************************************************)

RedisType ==
    /\ produced \in 0..MaxMsg
    /\ cursor \in 0..MaxMsg
    /\ owner \in [Msg -> Worker \union {NoWorker}]
    /\ idle \subseteq Msg
    /\ acked \subseteq Msg

\* XREADGROUP, as consume_messages calls it, keeps the types of the group.
LEMMA DeliverType ==
    ASSUME RedisType, NEW w \in Worker, Deliver(w) \/ UNCHANGED redis
    PROVE  RedisType'
<1>1. CASE Deliver(w)
  BY <1>1, LogWorkerAssumption DEF RedisType, Deliver, Msg
<1>2. CASE UNCHANGED redis
  BY <1>2 DEF RedisType
<1> QED
  BY <1>1, <1>2

\* XACK of any entries keeps the types of the group.
LEMMA XAckType ==
    ASSUME RedisType, NEW S \in SUBSET Msg, XAck(S) \/ UNCHANGED redis
    PROVE  RedisType'
<1>1. CASE XAck(S)
  BY <1>1 DEF RedisType, XAck, Pending, Msg
<1>2. CASE UNCHANGED redis
  BY <1>2 DEF RedisType
<1> QED
  BY <1>1, <1>2

\* XCLAIM of any entries keeps the types of the group.
LEMMA XClaimType ==
    ASSUME RedisType, NEW w \in Worker, NEW S \in SUBSET Msg,
           XClaim(w, S) \/ UNCHANGED redis
    PROVE  RedisType'
<1>1. CASE XClaim(w, S)
  BY <1>1 DEF RedisType, XClaim, Msg
<1>2. CASE UNCHANGED redis
  BY <1>2 DEF RedisType
<1> QED
  BY <1>1, <1>2

\* Each step keeps the types.
LEMMA TypeStep == TypeOK /\ [Next]_vars => TypeOK'
<1> USE LogWorkerAssumption DEF Msg, Day, Pending, Stage
<1> SUFFICES ASSUME TypeOK, [Next]_vars PROVE TypeOK'
  OBVIOUS
<1> USE DEF TypeOK
<1>1. CASE XAdd
  BY <1>1 DEF XAdd
<1>2. ASSUME NEW m \in Msg, Age(m) PROVE TypeOK'
  BY <1>2 DEF Age
<1>3. ASSUME NEW w \in Worker, ReadNew(w) PROVE TypeOK'
  BY <1>3 DEF ReadNew, AtLoop, Deliver, StartBatch, Fresh, Goto
<1>4. ASSUME NEW w \in Worker, ReadNothing(w) PROVE TypeOK'
  BY <1>4 DEF ReadNothing, AtLoop, Goto
<1>5. ASSUME NEW w \in Worker, ReadFails(w) PROVE TypeOK'
  <2>1. RedisType'
    BY <1>5, DeliverType DEF RedisType, ReadFails
  <2> QED
    BY <1>5, <2>1 DEF RedisType, ReadFails, Fault
<1>6. ASSUME NEW w \in Worker, BuildDocuments(w) PROVE TypeOK'
  BY <1>6 DEF BuildDocuments, Goto
<1>7. ASSUME NEW w \in Worker, BulkInsert(w) PROVE TypeOK'
  <2>1. \A m \in Msg, d \in Day : Document(m, d) \in Msg \X Day
    BY DEF Document
  <2>2. batch[w] \in SUBSET Msg /\ built[w] \in Day /\ 0 \in Day
    OBVIOUS
  <2>3. PICK ok \in SUBSET batch[w] :
          index' = index \union {Document(m, built[w]) : m \in ok}
    BY <1>7 DEF BulkInsert
  <2>4. index' \subseteq Msg \X Day
    <3> SUFFICES ASSUME NEW x \in index' PROVE x \in Msg \X Day
      OBVIOUS
    <3>1. CASE x \in index
      BY <3>1
    <3>2. CASE x \in {Document(m, built[w]) : m \in ok}
      <4>1. PICK m \in ok : x = Document(m, built[w])
        BY <3>2
      <4>2. m \in Msg
        BY <2>2
      <4> QED
        BY <2>1, <2>2, <4>1, <4>2
    <3> QED
      BY <2>3, <3>1, <3>2
  <2>5. /\ pc' = [pc EXCEPT ![w] = "ack"]
        /\ built' = [built EXCEPT ![w] = 0]
        /\ tried' = tried \union batch[w]
        /\ UNCHANGED <<redis, batch, claimed, stale, world>>
    BY <1>7 DEF BulkInsert, Goto
  <2> QED
    BY <2>2, <2>4, <2>5
<1>8. ASSUME NEW w \in Worker, Acknowledge(w) PROVE TypeOK'
  BY <1>8 DEF Acknowledge, XAck, EndBatch, Goto
<1>9. ASSUME NEW w \in Worker, AcknowledgeFails(w) PROVE TypeOK'
  <2>1. RedisType'
    BY <1>9, XAckType DEF RedisType, AcknowledgeFails
  <2>2. /\ pc' \in [Worker -> Stage]
        /\ batch' \in [Worker -> SUBSET Msg]
        /\ claimed' \in [Worker -> BOOLEAN]
        /\ faults' \in 0..MaxFault
    BY <1>9 DEF AcknowledgeFails, EndBatch, Goto, Fault
  <2> QED
    BY <1>9, <2>1, <2>2 DEF RedisType, AcknowledgeFails, EndBatch, Fault
<1>10. ASSUME NEW w \in Worker, ScanPending(w) PROVE TypeOK'
  BY <1>10 DEF ScanPending, PendingPage, Goto
<1>11. ASSUME NEW w \in Worker, ScanFails(w) PROVE TypeOK'
  BY <1>11 DEF ScanFails, Fault, Goto
<1>12. ASSUME NEW w \in Worker, ClaimPending(w) PROVE TypeOK'
  <2>1. RedisType'
    BY <1>12, XClaimType DEF RedisType, ClaimPending
  <2>2. Claimable(stale[w]) \in SUBSET Msg
    BY DEF Claimable
  <2>3. /\ pc' \in [Worker -> Stage]
        /\ batch' \in [Worker -> SUBSET Msg]
        /\ claimed' \in [Worker -> BOOLEAN]
        /\ UNCHANGED built
    <3> DEFINE S == Claimable(stale[w])
    <3>1. S \in SUBSET Msg
      BY <2>2
    <3>3. StartBatch(w, S, TRUE) =>
            /\ pc' = [pc EXCEPT ![w] = "build"]
            /\ batch' = [batch EXCEPT ![w] = S]
            /\ claimed' = [claimed EXCEPT ![w] = TRUE]
            /\ UNCHANGED built
      BY DEF StartBatch, Goto
    <3> HIDE DEF S
    <3>2. IF S = {} THEN Goto(w, "read") /\ UNCHANGED <<batch, claimed, built>>
                    ELSE StartBatch(w, S, TRUE)
      BY <1>12 DEF ClaimPending, S
    <3> QED
      BY <3>1, <3>2, <3>3 DEF Goto
  <2> QED
    BY <1>12, <2>1, <2>3 DEF RedisType, ClaimPending
<1>13. ASSUME NEW w \in Worker, ClaimFails(w) PROVE TypeOK'
  <2>1. RedisType'
    BY <1>13, XClaimType DEF RedisType, ClaimFails
  <2> QED
    BY <1>13, <2>1 DEF RedisType, ClaimFails, Fault, Goto
<1>14. ASSUME NEW w \in Worker, Leave(w) PROVE TypeOK'
  BY <1>14 DEF Leave, Goto
<1>15. ASSUME NEW p \in Process, SignalHandler(p) PROVE TypeOK'
  BY <1>15 DEF SignalHandler, GoDown
<1>16. ASSUME NEW p \in Process, Crash(p) PROVE TypeOK'
  BY <1>16 DEF Crash, GoDown
<1>17. ASSUME NEW p \in Process, Start(p) PROVE TypeOK'
  BY <1>17 DEF Start
<1>18. CASE Midnight
  BY <1>18 DEF Midnight
<1>19. CASE UNCHANGED vars
  BY <1>19 DEF vars
<1> QED
  BY <1>1, <1>2, <1>3, <1>4, <1>5, <1>6, <1>7, <1>8, <1>9, <1>10, <1>11,
     <1>12, <1>13, <1>14, <1>15, <1>16, <1>17, <1>18, <1>19
     DEF Next, Work, Failure

\* Every variable of the log worker keeps its type, whatever fails and
\* whichever thread of consume_messages runs next.
THEOREM TypeCorrect == Spec => []TypeOK
<1>1. Init => TypeOK
  BY LogWorkerAssumption DEF Init, TypeOK, Msg, Day, Stage
<1> QED
  BY <1>1, TypeStep, PTL DEF Spec

(***************************************************************************)
(* The consumer group.  GroupInv ties the PEL, the cursor and the          *)
(* acknowledged messages together; each Redis command keeps it and is      *)
(* described by what it does to Pending, acked and idle.                   *)
(***************************************************************************)

\* What Redis alone sees to: an entry it handed out is pending or acknowledged.
NothingSkipped ==
    \A m \in Msg : /\ m <= cursor <=> m \in Pending \union acked
                   /\ ~(m \in Pending /\ m \in acked)

GroupInv ==
    /\ cursor <= produced
    /\ idle \subseteq Pending
    /\ NothingSkipped

\* XREADGROUP: the fresh entries become pending, the cursor moves past them.
LEMMA DeliverEffect ==
    ASSUME RedisType, GroupInv, NEW w \in Worker, Deliver(w)
    PROVE  /\ GroupInv'
           /\ cursor <= cursor'
           /\ Fresh = (cursor + 1)..cursor'
           /\ Pending' = Pending \union Fresh
           /\ UNCHANGED <<produced, idle, acked>>
<1> USE LogWorkerAssumption DEF RedisType, GroupInv
<1>1. /\ cursor' \in 0..MaxMsg
      /\ cursor <= cursor'
      /\ cursor' <= produced
      /\ UNCHANGED <<produced, idle, acked>>
  BY DEF Deliver
<1>2. Fresh = (cursor + 1)..cursor'
  BY DEF Deliver, Fresh, Msg
<1>3. Pending' = Pending \union Fresh
  BY DEF Deliver, Pending, Fresh
<1>4. NothingSkipped'
  <2> SUFFICES ASSUME NEW m \in Msg
               PROVE  /\ m <= cursor' <=> m \in Pending' \union acked'
                      /\ ~(m \in Pending' /\ m \in acked')
    BY DEF NothingSkipped, Msg
  <2>1. /\ m <= cursor <=> m \in Pending \union acked
        /\ ~(m \in Pending /\ m \in acked)
    BY DEF NothingSkipped
  <2> QED
    BY <1>1, <1>2, <1>3, <2>1 DEF Msg
<1> QED
  BY <1>1, <1>2, <1>3, <1>4

\* XACK: pending entries among S become acknowledged.
LEMMA XAckEffect ==
    ASSUME RedisType, GroupInv, NEW S \in SUBSET Msg, XAck(S)
    PROVE  /\ GroupInv'
           /\ Pending' = Pending \ S
           /\ acked' = acked \union (S \intersect Pending)
           /\ idle' = idle \ S
           /\ UNCHANGED <<produced, cursor>>
<1>1. /\ Pending' = Pending \ S
      /\ acked' = acked \union (S \intersect Pending)
      /\ idle' = idle \ S
      /\ UNCHANGED <<produced, cursor>>
  BY DEF XAck, Pending, Msg
<1>2. NothingSkipped'
  BY <1>1 DEF GroupInv, NothingSkipped, Msg
<1> QED
  BY <1>1, <1>2 DEF GroupInv

\* XCLAIM: the PEL keeps its entries; the claimed ones start a new minute.
LEMMA XClaimEffect ==
    ASSUME RedisType, GroupInv, NEW w \in Worker, NEW S \in SUBSET Msg, XClaim(w, S)
    PROVE  /\ GroupInv'
           /\ Pending' = Pending
           /\ idle' = idle \ Claimable(S)
           /\ UNCHANGED <<produced, cursor, acked>>
<1>1. /\ Pending' = Pending
      /\ idle' = idle \ Claimable(S)
      /\ UNCHANGED <<produced, cursor, acked>>
  BY LogWorkerAssumption DEF XClaim, Pending, Claimable, Msg
<1>2. NothingSkipped'
  BY <1>1 DEF GroupInv, NothingSkipped, Msg
<1> QED
  BY <1>1, <1>2 DEF GroupInv

(***************************************************************************)
(* The safety invariant.  AckedWasTried needs to know that a thread about  *)
(* to acknowledge holds only messages that were in a bulk request, and     *)
(* StampedOnce that a document of a stamped message lies on EventDay.      *)
(***************************************************************************)

BatchInv ==
    /\ \A w \in Worker : batch[w] \subseteq 1..cursor
    /\ \A w \in Worker : pc[w] = "ack" => batch[w] \subseteq tried
    /\ tried \subseteq 1..cursor
    /\ AckedWasTried

IndexInv == \A m \in Stamped, d \in Day : <<m, d>> \in index => d = EventDay

SafetyInv == GroupInv /\ BatchInv /\ IndexInv

\* The safety invariant holds at first.
LEMMA SafetyInit == Init => SafetyInv
<1> SUFFICES ASSUME Init PROVE SafetyInv
  OBVIOUS
<1>1. Pending = {}
  BY DEF Init, Pending
<1>2. GroupInv
  BY <1>1 DEF Init, GroupInv, NothingSkipped, Msg
<1>3. BatchInv
  BY DEF Init, BatchInv, AckedWasTried
<1>4. IndexInv
  BY DEF Init, IndexInv
<1> QED
  BY <1>2, <1>3, <1>4 DEF SafetyInv

\* A thread touches Redis by these three commands only.
LEMMA WorkOnRedis ==
    ASSUME TypeOK, NEW w \in Worker, Work(w) \/ Failure(w)
    PROVE  \/ UNCHANGED redis
           \/ Deliver(w)
           \/ \E S \in SUBSET Msg : XAck(S) \/ XClaim(w, S)
<1>1. batch[w] \in SUBSET Msg /\ stale[w] \in SUBSET Msg
  BY DEF TypeOK
<1> QED
  BY <1>1 DEF Work, Failure, ReadNew, ReadNothing, BuildDocuments, BulkInsert,
              Acknowledge, ScanPending, ClaimPending, Leave, ReadFails,
              AcknowledgeFails, ScanFails, ClaimFails

\* No step takes back what the group has recorded.
LEMMA GroupStep ==
    ASSUME TypeOK, GroupInv, [Next]_vars
    PROVE  /\ GroupInv'
           /\ cursor <= cursor'
<1> USE DEF TypeOK
<1>0. RedisType
  BY DEF RedisType
<1>1. CASE XAdd
  <2>1. /\ produced' = produced + 1
        /\ UNCHANGED <<cursor, idle, acked, Pending>>
    BY <1>1 DEF XAdd, Pending
  <2> QED
    BY <2>1 DEF GroupInv, NothingSkipped
<1>2. ASSUME NEW m \in Msg, Age(m)
      PROVE  GroupInv' /\ cursor <= cursor'
  <2>1. /\ idle' = idle \union {m}
        /\ m \in Pending
        /\ UNCHANGED <<produced, cursor, acked, Pending>>
    BY <1>2 DEF Age, Pending
  <2> QED
    BY <2>1 DEF GroupInv, NothingSkipped
<1>3. CASE UNCHANGED redis
  BY <1>3 DEF GroupInv, NothingSkipped, Pending
<1>4. ASSUME NEW w \in Worker, Deliver(w)
      PROVE  GroupInv' /\ cursor <= cursor'
  BY <1>0, <1>4, DeliverEffect
<1>5. ASSUME NEW S \in SUBSET Msg, XAck(S)
      PROVE  GroupInv' /\ cursor <= cursor'
  BY <1>0, <1>5, XAckEffect
<1>6. ASSUME NEW w \in Worker, NEW S \in SUBSET Msg, XClaim(w, S)
      PROVE  GroupInv' /\ cursor <= cursor'
  BY <1>0, <1>6, XClaimEffect
<1>7. ASSUME NEW w \in Worker, Work(w) \/ Failure(w)
      PROVE  \/ UNCHANGED redis
             \/ Deliver(w)
             \/ \E S \in SUBSET Msg : XAck(S) \/ XClaim(w, S)
  BY <1>7, WorkOnRedis
<1>8. ASSUME NEW p \in Process, SignalHandler(p) \/ Crash(p) \/ Start(p)
      PROVE  UNCHANGED redis
  BY <1>8 DEF SignalHandler, Crash, Start
<1>9. Midnight \/ UNCHANGED vars => UNCHANGED redis
  BY DEF Midnight, vars
<1> QED
  BY <1>1, <1>2, <1>3, <1>4, <1>5, <1>6, <1>7, <1>8, <1>9 DEF Next

\* The batches in the threads' hands stay within what was delivered, and reach
\* XACK only by way of the bulk request.
LEMMA BatchStep ==
    ASSUME TypeOK, GroupInv, BatchInv, [Next]_vars
    PROVE  BatchInv'
<1> USE DEF TypeOK
<1>0. RedisType
  BY DEF RedisType
<1>1. cursor \in Nat /\ cursor' \in Nat /\ cursor <= cursor'
  <2>1. cursor <= cursor' /\ GroupInv'
    BY GroupStep
  <2>2. TypeOK'
    BY TypeStep
  <2> QED
    BY <2>1, <2>2, LogWorkerAssumption
<1>2. 1..cursor \subseteq 1..cursor'
  BY <1>1
<1>3. ASSUME NEW w \in Worker, NEW S \in SUBSET (1..cursor'),
             batch' = [batch EXCEPT ![w] = S],
             pc' \in [Worker -> Stage],
             \A v \in Worker : v # w => pc'[v] = pc[v],
             pc'[w] # "ack",
             UNCHANGED tried,
             acked' \subseteq tried
      PROVE  BatchInv'
  BY <1>2, <1>3 DEF BatchInv, AckedWasTried
<1>4. ASSUME UNCHANGED <<batch, tried, acked>>,
             \A v \in Worker : pc'[v] = "ack" => pc[v] = "ack"
      PROVE  BatchInv'
  BY <1>2, <1>4 DEF BatchInv, AckedWasTried
<1>5. CASE XAdd
  BY <1>4, <1>5 DEF XAdd
<1>6. ASSUME NEW m \in Msg, Age(m) PROVE BatchInv'
  BY <1>4, <1>6 DEF Age
<1>7. ASSUME NEW w \in Worker, ReadNew(w) PROVE BatchInv'
  <2>1. Fresh \subseteq 1..cursor' /\ UNCHANGED acked
    BY <1>0, <1>1, <1>7, DeliverEffect DEF ReadNew
  <2> QED
    BY <1>3, <1>7, <2>1 DEF ReadNew, StartBatch, Goto, Stage, BatchInv, AckedWasTried
<1>8. ASSUME NEW w \in Worker, ReadNothing(w) PROVE BatchInv'
  BY <1>4, <1>8 DEF ReadNothing, Goto
<1>9. ASSUME NEW w \in Worker, ReadFails(w) PROVE BatchInv'
  BY <1>4, <1>9 DEF ReadFails, Deliver
<1>10. ASSUME NEW w \in Worker, BuildDocuments(w) PROVE BatchInv'
  BY <1>4, <1>10 DEF BuildDocuments, Goto
<1>11. ASSUME NEW w \in Worker, BulkInsert(w) PROVE BatchInv'
  <2>1. /\ pc' = [pc EXCEPT ![w] = "ack"]
        /\ tried' = tried \union batch[w]
        /\ UNCHANGED <<cursor, batch, acked>>
    BY <1>11 DEF BulkInsert, Goto
  <2> QED
    BY <2>1 DEF BatchInv, AckedWasTried
<1>12. ASSUME NEW w \in Worker, Acknowledge(w) \/ AcknowledgeFails(w)
       PROVE  BatchInv'
  <2>1. /\ batch' = [batch EXCEPT ![w] = {}]
        /\ pc' = [pc EXCEPT ![w] = IF claimed[w] THEN "read" ELSE "scan"]
        /\ pc[w] = "ack"
        /\ UNCHANGED tried
    BY <1>12 DEF Acknowledge, AcknowledgeFails, EndBatch, Goto
  <2>2. XAck(batch[w]) \/ UNCHANGED redis
    BY <1>12 DEF Acknowledge, AcknowledgeFails
  <2>3. acked' \subseteq acked \union batch[w]
    BY <2>2 DEF XAck
  <2> QED
    BY <1>3, <2>1, <2>3 DEF BatchInv, AckedWasTried, Stage
<1>13. ASSUME NEW w \in Worker, ScanPending(w) \/ ScanFails(w) \/ Leave(w)
       PROVE  BatchInv'
  BY <1>4, <1>13 DEF ScanPending, ScanFails, Leave, Goto
<1>14. ASSUME NEW w \in Worker, ClaimPending(w) PROVE BatchInv'
  <2> DEFINE S == Claimable(stale[w])
  <2>1. S \subseteq 1..cursor
    BY <1>1 DEF Claimable, GroupInv, NothingSkipped, Pending, Msg
  <2>2. UNCHANGED <<tried, acked>>
    BY <1>14 DEF ClaimPending, XClaim
  <2>3. CASE S = {}
    BY <1>4, <1>14, <2>2, <2>3 DEF ClaimPending, Goto
  <2>4. CASE S # {}
    <3>1. StartBatch(w, S, TRUE)
      BY <1>14, <2>4 DEF ClaimPending
    <3> HIDE DEF S
    <3> QED
      BY <1>2, <1>3, <2>1, <2>2, <3>1 DEF StartBatch, Goto, Stage, BatchInv, AckedWasTried
  <2> QED
    BY <2>3, <2>4
<1>15. ASSUME NEW w \in Worker, ClaimFails(w) PROVE BatchInv'
  BY <1>4, <1>15 DEF ClaimFails, XClaim, Goto
<1>16. ASSUME NEW p \in Process, SignalHandler(p) PROVE BatchInv'
  BY <1>4, <1>16 DEF SignalHandler
<1>17. ASSUME NEW p \in Process, Crash(p) PROVE BatchInv'
  BY <1>17 DEF Crash, BatchInv, AckedWasTried
<1>18. ASSUME NEW p \in Process, Start(p) PROVE BatchInv'
  BY <1>4, <1>18 DEF Start
<1>19. Midnight \/ UNCHANGED vars => BatchInv'
  BY <1>4 DEF Midnight, vars
<1> QED
  BY <1>5, <1>6, <1>7, <1>8, <1>9, <1>10, <1>11, <1>12, <1>13, <1>14, <1>15,
     <1>16, <1>17, <1>18, <1>19 DEF Next, Work, Failure

\* A bulk request files a stamped message under EventDay.
LEMMA IndexStep ==
    ASSUME TypeOK, IndexInv, [Next]_vars
    PROVE  IndexInv'
<1>1. ASSUME NEW w \in Worker, BulkInsert(w) PROVE IndexInv'
  <2>1. PICK ok \in SUBSET batch[w] :
          index' = index \union {Document(m, built[w]) : m \in ok}
    BY <1>1 DEF BulkInsert
  <2>2. ASSUME NEW m \in Stamped, NEW d \in Day, NEW k \in ok,
               <<m, d>> = Document(k, built[w])
        PROVE  d = EventDay
    BY <2>2 DEF Document
  <2> QED
    BY <2>1, <2>2 DEF IndexInv
<1>2. CASE UNCHANGED index
  BY <1>2 DEF IndexInv
<1>3. [Next]_vars => UNCHANGED index \/ \E w \in Worker : BulkInsert(w)
  BY DEF Next, Work, Failure, vars, XAdd, Age, ReadNew, ReadNothing, ReadFails,
         BuildDocuments, Acknowledge, AcknowledgeFails, ScanPending, ScanFails,
         ClaimPending, ClaimFails, Leave, SignalHandler, Crash, Start, Midnight
<1> QED
  BY <1>1, <1>2, <1>3

\* The safety invariant is inductive.
LEMMA SafetyStep == TypeOK /\ SafetyInv /\ [Next]_vars => SafetyInv'
BY GroupStep, BatchStep, IndexStep DEF SafetyInv

\* The safety invariant holds throughout.
THEOREM SafetyCorrect == Spec => []SafetyInv
BY TypeCorrect, SafetyInit, SafetyStep, PTL DEF Spec

\* What no bulk request has carried is still pending, whatever happened to the
\* threads that were to send it: Redis has it pending or acknowledged, and the
\* threads acknowledge only what they tried (_process_message_batch).
THEOREM UntriedStaysPending == Spec => []UntriedIsPending
<1>1. SafetyInv => UntriedIsPending
  <2> SUFFICES ASSUME SafetyInv, NEW m \in Msg, m <= cursor, m \notin tried
               PROVE  m \in Pending
    BY DEF UntriedIsPending
  <2>1. m \in Pending \union acked
    BY DEF SafetyInv, GroupInv, NothingSkipped
  <2>2. m \notin acked
    BY DEF SafetyInv, BatchInv, AckedWasTried
  <2> QED
    BY <2>1, <2>2
<1> QED
  BY <1>1, SafetyCorrect, PTL

\* Nothing is acknowledged before it was in a bulk request
\* (_process_message_batch).
THEOREM AckedWasTriedAlways == Spec => []AckedWasTried
<1>1. SafetyInv => AckedWasTried
  BY DEF SafetyInv, BatchInv
<1> QED
  BY <1>1, SafetyCorrect, PTL

\* A message that says its day has one document, however often it is delivered
\* (_convert_to_ecs_document).
THEOREM StampedOnceAlways == Spec => []StampedOnce
<1>1. SafetyInv => StampedOnce
  BY DEF SafetyInv, IndexInv, StampedOnce
<1> QED
  BY <1>1, SafetyCorrect, PTL

(***************************************************************************)
(* Redelivery.  An action property: it follows from the step alone, once   *)
(* the entry in question is known to have been delivered before.           *)
(***************************************************************************)

\* The reading thread takes over no entry that somebody else has, and the
\* claiming thread only idle ones (XREADGROUP ">" and XCLAIM).
THEOREM RedeliveryIsIdle == Spec => RedeliverOnlyIdle
<1> DEFINE Redelivered(m) == /\ owner[m] \in Worker
                             /\ owner'[m] \in Worker
                             /\ owner'[m] # owner[m]
           Rule == \A m \in Msg : Redelivered(m) => m \in idle /\ m \notin idle'
<1>1. ASSUME TypeOK, SafetyInv, [Next]_vars PROVE Rule
  <2> USE <1>1, LogWorkerAssumption DEF TypeOK
  <2>1. CASE UNCHANGED owner
    BY <2>1
  <2>2. ASSUME NEW w \in Worker, Deliver(w) PROVE Rule
    <3> SUFFICES ASSUME NEW m \in Msg, Redelivered(m) PROVE FALSE
      OBVIOUS
    <3>1. m \in Fresh
      BY <2>2 DEF Deliver
    <3>2. m \in Pending
      BY DEF Pending
    <3> QED
      BY <3>1, <3>2 DEF Fresh, SafetyInv, GroupInv, NothingSkipped, Msg
  <2>3. ASSUME NEW S \in SUBSET Msg, XAck(S) PROVE Rule
    BY <2>3 DEF XAck
  <2>4. ASSUME NEW w \in Worker, NEW S \in SUBSET Msg, XClaim(w, S) PROVE Rule
    BY <2>4 DEF XClaim, Claimable
  <2>5. ASSUME NEW w \in Worker, Work(w) \/ Failure(w)
        PROVE  \/ UNCHANGED redis
               \/ Deliver(w)
               \/ \E S \in SUBSET Msg : XAck(S) \/ XClaim(w, S)
    BY <2>5, WorkOnRedis
  <2>6. \/ UNCHANGED owner
        \/ \E w \in Worker : Work(w) \/ Failure(w)
    BY DEF Next, vars, XAdd, Age, SignalHandler, Crash, Start, Midnight
  <2> QED
    BY <2>1, <2>2, <2>3, <2>4, <2>5, <2>6
<1>2. TypeOK /\ SafetyInv /\ [Next]_vars => [Rule]_vars
  BY <1>1
<1> QED
  BY <1>2, TypeCorrect, SafetyCorrect, PTL DEF Spec, RedeliverOnlyIdle

(***************************************************************************)
(* Exclusion.  While threads keep their batches for less than a minute, no *)
(* entry in a batch is idle, so no claim can reach it.                     *)
(***************************************************************************)

HolderInv ==
    /\ \A w \in Worker : batch[w] \intersect idle = {}
    /\ SingleHolder

\* Each step keeps batches disjoint and free of idle entries.
LEMMA HolderStep ==
    ASSUME TypeOK, SafetyInv, HolderInv, FastBatches, [Next]_vars
    PROVE  HolderInv'
<1> USE DEF TypeOK
<1>0. RedisType /\ GroupInv
  BY DEF RedisType, SafetyInv
<1>1. ASSUME NEW w \in Worker, NEW S \in SUBSET Msg,
             batch' = [batch EXCEPT ![w] = S],
             S \intersect idle' = {},
             \A v \in Worker : v # w => batch[v] \intersect S = {},
             idle' \subseteq idle
      PROVE  HolderInv'
  BY <1>1 DEF HolderInv, SingleHolder
<1>2. ASSUME batch' = batch, idle' \subseteq idle
      PROVE  HolderInv'
  BY <1>2 DEF HolderInv, SingleHolder
<1>3. ASSUME NEW m \in Msg, Age(m) PROVE HolderInv'
  BY <1>3 DEF Age, HolderInv, SingleHolder
<1>4. ASSUME NEW w \in Worker, ReadNew(w) PROVE HolderInv'
  <2>1. Deliver(w) /\ batch' = [batch EXCEPT ![w] = Fresh] /\ Fresh \in SUBSET Msg
    BY <1>4 DEF ReadNew, StartBatch, Fresh
  <2>2. UNCHANGED idle
    BY <2>1 DEF Deliver
  <2>3. \A v \in Worker : batch[v] \intersect Fresh = {}
    BY DEF SafetyInv, BatchInv, Fresh, Msg
  <2>4. Fresh \intersect idle = {}
    BY <1>0 DEF GroupInv, NothingSkipped, Fresh, Msg
  <2> QED
    BY <1>1, <2>1, <2>2, <2>3, <2>4
<1>5. ASSUME NEW w \in Worker, Acknowledge(w) \/ AcknowledgeFails(w)
      PROVE  HolderInv'
  <2>1. batch' = [batch EXCEPT ![w] = {}] /\ idle' \subseteq idle
    BY <1>5 DEF Acknowledge, AcknowledgeFails, EndBatch, XAck
  <2> QED
    BY <1>1, <2>1
<1>6. ASSUME NEW w \in Worker, ClaimPending(w) PROVE HolderInv'
  <2> DEFINE S == Claimable(stale[w])
  <2>1. /\ S \in SUBSET Msg
        /\ S \subseteq idle
        /\ idle' = idle \ S
    BY <1>6 DEF ClaimPending, XClaim, Claimable
  <2>2. batch' = batch \/ batch' = [batch EXCEPT ![w] = S]
    BY <1>6 DEF ClaimPending, StartBatch
  <2>3. \A v \in Worker : batch[v] \intersect S = {}
    BY <2>1 DEF HolderInv
  <2> HIDE DEF S
  <2> QED
    BY <1>1, <1>2, <2>1, <2>2, <2>3
<1>7. ASSUME NEW p \in Process, Crash(p) PROVE HolderInv'
  BY <1>7 DEF Crash, HolderInv, SingleHolder
<1>8. ASSUME NEW w \in Worker, ReadNothing(w) \/ ReadFails(w) \/ BuildDocuments(w)
                               \/ BulkInsert(w) \/ ScanPending(w) \/ ScanFails(w)
                               \/ ClaimFails(w) \/ Leave(w)
      PROVE  batch' = batch /\ idle' \subseteq idle
  BY <1>8 DEF ReadNothing, ReadFails, Deliver, BuildDocuments, BulkInsert,
              ScanPending, ScanFails, ClaimFails, XClaim, Leave
<1>9. ASSUME XAdd \/ Midnight \/ UNCHANGED vars
             \/ \E p \in Process : SignalHandler(p) \/ Start(p)
      PROVE  batch' = batch /\ idle' \subseteq idle
  BY <1>9 DEF XAdd, Midnight, vars, SignalHandler, Start
<1> QED
  BY <1>2, <1>3, <1>4, <1>5, <1>6, <1>7, <1>8, <1>9 DEF Next, Work, Failure

\* No two threads work on one message at once, provided no batch takes a minute
\* (_process_pending_messages against _process_message_batch).
THEOREM ExclusiveProcessing == FastBatches => (Spec => []SingleHolder)
<1> SUFFICES ASSUME FastBatches PROVE Spec => []SingleHolder
  OBVIOUS
<1>1. Init => HolderInv
  BY DEF Init, HolderInv, SingleHolder
<1>2. TypeOK /\ SafetyInv /\ HolderInv /\ [Next]_vars => HolderInv'
  BY HolderStep
<1>3. HolderInv => SingleHolder
  BY DEF HolderInv
<1> QED
  BY <1>1, <1>2, <1>3, TypeCorrect, SafetyCorrect, PTL DEF Spec

(***************************************************************************)
(* Refinement.                                                             *)
(***************************************************************************)

\* The stream and its group, with the threads that read it, are an
\* at-least-once queue: in order, open until tried, closed for good.
THEOREM ImplementsQueue == Spec => QueueSpec
<1> USE DEF TypeOK
<1>1. Init => Queue!Init
  <2> SUFFICES ASSUME Init PROVE Queue!Init
    OBVIOUS
  <2>1. 1..produced = {} /\ Pending = {}
    BY DEF Init, Pending
  <2> QED
    BY <2>1 DEF Init, Queue!Init
<1>2. ASSUME TypeOK, SafetyInv, [Next]_vars
      PROVE  [Queue!Next]_(Queue!vars)
  <2> USE <1>2 DEF Queue!vars
  <2>0. RedisType /\ GroupInv
    BY DEF RedisType, SafetyInv
  <2>1. CASE UNCHANGED <<produced, owner, acked, tried>>
    BY <2>1 DEF Pending
  <2>2. CASE XAdd
    <3>1. /\ produced + 1 \in Msg
          /\ 1..produced' = 1..produced \union {produced + 1}
          /\ UNCHANGED <<Pending, acked, tried>>
      BY <2>2, LogWorkerAssumption DEF XAdd, Msg, Pending
    <3>2. Queue!Add(produced + 1)
      BY <3>1 DEF Queue!Add
    <3> QED
      BY <3>1, <3>2 DEF Queue!Next
  <2>3. ASSUME NEW w \in Worker, Deliver(w), UNCHANGED tried
        PROVE  Queue!Next
    <3>1. /\ cursor <= cursor'
          /\ Fresh = (cursor + 1)..cursor'
          /\ Pending' = Pending \union Fresh
          /\ UNCHANGED <<produced, idle, acked>>
      BY <2>0, <2>3, DeliverEffect
    <3>2. Fresh \in SUBSET Msg
      BY DEF Fresh
    <3>3. Fresh \subseteq 1..produced \ (Pending \union acked)
      BY <2>0 DEF Fresh, GroupInv, NothingSkipped, Msg
    <3>4. \A m \in Fresh, k \in 1..produced :
             k < m => k \in Pending \union acked \union Fresh
      <4> SUFFICES ASSUME NEW m \in Fresh, NEW k \in 1..produced, k < m, k \notin Fresh
                   PROVE  k \in Pending \union acked
        OBVIOUS
      <4>1. k \in Msg /\ k <= cursor
        BY LogWorkerAssumption DEF Fresh, Msg
      <4> QED
        BY <2>0, <4>1 DEF GroupInv, NothingSkipped
    <3>5. Queue!HandOut(Fresh)
      BY <2>3, <3>1, <3>3, <3>4 DEF Queue!HandOut
    <3> QED
      BY <3>2, <3>5 DEF Queue!Next
  <2>4. ASSUME NEW S \in SUBSET Msg, XAck(S), UNCHANGED tried, S \subseteq tried
        PROVE  Queue!Next
    <3>1. /\ Pending' = Pending \ (S \intersect Pending)
          /\ acked' = acked \union (S \intersect Pending)
          /\ UNCHANGED produced
      BY <2>0, <2>4, XAckEffect
    <3>2. Queue!Close(S \intersect Pending)
      BY <2>4, <3>1 DEF Queue!Close
    <3> QED
      BY <3>2 DEF Queue!Next
  <2>5. ASSUME NEW w \in Worker, NEW S \in SUBSET Msg, XClaim(w, S), UNCHANGED tried
        PROVE  UNCHANGED Queue!vars
    BY <2>0, <2>5, XClaimEffect
  <2>6. ASSUME NEW w \in Worker, BulkInsert(w)
        PROVE  Queue!Next
    <3>1. /\ tried' = tried \union batch[w]
          /\ UNCHANGED <<produced, Pending, acked>>
      BY <2>6 DEF BulkInsert, Pending
    <3>2. batch[w] \in SUBSET Msg /\ batch[w] \subseteq Pending \union acked
      BY <2>0 DEF SafetyInv, BatchInv, GroupInv, NothingSkipped, Msg
    <3>3. Queue!Try(batch[w])
      BY <3>1, <3>2 DEF Queue!Try
    <3> QED
      BY <3>2, <3>3 DEF Queue!Next
  <2>7. ASSUME NEW w \in Worker, ReadNew(w) \/ ReadFails(w)
        PROVE  [Queue!Next]_(Queue!vars)
    BY <2>1, <2>3, <2>7 DEF ReadNew, ReadFails
  <2>8. ASSUME NEW w \in Worker, Acknowledge(w) \/ AcknowledgeFails(w)
        PROVE  [Queue!Next]_(Queue!vars)
    <3>1. batch[w] \in SUBSET Msg /\ batch[w] \subseteq tried
      BY <2>8 DEF Acknowledge, AcknowledgeFails, SafetyInv, BatchInv
    <3> QED
      BY <2>1, <2>4, <2>8, <3>1 DEF Acknowledge, AcknowledgeFails
  <2>9. ASSUME NEW w \in Worker, ClaimPending(w) \/ ClaimFails(w)
        PROVE  [Queue!Next]_(Queue!vars)
    <3>1. stale[w] \in SUBSET Msg
      OBVIOUS
    <3> QED
      BY <2>1, <2>5, <2>9, <3>1 DEF ClaimPending, ClaimFails
  <2>10. ASSUME NEW w \in Worker, ReadNothing(w) \/ BuildDocuments(w)
                                  \/ ScanPending(w) \/ ScanFails(w) \/ Leave(w)
         PROVE  UNCHANGED <<produced, owner, acked, tried>>
    BY <2>10 DEF ReadNothing, BuildDocuments, ScanPending, ScanFails, Leave
  <2>11. ASSUME Midnight \/ UNCHANGED vars \/ (\E m \in Msg : Age(m))
                \/ \E p \in Process : SignalHandler(p) \/ Crash(p) \/ Start(p)
         PROVE  UNCHANGED <<produced, owner, acked, tried>>
    BY <2>11 DEF Midnight, vars, Age, SignalHandler, Crash, Start
  <2> QED
    BY <2>1, <2>2, <2>6, <2>7, <2>8, <2>9, <2>10, <2>11 DEF Next, Work, Failure
<1> QED
  BY <1>1, <1>2, TypeCorrect, SafetyCorrect, PTL DEF Spec, QueueSpec, Queue!Spec
=============================================================================
