-------------------------- MODULE MetricsWorkerProofs --------------------------
(***************************************************************************)
(* Theorems about MetricsWorker, for any number of threads, metrics and    *)
(* faults, and either setting of decode_responses.                         *)
(*                                                                         *)
(* A metric that was read is in one place: ahead of a thread, in a buffer, *)
(* or past both.  Whoever is past it has pushed it, or let it go with the  *)
(* process.                                                                *)
(***************************************************************************)
EXTENDS MetricsWorker, SequenceTheorems, TLAPS

Elements(s) == {s[i] : i \in DOMAIN s}

Increasing(s) == \A i, j \in DOMAIN s : i < j => s[i] < s[j]

\* What a thread has read and not come to.
Ahead(w) == CASE pc[w] = "decode"              -> Batch(w)
              [] pc[w] \in {"process", "push"} -> Elements(rest[w])
              [] OTHER                         -> {}

Kept(n) == pushed[n] > 0 \/ (\E w \in Worker : n \in Held(w)) \/ n \in lost

\* The loop is past a metric of its batch only when the metric is kept.
BatchKept ==
    \A w \in Worker : pc[w] \in {"process", "push"} =>
        \A n \in Parsed : n \in Batch(w) => n \in Elements(rest[w]) \/ Kept(n)

\* A metric is ahead of one thread or in one buffer.
OnePlace ==
    /\ \A w \in Worker : /\ Ahead(w) \subseteq 1..cursor /\ Held(w) \subseteq 1..cursor
                         /\ pc[w] = "decode" => Increasing(messages[w])
                         /\ pc[w] \in {"process", "push"} => Increasing(rest[w])
    /\ \A v, w \in Worker : /\ Ahead(v) \cap Held(w) = {}
                            /\ v # w => /\ Ahead(v) \cap Ahead(w) = {}
                                        /\ Held(v) \cap Held(w) = {}

\* What the gateway has is behind every thread, and buffered again only for want of
\* an answer.
GatewayInv ==
    /\ \A n \in Metric : n > cursor => pushed[n] = 0
    /\ \A w \in Worker : \A n \in Ahead(w) : pushed[n] = 0
    /\ \A w \in Worker : \A n \in Held(w) : pushed[n] > 0 => n \in unanswered
    /\ SentAgainUnanswered

IInv == TypeOK /\ AcknowledgedIsKept /\ BatchKept /\ OnePlace /\ GatewayInv
-----------------------------------------------------------------------------
(* Sequences *)

LEMMA TailElements ==
    ASSUME NEW S, NEW s \in Seq(S), s # <<>>
    PROVE  /\ Head(s) \in S /\ Tail(s) \in Seq(S)
           /\ Elements(s) = {Head(s)} \union Elements(Tail(s))
  <1>1. /\ Head(s) = s[1] /\ Tail(s) \in Seq(S) /\ Len(s) \in Nat \ {0}
        /\ Len(Tail(s)) = Len(s) - 1 /\ DOMAIN s = 1..Len(s) /\ DOMAIN Tail(s) = 1..Len(Tail(s))
        /\ \A i \in 1..Len(Tail(s)) : Tail(s)[i] = s[i + 1]
    BY HeadTailProperties, LenProperties
  <1>2. Head(s) \in S
    BY <1>1, ElementOfSeq
  <1>3. Elements(s) \subseteq {Head(s)} \union Elements(Tail(s))
    <2> SUFFICES ASSUME NEW i \in DOMAIN s, i # 1 PROVE s[i] \in Elements(Tail(s))
      BY <1>1 DEF Elements
    <2>1. i - 1 \in DOMAIN Tail(s) /\ Tail(s)[i - 1] = s[i]
      BY <1>1
    <2> QED BY <2>1 DEF Elements
  <1>4. {Head(s)} \union Elements(Tail(s)) \subseteq Elements(s)
    <2>1. 1 \in DOMAIN s
      BY <1>1
    <2>2. \A i \in DOMAIN Tail(s) : i + 1 \in DOMAIN s /\ Tail(s)[i] = s[i + 1]
      BY <1>1
    <2> QED BY <1>1, <2>1, <2>2 DEF Elements
  <1> QED BY <1>1, <1>2, <1>3, <1>4

LEMMA TailIncreasing ==
    ASSUME NEW S, S \subseteq Nat, NEW s \in Seq(S), s # <<>>, Increasing(s)
    PROVE  Increasing(Tail(s)) /\ Head(s) \notin Elements(Tail(s))
  <1>1. /\ Head(s) = s[1] /\ Len(s) \in Nat \ {0}
        /\ Len(Tail(s)) = Len(s) - 1 /\ DOMAIN s = 1..Len(s) /\ DOMAIN Tail(s) = 1..Len(Tail(s))
        /\ \A i \in 1..Len(Tail(s)) : Tail(s)[i] = s[i + 1]
    BY HeadTailProperties, LenProperties
  <1>2. \A i \in DOMAIN s : s[i] \in Nat
    BY <1>1, ElementOfSeq
  <1>3. Increasing(Tail(s))
    BY <1>1 DEF Increasing
  <1>4. \A i \in DOMAIN Tail(s) : Tail(s)[i] # Head(s)
    <2> SUFFICES ASSUME NEW i \in DOMAIN Tail(s) PROVE Tail(s)[i] # Head(s)
      OBVIOUS
    <2>1. i + 1 \in DOMAIN s /\ 1 \in DOMAIN s /\ 1 < i + 1 /\ Tail(s)[i] = s[i + 1]
      BY <1>1
    <2>2. s[1] < s[i + 1]
      BY <2>1 DEF Increasing
    <2> QED BY <1>1, <1>2, <2>1, <2>2
  <1> QED BY <1>3, <1>4 DEF Elements

LEMMA AppendElements ==
    ASSUME NEW S, NEW s \in Seq(S), NEW e \in S
    PROVE  Append(s, e) \in Seq(S) /\ Elements(Append(s, e)) = Elements(s) \union {e}
  <1>1. /\ Append(s, e) \in Seq(S) /\ Len(Append(s, e)) = Len(s) + 1 /\ Len(s) \in Nat
        /\ DOMAIN s = 1..Len(s) /\ DOMAIN Append(s, e) = 1..(Len(s) + 1)
        /\ \A i \in 1..Len(s) : Append(s, e)[i] = s[i]
        /\ Append(s, e)[Len(s) + 1] = e
    BY AppendProperties, LenProperties
  <1>2. \A i \in DOMAIN Append(s, e) : i \in DOMAIN s \/ i = Len(s) + 1
    BY <1>1
  <1>3. DOMAIN s \subseteq DOMAIN Append(s, e) /\ Len(s) + 1 \in DOMAIN Append(s, e)
    BY <1>1
  <1> QED BY <1>1, <1>2, <1>3 DEF Elements

LEMMA EmptyElements == Elements(<<>>) = {} /\ Increasing(<<>>)
  BY DEF Elements, Increasing

LEMMA WiderSeq ==
    ASSUME NEW S, NEW T, S \subseteq T, NEW s \in Seq(S)
    PROVE  s \in Seq(T)
  <1>1. Len(s) \in Nat /\ s \in [1..Len(s) -> S]
    BY LenProperties
  <1>2. s \in [1..Len(s) -> T]
    BY <1>1
  <1> QED BY <1>1, <1>2, SeqDef

\* What XREADGROUP delivers.
LEMMA Delivered ==
    ASSUME TypeOK, Deliver
    PROVE  /\ cursor' \in (cursor + 1)..produced /\ produced' = produced
           /\ Undelivered \in Seq(1..cursor') /\ Increasing(Undelivered)
           /\ Elements(Undelivered) = (cursor + 1)..cursor'
           /\ pending' = pending \union (cursor + 1)..cursor'
  <1> DEFINE size == IF produced - cursor < BatchSize THEN produced - cursor ELSE BatchSize
  <1>1. /\ cursor \in Nat /\ produced \in Nat /\ cursor <= produced
        /\ size \in Nat /\ size <= produced - cursor
    BY MetricsWorkerAssumption DEF TypeOK
  <1>2. Undelivered = [i \in 1..size |-> cursor + i]
    BY DEF Undelivered
  <1> HIDE DEF size
  <1>3. Undelivered \in [1..size -> 1..(cursor + size)]
    BY <1>1, <1>2
  <1>4. Undelivered \in Seq(1..(cursor + size)) /\ Len(Undelivered) = size
    BY <1>1, <1>3, SeqDef, LenProperties
  <1>5. size # 0
    BY <1>1, <1>4, EmptySeq DEF Deliver
  <1>6. cursor' = cursor + size
    BY <1>4 DEF Deliver
  <1>7. Increasing(Undelivered)
    BY <1>1, <1>2 DEF Increasing
  <1>8. Elements(Undelivered) = (cursor + 1)..cursor'
    <2>1. ASSUME NEW n \in (cursor + 1)..cursor' PROVE n \in Elements(Undelivered)
      <3>1. n - cursor \in 1..size /\ cursor + (n - cursor) = n
        BY <1>1, <1>6, <2>1
      <3> QED BY <1>2, <3>1 DEF Elements
    <2>2. ASSUME NEW i \in 1..size PROVE Undelivered[i] \in (cursor + 1)..cursor'
      BY <1>1, <1>2, <1>6, <2>2
    <2> QED BY <1>2, <2>1, <2>2 DEF Elements
  <1> QED BY <1>1, <1>4, <1>5, <1>6, <1>7, <1>8 DEF Deliver
-----------------------------------------------------------------------------
(* Type correctness *)

LEMMA InitIInv == Init => IInv
  <1> SUFFICES ASSUME Init PROVE IInv
    OBVIOUS
  <1>1. TypeOK
    <2>1. <<>> \in Seq(1..cursor) /\ <<>> \in Seq(Parsed)
      BY EmptySeq
    <2> QED BY <2>1, MetricsWorkerAssumption DEF Init, TypeOK
  <1>2. \A w \in Worker : Held(w) = {} /\ Ahead(w) = {}
    BY EmptyElements DEF Init, Held, Ahead, Elements
  <1>3. AcknowledgedIsKept /\ BatchKept
    BY MetricsWorkerAssumption DEF Init, AcknowledgedIsKept, BatchKept
  <1>4. OnePlace
    BY <1>2 DEF OnePlace, Init
  <1>5. GatewayInv
    BY <1>2 DEF GatewayInv, Init, SentAgainUnanswered
  <1> QED BY <1>1, <1>3, <1>4, <1>5 DEF IInv

Steps(w) == \/ ReadGroup(w) \/ LoseRead(w) \/ DropBatch(w) \/ TakeBatch(w)
            \/ AddMetric(w) \/ RefuseMetric(w)
            \/ Pushed(w) \/ PushFails(w) \/ PushUnanswered(w)
            \/ Acknowledge(w) \/ Elapse(w)

LEMMA NextSteps == Next <=> (\E w \in Worker : Steps(w)) \/ Produce \/ Restart
  BY DEF Next, Steps, consume_messages

\* A fault that is counted stays in its bound.
LEMMA FaultType ==
    ASSUME TypeOK, Fault
    PROVE  faults' \in 0..MaxFault
  BY MetricsWorkerAssumption DEF TypeOK, Fault

LEMMA HeldParsed ==
    ASSUME TypeOK, NEW w \in Worker
    PROVE  Held(w) \subseteq Parsed
  <1>1. buffer[w] \in Seq(Parsed)
    BY DEF TypeOK
  <1> QED BY <1>1, ElementOfSeq DEF Held

LEMMA StepTypes ==
    ASSUME TypeOK, NEW w \in Worker, Steps(w)
    PROVE  TypeOK'
  <1> USE DEF Goto
  <1>0. Parsed \subseteq Metric /\ cursor \in Nat /\ produced \in Nat
    BY MetricsWorkerAssumption DEF TypeOK, Metric
  <1>1. ASSUME Deliver
        PROVE  /\ produced' \in 0..MaxMetric /\ cursor' \in 0..produced'
               /\ pending' \subseteq 1..cursor'
               /\ messages \in [Worker -> Seq(1..cursor')]
               /\ rest \in [Worker -> Seq(1..cursor')]
    <2>1. cursor' \in (cursor + 1)..produced /\ produced' = produced
      BY <1>1, Delivered
    <2>2. 1..cursor \subseteq 1..cursor'
      BY <1>0, <2>1
    <2>3. \A v \in Worker : messages[v] \in Seq(1..cursor') /\ rest[v] \in Seq(1..cursor')
      BY <2>2, WiderSeq DEF TypeOK
    <2>4. pending' \subseteq 1..cursor'
      <3>1. pending' = pending \union (cursor + 1)..cursor'
        BY <1>1, Delivered
      <3>2. (cursor + 1)..cursor' \subseteq 1..cursor'
        BY <1>0
      <3>3. pending \subseteq 1..cursor
        BY DEF TypeOK
      <3> QED BY <2>2, <3>1, <3>2, <3>3
    <2> QED BY <1>0, <2>1, <2>3, <2>4 DEF TypeOK
  <1>2. CASE ReadGroup(w)
    <2>1. Undelivered \in Seq(1..cursor')
      BY <1>2, Delivered DEF ReadGroup
    <2> QED BY <1>1, <1>2, <2>1 DEF ReadGroup, TypeOK, record
  <1>3. CASE LoseRead(w)
    BY <1>1, <1>3, FaultType DEF LoseRead, TypeOK, thread, record
  <1>4. CASE DropBatch(w) \/ TakeBatch(w)
    BY <1>4 DEF DropBatch, TakeBatch, TypeOK, redis, record
  <1>5. CASE AddMetric(w)
    <2>1. Tail(rest[w]) \in Seq(1..cursor)
      BY <1>5, TailElements DEF AddMetric, TypeOK
    <2>2. Append(buffer[w], Head(rest[w])) \in Seq(Parsed)
      BY <1>5, AppendElements DEF AddMetric, TypeOK
    <2> QED BY <1>5, <2>1, <2>2 DEF AddMetric, TypeOK, redis, record
  <1>6. CASE RefuseMetric(w)
    <2>1. Tail(rest[w]) \in Seq(1..cursor)
      BY <1>6, TailElements DEF RefuseMetric, TypeOK
    <2> QED BY <1>6, <2>1 DEF RefuseMetric, TypeOK, redis, record
  <1>7. ASSUME Receive(w) PROVE pushed' \in [Metric -> Nat]
    BY <1>7 DEF Receive, TypeOK
  <1>8. CASE Pushed(w)
    BY <1>7, <1>8, EmptySeq DEF Pushed, TypeOK, redis
  <1>9. CASE PushFails(w)
    BY <1>9, FaultType DEF PushFails, TypeOK, redis, record
  <1>10. CASE PushUnanswered(w)
    BY <1>0, <1>7, <1>10, FaultType, HeldParsed DEF PushUnanswered, TypeOK, redis
  <1>11. CASE Acknowledge(w)
    BY <1>11, FaultType DEF Acknowledge, TypeOK, record
  <1>12. CASE Elapse(w)
    BY <1>12 DEF Elapse, TypeOK, redis, record
  <1> QED
    BY <1>2, <1>3, <1>4, <1>5, <1>6, <1>8, <1>9, <1>10, <1>11, <1>12 DEF Steps

LEMMA WorldTypes ==
    ASSUME TypeOK, Produce \/ Restart
    PROVE  TypeOK'
  <1>1. CASE Produce
    BY <1>1, MetricsWorkerAssumption DEF Produce, TypeOK, thread, record
  <1>2. CASE Restart
    <2>1. \A v \in Worker : Held(v) \subseteq Metric
      BY HeldParsed, MetricsWorkerAssumption DEF Metric
    <2>2. lost' \subseteq Metric
      BY <1>2, <2>1 DEF Restart, TypeOK
    <2>3. restarts' \in 0..MaxRestart
      BY <1>2, MetricsWorkerAssumption DEF Restart, TypeOK
    <2> QED BY <1>2, <2>2, <2>3, EmptySeq DEF Restart, TypeOK, redis
  <1> QED BY <1>1, <1>2
-----------------------------------------------------------------------------
(* Where the metrics go *)

\* A thread's step leaves the other threads where they are.
LEMMA OtherThreads ==
    ASSUME TypeOK, NEW w \in Worker, Steps(w), NEW v \in Worker, v # w
    PROVE  /\ pc'[v] = pc[v] /\ messages'[v] = messages[v]
           /\ rest'[v] = rest[v] /\ buffer'[v] = buffer[v]
           /\ Ahead(v)' = Ahead(v) /\ Held(v)' = Held(v) /\ Batch(v)' = Batch(v)
  <1>1. /\ pc'[v] = pc[v] /\ messages'[v] = messages[v]
        /\ rest'[v] = rest[v] /\ buffer'[v] = buffer[v]
    BY DEF Steps, ReadGroup, LoseRead, DropBatch, TakeBatch, AddMetric, RefuseMetric, Pushed,
           PushFails, PushUnanswered, Acknowledge, Elapse, Goto, thread, TypeOK
  <1> QED BY <1>1 DEF Ahead, Held, Batch

\* Where a step of the thread puts the metrics: each line is one kind of step.
Moves(w) ==
    \/ /\ cursor < cursor' /\ pending' = pending \union (cursor + 1)..cursor'
       /\ Ahead(w) = {} /\ Ahead(w)' = (cursor + 1)..cursor'
       /\ Held(w)' = Held(w) /\ pc'[w] = "decode" /\ pushed' = pushed /\ unanswered' = unanswered
    \/ /\ cursor <= cursor' /\ pending' = pending \union (cursor + 1)..cursor'
       /\ Ahead(w)' \in {{}, Ahead(w)} /\ Held(w)' = Held(w) /\ Batch(w)' = Batch(w)
       /\ \/ pc'[w] \notin {"process", "push"}
          \/ pc'[w] \in {"process", "push"} /\ pc[w] \in {"process", "push"} /\ rest' = rest
          \/ pc'[w] = "process" /\ Elements(rest[w])' = Batch(w)'
       /\ pushed' = pushed /\ unanswered' = unanswered
    \/ \E n \in Metric :
         /\ cursor' = cursor /\ pending' = pending
         /\ pc[w] = "process" /\ pc'[w] \in {"process", "push"}
         /\ Ahead(w) = Ahead(w)' \union {n} /\ n \notin Ahead(w)'
         /\ n \in Parsed => Held(w)' = Held(w) \union {n}
         /\ n \notin Parsed => Held(w)' = Held(w)
         /\ Batch(w)' = Batch(w)
         /\ pushed' = pushed /\ unanswered' = unanswered
    \/ /\ cursor' = cursor /\ pending' = pending
       /\ pc[w] = "push" /\ pc'[w] = "process" /\ rest' = rest
       /\ Ahead(w)' = Ahead(w) /\ Batch(w)' = Batch(w)
       /\ Receive(w)
       /\ \/ Held(w)' = {} /\ unanswered' = unanswered
          \/ Held(w)' = Held(w) /\ unanswered' = unanswered \union Held(w)
    \/ /\ cursor' = cursor /\ pending' \in {pending, pending \ Batch(w)}
       /\ pc[w] = "process" /\ Ahead(w) = {} /\ rest[w] = <<>>
       /\ pc'[w] = "read" /\ Ahead(w)' = {} /\ Held(w)' = Held(w)
       /\ pushed' = pushed /\ unanswered' = unanswered

LEMMA StepMoves ==
    ASSUME TypeOK, OnePlace, NEW w \in Worker, Steps(w)
    PROVE  /\ Moves(w) /\ lost' = lost
           /\ pc'[w] = "decode" => Increasing(messages'[w])
           /\ pc'[w] \in {"process", "push"} => Increasing(rest'[w])
  <1> USE DEF Goto
  <1>0. /\ pc \in [Worker -> {"read", "decode", "process", "push"}]
        /\ messages \in [Worker -> Seq(1..cursor)] /\ rest \in [Worker -> Seq(1..cursor)]
        /\ buffer \in [Worker -> Seq(Parsed)] /\ cursor \in Nat
        /\ 1..cursor \subseteq Metric
    BY MetricsWorkerAssumption DEF TypeOK, Metric
  <1>1. CASE ReadGroup(w)
    <2>1. Deliver /\ messages'[w] = Undelivered /\ pc'[w] = "decode" /\ pc[w] = "read"
      BY <1>0, <1>1 DEF ReadGroup
    <2>2. Batch(w)' = Elements(Undelivered)
      BY <2>1 DEF Batch, Elements
    <2>3. Ahead(w)' = (cursor + 1)..cursor' /\ cursor < cursor'
      BY <1>0, <2>1, <2>2, Delivered DEF Ahead
    <2> QED BY <1>0, <1>1, <2>1, <2>3, Delivered DEF ReadGroup, Moves, Ahead, Held, record
  <1>2. CASE LoseRead(w)
    BY <1>0, <1>2, Delivered DEF LoseRead, Moves, Ahead, Held, Batch, thread, record
  <1>3. CASE DropBatch(w)
    BY <1>0, <1>3 DEF DropBatch, Moves, Ahead, Held, Batch, redis, record
  <1>4. CASE TakeBatch(w)
    BY <1>0, <1>4 DEF TakeBatch, Moves, Ahead, Held, Batch, Elements, OnePlace, redis, record
  <1>5. CASE AddMetric(w) \/ RefuseMetric(w)
    <2> DEFINE n == Head(rest[w])
    <2>1. /\ pc[w] = "process" /\ pc'[w] \in {"process", "push"}
          /\ rest[w] # <<>> /\ rest'[w] = Tail(rest[w])
          /\ cursor' = cursor /\ pending' = pending /\ lost' = lost
          /\ messages' = messages /\ pushed' = pushed /\ unanswered' = unanswered
      BY <1>0, <1>5 DEF AddMetric, RefuseMetric, redis, record
    <2>2. n \in 1..cursor /\ Elements(rest[w]) = {n} \union Elements(Tail(rest[w]))
      BY <1>0, <2>1, TailElements
    <2>3. Increasing(rest[w]) /\ 1..cursor \subseteq Nat
      BY <2>1 DEF OnePlace
    <2>4. Increasing(Tail(rest[w])) /\ n \notin Elements(Tail(rest[w]))
      BY <1>0, <2>1, <2>3, TailIncreasing
    <2>5. Ahead(w) = Elements(rest[w]) /\ Ahead(w)' = Elements(Tail(rest[w]))
      BY <2>1 DEF Ahead, Elements
    <2>6. Held(w) = Elements(buffer[w]) /\ Held(w)' = Elements(buffer'[w])
      BY DEF Held, Elements
    <2>7. n \in Parsed => Held(w)' = Held(w) \union {n}
      <3>1. CASE AddMetric(w)
        BY <1>0, <2>6, <3>1, AppendElements DEF AddMetric
      <3> QED BY <1>5, <3>1 DEF RefuseMetric
    <2>8. n \notin Parsed => Held(w)' = Held(w)
      BY <1>5, <2>6 DEF AddMetric, RefuseMetric
    <2>9. Batch(w)' = Batch(w)
      BY <2>1 DEF Batch
    <2> HIDE DEF n
    <2> QED BY <1>0, <2>1, <2>2, <2>4, <2>5, <2>7, <2>8, <2>9 DEF Moves
  <1>6. CASE Pushed(w)
    BY <1>0, <1>6, EmptyElements DEF Pushed, Moves, Ahead, Held, Batch, Elements, OnePlace, redis, record
  <1>7. CASE PushFails(w)
    BY <1>0, <1>7 DEF PushFails, Moves, Ahead, Held, Batch, Elements, OnePlace, redis, record
  <1>8. CASE PushUnanswered(w)
    BY <1>0, <1>8 DEF PushUnanswered, Moves, Ahead, Held, Batch, Elements, OnePlace, redis, record
  <1>9. CASE Acknowledge(w)
    BY <1>0, <1>9, EmptyElements DEF Acknowledge, Moves, Ahead, Held, Batch, Elements, record
  <1>10. CASE Elapse(w)
    BY <1>0, <1>10 DEF Elapse, Moves, Ahead, Held, Batch, OnePlace, redis, record
  <1> QED
    BY <1>1, <1>2, <1>3, <1>4, <1>5, <1>6, <1>7, <1>8, <1>9, <1>10 DEF Steps

LEMMA StepOnePlace ==
    ASSUME TypeOK, OnePlace, NEW w \in Worker, Steps(w)
    PROVE  OnePlace'
  <1> USE DEF OnePlace
  <1>0. cursor \in Nat /\ cursor' \in Nat
    BY StepTypes DEF TypeOK
  <1>1. /\ Moves(w)
        /\ pc'[w] = "decode" => Increasing(messages'[w])
        /\ pc'[w] \in {"process", "push"} => Increasing(rest'[w])
    BY StepMoves
  <1>2. \A v \in Worker : v # w => /\ pc'[v] = pc[v] /\ messages'[v] = messages[v]
                                   /\ rest'[v] = rest[v]
                                   /\ Ahead(v)' = Ahead(v) /\ Held(v)' = Held(v)
    BY OtherThreads
  <1>3. cursor <= cursor'
    BY <1>0, <1>1 DEF Moves
  <1>4. /\ \/ Ahead(w)' \subseteq Ahead(w)
           \/ Ahead(w) = {} /\ Ahead(w)' = (cursor + 1)..cursor' /\ Held(w)' = Held(w)
        /\ Held(w)' \subseteq Held(w) \union (Ahead(w) \ Ahead(w)')
    BY <1>1 DEF Moves
  <1>5. /\ Ahead(w)' \subseteq 1..cursor' /\ Held(w)' \subseteq 1..cursor'
        /\ \A v \in Worker : Ahead(v) \subseteq 1..cursor' /\ Held(v) \subseteq 1..cursor'
    <2>1. 1..cursor \subseteq 1..cursor' /\ (cursor + 1)..cursor' \subseteq 1..cursor'
      BY <1>0, <1>3
    <2> QED BY <1>4, <2>1
  <1>6. \A v \in Worker : v # w =>
          /\ Ahead(v) \cap Held(w)' = {} /\ Ahead(w)' \cap Held(v) = {}
          /\ Ahead(v) \cap Ahead(w)' = {} /\ Held(v) \cap Held(w)' = {}
    <2>1. \A n \in (cursor + 1)..cursor' : n \notin 1..cursor
      BY <1>0
    <2> QED BY <1>4, <2>1
  <1>7. Ahead(w)' \cap Held(w)' = {}
    <2>1. \A n \in (cursor + 1)..cursor' : n \notin 1..cursor
      BY <1>0
    <2> QED BY <1>4, <2>1
  <1>8. \A v \in Worker : /\ Ahead(v)' \subseteq 1..cursor' /\ Held(v)' \subseteq 1..cursor'
                          /\ pc'[v] = "decode" => Increasing(messages'[v])
                          /\ pc'[v] \in {"process", "push"} => Increasing(rest'[v])
    BY <1>1, <1>2, <1>5
  <1>9. \A u, v \in Worker : /\ Ahead(u)' \cap Held(v)' = {}
                             /\ u # v => /\ Ahead(u)' \cap Ahead(v)' = {}
                                         /\ Held(u)' \cap Held(v)' = {}
    <2> SUFFICES ASSUME NEW u \in Worker, NEW v \in Worker
                 PROVE  /\ Ahead(u)' \cap Held(v)' = {}
                        /\ u # v => /\ Ahead(u)' \cap Ahead(v)' = {}
                                    /\ Held(u)' \cap Held(v)' = {}
      OBVIOUS
    <2>1. CASE u # w /\ v # w
      BY <1>2, <2>1
    <2>2. CASE u = w /\ v # w
      BY <1>2, <1>6, <2>2
    <2>3. CASE u # w /\ v = w
      BY <1>2, <1>6, <2>3
    <2>4. CASE u = w /\ v = w
      BY <1>7, <2>4
    <2> QED BY <2>1, <2>2, <2>3, <2>4
  <1> QED BY <1>8, <1>9

LEMMA StepKept ==
    ASSUME TypeOK, AcknowledgedIsKept, BatchKept, OnePlace, NEW w \in Worker, Steps(w)
    PROVE  AcknowledgedIsKept' /\ BatchKept'
  <1>0. /\ cursor \in Nat /\ cursor' \in Nat
        /\ pushed \in [Metric -> Nat] /\ Parsed \subseteq Metric /\ Metric \subseteq Nat
    <2>1. TypeOK'
      BY StepTypes
    <2>2. /\ produced \in Nat /\ produced' \in Nat /\ pushed \in [Metric -> Nat]
          /\ cursor \in 0..produced /\ cursor' \in 0..produced'
      BY <2>1, MetricsWorkerAssumption DEF TypeOK
    <2>3. Parsed \subseteq Metric /\ Metric \subseteq Nat
      BY MetricsWorkerAssumption DEF Metric
    <2> QED BY <2>2, <2>3
  <1>1. Moves(w) /\ lost' = lost
    BY StepMoves
  <1>2. \A v \in Worker : v # w => /\ pc'[v] = pc[v] /\ rest'[v] = rest[v]
                                   /\ Held(v)' = Held(v) /\ Batch(v)' = Batch(v)
    BY OtherThreads
  <1>3. ASSUME NEW n \in Parsed, Kept(n)
        PROVE  Kept(n)'
    <2>1. CASE pushed[n] > 0
      <3>1. pushed'[n] > 0
        BY <1>0, <1>1, <2>1 DEF Moves, Receive
      <3> QED BY <3>1 DEF Kept
    <2>2. CASE n \in lost
      BY <1>1, <2>2 DEF Kept
    <2>3. ASSUME NEW v \in Worker, n \in Held(v) PROVE Kept(n)'
      <3>1. CASE n \in Held(v)'
        BY <3>1 DEF Kept
      <3>2. CASE n \notin Held(v)'
        <4>1. v = w
          BY <1>2, <2>3, <3>2
        <4>2. Receive(w)
          BY <1>1, <2>3, <3>2, <4>1 DEF Moves
        <4>3. pushed'[n] = pushed[n] + 1
          BY <1>0, <2>3, <4>1, <4>2 DEF Receive
        <4>4. pushed'[n] > 0
          BY <1>0, <4>3
        <4> QED BY <4>4 DEF Kept
      <3> QED BY <3>1, <3>2
    <2> QED BY <1>3, <2>1, <2>2, <2>3 DEF Kept
  <1>4. ASSUME NEW v \in Worker, pc'[v] \in {"process", "push"},
               NEW n \in Parsed, n \in Batch(v)'
        PROVE  n \in Elements(rest[v])' \/ Kept(n)'
    <2>1. CASE v # w
      BY <1>2, <1>3, <1>4, <2>1 DEF BatchKept, Elements
    <2>2. CASE v = w /\ pc[w] \in {"process", "push"} /\ rest' = rest /\ Batch(w)' = Batch(w)
      BY <1>3, <1>4, <2>2 DEF BatchKept, Elements
    <2>3. CASE v = w /\ Elements(rest[w])' = Batch(w)'
      BY <1>4, <2>3
    <2>4. ASSUME v = w, NEW k \in Metric, pc[w] = "process", Batch(w)' = Batch(w),
                 Ahead(w) = Ahead(w)' \union {k}, k \in Parsed => Held(w)' = Held(w) \union {k}
          PROVE  n \in Elements(rest[v])' \/ Kept(n)'
      <3>1. Ahead(w) = Elements(rest[w]) /\ Ahead(w)' = Elements(rest[w])'
        BY <1>4, <2>4 DEF Ahead
      <3>2. n \in Elements(rest[w]) \/ Kept(n)
        BY <1>4, <2>4 DEF BatchKept
      <3>3. n = k => Kept(n)'
        BY <2>4 DEF Kept
      <3> QED BY <1>3, <2>4, <3>1, <3>2, <3>3
    <2>5. v = w => \/ pc[w] \in {"process", "push"} /\ rest' = rest /\ Batch(w)' = Batch(w)
                  \/ Elements(rest[w])' = Batch(w)'
                  \/ \E k \in Metric :
                       /\ pc[w] = "process" /\ Batch(w)' = Batch(w)
                       /\ Ahead(w) = Ahead(w)' \union {k}
                       /\ k \in Parsed => Held(w)' = Held(w) \union {k}
      BY <1>1, <1>4 DEF Moves
    <2> QED BY <2>1, <2>2, <2>3, <2>4, <2>5
  <1>5. ASSUME NEW n \in Parsed, n <= cursor', n \notin pending'
        PROVE  Kept(n)'
    <2>1. CASE n > cursor
      <3>1. n \in (cursor + 1)..cursor'
        BY <1>0, <1>5, <2>1
      <3>2. cursor' # cursor
        BY <1>0, <1>5, <2>1
      <3>3. pending' = pending \union (cursor + 1)..cursor'
        BY <1>1, <3>2 DEF Moves
      <3> QED BY <1>5, <3>1, <3>3
    <2>2. CASE n <= cursor /\ n \notin pending
      BY <1>3, <2>2 DEF AcknowledgedIsKept, Kept
    <2>3. CASE n \in pending
      <3>1. n \in Batch(w) /\ pc[w] = "process" /\ rest[w] = <<>>
        BY <1>1, <1>5, <2>3 DEF Moves
      <3>2. Kept(n)
        BY <3>1, EmptyElements DEF BatchKept
      <3> QED BY <1>3, <3>2
    <2> QED BY <1>0, <2>1, <2>2, <2>3
  <1>6. AcknowledgedIsKept'
    BY <1>5 DEF AcknowledgedIsKept, Kept
  <1> QED BY <1>4, <1>6 DEF BatchKept

LEMMA StepGateway ==
    ASSUME TypeOK, OnePlace, GatewayInv, NEW w \in Worker, Steps(w)
    PROVE  GatewayInv'
  <1>0. /\ cursor \in Nat /\ cursor' \in Nat /\ pushed \in [Metric -> Nat]
        /\ Metric \subseteq Nat /\ 1..cursor' \subseteq Metric /\ 1..cursor \subseteq Metric
    <2>1. TypeOK'
      BY StepTypes
    <2>2. /\ produced \in 0..MaxMetric /\ produced' \in 0..MaxMetric
          /\ pushed \in [Metric -> Nat]
          /\ cursor \in 0..produced /\ cursor' \in 0..produced'
      BY <2>1 DEF TypeOK
    <2>3. /\ cursor \in Nat /\ cursor <= MaxMetric
          /\ cursor' \in Nat /\ cursor' <= MaxMetric
      BY <2>2, MetricsWorkerAssumption
    <2>4. /\ 1..cursor \subseteq Metric /\ 1..cursor' \subseteq Metric
          /\ Metric \subseteq Nat
      BY <2>3, MetricsWorkerAssumption DEF Metric
    <2> QED BY <2>2, <2>3, <2>4
  <1>1. Moves(w)
    BY StepMoves
  <1>2. /\ \A v \in Worker : v # w => Ahead(v)' = Ahead(v) /\ Held(v)' = Held(v)
        /\ OnePlace'
    BY OtherThreads, StepOnePlace
  <1>3. cursor <= cursor'
    BY <1>0, <1>1 DEF Moves
  <1>4. \A n \in Metric : \/ pushed'[n] = pushed[n]
                          \/ n \in Held(w) /\ Receive(w) /\ pushed'[n] = pushed[n] + 1
    BY <1>0, <1>1 DEF Moves, Receive
  <1>5. \A n \in Metric : n > cursor' => pushed'[n] = 0
    BY <1>0, <1>3, <1>4 DEF GatewayInv, OnePlace
  <1>6. ASSUME NEW v \in Worker, NEW n \in Ahead(v)' PROVE pushed'[n] = 0
    <2>1. n \in Ahead(v) \/ n > cursor
      BY <1>0, <1>1, <1>2, <1>6 DEF Moves
    <2>2. n \in Metric /\ pushed[n] = 0
      BY <1>0, <1>2, <1>6, <2>1 DEF GatewayInv, OnePlace
    <2>3. n \notin Held(w)
      BY <1>0, <2>1 DEF OnePlace
    <2> QED BY <1>4, <2>2, <2>3
  <1>7. ASSUME NEW v \in Worker, NEW n \in Held(v)', pushed'[n] > 0 PROVE n \in unanswered'
    <2>1. n \in Metric /\ unanswered \subseteq unanswered'
      BY <1>0, <1>1, <1>2, <1>7 DEF OnePlace, Moves
    <2>2. CASE n \in Held(v)
      <3>1. CASE pushed'[n] = pushed[n]
        BY <1>7, <2>1, <2>2, <3>1 DEF GatewayInv
      <3>2. CASE n \in Held(w) /\ Receive(w) /\ pushed'[n] = pushed[n] + 1
        <4>1. pushed' # pushed
          BY <1>0, <2>1, <3>2
        <4>2. v = w
          BY <2>2, <3>2 DEF OnePlace
        <4> QED BY <1>1, <1>7, <2>2, <4>1, <4>2 DEF Moves
      <3> QED BY <1>4, <2>1, <3>1, <3>2
    <2>3. CASE n \notin Held(v)
      <3>1. v = w /\ n \in Ahead(w) /\ pushed' = pushed
        BY <1>1, <1>2, <1>7, <2>3 DEF Moves
      <3> QED BY <1>0, <1>7, <3>1 DEF GatewayInv
    <2> QED BY <2>2, <2>3
  <1>8. ASSUME NEW n \in Metric, pushed'[n] > 1 PROVE n \in unanswered'
    <2>0. unanswered \subseteq unanswered'
      BY <1>1 DEF Moves
    <2>1. CASE pushed'[n] = pushed[n]
      BY <1>8, <2>0, <2>1 DEF GatewayInv, SentAgainUnanswered
    <2>2. CASE n \in Held(w) /\ pushed'[n] = pushed[n] + 1
      <3>1. pushed[n] > 0
        BY <1>0, <1>8, <2>2
      <3> QED BY <2>0, <2>2, <3>1 DEF GatewayInv
    <2> QED BY <1>4, <2>1, <2>2
  <1> QED BY <1>5, <1>6, <1>7, <1>8 DEF GatewayInv, SentAgainUnanswered
-----------------------------------------------------------------------------
(* The theorems *)

LEMMA WorldInv ==
    ASSUME IInv, Produce \/ Restart
    PROVE  IInv'
  <1> USE DEF IInv
  <1>0. TypeOK' /\ pushed' = pushed /\ unanswered' = unanswered /\ cursor' = cursor
        /\ pending' = pending
    BY WorldTypes DEF Produce, Restart, redis, record
  <1>1. CASE Produce
    <2>1. \A w \in Worker : Ahead(w)' = Ahead(w) /\ Held(w)' = Held(w) /\ Batch(w)' = Batch(w)
      BY <1>1 DEF Produce, thread, Ahead, Held, Batch
    <2>2. AcknowledgedIsKept' /\ BatchKept'
      BY <1>0, <1>1, <2>1
         DEF Produce, thread, record, AcknowledgedIsKept, BatchKept, Kept
    <2>3. OnePlace' /\ GatewayInv'
      BY <1>0, <1>1, <2>1 DEF Produce, thread, OnePlace, GatewayInv, SentAgainUnanswered
    <2> QED BY <1>0, <2>2, <2>3
  <1>2. CASE Restart
    <2>1. \A w \in Worker : Ahead(w)' = {} /\ Held(w)' = {} /\ pc'[w] = "read"
      BY <1>2, EmptyElements DEF Restart, Ahead, Held, Elements
    <2>2. AcknowledgedIsKept' /\ BatchKept'
      <3>1. \A w \in Worker : Held(w) \subseteq lost'
        BY <1>2 DEF Restart
      <3>2. lost \subseteq lost'
        BY <1>2 DEF Restart
      <3> QED BY <1>0, <2>1, <3>1, <3>2 DEF AcknowledgedIsKept, BatchKept
    <2>3. OnePlace' /\ GatewayInv'
      BY <1>0, <2>1 DEF OnePlace, GatewayInv, SentAgainUnanswered
    <2> QED BY <1>0, <2>2, <2>3
  <1> QED BY <1>1, <1>2

LEMMA NextIInv == IInv /\ [Next]_vars => IInv'
  <1> SUFFICES ASSUME IInv, [Next]_vars PROVE IInv'
    OBVIOUS
  <1>1. ASSUME NEW w \in Worker, Steps(w) PROVE IInv'
    BY <1>1, StepTypes, StepOnePlace, StepKept, StepGateway DEF IInv
  <1>2. CASE UNCHANGED vars
    <2>1. TypeOK'
      BY <1>2 DEF vars, IInv, TypeOK
    <2>2. \A w \in Worker : /\ Ahead(w)' = Ahead(w) /\ Held(w)' = Held(w)
                            /\ Batch(w)' = Batch(w)
      BY <1>2 DEF vars, Ahead, Held, Batch, Elements
    <2>3. AcknowledgedIsKept'
      BY <1>2, <2>2 DEF vars, IInv, AcknowledgedIsKept
    <2>4. BatchKept'
      BY <1>2, <2>2 DEF vars, IInv, BatchKept, Kept
    <2>5. OnePlace'
      BY <1>2, <2>2 DEF vars, IInv, OnePlace, Increasing
    <2>6. GatewayInv'
      BY <1>2, <2>2 DEF vars, IInv, GatewayInv, SentAgainUnanswered
    <2> QED BY <2>1, <2>3, <2>4, <2>5, <2>6 DEF IInv
  <1> QED BY <1>1, <1>2, WorldInv, NextSteps

LEMMA Invariance == Spec => []IInv
  BY InitIInv, NextIInv, PTL DEF Spec

\* Threads work on entries that the group delivered, buffers hold parsed metrics, and
\* what is pending was delivered (consume_messages).
THEOREM TypeCorrect == Spec => []TypeOK
  BY Invariance, PTL DEF IInv

\* However many threads, faults and restarts: what is acknowledged is pushed, or in a
\* buffer, or lost with the process that had it there (process_message_batch).
THEOREM AcknowledgedKept == Spec => []AcknowledgedIsKept
  BY Invariance, PTL DEF IInv

\* Nothing but a missing answer sends a metric to the gateway again (_push_metrics).
THEOREM SentOnce == Spec => []SentAgainUnanswered
  BY Invariance, PTL DEF IInv, GatewayInv
=============================================================================
