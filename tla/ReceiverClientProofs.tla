------------------------ MODULE ReceiverClientProofs ------------------------
(***************************************************************************)
(* Proofs about ReceiverClient, for any number of tasks, retries and       *)
(* operations.                                                             *)
(***************************************************************************)
EXTENDS ReceiverClient, TLAPS

InQueue(q, t) == \E i \in 1..Len(q) : q[i] = t

\* Who holds the lock, and who waits for it, is told by where the tasks are.
LockInv ==
    /\ lock = NoTask => waiters = <<>>
    /\ \A t \in Task : pc[t] \in {"login", "refresh", "closing"} => lock = t \/ Queued(t)
    /\ \A t \in Task : Queued(t) => pc[t] \in {"login", "refresh"}
    /\ lock # NoTask => pc[lock] \in {"login", "refresh", "closing", "connecting"}

\* A fallback under way has made a REST client, whichever task began it.
ClientInv ==
    /\ CurrentToken
    /\ FallbackHasClient
    /\ \A t \in Task : pc[t] = "connecting" => rest # "none"

\* The operation's present attempt has not been stored yet.
Unsent(t) ==
    \/ pc[t] \in {"login", "refresh", "closing", "posting"}
    \/ pc[t] = "connecting" /\ lock = t

\* The task is between two attempts.
Retrying(t) ==
    \/ pc[t] = "sleeping"
    \/ pc[t] = "connecting" /\ lock # t

\* A task that backs off, or falls back between two attempts, has one left.
RetryInv ==
    /\ \A t \in Task : stored[t] <= attempt[t]
    /\ \A t \in Task : Unsent(t) => stored[t] < attempt[t]
    /\ \A t \in Task : Retrying(t) => attempt[t] < MaxRetries

IInv == TypeOK /\ LockInv /\ ClientInv /\ RetryInv

\* What another task sees of a step of t.
Others(t) ==
    \A u \in Task : u # t =>
        /\ pc'[u] = pc[u]
        /\ pc[u] = "connecting" => (lock' = u <=> lock = u)

TaskTypes ==
    /\ lock \in Task \union {NoTask}
    /\ waiters \in Seq(Task)
    /\ pc \in [Task -> Await]
    /\ result \in [Task -> Result]
-----------------------------------------------------------------------------
(* The queue of the lock *)

LEMMA AppendInQueue ==
    ASSUME NEW S, NEW q \in Seq(S), NEW x \in S, NEW t
    PROVE  InQueue(Append(q, x), t) <=> InQueue(q, t) \/ t = x
<1>1. /\ Len(Append(q, x)) = Len(q) + 1
      /\ Len(q) \in Nat
      /\ \A i \in 1..Len(q) : Append(q, x)[i] = q[i]
      /\ Append(q, x)[Len(q) + 1] = x
  OBVIOUS
<1>2. InQueue(Append(q, x), t) => InQueue(q, t) \/ t = x
  BY <1>1 DEF InQueue
<1>3. InQueue(q, t) => InQueue(Append(q, x), t)
  BY <1>1 DEF InQueue
<1>4. t = x => InQueue(Append(q, x), t)
  BY <1>1 DEF InQueue
<1>. QED BY <1>2, <1>3, <1>4

LEMMA TailInQueue ==
    ASSUME NEW S, NEW q \in Seq(S), q # <<>>
    PROVE  /\ Head(q) \in S
           /\ Tail(q) \in Seq(S)
           /\ InQueue(q, Head(q))
           /\ \A t : InQueue(q, t) <=> t = Head(q) \/ InQueue(Tail(q), t)
<1>1. /\ Len(q) \in Nat \ {0}
      /\ Head(q) = q[1]
      /\ Head(q) \in S
      /\ Tail(q) \in Seq(S)
      /\ Len(Tail(q)) = Len(q) - 1
      /\ \A i \in 1..(Len(q) - 1) : Tail(q)[i] = q[i + 1]
  OBVIOUS
<1>2. InQueue(q, Head(q))
  BY <1>1 DEF InQueue
<1>3. ASSUME NEW t, InQueue(Tail(q), t)
      PROVE  InQueue(q, t)
  <2>1. PICK i \in 1..(Len(q) - 1) : q[i + 1] = t
    BY <1>1, <1>3 DEF InQueue
  <2>2. i + 1 \in 1..Len(q)
    BY <1>1
  <2>. QED BY <2>1, <2>2 DEF InQueue
<1>4. ASSUME NEW t, InQueue(q, t), t # Head(q)
      PROVE  InQueue(Tail(q), t)
  <2>1. PICK i \in 1..Len(q) : q[i] = t
    BY <1>4 DEF InQueue
  <2>2. i - 1 \in 1..(Len(q) - 1)
    BY <1>1, <1>4, <2>1
  <2>3. Tail(q)[i - 1] = q[(i - 1) + 1]
    BY <1>1, <2>2
  <2>4. (i - 1) + 1 = i
    OBVIOUS
  <2>. QED BY <1>1, <2>1, <2>2, <2>3, <2>4 DEF InQueue
<1>. QED BY <1>1, <1>2, <1>3, <1>4

LEMMA AcquireEffect ==
    ASSUME TaskTypes, LockInv, NEW t \in Task, Acquire(t)
    PROVE  /\ lock' \in Task
           /\ waiters' \in Seq(Task)
           /\ lock' = IF lock = NoTask THEN t ELSE lock
           /\ \A u \in Task : Queued(u)' <=> Queued(u) \/ (lock # NoTask /\ u = t)
<1>1. CASE lock = NoTask
  BY <1>1 DEF Acquire, TaskTypes, Queued
<1>2. CASE lock # NoTask
  <2>1. waiters' = Append(waiters, t) /\ lock' = lock
    BY <1>2 DEF Acquire
  <2>2. waiters' \in Seq(Task) /\ lock' \in Task
    BY <1>2, <2>1 DEF TaskTypes
  <2>3. \A u \in Task : InQueue(waiters', u) <=> InQueue(waiters, u) \/ u = t
    BY <2>1, AppendInQueue DEF TaskTypes
  <2>. QED BY <1>2, <2>1, <2>2, <2>3 DEF InQueue, Queued
<1>. QED BY <1>1, <1>2

LEMMA ReleaseEffect ==
    ASSUME TaskTypes, Release
    PROVE  /\ lock' \in Task \union {NoTask}
           /\ waiters' \in Seq(Task)
           /\ lock' = NoTask => waiters' = <<>>
           /\ lock' # NoTask => lock' \in Task /\ Queued(lock')
           /\ \A u \in Task : Queued(u)' => Queued(u)
           /\ \A u \in Task : Queued(u) => lock' = u \/ Queued(u)'
<1>1. CASE waiters = <<>>
  BY <1>1 DEF Release, TaskTypes, Queued
<1>2. CASE waiters # <<>>
  <2>1. lock' = Head(waiters) /\ waiters' = Tail(waiters)
    BY <1>2 DEF Release
  <2>2. /\ lock' \in Task
        /\ waiters' \in Seq(Task)
        /\ InQueue(waiters, lock')
        /\ \A u : InQueue(waiters, u) <=> u = lock' \/ InQueue(waiters', u)
    BY <1>2, <2>1, TailInQueue DEF TaskTypes
  <2>. QED BY <2>2, ReceiverClientAssumption DEF InQueue, Queued
<1>. QED BY <1>1, <1>2
-----------------------------------------------------------------------------
(* A step of a task that keeps, takes or passes on the lock *)

LEMMA LockKept ==
    ASSUME TaskTypes, LockInv, NEW t \in Task, NEW where \in Await,
           UNCHANGED <<lock, waiters>>,
           pc' = [pc EXCEPT ![t] = where],
           lock = t => where \in {"login", "refresh", "closing", "connecting"},
           Queued(t) => where \in {"login", "refresh"},
           where \in {"login", "refresh", "closing"} => lock = t \/ Queued(t)
    PROVE  LockInv' /\ Others(t)
  BY DEF LockInv, Others, TaskTypes, Queued

LEMMA LockTaken ==
    ASSUME TaskTypes, LockInv, NEW t \in Task, NEW where \in {"login", "refresh"},
           Acquire(t),
           pc' = [pc EXCEPT ![t] = where],
           pc[t] # "connecting" \/ lock # t
    PROVE  LockInv' /\ Others(t)
<1>1. /\ lock' \in Task
      /\ waiters' \in Seq(Task)
      /\ lock' = IF lock = NoTask THEN t ELSE lock
      /\ \A u \in Task : Queued(u)' <=> Queued(u) \/ (lock # NoTask /\ u = t)
  BY AcquireEffect
<1>2. /\ pc'[t] = where
      /\ \A u \in Task : u # t => pc'[u] = pc[u]
  BY DEF TaskTypes
<1>3. LockInv'
  BY <1>1, <1>2, ReceiverClientAssumption DEF LockInv, TaskTypes
<1>. QED BY <1>1, <1>2, <1>3, ReceiverClientAssumption DEF LockInv, Others

LEMMA LockPassedOn ==
    ASSUME TaskTypes, LockInv, NEW t \in Task,
           NEW where \in {"idle", "posting", "sleeping"},
           Release, lock = t, ~Queued(t),
           pc' = [pc EXCEPT ![t] = where]
    PROVE  LockInv' /\ Others(t)
<1>1. /\ lock' \in Task \union {NoTask}
      /\ waiters' \in Seq(Task)
      /\ lock' = NoTask => waiters' = <<>>
      /\ lock' # NoTask => lock' \in Task /\ Queued(lock')
      /\ \A u \in Task : Queued(u)' => Queued(u)
      /\ \A u \in Task : Queued(u) => lock' = u \/ Queued(u)'
  BY ReleaseEffect
<1>2. /\ pc'[t] = where
      /\ \A u \in Task : u # t => pc'[u] = pc[u]
  BY DEF TaskTypes
<1>3. LockInv'
  BY <1>1, <1>2 DEF LockInv
<1>4. ASSUME NEW u \in Task, u # t, pc[u] = "connecting"
      PROVE  lock' # u
  <2>1. ~Queued(u)
    BY <1>4 DEF LockInv
  <2>2. u # NoTask
    BY ReceiverClientAssumption
  <2>. QED BY <1>1, <2>1, <2>2
<1>. QED BY <1>2, <1>3, <1>4 DEF Others
-----------------------------------------------------------------------------
(* The pieces of a task's run *)

LEMMA PerformEffect ==
    ASSUME TaskTypes, NEW t \in Task, NEW useGrpc, NEW g, NEW r, Perform(t, useGrpc, g, r)
    PROVE  /\ \E where \in {"idle", "posting"} : pc' = [pc EXCEPT ![t] = where]
           /\ pc' \in [Task -> Await]
           /\ result' \in [Task -> Result]
           /\ pc'[t] \in {"idle", "posting"}
<1>1. CASE Goto(t, "posting")
  BY <1>1 DEF Goto, TaskTypes, Await
<1>2. ASSUME NEW how \in Result, Return(t, how)
      PROVE  /\ pc' = [pc EXCEPT ![t] = "idle"]
             /\ pc' \in [Task -> Await]
             /\ result' \in [Task -> Result]
             /\ pc'[t] = "idle"
  BY <1>2 DEF Return, TaskTypes, Await
<1>3. {"ok", "broken"} \subseteq Result
  BY DEF Result
<1>4. Goto(t, "posting") \/ Return(t, "ok") \/ Return(t, "broken")
  BY DEF Perform
<1>5. CASE Return(t, "ok")
  BY <1>2, <1>3, <1>5
<1>6. CASE Return(t, "broken")
  BY <1>2, <1>3, <1>6
<1>7. CASE Goto(t, "posting")
  BY <1>1, <1>7 DEF Goto
<1>. QED BY <1>4, <1>5, <1>6, <1>7

LEMMA AttemptEffect ==
    ASSUME TaskTypes, LockInv, NEW t \in Task, NEW useGrpc, NEW g, NEW r,
           lock # t, ~Queued(t), Attempt(t, useGrpc, g, r)
    PROVE  /\ LockInv' /\ Others(t) /\ TaskTypes'
           /\ pc'[t] \in {"login", "refresh", "idle", "posting"}
<1>1. ASSUME NEW where \in {"login", "refresh"}, Goto(t, where), Acquire(t)
      PROVE  /\ LockInv' /\ Others(t) /\ TaskTypes'
             /\ pc'[t] \in {"login", "refresh", "idle", "posting"}
  <2>1. /\ pc' = [pc EXCEPT ![t] = where]
        /\ pc' \in [Task -> Await]
        /\ pc'[t] = where
        /\ result' = result
    BY <1>1 DEF Goto, TaskTypes, Await
  <2>2. LockInv' /\ Others(t)
    BY <1>1, <2>1, LockTaken
  <2>3. lock' \in Task /\ waiters' \in Seq(Task)
    BY <1>1, AcquireEffect
  <2>. QED BY <2>1, <2>2, <2>3 DEF TaskTypes
<1>2. CASE Perform(t, useGrpc, g, r) /\ UNCHANGED <<lock, waiters>>
  <2>1. PICK where \in {"idle", "posting"} : pc' = [pc EXCEPT ![t] = where]
    BY <1>2, PerformEffect
  <2>2. LockInv' /\ Others(t)
    BY <1>2, <2>1, LockKept DEF Await
  <2>. QED BY <1>2, <2>2, PerformEffect DEF TaskTypes
<1>. QED BY <1>1, <1>2 DEF Attempt

LEMMA ConnectEffect ==
    ASSUME TaskTypes, LockInv, NEW t \in Task, NEW old \in SUBSET {"grpc", "rest"},
           lock = t, ~Queued(t), Connect(t, old),
           grpc \in Connection, rest \in Connection,
           rest = "open" => "rest" \notin old
    PROVE  /\ LockInv' /\ Others(t) /\ TaskTypes'
           /\ pc'[t] \in {"idle", "posting", "connecting"}
           /\ pc'[t] = "connecting" => lock' = t /\ rest' # "none"
           /\ CurrentToken'
           /\ use_grpc' = TRUE \/ use_grpc' = use_grpc
           /\ rest # "none" => rest' # "none"
           /\ grpc' \in Connection /\ rest' \in Connection
           /\ outdated' \subseteq {"grpc", "rest"}
<1>1. CASE /\ grpc' = "open"
           /\ use_grpc' = TRUE
           /\ outdated' = old \ {"grpc"}
           /\ UNCHANGED rest
           /\ Release
           /\ Perform(t, TRUE, "open", rest)
  <2>1. PICK where \in {"idle", "posting"} : pc' = [pc EXCEPT ![t] = where]
    BY <1>1, PerformEffect
  <2>2. LockInv' /\ Others(t)
    BY <1>1, <2>1, LockPassedOn
  <2>3. /\ pc' \in [Task -> Await]
        /\ result' \in [Task -> Result]
        /\ pc'[t] \in {"idle", "posting"}
    BY <1>1, PerformEffect
  <2>4. lock' \in Task \union {NoTask} /\ waiters' \in Seq(Task)
    BY <1>1, ReleaseEffect
  <2>5. CurrentToken'
    BY <1>1 DEF CurrentToken
  <2>. QED BY <1>1, <2>2, <2>3, <2>4, <2>5 DEF TaskTypes, Connection
<1>2. CASE /\ grpc' = "closed"
           /\ rest' = "open"
           /\ outdated' = old \ {"grpc", "rest"}
           /\ Goto(t, "connecting")
           /\ UNCHANGED <<lock, waiters, use_grpc>>
  <2>1. /\ pc' = [pc EXCEPT ![t] = "connecting"]
        /\ pc' \in [Task -> Await]
        /\ result' = result
        /\ pc'[t] = "connecting"
    BY <1>2 DEF Goto, TaskTypes, Await
  <2>2. LockInv' /\ Others(t)
    BY <1>2, <2>1, LockKept DEF Await
  <2>3. CurrentToken'
    BY <1>2 DEF CurrentToken
  <2>. QED BY <1>2, <2>1, <2>2, <2>3 DEF TaskTypes, Connection
<1>. QED BY <1>1, <1>2 DEF Connect

LEMMA InitializeClientsEffect ==
    ASSUME TaskTypes, LockInv, NEW t \in Task,
           lock = t, ~Queued(t), InitializeClients(t),
           grpc \in Connection, rest \in Connection
    PROVE  /\ LockInv' /\ Others(t) /\ TaskTypes'
           /\ pc'[t] \in {"idle", "posting", "connecting", "closing"}
           /\ pc'[t] = "connecting" => lock' = t /\ rest' # "none"
           /\ CurrentToken'
           /\ use_grpc' = TRUE \/ use_grpc' = use_grpc
           /\ rest # "none" => rest' # "none"
           /\ grpc' \in Connection /\ rest' \in Connection
           /\ outdated' \subseteq {"grpc", "rest"}
<1>1. CASE rest # "open" /\ Connect(t, {"grpc", "rest"})
  <2>1. {"grpc", "rest"} \in SUBSET {"grpc", "rest"}
    OBVIOUS
  <2>. QED BY <1>1, <2>1, ConnectEffect
<1>2. CASE /\ rest = "open"
           /\ grpc' = IF grpc = "none" THEN "none" ELSE "closed"
           /\ rest' = "closed"
           /\ outdated' = {"grpc", "rest"}
           /\ Goto(t, "closing")
           /\ UNCHANGED <<lock, waiters, use_grpc>>
  <2>1. /\ pc' = [pc EXCEPT ![t] = "closing"]
        /\ pc' \in [Task -> Await]
        /\ result' = result
        /\ pc'[t] = "closing"
    BY <1>2 DEF Goto, TaskTypes, Await
  <2>2. LockInv' /\ Others(t)
    BY <1>2, <2>1, LockKept DEF Await
  <2>3. CurrentToken'
    BY <1>2 DEF CurrentToken
  <2>. QED BY <1>2, <2>1, <2>2, <2>3 DEF TaskTypes, Connection
<1>. QED BY <1>1, <1>2 DEF InitializeClients
-----------------------------------------------------------------------------
(* The invariant *)

\* What a step of t does to the counters of the retry loops.
Counts(t, a, s) ==
    /\ a \in 0..MaxRetries /\ attempt' = [attempt EXCEPT ![t] = a]
    /\ s \in Nat /\ stored' = [stored EXCEPT ![t] = s]
    /\ s <= a
    /\ s < a \/ ~Unsent(t)'
    /\ a < MaxRetries \/ ~Retrying(t)'

LEMMA RetryStep ==
    ASSUME TypeOK, RetryInv, NEW t \in Task, Others(t), NEW a, NEW s, Counts(t, a, s)
    PROVE  /\ RetryInv'
           /\ attempt' \in [Task -> 0..MaxRetries]
           /\ stored' \in [Task -> 0..MaxRetries]
<1>. USE DEF Counts
<1>1. /\ attempt' \in [Task -> 0..MaxRetries]
      /\ stored' \in [Task -> Nat]
      /\ attempt'[t] = a /\ stored'[t] = s
      /\ \A u \in Task : u # t => attempt'[u] = attempt[u] /\ stored'[u] = stored[u]
  BY ReceiverClientAssumption DEF TypeOK
<1>2. ASSUME NEW u \in Task
      PROVE  /\ stored'[u] <= attempt'[u]
             /\ Unsent(u)' => stored'[u] < attempt'[u]
             /\ Retrying(u)' => attempt'[u] < MaxRetries
  <2>1. CASE u = t
    BY <1>1, <2>1 DEF Unsent, Retrying
  <2>2. CASE u # t
    BY <1>1, <2>2 DEF RetryInv, Unsent, Retrying, Others
  <2>. QED BY <2>1, <2>2
<1>3. RetryInv'
  BY <1>2 DEF RetryInv
<1>4. stored' \in [Task -> 0..MaxRetries]
  <2>1. \A u \in Task : stored'[u] \in Nat /\ stored'[u] <= attempt'[u] /\ attempt'[u] \in 0..MaxRetries
    BY <1>1, <1>2
  <2>2. \A u \in Task : stored'[u] \in 0..MaxRetries
    BY <2>1, ReceiverClientAssumption
  <2>. QED BY <1>1, <2>2
<1>. QED BY <1>1, <1>3, <1>4

LEMMA ClientStep ==
    ASSUME ClientInv, NEW t \in Task, Others(t),
           CurrentToken',
           use_grpc' = TRUE \/ use_grpc' = use_grpc,
           rest # "none" => rest' # "none",
           pc'[t] = "connecting" => rest' # "none"
    PROVE  ClientInv'
  BY DEF ClientInv, FallbackHasClient, Others

LEMMA SameConnections ==
    ASSUME ClientInv, UNCHANGED <<grpc, rest, outdated>>
    PROVE  CurrentToken'
  BY DEF ClientInv, CurrentToken

\* Only a task that holds the lock, or queues for it, awaits an answer.
LEMMA HolderOrWaiter ==
    ASSUME TypeOK, LockInv, NEW t \in Task
    PROVE  /\ Holds(t) => lock = t /\ ~Queued(t)
           /\ pc[t] \in {"idle", "posting", "sleeping"} => lock # t /\ ~Queued(t)
           /\ pc[t] = "connecting" => ~Queued(t)
           /\ pc[t] = "closing" => lock = t /\ ~Queued(t)
  BY ReceiverClientAssumption DEF Holds, LockInv, TypeOK

LEMMA InitInv == Init => IInv
<1>. SUFFICES ASSUME Init PROVE IInv
  OBVIOUS
<1>1. TypeOK
  <2>1. <<>> \in Seq(Task) /\ 0 \in 0..MaxRetries /\ 0 \in 0..MaxOps
    BY ReceiverClientAssumption
  <2>2. pc \in [Task -> Await] /\ result \in [Task -> Result] /\ op \in [Task -> {"submit", "health"}]
    BY DEF Init, Await, Result
  <2>3. attempt \in [Task -> 0..MaxRetries] /\ stored \in [Task -> 0..MaxRetries]
    BY <2>1 DEF Init
  <2>. QED BY <2>1, <2>2, <2>3 DEF Init, TypeOK, Connection
<1>2. LockInv
  BY <1>1, ReceiverClientAssumption DEF Init, LockInv, Queued, TypeOK
<1>3. ClientInv
  BY DEF Init, ClientInv, CurrentToken, FallbackHasClient
<1>4. RetryInv
  BY DEF Init, RetryInv, Unsent, Retrying
<1>. QED BY <1>1, <1>2, <1>3, <1>4 DEF IInv

LEMMA NextInv ==
    ASSUME IInv, [Next]_vars
    PROVE  IInv'
<1>. USE DEF IInv
<1>0. TaskTypes /\ grpc \in Connection /\ rest \in Connection
  BY DEF TypeOK, TaskTypes
<1>1. ASSUME NEW t \in Task, NEW what \in {"submit", "health"}, Call(t, what)
      PROVE  IInv'
  <2>1. lock # t /\ ~Queued(t)
    BY <1>1, HolderOrWaiter DEF Call
  <2>2. /\ LockInv' /\ Others(t) /\ TaskTypes'
        /\ pc'[t] \in {"login", "refresh", "idle", "posting"}
    BY <1>0, <1>1, <2>1, AttemptEffect DEF Call
  <2>3. /\ RetryInv'
        /\ attempt' \in [Task -> 0..MaxRetries]
        /\ stored' \in [Task -> 0..MaxRetries]
    <3>1. 1 \in 0..MaxRetries
      BY ReceiverClientAssumption
    <3>2. ~Retrying(t)'
      BY <2>2 DEF Retrying
    <3>3. /\ attempt' = [attempt EXCEPT ![t] = 1]
          /\ stored' = [stored EXCEPT ![t] = 0]
      BY <1>1 DEF Call
    <3>4. Counts(t, 1, 0)
      BY <2>2, <3>1, <3>2, <3>3 DEF Counts, Unsent
    <3>. QED BY <2>2, <3>4, RetryStep
  <2>4. ClientInv'
    BY <1>1, <2>2, SameConnections, ClientStep DEF Call
  <2>5. TypeOK'
    BY <1>1, <2>2, <2>3, ReceiverClientAssumption DEF TypeOK, TaskTypes, Call
  <2>. QED BY <2>2, <2>3, <2>4, <2>5
<1>2. ASSUME NEW t \in Task, LoginAccepted(t) \/ RefreshAccepted(t)
      PROVE  IInv'
  <2>0. lock = t /\ ~Queued(t)
    BY <1>2, HolderOrWaiter DEF LoginAccepted, RefreshAccepted
  <2>1. InitializeClients(t)
    BY <1>2 DEF LoginAccepted, RefreshAccepted
  <2>2. /\ LockInv' /\ Others(t) /\ TaskTypes'
        /\ pc'[t] \in {"idle", "posting", "connecting", "closing"}
        /\ pc'[t] = "connecting" => lock' = t /\ rest' # "none"
        /\ CurrentToken'
        /\ use_grpc' = TRUE \/ use_grpc' = use_grpc
        /\ rest # "none" => rest' # "none"
        /\ grpc' \in Connection /\ rest' \in Connection
        /\ outdated' \subseteq {"grpc", "rest"}
    BY <1>0, <2>0, <2>1, InitializeClientsEffect
  <2>3. /\ RetryInv'
        /\ attempt' \in [Task -> 0..MaxRetries]
        /\ stored' \in [Task -> 0..MaxRetries]
    <3>1. /\ attempt' = [attempt EXCEPT ![t] = attempt[t]]
          /\ stored' = [stored EXCEPT ![t] = stored[t]]
          /\ attempt[t] \in 0..MaxRetries
          /\ stored[t] \in Nat
      BY <1>2 DEF LoginAccepted, RefreshAccepted, TypeOK
    <3>2. stored[t] < attempt[t]
      BY <1>2 DEF LoginAccepted, RefreshAccepted, RetryInv, Unsent
    <3>3. ~Retrying(t)'
      BY <2>2 DEF Retrying
    <3>4. Counts(t, attempt[t], stored[t])
      BY <2>2, <3>1, <3>2, <3>3 DEF Counts, Unsent
    <3>. QED BY <2>2, <3>4, RetryStep
  <2>4. ClientInv'
    BY <2>2, ClientStep
  <2>5. TypeOK'
    BY <1>2, <2>2, <2>3 DEF TypeOK, TaskTypes, LoginAccepted, RefreshAccepted
  <2>. QED BY <2>2, <2>3, <2>4, <2>5
<1>3. ASSUME NEW t \in Task, LoginFails(t) \/ RefreshFails(t)
      PROVE  IInv'
  <2>0. lock = t /\ ~Queued(t)
    BY <1>3, HolderOrWaiter DEF LoginFails, RefreshFails
  <2>1. /\ Release
        /\ pc' = [pc EXCEPT ![t] = "idle"]
        /\ pc'[t] = "idle"
        /\ UNCHANGED <<token, authenticated, use_grpc, grpc, rest, outdated, op, attempt,
                       started, stored>>
    BY <1>0, <1>3 DEF LoginFails, RefreshFails, Return, TaskTypes
  <2>2. LockInv' /\ Others(t)
    BY <1>0, <2>0, <2>1, LockPassedOn
  <2>3. TaskTypes'
    <3>1. pc' \in [Task -> Await] /\ result' \in [Task -> Result]
      BY <1>0, <1>3 DEF LoginFails, RefreshFails, Return, TaskTypes, Await, Result
    <3>. QED BY <1>0, <2>1, <3>1, ReleaseEffect DEF TaskTypes
  <2>4. RetryInv'
    <3>1. /\ attempt' = [attempt EXCEPT ![t] = attempt[t]]
          /\ stored' = [stored EXCEPT ![t] = stored[t]]
          /\ attempt[t] \in 0..MaxRetries
          /\ stored[t] \in Nat
      BY <2>1 DEF TypeOK
    <3>2. stored[t] <= attempt[t]
      BY DEF RetryInv
    <3>3. ~Retrying(t)' /\ ~Unsent(t)'
      BY <2>1, <2>2 DEF Retrying, Unsent
    <3>4. Counts(t, attempt[t], stored[t])
      BY <3>1, <3>2, <3>3 DEF Counts
    <3>. QED BY <2>1, <2>2, <3>4, RetryStep
  <2>5. ClientInv'
    BY <2>1, <2>2, SameConnections, ClientStep
  <2>6. TypeOK'
    BY <2>1, <2>3 DEF TypeOK, TaskTypes
  <2>. QED BY <2>2, <2>4, <2>5, <2>6
<1>4. ASSUME NEW t \in Task, RefreshIsRejected(t)
      PROVE  IInv'
  <2>1. /\ Acquire(t)
        /\ pc' = [pc EXCEPT ![t] = "login"]
        /\ pc'[t] = "login"
        /\ pc[t] = "refresh"
        /\ UNCHANGED <<token, authenticated, use_grpc, grpc, rest, outdated, op, attempt,
                       started, stored, result>>
    BY <1>0, <1>4 DEF RefreshIsRejected, Goto, TaskTypes
  <2>2. LockInv' /\ Others(t)
    BY <1>0, <2>1, LockTaken
  <2>3. TaskTypes'
    <3>1. pc' \in [Task -> Await]
      BY <1>0, <2>1 DEF TaskTypes, Await
    <3>. QED BY <1>0, <2>1, <3>1, AcquireEffect DEF TaskTypes
  <2>4. RetryInv'
    <3>1. /\ attempt' = [attempt EXCEPT ![t] = attempt[t]]
          /\ stored' = [stored EXCEPT ![t] = stored[t]]
          /\ attempt[t] \in 0..MaxRetries
          /\ stored[t] \in Nat
      BY <2>1 DEF TypeOK
    <3>2. stored[t] < attempt[t]
      BY <2>1 DEF RetryInv, Unsent
    <3>3. ~Retrying(t)'
      BY <2>1, <2>2 DEF Retrying
    <3>4. Counts(t, attempt[t], stored[t])
      BY <3>1, <3>2, <3>3 DEF Counts
    <3>. QED BY <2>1, <2>2, <3>4, RetryStep
  <2>5. ClientInv'
    BY <2>1, <2>2, SameConnections, ClientStep
  <2>6. TypeOK'
    BY <2>1, <2>3 DEF TypeOK, TaskTypes
  <2>. QED BY <2>2, <2>4, <2>5, <2>6
<1>5. ASSUME NEW t \in Task, Closed(t)
      PROVE  IInv'
  <2>0. lock = t /\ ~Queued(t)
    BY <1>5, HolderOrWaiter DEF Closed
  <2>1. /\ Connect(t, outdated)
        /\ outdated \in SUBSET {"grpc", "rest"}
        /\ rest = "open" => "rest" \notin outdated
    BY <1>5 DEF Closed, TypeOK, ClientInv, CurrentToken
  <2>2. /\ LockInv' /\ Others(t) /\ TaskTypes'
        /\ pc'[t] \in {"idle", "posting", "connecting"}
        /\ pc'[t] = "connecting" => lock' = t /\ rest' # "none"
        /\ CurrentToken'
        /\ use_grpc' = TRUE \/ use_grpc' = use_grpc
        /\ rest # "none" => rest' # "none"
        /\ grpc' \in Connection /\ rest' \in Connection
        /\ outdated' \subseteq {"grpc", "rest"}
    BY <1>0, <2>0, <2>1, ConnectEffect
  <2>3. /\ RetryInv'
        /\ attempt' \in [Task -> 0..MaxRetries]
        /\ stored' \in [Task -> 0..MaxRetries]
    <3>1. /\ attempt' = [attempt EXCEPT ![t] = attempt[t]]
          /\ stored' = [stored EXCEPT ![t] = stored[t]]
          /\ attempt[t] \in 0..MaxRetries
          /\ stored[t] \in Nat
      BY <1>5 DEF Closed, TypeOK
    <3>2. stored[t] < attempt[t]
      BY <1>5 DEF Closed, RetryInv, Unsent
    <3>3. ~Retrying(t)'
      BY <2>2 DEF Retrying
    <3>4. Counts(t, attempt[t], stored[t])
      BY <2>2, <3>1, <3>2, <3>3 DEF Counts, Unsent
    <3>. QED BY <2>2, <3>4, RetryStep
  <2>4. ClientInv'
    BY <2>2, ClientStep
  <2>5. TypeOK'
    BY <1>5, <2>2, <2>3 DEF TypeOK, TaskTypes, Closed
  <2>. QED BY <2>2, <2>3, <2>4, <2>5
<1>6. ASSUME NEW t \in Task, FallenBack(t)
      PROVE  IInv'
  <2>0. lock = t /\ ~Queued(t)
    BY <1>6, HolderOrWaiter DEF FallenBack
  <2>1. /\ Release
        /\ Perform(t, FALSE, grpc, rest)
        /\ pc[t] = "connecting"
        /\ use_grpc' = FALSE
        /\ UNCHANGED <<token, authenticated, grpc, rest, outdated, op, attempt, started, stored>>
    BY <1>6 DEF FallenBack
  <2>2. PICK where \in {"idle", "posting"} : pc' = [pc EXCEPT ![t] = where]
    BY <1>0, <2>1, PerformEffect
  <2>3. LockInv' /\ Others(t)
    BY <1>0, <2>0, <2>1, <2>2, LockPassedOn
  <2>4. TaskTypes' /\ pc'[t] \in {"idle", "posting"}
    BY <1>0, <2>1, PerformEffect, ReleaseEffect DEF TaskTypes
  <2>5. RetryInv'
    <3>1. /\ attempt' = [attempt EXCEPT ![t] = attempt[t]]
          /\ stored' = [stored EXCEPT ![t] = stored[t]]
          /\ attempt[t] \in 0..MaxRetries
          /\ stored[t] \in Nat
      BY <2>1 DEF TypeOK
    <3>2. stored[t] < attempt[t]
      BY <2>0, <2>1 DEF RetryInv, Unsent
    <3>3. ~Retrying(t)'
      BY <2>3, <2>4 DEF Retrying
    <3>4. Counts(t, attempt[t], stored[t])
      BY <2>3, <2>4, <3>1, <3>2, <3>3 DEF Counts, Unsent
    <3>. QED BY <2>3, <2>4, <3>4, RetryStep
  <2>6. ClientInv'
    BY <2>1, <2>3, <2>4 DEF ClientInv, CurrentToken, FallbackHasClient, Others
  <2>7. TypeOK'
    BY <2>1, <2>4 DEF TypeOK, TaskTypes
  <2>. QED BY <2>3, <2>5, <2>6, <2>7
<1>7. ASSUME NEW t \in Task, FallenBackRetrying(t)
      PROVE  IInv'
  <2>0. lock # t /\ ~Queued(t)
    BY <1>7, HolderOrWaiter DEF FallenBackRetrying, Holds
  <2>1. /\ Attempt(t, FALSE, grpc, rest)
        /\ pc[t] = "connecting"
        /\ use_grpc' = FALSE
        /\ attempt' = [attempt EXCEPT ![t] = attempt[t] + 1]
        /\ UNCHANGED <<token, authenticated, grpc, rest, outdated, op, started, stored>>
    BY <1>7 DEF FallenBackRetrying
  <2>2. /\ LockInv' /\ Others(t) /\ TaskTypes'
        /\ pc'[t] \in {"login", "refresh", "idle", "posting"}
    BY <1>0, <2>0, <2>1, AttemptEffect
  <2>3. /\ RetryInv'
        /\ attempt' \in [Task -> 0..MaxRetries]
        /\ stored' \in [Task -> 0..MaxRetries]
    <3>1. /\ attempt[t] \in 0..MaxRetries /\ attempt[t] < MaxRetries
          /\ stored[t] \in Nat /\ stored[t] <= attempt[t]
          /\ stored' = [stored EXCEPT ![t] = stored[t]]
      BY <2>0, <2>1 DEF TypeOK, RetryInv, Retrying
    <3>2. attempt[t] + 1 \in 0..MaxRetries /\ stored[t] < attempt[t] + 1
      BY <3>1, ReceiverClientAssumption
    <3>3. ~Retrying(t)'
      BY <2>1, <2>2 DEF Retrying
    <3>4. attempt' = [attempt EXCEPT ![t] = attempt[t] + 1]
      BY <2>1
    <3>5. Counts(t, attempt[t] + 1, stored[t])
      BY <3>1, <3>2, <3>3, <3>4 DEF Counts
    <3>. QED BY <2>1, <2>2, <3>5, RetryStep
  <2>4. ClientInv'
    BY <2>1, <2>2 DEF ClientInv, CurrentToken, FallbackHasClient, Others
  <2>5. TypeOK'
    BY <2>1, <2>2, <2>3 DEF TypeOK, TaskTypes
  <2>. QED BY <2>2, <2>3, <2>4, <2>5
<1>8. ASSUME NEW t \in Task, PostSucceeds(t) \/ PostFails(t)
      PROVE  IInv'
  <2>0. lock # t /\ ~Queued(t) /\ pc[t] = "posting"
    BY <1>8, HolderOrWaiter DEF PostSucceeds, PostFails
  <2>1. /\ UNCHANGED <<lock, waiters, token, authenticated, use_grpc, grpc, rest, outdated,
                       op, attempt, started>>
        /\ stored' = stored \/ stored' = [stored EXCEPT ![t] = stored[t] + 1]
    BY <1>8 DEF PostSucceeds, PostFails, client, TypeOK
  <2>2. PICK where \in {"idle", "sleeping"} :
           /\ pc' = [pc EXCEPT ![t] = where]
           /\ pc' \in [Task -> Await] /\ result' \in [Task -> Result]
           /\ pc'[t] = where
           /\ where = "sleeping" => attempt[t] < MaxRetries
    BY <1>0, <1>8 DEF PostSucceeds, PostFails, Goto, Return, TaskTypes, Await, Result
  <2>3. LockInv' /\ Others(t)
    BY <1>0, <2>0, <2>1, <2>2, LockKept DEF Await
  <2>4. /\ RetryInv'
        /\ attempt' \in [Task -> 0..MaxRetries]
        /\ stored' \in [Task -> 0..MaxRetries]
    <3>1. /\ attempt' = [attempt EXCEPT ![t] = attempt[t]]
          /\ attempt[t] \in 0..MaxRetries
          /\ stored[t] \in Nat /\ stored[t] < attempt[t]
      BY <2>0, <2>1 DEF TypeOK, RetryInv, Unsent
    <3>2. PICK s \in {stored[t], stored[t] + 1} : stored' = [stored EXCEPT ![t] = s]
      BY <2>1 DEF TypeOK
    <3>3. s \in Nat /\ s <= attempt[t]
      BY <3>1, <3>2
    <3>4. ~Unsent(t)' /\ (attempt[t] < MaxRetries \/ ~Retrying(t)')
      BY <2>2, <2>3 DEF Unsent, Retrying
    <3>5. Counts(t, attempt[t], s)
      BY <3>1, <3>2, <3>3, <3>4 DEF Counts
    <3>. QED BY <2>2, <2>3, <3>5, RetryStep
  <2>5. ClientInv'
    BY <2>1, <2>2, <2>3, SameConnections, ClientStep
  <2>6. TypeOK'
    BY <2>1, <2>2, <2>4 DEF TypeOK
  <2>. QED BY <2>3, <2>4, <2>5, <2>6
<1>9. ASSUME NEW t \in Task, WakeUp(t)
      PROVE  IInv'
  <2>0. lock # t /\ ~Queued(t) /\ pc[t] = "sleeping"
    BY <1>9, HolderOrWaiter DEF WakeUp
  <2>1. /\ stored' = [stored EXCEPT ![t] = stored[t]]
        /\ attempt[t] \in 0..MaxRetries /\ attempt[t] < MaxRetries
        /\ stored[t] \in Nat /\ stored[t] <= attempt[t]
        /\ UNCHANGED <<token, authenticated, use_grpc, grpc, op, started, stored>>
    BY <1>9, <2>0 DEF WakeUp, TypeOK, RetryInv, Retrying
  <2>2. CASE /\ use_grpc /\ grpc # "none"
             /\ rest' = "open"
             /\ outdated' = outdated \ {"rest"}
             /\ Goto(t, "connecting")
             /\ UNCHANGED <<lock, waiters, attempt>>
    <3>1. /\ pc' = [pc EXCEPT ![t] = "connecting"]
          /\ pc' \in [Task -> Await]
          /\ result' = result
          /\ pc'[t] = "connecting"
      BY <1>0, <2>2 DEF Goto, TaskTypes, Await
    <3>2. LockInv' /\ Others(t)
      BY <1>0, <2>0, <2>2, <3>1, LockKept DEF Await
    <3>3. /\ RetryInv'
          /\ attempt' \in [Task -> 0..MaxRetries]
          /\ stored' \in [Task -> 0..MaxRetries]
      <4>1. attempt' = [attempt EXCEPT ![t] = attempt[t]]
        BY <2>2 DEF TypeOK
      <4>2. Counts(t, attempt[t], stored[t])
        BY <2>0, <2>1, <2>2, <3>1, <4>1 DEF Counts, Unsent
      <4>. QED BY <3>1, <3>2, <4>2, RetryStep
    <3>4. ClientInv'
      BY <2>1, <2>2, <3>1, <3>2 DEF ClientInv, CurrentToken, FallbackHasClient, Others
    <3>5. TypeOK'
      BY <2>1, <2>2, <3>1, <3>3 DEF TypeOK, Connection
    <3>. QED BY <3>2, <3>3, <3>4, <3>5
  <2>3. CASE /\ attempt' = [attempt EXCEPT ![t] = attempt[t] + 1]
             /\ Attempt(t, use_grpc, grpc, rest)
             /\ UNCHANGED <<rest, outdated>>
    <3>1. /\ LockInv' /\ Others(t) /\ TaskTypes'
          /\ pc'[t] \in {"login", "refresh", "idle", "posting"}
      BY <1>0, <2>0, <2>3, AttemptEffect
    <3>2. attempt[t] + 1 \in 0..MaxRetries /\ stored[t] < attempt[t] + 1
      BY <2>1, ReceiverClientAssumption
    <3>3. /\ RetryInv'
          /\ attempt' \in [Task -> 0..MaxRetries]
          /\ stored' \in [Task -> 0..MaxRetries]
      <4>1. ~Retrying(t)'
        BY <3>1 DEF Retrying
      <4>2. Counts(t, attempt[t] + 1, stored[t])
        BY <2>1, <2>3, <3>1, <3>2, <4>1, ReceiverClientAssumption DEF Counts, Retrying
      <4>. QED BY <3>1, <3>2, <4>2, RetryStep
    <3>4. ClientInv'
      BY <2>1, <2>3, <3>1, SameConnections, ClientStep
    <3>5. TypeOK'
      BY <2>1, <2>3, <3>1, <3>3 DEF TypeOK, TaskTypes
    <3>. QED BY <3>1, <3>3, <3>4, <3>5
  <2>. QED BY <1>9, <2>2, <2>3 DEF WakeUp
<1>10. ASSUME Expire
       PROVE  IInv'
  <2>1. TypeOK'
    BY <1>10 DEF Expire, tasks, TypeOK
  <2>. QED BY <1>10, <2>1 DEF Expire, tasks, LockInv, ClientInv, CurrentToken,
         FallbackHasClient, RetryInv, Unsent, Retrying, Queued
<1>11. ASSUME UNCHANGED vars
       PROVE  IInv'
  BY <1>11 DEF vars, TypeOK, LockInv, ClientInv, CurrentToken, FallbackHasClient, RetryInv,
       Unsent, Retrying, Queued
<1>. QED BY <1>1, <1>2, <1>3, <1>4, <1>5, <1>6, <1>7, <1>8, <1>9, <1>10, <1>11
       DEF Next, Resume
-----------------------------------------------------------------------------
(* Theorems *)

\* The inductive invariant holds in every reachable state.
THEOREM Correct == Spec => []IInv
<1>1. Init => IInv
  BY InitInv
<1>2. IInv /\ [Next]_vars => IInv'
  BY NextInv
<1>. QED BY <1>1, <1>2, PTL DEF Spec

\* Every variable of the client keeps its type, the attempts their bound.
THEOREM TypeCorrect == Spec => []TypeOK
<1>1. IInv => TypeOK
  BY DEF IInv
<1>. QED BY <1>1, Correct, PTL

\* asyncio.Lock does its work in authenticate and refresh_token: the tasks past
\* it are one at most, and nobody keeps it who is past its region.
THEOREM MutualExclusion == Spec => []OneInside
<1>1. IInv => OneInside
  BY DEF IInv, LockInv, OneInside
<1>. QED BY <1>1, Correct, PTL

\* No connection that a submission can use was made with a replaced token.
THEOREM TokenInForce == Spec => []CurrentToken
<1>1. IInv => CurrentToken
  BY DEF IInv, ClientInv
<1>. QED BY <1>1, Correct, PTL

\* A client that decided for REST has a REST client, by either way there.
THEOREM RestClientExists == Spec => []FallbackHasClient
<1>1. IInv => FallbackHasClient
  BY DEF IInv, ClientInv
<1>. QED BY <1>1, Correct, PTL

\* What a submission stores is bounded by its attempts, however they end.
THEOREM AtMostOncePerAttempt == Spec => []StoredWithinAttempts
<1>1. IInv => StoredWithinAttempts
  BY DEF IInv, RetryInv, StoredWithinAttempts
<1>. QED BY <1>1, Correct, PTL
=============================================================================
