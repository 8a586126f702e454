---------------------------- MODULE ReceiverClient ----------------------------
(***************************************************************************)
(* The client the receivers push to the API with,                          *)
(* shared/receiver_client/client.py: several request handlers (tasks of    *)
(* one event loop) submit through one client object, which logs in,        *)
(* refreshes its token and rebuilds its gRPC and REST connections.         *)
(*                                                                         *)
(* A task runs until it awaits something that is not ready; one action is  *)
(* one such run.  Reply actions end an await: the servers answer, or fail, *)
(* as they please.                                                         *)
(***************************************************************************)
EXTENDS Integers, Sequences

CONSTANTS
    Task,            \* request handlers that use the client
    MaxRetries,      \* max_retries
    MaxOps,          \* bound: operations the tasks start in all
    NoTask           \* nobody holds the lock

ASSUME ReceiverClientAssumption ==
    /\ NoTask \notin Task
    /\ MaxRetries \in Nat \ {0}
    /\ MaxOps \in Nat

VARIABLES
    (* the client object *)
    lock,            \* the task inside `async with self._lock`
    waiters,         \* tasks queued for it, first come first served
    token,           \* token_info; "stale" from is_expired() on
    authenticated,   \* _authenticated
    use_grpc,        \* use_grpc
    grpc, rest,      \* grpc_client, rest_client: connected, or not (any more)
    (* the tasks *)
    pc,              \* what the task awaits
    op,              \* submit_logs or submit_metrics, or health_check
    attempt,         \* the attempt of _retry_with_backoff
    result,          \* how the task's last operation ended
    started,         \* how much of MaxOps is used up
    (* history, which no action reads *)
    outdated,        \* connections made with a token that was replaced since
    stored           \* how often the API stored what the operation submits

client == <<lock, waiters, token, authenticated, use_grpc, grpc, rest, outdated>>
tasks  == <<pc, op, attempt, result, started, stored>>
vars   == <<lock, waiters, token, authenticated, use_grpc, grpc, rest, outdated,
            pc, op, attempt, result, started, stored>>

Connection == {"none", "open", "closed"}
Await      == {"idle", "login", "refresh", "closing", "connecting", "posting", "sleeping"}
Result     == {"none", "ok", "failed", "broken", "unauthenticated"}

Queued(t)  == \E i \in 1..Len(waiters) : waiters[i] = t
Holds(t)   == lock = t /\ ~Queued(t)
-----------------------------------------------------------------------------
(* asyncio.Lock *)

\* The lock is not reentrant: a task that holds it queues behind itself.
Acquire(t) ==
    IF lock = NoTask
    THEN lock' = t /\ UNCHANGED waiters
    ELSE waiters' = Append(waiters, t) /\ UNCHANGED lock

Release ==
    IF waiters = <<>>
    THEN lock' = NoTask /\ UNCHANGED waiters
    ELSE lock' = Head(waiters) /\ waiters' = Tail(waiters)
-----------------------------------------------------------------------------
(* The pieces of a task's run *)

Goto(t, where) ==
    /\ pc' = [pc EXCEPT ![t] = where]
    /\ UNCHANGED result

Return(t, how) ==
    /\ pc' = [pc EXCEPT ![t] = "idle"]
    /\ result' = [result EXCEPT ![t] = how]

\* _submit, and the end of health_check, with the client as it now is.  A
\* connection that is missing or closed raises an error that nobody retries.
\* The gRPC submission returns True at once (its stub is not written).
Perform(t, useGrpc, g, r) ==
    IF useGrpc /\ g # "none"
    THEN Return(t, IF g = "open" THEN "ok" ELSE "broken")
    ELSE IF r = "open" THEN Goto(t, "posting") ELSE Return(t, "broken")

\* A mutant of Attempt: no `async with self._lock` in authenticate and refresh_token.
AttemptUnlocked(t, useGrpc, g, r) ==
    /\ \/ ~authenticated /\ Goto(t, "login")
       \/ authenticated /\ token = "stale" /\ Goto(t, "refresh")
       \/ authenticated /\ token = "fresh" /\ Perform(t, useGrpc, g, r)
    /\ UNCHANGED <<lock, waiters>>

\* _ensure_authenticated and the call of func: one turn of the retry loop.
Attempt(t, useGrpc, g, r) ==
    \/ /\ ~authenticated \/ token = "none"
       /\ Goto(t, "login")
       /\ Acquire(t)
    \/ /\ authenticated /\ token = "stale"
       /\ Goto(t, "refresh")
       /\ Acquire(t)
    \/ /\ authenticated /\ token = "fresh"
       /\ Perform(t, useGrpc, g, r)
       /\ UNCHANGED <<lock, waiters>>

\* _try_grpc, then _fallback_to_rest as far as its await.  With gRPC the lock is
\* released and the operation goes on.
Connect(t, old) ==
    \/ /\ grpc' = "open"
       /\ use_grpc' = TRUE
       /\ outdated' = old \ {"grpc"}
       /\ UNCHANGED rest
       /\ Release
       /\ Perform(t, TRUE, "open", rest)
    \/ /\ grpc' = "closed"
       /\ rest' = "open"
       /\ outdated' = old \ {"grpc", "rest"}
       /\ Goto(t, "connecting")
       /\ UNCHANGED <<lock, waiters, use_grpc>>

\* A mutant of InitializeClients: the old connections are not closed.
InitializeClientsOver(t) == Connect(t, {"grpc", "rest"})

\* _initialize_clients, with a new token: closing an open HTTP client is awaited.
InitializeClients(t) ==
    \/ /\ rest = "open"
       /\ grpc' = IF grpc = "none" THEN "none" ELSE "closed"
       /\ rest' = "closed"
       /\ outdated' = {"grpc", "rest"}
       /\ Goto(t, "closing")
       /\ UNCHANGED <<lock, waiters, use_grpc>>
    \/ /\ rest # "open"
       /\ Connect(t, {"grpc", "rest"})
-----------------------------------------------------------------------------
(* Actions *)

\* submit_logs, submit_metrics or health_check is called.
Call(t, what) ==
    /\ pc[t] = "idle"
    /\ started < MaxOps
    /\ started' = started + 1
    /\ op' = [op EXCEPT ![t] = what]
    /\ attempt' = [attempt EXCEPT ![t] = 1]
    /\ stored' = [stored EXCEPT ![t] = 0]
    /\ Attempt(t, use_grpc, grpc, rest)
    /\ UNCHANGED <<token, authenticated, use_grpc, grpc, rest, outdated>>

\* authenticate: 200 with the fields it should have.  The client counts as
\* authenticated before its connections are there.
LoginAccepted(t) ==
    /\ pc[t] = "login" /\ Holds(t)
    /\ token' = "fresh"
    /\ authenticated' = TRUE
    /\ InitializeClients(t)
    /\ UNCHANGED <<op, attempt, started, stored>>

\* An error status, an incomplete answer or none: AuthenticationError, which
\* ends the operation.
LoginFails(t) ==
    /\ pc[t] = "login" /\ Holds(t)
    /\ Release
    /\ Return(t, "unauthenticated")
    /\ UNCHANGED <<token, authenticated, use_grpc, grpc, rest, outdated, op, attempt, started, stored>>

RefreshAccepted(t) ==
    /\ pc[t] = "refresh" /\ Holds(t)
    /\ token' = "fresh"
    /\ InitializeClients(t)
    /\ UNCHANGED <<authenticated, op, attempt, started, stored>>

\* A status other than 200: authenticate is called with the lock still held.
RefreshIsRejected(t) ==
    /\ pc[t] = "refresh" /\ Holds(t)
    /\ Goto(t, "login")
    /\ Acquire(t)
    /\ UNCHANGED <<token, authenticated, use_grpc, grpc, rest, outdated, op, attempt, started, stored>>

\* A mutant of RefreshFails: the lock is not released on an error.
RefreshFailsLocked(t) ==
    /\ pc[t] = "refresh" /\ Holds(t)
    /\ Return(t, "unauthenticated")
    /\ UNCHANGED <<client, op, attempt, started, stored>>

\* httpx.RequestError: AuthenticationError.
RefreshFails(t) ==
    /\ pc[t] = "refresh" /\ Holds(t)
    /\ Release
    /\ Return(t, "unauthenticated")
    /\ UNCHANGED <<token, authenticated, use_grpc, grpc, rest, outdated, op, attempt, started, stored>>

\* The old HTTP client is closed.
Closed(t) ==
    /\ pc[t] = "closing"
    /\ Connect(t, outdated)
    /\ UNCHANGED <<token, authenticated, op, attempt, started, stored>>

\* RESTSubmitter.connect returns, healthy or not: inside _initialize_clients.
FallenBack(t) ==
    /\ pc[t] = "connecting" /\ Holds(t)
    /\ use_grpc' = FALSE
    /\ Release
    /\ Perform(t, FALSE, grpc, rest)
    /\ UNCHANGED <<token, authenticated, grpc, rest, outdated, op, attempt, started, stored>>

\* The same, between two attempts, where nobody holds the lock.
FallenBackRetrying(t) ==
    /\ pc[t] = "connecting" /\ ~Holds(t)
    /\ use_grpc' = FALSE
    /\ attempt' = [attempt EXCEPT ![t] = @ + 1]
    /\ Attempt(t, FALSE, grpc, rest)
    /\ UNCHANGED <<token, authenticated, grpc, rest, outdated, op, started, stored>>

\* 200 from the REST API, or any reply to a health check.
PostSucceeds(t) ==
    /\ pc[t] = "posting"
    /\ Return(t, "ok")
    /\ stored' = [stored EXCEPT ![t] = IF op[t] = "submit" THEN @ + 1 ELSE @]
    /\ UNCHANGED <<client, op, attempt, started>>

\* A mutant of PostFails: range(max_retries + 1).
PostFailsOnceMore(t) ==
    /\ pc[t] = "posting" /\ op[t] = "submit"
    /\ \/ UNCHANGED stored
       \/ stored' = [stored EXCEPT ![t] = @ + 1]
    /\ IF attempt[t] <= MaxRetries THEN Goto(t, "sleeping") ELSE Return(t, "failed")
    /\ UNCHANGED <<client, op, attempt, started>>

\* 401, another status, or no reply, in which case the API may have stored the
\* entries: SubmissionError.  The last attempt gives up.
PostFails(t) ==
    /\ pc[t] = "posting" /\ op[t] = "submit"
    /\ \/ UNCHANGED stored
       \/ stored' = [stored EXCEPT ![t] = @ + 1]
    /\ IF attempt[t] < MaxRetries THEN Goto(t, "sleeping") ELSE Return(t, "failed")
    /\ UNCHANGED <<client, op, attempt, started>>

\* The backoff is over.  If some task switched the client to gRPC meanwhile,
\* it is switched back to REST, without the lock.
WakeUp(t) ==
    /\ pc[t] = "sleeping"
    /\ \/ /\ use_grpc /\ grpc # "none"
          /\ rest' = "open"
          /\ outdated' = outdated \ {"rest"}
          /\ Goto(t, "connecting")
          /\ UNCHANGED <<lock, waiters, attempt>>
       \/ /\ ~(use_grpc /\ grpc # "none")
          /\ attempt' = [attempt EXCEPT ![t] = @ + 1]
          /\ Attempt(t, use_grpc, grpc, rest)
          /\ UNCHANGED <<rest, outdated>>
    /\ UNCHANGED <<token, authenticated, use_grpc, grpc, op, started, stored>>

\* The token comes within five minutes of its end.
Expire ==
    /\ token = "fresh"
    /\ token' = "stale"
    /\ UNCHANGED <<lock, waiters, authenticated, use_grpc, grpc, rest, outdated, tasks>>
-----------------------------------------------------------------------------
Init ==
    /\ lock = NoTask
    /\ waiters = <<>>
    /\ token = "none"
    /\ authenticated = FALSE
    /\ use_grpc = TRUE
    /\ grpc = "none"
    /\ rest = "none"
    /\ outdated = {}
    /\ pc = [t \in Task |-> "idle"]
    /\ op = [t \in Task |-> "health"]
    /\ attempt = [t \in Task |-> 0]
    /\ result = [t \in Task |-> "none"]
    /\ started = 0
    /\ stored = [t \in Task |-> 0]

\* An await of the task ends.
Resume(t) ==
    \/ LoginAccepted(t) \/ LoginFails(t)
    \/ RefreshAccepted(t) \/ RefreshIsRejected(t) \/ RefreshFails(t)
    \/ Closed(t) \/ FallenBack(t) \/ FallenBackRetrying(t)
    \/ PostSucceeds(t) \/ PostFails(t) \/ WakeUp(t)

Next ==
    \/ \E t \in Task : \/ \E what \in {"submit", "health"} : Call(t, what)
                       \/ Resume(t)
    \/ Expire

Spec == Init /\ [][Next]_vars

\* Every request has a timeout and every sleep an end, so every await ends, but
\* for the wait for the lock.
FairSpec == Spec /\ \A t \in Task : WF_vars(Resume(t))
-----------------------------------------------------------------------------
(* Properties *)

TypeOK ==
    /\ lock \in Task \union {NoTask}
    /\ waiters \in Seq(Task)
    /\ token \in {"none", "fresh", "stale"}
    /\ authenticated \in BOOLEAN
    /\ use_grpc \in BOOLEAN
    /\ grpc \in Connection
    /\ rest \in Connection
    /\ outdated \subseteq {"grpc", "rest"}
    /\ pc \in [Task -> Await]
    /\ op \in [Task -> {"submit", "health"}]
    /\ attempt \in [Task -> 0..MaxRetries]
    /\ result \in [Task -> Result]
    /\ started \in 0..MaxOps
    /\ stored \in [Task -> 0..MaxRetries]

\* One task at a time is inside authenticate or refresh_token, and the lock is
\* held exactly while one is: no path through the error handling leaks it.
OneInside ==
    /\ \A t, u \in Task :
         pc[t] \in {"login", "refresh", "closing"} /\ ~Queued(t)
         /\ pc[u] \in {"login", "refresh", "closing"} /\ ~Queued(u) => t = u
    /\ lock # NoTask => pc[lock] \in {"login", "refresh", "closing", "connecting"}

\* The client never points at a protocol it has no object for, once it decided
\* for one: use_grpc is cleared after rest_client is set, also by the fallback
\* that runs without the lock.
FallbackHasClient == ~use_grpc => rest # "none"

\* An open connection carries the current token: whoever replaces the token has
\* closed both connections before any other task runs, and a fallback that runs
\* meanwhile, without the lock, builds its client from the new token.
CurrentToken ==
    /\ rest = "open" => "rest" \notin outdated
    /\ grpc = "open" => "grpc" \notin outdated

\* A submission is stored at most once per attempt, and every attempt but the
\* last is one of those the retry loop made because the one before had failed.
StoredWithinAttempts ==
    \A t \in Task : stored[t] <= attempt[t]

\* A task waits for the lock it holds.
SelfDeadlock == lock # NoTask /\ Queued(lock)

\* Every operation returns or raises, whatever the servers do and whichever task
\* refreshes or falls back meanwhile: the lock is handed on by every path but
\* one, a rejected refresh.
OperationsEnd ==
    \A t \in Task : pc[t] # "idle" ~> (pc[t] = "idle" \/ SelfDeadlock)
=============================================================================
