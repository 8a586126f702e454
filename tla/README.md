# A TLA+ model of KillKrill

KillKrill collects logs and metrics: agents and applications send them to the
receivers, the receivers put them on Redis streams, workers move them to
Elasticsearch and Prometheus, and an API with a web front end manages it all.
This directory holds TLA+ modules translated from the source, TLC runs that
check them on small instances, and proofs that hold for every size.

## 1. Inventory

| component | source | state it keeps | operations | status |
|---|---|---|---|---|
| log worker | `apps/log-worker/app.py` | consumer group `elk-writers` on `logs:raw` (cursor, pending list), the batch each thread holds, `shutdown_requested` | read, convert, bulk-index, acknowledge, scan and claim pending, signal | `LogWorker`, proved |
| receiver client | `shared/receiver_client/*.py` | token, lock, the gRPC and REST connections, `use_grpc`, `_authenticated` | login, refresh, connect, fall back, submit with retries, health | `ReceiverClient`, proved |
| node agent | `k8s/daemonset/agent` | channel, batch, protocol in use, time of the last fallback | send, batch, flush, post with retries, fall back and restore, close | `AgentSender`, proved |
| metrics worker | `apps/metrics-worker/app.py` | group `metrics-workers`, a buffer per thread | read, decode, parse, buffer, acknowledge, push | `MetricsWorker`, proved |
| log and metrics receiver | `apps/log-receiver`, `apps/metrics-receiver` | one database connection and transaction per server thread, a row per entry, the stream | single entries and batches: insert, commit, add, reply | `Ingest`, proved |
| XDP filter | `apps/log-receiver/xdp_filter.c`, `xdp_manager.py` | rule, port and counter tables shared with the kernel | filter a packet, rewrite the tables, read counters | `XdpFilter`, proved |
| operator | `k8s/operator` | the resource, its children, an informer's cache and a work queue per manager | reconcile, requeue, follow the API server | `Operator`, proved |
| feature licensing | `shared/licensing`, `apps/api/services` | cached answers and their ages, per process | check a feature | `Licensing`, proved |
| AI analysis API | `services/flask-backend/app/api/v1/ai_analysis.py` | the table of providers, open transactions | create, delete, chat, analyze, insights | `AIProviders`, proved |
| accounts of the API | `apps/api` (`auth.py`, `users.py`, the middleware) | users, refresh tokens, API keys, JWTs in callers' hands | log in, register, refresh, log out, keys, administer | `Accounts`, proved |
| live updates | `apps/api/blueprints/websocket.py` | open connections, a lock | connect, answer pings, disconnect | not modelled |
| CRUD, Redis helper, settings, web | `apps/api`, `services/flask-backend`, `apps/manager`, `shared`, `web`, charts | none between requests | one statement each | not modelled |

How they interact: a receiver adds to a stream that a worker reads (message
passing through Redis, at least once); a receiver and the API meet in the
receiver client (shared object, many asyncio tasks); the agent posts to a
receiver (HTTP, retried); the operator and the charts start, stop and replicate
the processes (crash and restart at any point); the workers and the Flask
backend ask the licence client, and the AI analysis API decides by its answer;
the processes of each API meet in the database only.

What is hard here: several consumers of one pending list with claims by age;
work that takes longer than the claim time; lost replies of non-idempotent
calls; crashes between the effect and its acknowledgement; a lock held across
awaits; state set before an await and used by others during it; a bounded
channel and a select that may prefer any ready case; caches that lag behind what
they copy; a limit counted in one statement and relied on in a later one; rows
read before somebody else's change and written after it. `PROJECT.json` lists the
hazards at their lines, with the properties that watch them.

What makes each component correct:
- log worker: what no attempt to index has carried stays in the pending list, and
  so can be found again; redelivery does not duplicate what carries its own
  time; every message is settled; a shutdown drains.
- receiver client: one login or refresh at a time; connections carry the token
  in force; a retry loop that is bounded; every call ends.
- agent: order and completeness between `Send` and the end of the batch;
  bounded retries; HTTP/3 left alone for five minutes after a failure; `Close`
  returns.
- receivers: what a single request put on the stream, or answered "accepted",
  is stored, whatever failed in between; a commit takes the rows of its own
  request and no others; a batch reports no more than it pushed.
- XDP filter: once a reload is over, packets are decided by the new tables and
  by nothing that older ones left; counters read while they move stay close to
  each other.
- metrics worker: an acknowledged metric is in a buffer until the gateway has it,
  and is sent again only when an answer was lost; no metric holds up the others.
- operator: the cluster converges to the resource, or to nothing once it is
  deleted; "Ready" is written for the spec that was built.
- feature licensing: no answer outlives the cache's time by more than one request.
- AI analysis API: a client that sends one request at a time keeps to the limit of
  the free tier; a chat goes to no deleted provider; every request ends.
- accounts: what is revoked, deactivated or deleted stays so until an admin says
  otherwise, and opens nothing.

## 2. Modules

| module | models | theorems |
|---|---|---|
| `AtLeastOnceQueue` | what the stream and its group promise a producer | |
| `LogWorker`, `MCLogWorker` | the worker threads and Redis' side of the group | `LogWorkerProofs` |
| `ReceiverClient`, `MCReceiverClient` | the client object and the tasks that use it | `ReceiverClientProofs` |
| `AgentSender` | the agent's sender | `AgentSenderProofs` |
| `Ingest`, `MCIngest` | the two deployed receivers | `LogReceiverProofs` |
| `XdpFilter`, `MCXdpFilter` | the packet filter and the manager of its tables | `LogReceiverProofs` |
| `Operator`, `MCOperator` | `Reconcile`, the API server's objects, users, the garbage collector | `OperatorProofs` |
| `MetricsWorker`, `MCMetricsWorker` | the worker threads, their buffers and the gateway | `MetricsWorkerProofs` |
| `AIProviders`, `MCAIProviders` | requests about AI providers, statement by statement | `AIProvidersProofs` |
| `Licensing`, `MCLicensing` | the feature checks and their cache | `AccessProofs` |
| `Accounts`, `MCAccounts` | users, tokens and API keys of the Quart API | `AccessProofs` |

### LogWorker

A thread's `pc` follows `consume_messages`: `read` (the loop's condition and
XREADGROUP), `build` and `bulk` (`process_logs_batch`), `ack`, `scan` and
`claim` (`_process_pending_messages`). Every Redis command is one step, because
the server executes commands one at a time; between them the other threads, of
the same process or another replica, do as they like. `batch` holds what
`_process_message_batch` works on, `stale` the list XPENDING returned. The
group is `cursor` and `owner`; `idle` are the pending entries past 60 seconds.
Threads own entries in the model where consumer names do in Redis: replicas use
the same names, but nothing in the code or in the commands it calls depends on
who owns an entry.

Failures: `ReadFails`, `AcknowledgeFails`, `ScanFails` and `ClaimFails` are an
exception from the client library, before the command reached Redis or after
(its effect took place and the reply was lost); each ends where the code's
handler ends. `BulkInsert` indexes any part of the batch, which covers messages
that do not convert, items Elasticsearch refuses and a request that fails
altogether. `Crash` takes all threads of a process; `Start` is the container's
restart. `Midnight` moves the day that undated messages are indexed under.

Redis keeps its data in this model; the stream is not trimmed (no MAXLEN in the
code). With the `allkeys-lru` policy of `docker-compose.yml` Redis may evict the
stream with its group under memory pressure: that is outside the model.

### ReceiverClient

An action is what a task runs from one await that blocks to the next, as the
event loop does. `pc` says what it awaits: the answer to a login or a refresh
(or the lock, while it is in `waiters`), the disconnect of the old HTTP client
(`closing`), the connection test of the new one (`connecting`), a POST, or the
backoff. `Attempt` is one turn of the retry loop: `_ensure_authenticated` on the
client as it now is, then the submission. `Connect` and `InitializeClients` are
`_initialize_clients` on both sides of its await. `outdated` remembers, for the
property only, which connections were made with a token that was replaced.

The gRPC submission is a stub that returns True (`grpc_client.py:89-149`), and
it is modelled as that: no gRPC submission fails. A connection is `closed` after
`disconnect`; using it raises an error the retry loop does not catch (`broken`).

### AgentSender

One goroutine, a channel, and collectors that call `Send` from outside. Each
`select` case is an action (`TakeMessage`, `Tick`, `Stop`); `Encode` is
`sendBatch` up to the request; `Succeed`, `Refuse`, `Retry`, `Unavailable` and
`RetriesExhausted` are the ways a request may end, and any error may hide that
the receiver took the batch. `main` calls `Close` after its collectors stopped
or after 30 seconds, so `Send` may still run: `collecting`. The package does not
build as committed (`backoffDuration` at `http3.go:338` is never used, and the
collectors' packages are missing); the model is of the code without that line.

### Ingest

One module for the py4web applications of both receivers: they have the same
handlers up to names, and differ where the module has a disjunct (a metric that
cannot be parsed, `SkipRecord`, and the timestamp insert of a batch of metrics,
which `InsertRecord` takes with its row as one). A server thread keeps its
connection, and the transaction that is open on it, from one request to the
next; that is the state in which a failure of one request can reach another.
`Post`, `Insert`, `Commit` and `Add` are the steps of a single entry, `PostFleet`,
`InsertRecord`, `PushRecord` and `CommitBatch` those of a batch, each with the
exception that may end it. `InsertRow`, `RefuseRow`, `EndTransaction`,
`CommitRows` and `CommitRaises` say what the database does and are external: a
refused statement leaves the transaction failed, every later statement on it is
refused, and its commit is a rollback that raises nothing. A commit that raises
may have taken place. A request that is sent again is a new request.

### XdpFilter

The filter is sequential on each CPU, and so one step per table entry it looks
at; `LookAtRule` and `MatchRule` are two, since the flag and port of a rule are
not in the same word as its network and mask, and an entry is overwritten in
place. `check_cidr_match` asks for the flag once more: a compiler may load it again
or keep the first answer, and `MatchRule` allows both. The fields of one word are
read in one step, as the manager writes the word in one. The manager writes one word per step too (`WriteRule`). `update_stats` is
three additions, `get_statistics` a copy of the CPUs' rows one word at a time.
An address is a sequence of bytes and a mask a set of byte positions; `Loaded`
is the order in which a little-endian CPU sees the address of a packet. `Reload`
begins `update_cidr_rules`, `RulesFilled` or `ClearRuleFails` leads on to
`update_allowed_ports`, as `reload_config` does whatever the first one returned.
Nothing in the repository but its own command line calls the manager; the model
is of the class, whose methods may be called in any order but not concurrently.

### Operator

One action is one call of `Reconcile` to the API server. A manager reads the
resource from its informer's cache (`cached`, brought up to date by `Sync`), and
its copy carries a resourceVersion (`current`): a status update of an older
version is refused and the pass ends with an error. Leader election is off by
default, so any number of managers may run. Creations and the update of the
StatefulSet carry no version. A call may fail (`CallFails`) or take effect and
lose its answer (`LoseAnswer`); `StatusRefused` and `UpdateRefused` are the
refusals of the API server, a conflict and a change of immutable fields. Users
create, edit and delete the resource and delete children; the garbage collector
removes what a resource that is gone owns, also when another of the same name
has come. `seen` remembers, for the property only, which children existed at
some moment of the pass. The operator does not compile as committed; the model is
of the code with the type name put right (section 5).

### MetricsWorker

A thread reads a batch, decodes the stream's name, parses and buffers metric by
metric, pushes when the buffer is full or `due`, and acknowledges the batch. The
buffer is looked at only when a metric is added. `Decoding` is the set of values
of `decode_responses` to look at: the code sets TRUE (`app.py:60`), and then
every batch is dropped before its first metric; with FALSE, which the line
`stream.decode()` is written for, the rest of the code is reached. The
runs look at both. A Redis command or a push may fail or lose its answer, and the
process may end with what its threads have buffered (`lost`).

### AIProviders

Each request runs in a thread of the server with a connection of its own; a step
is one statement, or one question to the licence client, which may answer
differently each time. Statements see what is committed: `MatchDefaults` and
`UpdateDefaults` are the two moments of an UPDATE that waits for the row locks
of other open transactions and then looks at the rows again. A statement may
fail at any point, which ends the thread and its transaction. `owns` remembers
which of the active providers a thread created without a licence, `gone` those
that were deleted when a chat began. A creation may be refused for want of an API key
after its checks (`NoApiKey`), and a deletion looks its row up before it updates it
(`FindProvider`, 404 for an id nobody has).

### Licensing

The cache of `client.py` keeps an answer and its time per feature. Time is
modelled by ages that stop at the first value that makes no difference; a
request to the server takes up to its timeout (an assumption: `timeout=15` of
requests bounds the connection and each wait for data, and the answer is one small
JSON object, so it comes in one read), and the answers of threads that
asked together may be stored in any order. `since` is how long ago the licence
server last changed its mind.

### Accounts

Requests of several hypercorn processes interleave between statements; one
commit is one step. A JWT is believed as it is, since the middleware asks no
database about it; an API key and a refresh token are looked up. A request whose
`X-API-Key` is not valid falls through to its bearer token (`middleware/auth.py:59-71`),
which is here the arrival of a request with that token. `barred` keeps,
for the property, what spoke against a request when it began. Whether a token or
key has expired is left open: `Refuse` may take any request at any point, so
every expiry is among its behaviours. `update_record` writes the named fields
into the row as it is by then, which `WriteUser`, `Deactivate` and `StampKey` do.

## 3. Runs

| run | expects | question |
|---|---|---|
| `log_worker_safety` | pass | what two replicas may do to the group with slow batches, a Redis failure and a crash or shutdown |
| `log_worker_live` | pass | whether everything is settled, and a shutdown drains, under fair scheduling and fast batches |
| `log_worker_acked` | violation | whether an acknowledged message is indexed (`app.py:483`): it need not be |
| `receiver_client` | pass | what three tasks may do to one client |
| `agent_sender` | pass | order, bounds and progress of the sender |
| `ingest` | pass | what failed inserts, commits, additions and a restart may do to the database, the stream and the replies |
| `xdp_filter` | pass | what packets meet during and after two reloads, and what is read of their counters |
| `operator` | pass | whether the cluster follows the resource through a stale cache, edits, deletions, conflicts and lost answers |
| `metrics_worker` | pass | what happens to a metric between the stream and the gateway with lost answers and a restart |
| `ai_providers` | pass | what two requests at a time may do to the limit, the choice of a provider and each other's locks |
| `licensing` | pass | how old an answer may be when two threads check two features |
| `accounts` | pass | whether what was withdrawn stays withdrawn while two requests run |

Bounds. *Log worker*: three messages and batches of two give a full batch, a
partial one, and an entry delivered behind a pending one; a pending page of one
hides older entries from the scan; one failed command and one crash or shutdown,
at any point, are what each property has to survive (each handler meets one
exception at a time). The liveness run has two messages, batches of one and a
day that ends, so that a crash, a claim and midnight all fall between delivery
and acknowledgement. The two threads and their processes are interchangeable,
so the safety run uses that symmetry; the liveness run does not. *Receiver
client*: three operations over three tasks let one hold the lock, one wait, and
one run without it; two attempts give a first and a last. *Agent*: five
messages fill the channel of four with one to drop, batches of two leave a last
batch that only the timer flushes, one retry gives four requests per batch.
*Receivers*: three requests over two threads let one thread serve a request that
follows a failed one while the other thread serves a third; batches of two have
a record before and one after a refused one; one restart of the process; any
number of inserts, commits and additions may fail. The threads are
interchangeable and the run uses that symmetry. *XDP*: two CPUs with two packets
between them filter and count at once, two reloads put a shorter table over a
longer one, and one table write fails. The configurations have a list longer
than its table, a rule that is not a network, a disabled one and ports beyond 16
bits; addresses of two bytes are enough to be reversed.
*Operator*: two resources of one name, one after the other, one edit or meddling
with a child and one lost or failed call at any point; three specs, of which one
can be updated to and one cannot; one manager, whose cache lags behind its own
writes and those of users. Passes of two managers that overtake each other are in the
theorem, which is for any number, and in `OperatorManagers.cfg`, which is not one of
the runs and can be given to TLC by hand (two minutes): `ReadyIsCurrent` for two
managers with one resource, one edit or deleted child and no faults, with the
managers interchangeable and a view that leaves out what a manager keeps of a pass
that has ended, which `Get` overwrites before anything reads it. Liveness is checked
for one manager only.
*Metrics worker*: two threads, four metrics of which one does not parse, batches
and buffers of two (a full batch, a full buffer, and a buffer that only its
interval empties), two faults and one restart. *AI providers*: two requests at a
time, two providers of the two kinds: enough for a limit of one, for two
defaults, and for one request to wait for the other's row. *Licensing*: two threads, two
features, a cache of two ticks and a request of one, so that answers overlap
and expire. *Accounts*: two requests, two users, two refresh tokens and one key:
each withdrawal can fall between any two statements of the other request.

Deadlock is checked in the runs of the log worker, the AI providers, licensing
and the accounts, where something can always move. The bounded number of calls
(`MaxOps`, `MaxMsg`) stops the other models, and the receiver client may really
stop: a rejected refresh waits for itself (section 5). A filter without packets,
a receiver without requests, a metrics worker without metrics and a cluster that
has come to rest stop too.

Fairness. *Log worker*: each thread is scheduled (weak fairness of its own
step; a blocking read returns after a second), time passes for an entry that
nobody works on, and the runtime restarts a process that ended. Redis is not
obliged to fail, and the failures of a run are bounded, as a Redis that refuses
every XACK for ever settles nothing. *Receiver client*: weak fairness of a
task's step: every request has a timeout; the lock is not assumed to come.
*Agent*: the requests end (a client timeout of 30 seconds); Go's select chooses
at random among the ready cases, hence strong fairness of each. *Operator*:
passes go on, informers follow, timers fire and the garbage collector works;
users and faults owe nothing. *Metrics worker*: the loops go on and time passes.
*AI providers*: each thread is scheduled, and strong fairness of the two
statements that wait for a row: PostgreSQL queues those that wait for a lock.

`FastBatches` says that no thread keeps a batch for more than 60 seconds. It is
FALSE in the safety run, and TRUE where it matters: `SingleHolder` does not hold
without it, as a thread cannot know that its batch was claimed.

## 4. Proofs

`LogWorkerProofs` proves, for any number of threads, processes, messages and
days, any batch and page sizes and any number of failures: `TypeOK`,
`UntriedIsPending`, `AckedWasTried`, `StampedOnce`, `RedeliverOnlyIdle`,
`SingleHolder` (from `FastBatches`), and that the group implements
`AtLeastOnceQueue`. The inductive invariant ties the parts together: what is
delivered is pending or acknowledged and never both; idle entries are pending;
what a thread holds was delivered; after the bulk request its batch was tried;
all acknowledged messages were tried; documents of dated messages carry their
own day. `UntriedIsPending` is not inductive alone: XACK removes what is in `batch`
from the pending list, and only the invariant says that a thread that acknowledges
is past the bulk request with all of it. It follows from two of the parts, that what
is delivered is pending or acknowledged (`NothingSkipped`) and that what is
acknowledged was tried. Lemmas describe
the effect of each Redis command once, so that the actions, and their failing
variants, cite them.

For `SingleHolder` the invariant says more: an entry in somebody's batch is
pending under his name and not idle. XCLAIM then passes over it, however old the
list it was given.

`ReceiverClientProofs` proves, for any number of tasks, operations and retries:
`TypeOK`, `OneInside`, `CurrentToken`, `FallbackHasClient` and
`StoredWithinAttempts`. None of them is inductive alone, because what a task may
do next depends on what the others did while it waited. The invariant says what
a task's `pc` tells of the rest: who is past the lock holds it, who waits is in
the queue, and nobody else is (`LockInv`); a fallback under way has already made
a REST client, so the flag it sets last cannot be set without one (`ClientInv`);
an operation in the middle of an attempt has stored less than it has attempted,
and one between two attempts has one left (`RetryInv`). A fallback can be run by
the task that holds the lock or by one that retries, and only `lock = t` tells
which. `LockKept`, `LockTaken` and `LockPassedOn` are the three things a step
can do to the lock, `ConnectEffect` and `InitializeClientsEffect` what it can do
to the connections; each action of `NextInv` cites those that apply.

`AgentSenderProofs` proves, for any number of messages, any batch size and any
number of retries: `TypeOK`, `InOrder`, `SuccessReceived`, `CopiesBounded` and
`HTTP3Rested`. The invariant adds that a select never waits with a full batch
(without it the batch could outgrow its size), that HTTP/3 is the protocol of
the next batch, or of the present request, only when no fallback is recent, and
that the copies of a batch are bounded by the requests made so far over both
protocols. `OrderOfSend`, `OrderOfTake` and `OrderOfEnd` are the three facts
about concatenation that the way of a message rests on.

`LogReceiverProofs` proves about `Ingest`, for any number of threads, requests,
records per batch, failures and restarts: `TypeOK`, `StreamedIsStored`, `AcceptedIsKept`,
`OwnRows` and `CountedIsPushed`. The invariant ties each thread's connection and request to its program
counter (`ThreadInv`): a transaction holds rows of the request being served only,
and none when it is failed or when a request begins; between the insert and the
commit it holds the row of that request, so the commit, which comes to a rollback
only on a failed one, makes it permanent; between the commit and the addition the
row is stored. None of the properties is inductive without this: a row that an
earlier handler left in the transaction would break `OwnRows`, and a failed one
reaching the addition `StreamedIsStored`. Rows and stream entries never go away,
hence `OtherThreads`: a step of one thread leaves what is known of the others as
it was, and each action has to be looked at for its own thread only
(`KeptIsEnough`).

`CountedIsPushed` has an invariant on top of that one (`CountInv`): while a batch
is served the numbers of its items on the stream are below `next`, at least as
many as were processed, none of it was reported before, and no other thread
serves the same request. The item that is added is then a new one, and the
cardinality grows with the count (`OneMoreItem`, `PushCounts`).

The same module proves about `XdpFilter`, for any number of CPUs, sizes of the
tables and of addresses, packets, configurations, reloads and failures:
`XdpTypeOK`, `SettledVerdict` and `VerdictsKeepUp`. The invariant `XdpInv` has four
parts.
- `ManagerPart`: what each row holds at each moment of an update. Behind the
  manager's place the rows are cleared or are those of the configuration, ahead
  of it they are what the clearing left, and of the row it is writing each word
  is one or the other. So the whole table is that of `ruleTable` or `portTable`
  whenever these are not `Mixed`, also after updates that failed.
- `FilterPart`: what a filter has found out about an undisturbed packet. None of
  the ports before its place is 0 or the packet's, none of the rules before it
  applies, and the rule whose network it is about to compare has the right flag
  and port. `RowApplies` says that the two words of a row together decide as the
  rule they were made of does, byte order included; `PortFound` and
  `PortNotFound` what the first port that is 0 or the packet's means for the list.
- `CountPart`: the three sums over a CPU's counters differ by the packet it is
  counting. The bounds of the counters follow from it.
- `ReadPart`: how far the sums copied so far may lag, by the CPUs already passed
  that had a packet (`BusyBefore`) and by what is still to be copied of the row
  being read. The counters of that row go on growing during the copy, and the lag
  is bounded by what they are at each moment (`ReadWhileCounting`); when the last
  word has been copied, `CountPart` turns the rest into one packet
  (`CopyWordKeeps`). `VerdictsKeepUp` says nothing between two words, which is
  why it needs all of this.
`Ingest` and `XdpFilter` are two parts of one receiver that share no state; the
proofs stand in one module, each about its own specification.

`OperatorProofs` proves, for any number of managers, specs, resources, edits and
faults: `TypeOK` and `ReadyIsCurrent`. Two facts carry the second: a copy whose
version is the stored one has the stored uid and spec (`CopiesTrue`), so the
status update is refused whenever a user, or another manager, was faster; and a pass has met the
children of all calls that are behind it (`MeetsChildren`).

`MetricsWorkerProofs` proves, for any number of threads, metrics, batch and
buffer sizes, faults and restarts: `TypeOK`, `AcknowledgedIsKept` and
`SentAgainUnanswered`. What is in a batch and not in `rest` any more is kept
(`BatchKept`), so the acknowledgement of the batch loses nothing. A metric is at
one place: the batches ahead and the buffers of all threads are disjoint and
without repetitions (`OnePlace`), what lies ahead was never pushed, and what is
in a buffer was pushed only if the answer was lost (`GatewayInv`).

`AIProvidersProofs` proves, for any number of threads, kinds and providers:
`TypeOK`, `OneFreeEach` and `ChatsReachLive`. A thread about to write without a
licence owns no active provider (`WriterOwnsNone`): it has just counted none, its
own requests come one after the other, and others do not add to what it owns. A
chat's choice was active when the chat had begun, or is not among the deleted
(`ChoiceLive`).

`AccessProofs` proves about `Licensing`, for any number of threads and features
and any times: `LicensingTypeOK` and `AnswersRecent`. An answer on its way that is
no longer right was given at most as long ago as the request lasts
(`RepliesRecent`), and one in the cache is older by its age at most (`KeptRecent`).

About `Accounts` it proves, for any number of requests, users, tokens and keys:
`TypeOK`, `BarredGetNothing` and the action property `WithdrawnStays`. The
invariant says of each request what its place requires (`Place`: an account that
exists, the row it has found, an administrator behind a change of `is_active`),
and of each reason that bars one that it still holds of the row, and that the
request is still before the statement that looks at it (`Reason`). A request
cannot be past that statement with a reason, and no reason lapses before it: rows
never disappear and withdrawn tokens and keys stay so (`RowsStay`), an inactive
user becomes active only by an administrator's write, which ends the reason
(`Reactivates`), and a step changes no other request (`OthersStay`). Each action
has to be looked at for its own request only.

Some theorems state properties that no run repeats, because a run property next
to them says more or because TLC finds them at once: `AckedWasTried`,
`RedeliverOnlyIdle`, `FallbackHasClient`, `StoredWithinAttempts`,
`SuccessReceived`, `CopiesBounded` and `OwnRows`.

The proofs assume only what the modules state of their constants: positive
sizes, finite bounds, model values distinct from the tasks and other values
(`NoUser`, `NoPacket`, `Mixed`), and for `XdpFilter` the C types of a packet's
fields and lists as configurations. A port of a configuration is any natural
number there, as nothing checks it before it is put into 16 bits.

Only model-checked: all liveness (`EventuallyAcked`, `ShutdownDrains`,
`OperationsEnd`, `EventuallyHandled`, `CloseReturns`, `Converges`, `NothingLeft`,
`NoMetricBlocks`, `RequestsEnd`), which is out of reach of the prover, and the
violation. Every invariant that a run checks is a theorem, and so is every action
property and the refinement.

## 5. Findings

With a run:
1. Messages of a failed bulk request are acknowledged (`log_worker_acked`).

From reading and from traces that are plain without one (`PROJECT.json` quotes
the lines):
- Log worker: undated messages are indexed twice across midnight
  (`app.py:180`); `worker_pool.shutdown(timeout=30)` raises a TypeError
  (`app.py:643`); with fewer than four `PROCESSOR_WORKERS` the later consumers
  never run (`app.py:565`).
- Receiver client: a rejected token refresh waits for the lock it holds
  (`client.py:150`); submissions during a login fail without a retry
  (`client.py:112`); a fallback between two attempts that ends after another task's
  refresh leaves the client on a closed REST connection until the next refresh
  (`client.py:268-270`).
- Agent: a close leaves the channel's messages behind (`http3.go:263`).
- Receivers: records of a batch are answered Ok and rolled back
  (`logreceiver/__init__.py:269`); the streams they add to are read by nobody
  (`logs` and `fleet-logs`, where the worker reads `logs:raw`); a refused insert
  of a single entry leaves its transaction failed, so that later single entries
  on the same thread are refused until a batch ends it.
- XDP: a rule is compared with addresses whose bytes are reversed
  (`xdp_manager.py:168`); a packet that looks at a rule while it is rewritten may
  find the old flag with the new network, and the cleared network has a mask that
  every address matches; `reload_config` reports success whatever its updates did.
- Operator: it does not compile (`killkrill_controller.go:460`); its own status
  updates queue the resource again, so passes never stop (line 490); a change of
  the storage size fails every later pass (line 302); edited replicas never reach
  an existing Deployment (line 444).
- Metrics worker: every batch is dropped at `stream.decode()` (`app.py:324`); the
  field names it requires are not those the receiver sends (`app.py:91`); metrics
  are acknowledged before they are pushed (`app.py:366`); a buffer waits for the
  next metric to be looked at, and has no upper bound (`app.py:128`).
- AI analysis: without a licence every chat is refused, as its own provider
  exceeds the limit (`ai_analysis.py:180`); two creations at once exceed the limit
  (line 342) or make two defaults (line 360); `analyze` takes a deleted provider
  (line 651).
- Licensing and database: the cache of `python_client.py` has one timestamp for
  all features (line 162); `FeatureGate` goes on granting what it had when the
  licence is no longer valid (`middleware.go:93`); `release_db` of `apps/api` is never called
  (`database.py:271`).

## 6. Not modelled

Within the modelled components: the metrics half of the log worker (its
destination only logs), queue metrics, licence keep-alives, and the wait of
`main` for its threads; `close` of the receiver client, which no receiver calls
while requests run, and the outcome of connection tests, which the code ignores;
`Health` of the sender; the receivers that are not deployed (`simple_app.py` and
`metrics-receiver/app.py`, the only callers of the receiver client); loading and
unloading the XDP program, its separate counters of syslog and API packets and
of bytes, and the rates computed from them; the templates, probes and labels of
the operator's children, and the reconcilers that return nil or are not in the
repository; the conversion of metrics to the gateway's text; the listings of the
AI analysis API, its stored analyses, which nothing takes up, and the texts sent
to providers; `validate`, `keepalive` and `get_tier` of the licence client, one
request each, `python_client.py`, whose single timestamp is a finding, the Go client, which
keeps nothing, and its `FeatureGate`, which no program of the repository makes; in the accounts, callers with a licence key, passwords, profile
fields and the clock. What bcc, PyDAL, PostgreSQL, Redis and the Kubernetes API
server do is taken from how the code uses them. Payloads, headers, compression,
document contents and log texts are data no property is about.

Whole parts: the live updates, because `broadcast` has no caller and each
handler enters and removes its own connection under one lock; the
authentication of the Flask backend, whose JWTs nothing but a set in one
process revokes (listed as a hazard); sensors, dashboards, the manager
(`apps/manager`, HTML in Python strings), tables and their creation
(`db_init.py`, `infrastructure_config.py`), gRPC services that return constants,
configuration, front ends and charts. They are the larger half of the source by
lines. A request there is one statement on one row, a page or a constant; there
is no order of steps a model could get wrong, and it would restate the line it is
about.

## 7. What is left

1. A composition of `Ingest` with `AtLeastOnceQueue`, to say how often one event
   can be indexed; as the code is, the receivers' streams have no reader.
2. Liveness of `Operator` with two managers, which has too many states as it is.
3. An abstract specification of `MetricsWorker`: `AtLeastOnceQueue` only as long
   as nothing crashes, which is why it is not stated as it is.
