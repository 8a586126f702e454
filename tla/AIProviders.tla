------------------------------ MODULE AIProviders ------------------------------
(***************************************************************************)
(* The AI analysis API of the Flask backend,                               *)
(* services/flask-backend/app/api/v1/ai_analysis.py: the providers, and    *)
(* the requests that the free or the licensed tier decides about.          *)
(*                                                                         *)
(* The server handles every request in a thread of its own, and each has   *)
(* its own database connection, whose statements interleave with the       *)
(* others' and see what is committed when they start.  A transaction that  *)
(* is not committed ends with its thread.  The licence check is modelled   *)
(* in Licensing; here it may answer either way at any time, as it may to a *)
(* client whose licence server is out of reach now and then.               *)
(***************************************************************************)
EXTENDS Integers, Sequences, FiniteSets

CONSTANTS
    Thread,      \* requests handled at the same time
    Kind,        \* provider_type and model of the providers to look at
    Override,    \* models a chat may ask for instead of its provider's
    MaxProvider  \* bound: providers ever created

ASSUME AIProvidersAssumption == MaxProvider \in Nat

VARIABLES
    providers,  \* the table ai_providers as committed
    (* a request *)
    pc,         \* where its handler is
    request,    \* its operation and parameters
    matched,    \* rows its update of the defaults matched
    locked,     \* rows it has updated and not committed
    (* history, which no action reads *)
    licensed,   \* the create's last licence check said yes
    owns,       \* active providers that a thread created without a licence
    gone        \* providers already deleted when the chat began

table == <<providers, owns>>
rows  == <<matched, locked>>
vars  == <<providers, pc, request, matched, locked, licensed, owns, gone>>

FREE_TIER_MAX_ENDPOINTS == 1

LICENSED_PROVIDERS == {"openai", "claude"}

\* Requests that have not to do with a provider carry this one.
NoKind == [type |-> "none", model |-> "none"]

Provider == DOMAIN providers

Active == {p \in Provider : providers[p].is_active}

is_free_tier_request(kind) == kind = [type |-> "ollama", model |-> "tinyllama"]

NoRequest == [op |-> "none", kind |-> NoKind, is_default |-> FALSE, id |-> 0]

\* The handler goes to a place with what it knows of the licence; nothing is kept of
\* a request that is over.
Move(t, place, yes) ==
    /\ pc' = [pc EXCEPT ![t] = place]
    /\ licensed' = [licensed EXCEPT ![t] = yes /\ place # "idle"]
    /\ IF place = "idle"
       THEN /\ request' = [request EXCEPT ![t] = NoRequest]
            /\ gone' = [gone EXCEPT ![t] = {}]
       ELSE UNCHANGED <<request, gone>>

Goto(t, place) == Move(t, place, licensed[t])
-----------------------------------------------------------------------------
(* The licence *)

\* Access is validated: on with the request.
Validated(t) == CASE request[t].op = "create" -> "recheck"
                  [] request[t].op = "chat"   -> "clip"
                  [] OTHER                    -> "idle"

\* What a create does first when it may.
Writes(t) == IF request[t].is_default THEN "unset" ELSE "insert"

Refusal(t) == IF is_free_tier_request(request[t].kind) THEN "count" ELSE "refused"

\* The statements that ask has_valid_license, and where they go with its answer: in
\* validate_provider_access, again in create_provider, in chat for the limit on the
\* tokens, and in requires_licensed_ai.
CheckLicense(t, yes) ==
    /\ pc[t] \in {"validate", "recheck", "clip", "gate"}
    /\ Move(t, CASE pc[t] = "validate" -> IF yes THEN Validated(t) ELSE Refusal(t)
                 [] pc[t] = "recheck"  -> IF yes THEN Writes(t) ELSE "recount"
                 [] pc[t] = "clip"     -> "call"
                 [] pc[t] = "gate"     -> IF yes THEN "idle" ELSE "refused",
               yes /\ pc[t] = "recheck")
    /\ UNCHANGED <<table, rows>>
-----------------------------------------------------------------------------
(* A request begins and ends *)

Begin(t, op, kind, is_default, id, place) ==
    /\ pc[t] = "idle"
    /\ pc' = [pc EXCEPT ![t] = place]
    /\ request' = [request EXCEPT ![t] =
                      [op |-> op, kind |-> kind, is_default |-> is_default, id |-> id]]
    /\ gone' = [gone EXCEPT ![t] = IF op = "chat" THEN Provider \ Active ELSE {}]
    /\ UNCHANGED <<table, rows, licensed>>

\* The bound on providers holds for those that are being created.
Creating == {t \in Thread : pc[t] # "idle" /\ request[t].op = "create"}

BeginRequest(t) ==
    \/ /\ Len(providers) + Cardinality(Creating) < MaxProvider
       /\ \E kind \in Kind, is_default \in BOOLEAN :
              Begin(t, "create", kind, is_default, 0, "validate")
    \/ \E id \in 0..Len(providers), model \in Override \union {"none"} :
           Begin(t, "chat", [NoKind EXCEPT !.model = model], FALSE, id, "choose")
    \/ \E id \in 0..Len(providers) : Begin(t, "analyze", NoKind, FALSE, id, "choose")
    \/ \E id \in 0..Len(providers) : Begin(t, "delete", NoKind, FALSE, id, "find")
    \/ Begin(t, "insights", NoKind, FALSE, 0, "gate")

\* The answer is sent, after the provider's own if it was called.
Answer(t) ==
    /\ pc[t] \in {"call", "refused"}
    /\ Goto(t, "idle")
    /\ UNCHANGED <<table, rows>>

\* A mutant of Fail: the connection is kept with its transaction.
FailHolding(t) ==
    /\ pc[t] \in {"choose", "fallback", "count", "recount", "unset", "lock", "insert", "find",
                  "delete"}
    /\ Goto(t, "idle")
    /\ UNCHANGED <<table, rows>>

\* A statement fails: the handler answers 500, and its thread ends.
Fail(t) ==
    /\ pc[t] \in {"choose", "fallback", "count", "recount", "unset", "lock", "insert", "find",
                  "delete"}
    /\ Goto(t, "idle")
    /\ matched' = [matched EXCEPT ![t] = {}]
    /\ locked' = [locked EXCEPT ![t] = {}]
    /\ UNCHANGED table
-----------------------------------------------------------------------------
(* get_default_provider and the choice by id, in chat and analyze *)

\* The model is the provider's own, unless another was asked for.
Chosen(kind, model) == IF model = "none" THEN kind ELSE [kind EXCEPT !.model = model]

Take(t, id) ==
    /\ request' = [request EXCEPT ![t] =
                      [op |-> @.op, kind |-> Chosen(providers[id].kind, @.kind.model),
                       is_default |-> FALSE, id |-> id]]
    /\ pc' = [pc EXCEPT ![t] = "validate"]
    /\ UNCHANGED <<table, rows, licensed, gone>>

\* analyze takes a deleted provider too.
ChooseById(t) ==
    /\ pc[t] = "choose"
    /\ request[t].id # 0
    /\ \/ request[t].id \in Active \/ request[t].op = "analyze"
    /\ Take(t, request[t].id)

\* A mutant of Defaults.
AnyDefaults == {p \in Provider : providers[p].is_default}

Defaults == {p \in Active : providers[p].is_default}

\* The first of the rows, in no stated order.
ChooseDefault(t) ==
    /\ pc[t] = "choose"
    /\ request[t].id = 0
    /\ \E p \in Defaults : Take(t, p)

NoDefault(t) ==
    /\ pc[t] = "choose"
    /\ request[t].id = 0
    /\ Defaults = {}
    /\ Goto(t, "fallback")
    /\ UNCHANGED <<table, rows>>

ChooseActive(t) ==
    /\ pc[t] = "fallback"
    /\ \E p \in Active : Take(t, p)

\* NOT_FOUND and NO_PROVIDER.
NotFound(t) ==
    /\ \/ pc[t] = "choose" /\ request[t].id # 0 /\ request[t].op = "chat"
                           /\ request[t].id \notin Active
       \/ pc[t] = "fallback" /\ Active = {}
    /\ Goto(t, "idle")
    /\ UNCHANGED <<table, rows>>
-----------------------------------------------------------------------------
(* validate_provider_access, create_provider and delete_provider *)

TooMany == Cardinality(Active) >= FREE_TIER_MAX_ENDPOINTS

\* The free tier's limit, in validate_provider_access.
CountProviders(t) ==
    /\ pc[t] = "count"
    /\ Goto(t, IF TooMany THEN "refused" ELSE Validated(t))
    /\ UNCHANGED <<table, rows>>

\* A mutant of CountAgain: the limit is left to validate_provider_access.
CountOnce(t) ==
    /\ pc[t] = "recount"
    /\ Goto(t, Writes(t))
    /\ UNCHANGED <<table, rows>>

\* The limit again, in create_provider.
CountAgain(t) ==
    /\ pc[t] = "recount"
    /\ Goto(t, IF TooMany THEN "refused" ELSE Writes(t))
    /\ UNCHANGED <<table, rows>>

\* A provider that needs an API key came without one.
NoApiKey(t) ==
    /\ \/ pc[t] = "unset"
       \/ pc[t] = "insert" /\ ~request[t].is_default
    /\ request[t].kind.type \in LICENSED_PROVIDERS
    /\ Goto(t, "idle")
    /\ UNCHANGED <<table, rows>>

\* The update of the defaults starts: it is about the rows committed by now.
MatchDefaults(t) ==
    /\ pc[t] = "unset"
    /\ matched' = [matched EXCEPT ![t] = {p \in Provider : providers[p].is_default}]
    /\ Goto(t, "lock")
    /\ UNCHANGED <<table, locked>>

\* It waits for those that another transaction has updated, and passes over them when
\* they are no default any more.
UpdateDefaults(t) ==
    /\ pc[t] = "lock"
    /\ \A u \in Thread : matched[t] \cap locked[u] = {}
    /\ locked' = [locked EXCEPT ![t] = {p \in matched[t] : providers[p].is_default}]
    /\ matched' = [matched EXCEPT ![t] = {}]
    /\ Goto(t, "insert")
    /\ UNCHANGED table

\* A mutant of Insert: the model is not written.
InsertTypeOnly(t) ==
    /\ pc[t] = "insert"
    /\ providers' = Append([p \in Provider |->
                               IF p \in locked[t] THEN [providers[p] EXCEPT !.is_default = FALSE]
                                                  ELSE providers[p]],
                           [kind       |-> [request[t].kind EXCEPT !.model = "none"],
                            is_default |-> request[t].is_default,
                            is_active  |-> TRUE])
    /\ owns' = IF licensed[t] THEN owns
                ELSE [owns EXCEPT ![t] = @ \union {Len(providers')}]
    /\ locked' = [locked EXCEPT ![t] = {}]
    /\ Goto(t, "idle")
    /\ UNCHANGED matched

\* The row is inserted, and all of it is committed.
Insert(t) ==
    /\ pc[t] = "insert"
    /\ providers' = Append([p \in Provider |->
                               IF p \in locked[t] THEN [providers[p] EXCEPT !.is_default = FALSE]
                                                  ELSE providers[p]],
                           [kind       |-> request[t].kind,
                            is_default |-> request[t].is_default,
                            is_active  |-> TRUE])
    /\ owns' = IF licensed[t] THEN owns
                ELSE [owns EXCEPT ![t] = @ \union {Len(providers')}]
    /\ locked' = [locked EXCEPT ![t] = {}]
    /\ Goto(t, "idle")
    /\ UNCHANGED matched

\* The row is read first, a deleted one too; 0 stands for an id that no row has.
FindProvider(t) ==
    /\ pc[t] = "find"
    /\ Goto(t, IF request[t].id \in Provider THEN "delete" ELSE "idle")
    /\ UNCHANGED <<table, rows>>

Delete(t) ==
    /\ pc[t] = "delete"
    /\ \A u \in Thread : request[t].id \notin locked[u]
    /\ providers' = [providers EXCEPT ![request[t].id].is_active = FALSE]
    /\ owns' = [u \in Thread |-> owns[u] \ {request[t].id}]
    /\ Goto(t, "idle")
    /\ UNCHANGED rows
-----------------------------------------------------------------------------
Init ==
    /\ providers = <<>> /\ owns = [t \in Thread |-> {}]
    /\ pc = [t \in Thread |-> "idle"]
    /\ request = [t \in Thread |-> NoRequest]
    /\ matched = [t \in Thread |-> {}]
    /\ locked = [t \in Thread |-> {}]
    /\ licensed = [t \in Thread |-> FALSE]
    /\ gone = [t \in Thread |-> {}]

Handle(t) ==
    \/ \E yes \in BOOLEAN : CheckLicense(t, yes)
    \/ ChooseById(t) \/ ChooseDefault(t) \/ NoDefault(t) \/ ChooseActive(t) \/ NotFound(t)
    \/ CountProviders(t) \/ CountAgain(t) \/ NoApiKey(t) \/ MatchDefaults(t) \/ UpdateDefaults(t)
    \/ Insert(t) \/ FindProvider(t) \/ Delete(t) \/ Answer(t)

Next == \E t \in Thread : BeginRequest(t) \/ Handle(t) \/ Fail(t)

Spec == Init /\ [][Next]_vars

\* Every thread gets its turn, and a row that others lock again and again comes to
\* those that wait for it; clients and failures owe nothing.
FairSpec == Spec /\ \A t \in Thread : WF_vars(Handle(t)) /\ SF_vars(UpdateDefaults(t) \/ Delete(t))
-----------------------------------------------------------------------------
(* Properties *)

\* What a request may be about, once its provider's model is replaced by another.
Kinds == Kind \union {[k EXCEPT !.model = m] : k \in Kind \union {NoKind}, m \in Override \union {"none"}}

Requests == [op : {"none", "create", "chat", "analyze", "delete", "insights"},
             kind : Kinds, is_default : BOOLEAN, id : {0} \union Provider]

Places == {"idle", "choose", "fallback", "validate", "count", "recheck", "recount", "unset",
           "lock", "insert", "find", "delete", "clip", "call", "gate", "refused"}

TypeOK ==
    /\ providers \in Seq([kind : Kind, is_default : BOOLEAN, is_active : BOOLEAN])
    /\ pc \in [Thread -> Places]
    /\ request \in [Thread -> Requests]
    /\ matched \in [Thread -> SUBSET Provider] /\ locked \in [Thread -> SUBSET Provider]
    /\ licensed \in [Thread -> BOOLEAN]
    /\ owns \in [Thread -> SUBSET Active] /\ gone \in [Thread -> SUBSET Provider]

\* The limit of the free tier is checked before the insert and not with it, so it can
\* be exceeded only by requests that run at the same time: one at a time, a client
\* never has two (create_provider).
OneFreeEach == \A t \in Thread : \A p, q \in owns[t] : p = q

\* A chat goes to no provider that had been deleted when it came, whether it was named
\* or found by default, across the defaults' updates (chat, get_default_provider).
ChatsReachLive ==
    \A t \in Thread : pc[t] = "call" => request[t].id \notin gone[t]

\* Requests come to an end: the statements of others may fail, and those
\* that wait for another's rows get them (create_provider, delete_provider).
RequestsEnd == \A t \in Thread : []<>(pc[t] = "idle")
=============================================================================
