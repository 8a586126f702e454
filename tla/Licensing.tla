------------------------------- MODULE Licensing -------------------------------
(***************************************************************************)
(* The feature checks of a process that has one licence client for all its *)
(* threads, shared/licensing/client.py: check_feature and its cache.       *)
(*                                                                         *)
(* Time is kept as ages: an age counts on to the first value that makes no *)
(* difference, and stays there.                                            *)
(***************************************************************************)
EXTENDS Integers

CONSTANTS
    Thread,
    Feature,
    TTL,     \* _cache_timeout (300 seconds)
    Timeout  \* of the request to the licence server (15 seconds)

ASSUME LicensingAssumption == TTL \in Nat /\ Timeout \in Nat

VARIABLES
    _cache,    \* for each feature the answer kept and its age, TTL when too old or none
    (* a thread in check_feature *)
    stage,     \* "idle", or at the "cache", or "asking" the server
    feature,   \* what it checks
    asked,     \* how long ago it asked
    reply,     \* the server's answer on its way: a set of one, or of none
    (* the licence server *)
    entitled,
    since      \* history: how long ago it changed, TTL + Timeout when longer

check     == <<stage, feature, asked, reply>>
licensing == <<_cache, stage, feature, asked, reply, entitled, since>>

Move(t, place) == stage' = [stage EXCEPT ![t] = place]

Fresh(f) == _cache[f].age < TTL
-----------------------------------------------------------------------------
(* check_feature *)

\* use_cache is the caller's: without it the cache is not looked at, and is written.
Begin(t, f, use_cache) ==
    /\ stage[t] = "idle"
    /\ feature' = [feature EXCEPT ![t] = f]
    /\ Move(t, IF use_cache THEN "cache" ELSE "asking")
    /\ UNCHANGED <<_cache, asked, reply, entitled, since>>

CacheHit(t) ==
    /\ stage[t] = "cache"
    /\ Fresh(feature[t])
    /\ Move(t, "idle")
    /\ UNCHANGED <<_cache, feature, asked, reply, entitled, since>>

CacheMiss(t) ==
    /\ stage[t] = "cache"
    /\ ~Fresh(feature[t])
    /\ Move(t, "asking")
    /\ UNCHANGED <<_cache, feature, asked, reply, entitled, since>>

ServerAnswers(t) ==
    /\ stage[t] = "asking"
    /\ reply[t] = {}
    /\ reply' = [reply EXCEPT ![t] = {entitled[feature[t]]}]
    /\ UNCHANGED <<_cache, stage, feature, asked, entitled, since>>

Return(t) ==
    /\ Move(t, "idle")
    /\ asked' = [asked EXCEPT ![t] = 0]
    /\ reply' = [reply EXCEPT ![t] = {}]

\* A mutant of Store, and what python_client.py does: the cache has one timestamp for
\* all features.
StoreForAll(t) ==
    /\ stage[t] = "asking"
    /\ \E enabled \in reply[t] :
           _cache' = [f \in Feature |->
                         [data |-> IF f = feature[t] THEN enabled ELSE _cache[f].data, age |-> 0]]
    /\ Return(t)
    /\ UNCHANGED <<feature, entitled, since>>

\* A mutant of Store: the time kept is the one at which the answer will be too old.
StoreExpiry(t) ==
    /\ stage[t] = "asking"
    /\ \E enabled \in reply[t] :
           _cache' = [_cache EXCEPT ![feature[t]] = [data |-> enabled, age |-> -TTL]]
    /\ Return(t)
    /\ UNCHANGED <<feature, entitled, since>>

\* The answer's age counts from its storing, not from its asking.
Store(t) ==
    /\ stage[t] = "asking"
    /\ \E enabled \in reply[t] :
           _cache' = [_cache EXCEPT ![feature[t]] = [data |-> enabled, age |-> 0]]
    /\ Return(t)
    /\ UNCHANGED <<feature, entitled, since>>

\* No answer in time, or a status other than 200: the feature is off for this call, and
\* what the cache has is left.
CheckFails(t) ==
    /\ stage[t] = "asking"
    /\ Return(t)
    /\ UNCHANGED <<_cache, feature, entitled, since>>
-----------------------------------------------------------------------------
(* The world *)

Older(age, cap) == IF age < cap THEN age + 1 ELSE cap

\* Time passes; a request to the server is over within Timeout.  (timeout=15 of requests
\* bounds the connect and each read, so this is an assumption about the server: that its
\* answer, which is short, comes in a bounded number of reads.)
Tick ==
    /\ \A t \in Thread : stage[t] = "asking" => asked[t] < Timeout
    /\ _cache' = [f \in Feature |-> [_cache[f] EXCEPT !.age = Older(@, TTL)]]
    /\ asked' = [t \in Thread |-> IF stage[t] = "asking" THEN asked[t] + 1 ELSE asked[t]]
    /\ since' = [f \in Feature |-> Older(since[f], TTL + Timeout)]
    /\ UNCHANGED <<stage, feature, reply, entitled>>

\* A licence with the feature is bought, or lapses.
Flip(f) ==
    /\ entitled' = [entitled EXCEPT ![f] = ~@]
    /\ since' = [since EXCEPT ![f] = 0]
    /\ UNCHANGED <<_cache, check>>

LicensingInit ==
    /\ _cache = [f \in Feature |-> [data |-> FALSE, age |-> TTL]]
    /\ stage = [t \in Thread |-> "idle"]
    /\ feature \in [Thread -> Feature]
    /\ asked = [t \in Thread |-> 0]
    /\ reply = [t \in Thread |-> {}]
    /\ entitled \in [Feature -> BOOLEAN]
    /\ since = [f \in Feature |-> TTL + Timeout]

LicensingNext ==
    \/ \E t \in Thread :
           \/ \E f \in Feature, use_cache \in BOOLEAN : Begin(t, f, use_cache)
           \/ CacheHit(t) \/ CacheMiss(t) \/ ServerAnswers(t) \/ Store(t) \/ CheckFails(t)
    \/ Tick
    \/ \E f \in Feature : Flip(f)

LicensingSpec == LicensingInit /\ [][LicensingNext]_licensing
-----------------------------------------------------------------------------
(* Properties *)

LicensingTypeOK ==
    /\ _cache \in [Feature -> [data : BOOLEAN, age : 0..TTL]]
    /\ stage \in [Thread -> {"idle", "cache", "asking"}]
    /\ feature \in [Thread -> Feature]
    /\ asked \in [Thread -> 0..Timeout]
    /\ reply \in [Thread -> SUBSET BOOLEAN]
    /\ entitled \in [Feature -> BOOLEAN]
    /\ since \in [Feature -> 0..(TTL + Timeout)]

\* A feature that lapsed, or was bought, is noticed within the cache's time and that of
\* one answer, whatever else is checked meanwhile, and though threads that ask at the
\* same time store their answers in any order (check_feature).
AnswersRecent ==
    \A f \in Feature :
        Fresh(f) /\ _cache[f].data # entitled[f] => since[f] < TTL + Timeout
=============================================================================
