------------------------------- MODULE Operator -------------------------------
(***************************************************************************)
(* The Kubernetes operator, k8s/operator/controllers/                      *)
(* killkrill_controller.go: Reconcile brings the PostgreSQL StatefulSet    *)
(* and Service and the log receiver's Deployment of one KillKrill resource *)
(* into being.                                                             *)
(*                                                                         *)
(* Leader election is off unless it is asked for, so several managers may  *)
(* run.  Each reads the resource from its informer's cache, which follows  *)
(* the API server at some distance, and serves its work queue one pass at  *)
(* a time; one action is one call to the API server.                       *)
(***************************************************************************)
EXTENDS Integers

CONSTANTS
    Manager,         \* operator processes
    Spec0,           \* the specs users write: sets of [database, storage, size, replicas]
    Unset,           \* a field that the user leaves out
    DefaultDatabase, \* "killkrill"
    DefaultStorage,  \* "10Gi"
    NoObject,        \* there is no such object
    MaxApply,        \* bound: resources created under the name, one after the other
    MaxEdit,         \* bound: edits of the spec and meddling with the children
    MaxFault         \* bound: calls whose answer is an error or is lost

ASSUME OperatorAssumption ==
    /\ \A s \in Spec0 : s.size \in Nat /\ s.replicas \in Nat
    /\ MaxApply \in Nat /\ MaxEdit \in Nat /\ MaxFault \in Nat

ASSUME NoObjectAssumption ==
    NoObject \notin [uid : 1..MaxApply, spec : Spec0, phase : {"", "Reconciling", "Ready"}]

VARIABLES
    (* what the API server stores *)
    resource,        \* the KillKrill resource: uid, spec and status.phase
    statefulSet,     \* killkrill-postgres
    service,         \* killkrill-postgres
    deployment,      \* killkrill-log-receiver
    (* the managers *)
    cached,          \* the informer's copy of the resource
    synced,          \* it is the stored version
    queued,          \* the work queue holds the resource's name
    timer,           \* RequeueAfter is running
    pc,              \* the call that the pass makes next
    killkrill,       \* the pass's copy of the resource
    current,         \* its resourceVersion is the stored one
    (* the world *)
    applied, edits, faults,
    (* history, which no action reads *)
    seen             \* children that existed at some moment of the pass

children == <<statefulSet, service, deployment>>
caches   == <<cached, synced>>
pass     == <<killkrill, current>>
world    == <<applied, edits, faults>>
vars     == <<resource, statefulSet, service, deployment, cached, synced, queued,
              timer, pc, killkrill, current, applied, edits, faults, seen>>

Uid   == 1..MaxApply
Phase == {"", "Reconciling", "Ready"}
Child == {"StatefulSet", "Service", "Deployment"}
Call  == {"idle", "get", "phase", "create", "update", "service", "receiver", "ready"}
-----------------------------------------------------------------------------
(* The desired state *)

\* setDefaults, for the fields that reach the children.
Defaulted(s) ==
    LET size == IF s.size = 0 THEN 1 ELSE s.size
    IN  [database |-> IF s.database = Unset THEN DefaultDatabase ELSE s.database,
         storage  |-> IF s.storage = Unset THEN DefaultStorage ELSE s.storage,
         size     |-> size,
         replicas |-> IF s.replicas = 0 THEN size ELSE s.replicas]

\* The children as a pass builds them, with the resource as their owner.
Postgres(k)    == [owner |-> k.uid, database |-> Defaulted(k.spec).database,
                   storage |-> Defaulted(k.spec).storage]
LogReceiver(k) == [owner |-> k.uid, replicas |-> Defaulted(k.spec).replicas]

Existing == {c \in Child : \/ c = "StatefulSet" /\ statefulSet # NoObject
                           \/ c = "Service" /\ service # NoObject
                           \/ c = "Deployment" /\ deployment # NoObject}
-----------------------------------------------------------------------------
(* The work queue *)

Goto(m, call) == pc' = [pc EXCEPT ![m] = call]

Enqueue(m) == queued' = [queued EXCEPT ![m] = TRUE]

\* A change of a child: SetupWithManager watches what the resource owns.
Notify == queued' = [m \in Manager |-> TRUE]

\* A mutant of Fail: the error is logged, and Reconcile returns none.
FailQuietly(m) == Goto(m, "idle") /\ UNCHANGED queued

\* Reconcile returns an error: the name is queued again, after a delay that takes
\* the place of RequeueAfter.
Fail(m) == Goto(m, "idle") /\ Enqueue(m)

LoseAnswer(m) ==
    /\ faults < MaxFault
    /\ faults' = faults + 1
    /\ Goto(m, "idle")

\* A call on a child was made, and the manager learns of it or not.
Answered(m, call, changed) ==
    \/ /\ Goto(m, call)
       /\ IF changed THEN Notify ELSE UNCHANGED queued
       /\ UNCHANGED faults
    \/ /\ LoseAnswer(m)
       /\ IF changed THEN Notify ELSE Enqueue(m)
-----------------------------------------------------------------------------
(* Reconcile *)

StartPass(m) ==
    /\ pc[m] = "idle"
    /\ queued[m]
    /\ queued' = [queued EXCEPT ![m] = FALSE]
    /\ Goto(m, "get")
    /\ UNCHANGED <<resource, children, caches, timer, pass, world, seen>>

\* The resource is gone: the pass ends, and nothing is queued.
GetNotFound(m) ==
    /\ pc[m] = "get"
    /\ cached[m] = NoObject
    /\ Goto(m, "idle")
    /\ UNCHANGED <<resource, children, caches, queued, timer, pass, world, seen>>

\* A mutant of Get: errors.IsNotFound is not looked at.
GetAnything(m) ==
    /\ pc[m] = "get"
    /\ killkrill' = [killkrill EXCEPT ![m] = cached[m]]
    /\ current' = [current EXCEPT ![m] = synced[m]]
    /\ seen' = [seen EXCEPT ![m] = Existing]
    /\ Goto(m, "phase")
    /\ UNCHANGED <<resource, children, caches, queued, timer, world>>

Get(m) ==
    /\ pc[m] = "get"
    /\ cached[m] # NoObject
    /\ killkrill' = [killkrill EXCEPT ![m] = cached[m]]
    /\ current' = [current EXCEPT ![m] = synced[m]]
    /\ seen' = [seen EXCEPT ![m] = Existing]
    /\ Goto(m, "phase")
    /\ UNCHANGED <<resource, children, caches, queued, timer, world>>

\* A mutant of WriteStatus: a patch, which carries no resourceVersion.
PatchStatus(m, phase) ==
    /\ resource # NoObject
    /\ killkrill' = [killkrill EXCEPT ![m].phase = phase]
    /\ resource' = [resource EXCEPT !.phase = phase]
    /\ UNCHANGED <<current, synced>>

\* Status().Update: refused with a conflict when the copy is not the stored
\* version; a write that changes nothing makes no new version.
WriteStatus(m, phase) ==
    /\ current[m]
    /\ killkrill' = [killkrill EXCEPT ![m].phase = phase]
    /\ resource' = [resource EXCEPT !.phase = phase]
    /\ IF resource.phase = phase
       THEN UNCHANGED <<current, synced>>
       ELSE /\ current' = [n \in Manager |-> n = m]
            /\ synced' = [n \in Manager |-> FALSE]

StatusRefused(m) ==
    /\ pc[m] \in {"phase", "ready"}
    /\ ~current[m]
    /\ Fail(m)
    /\ UNCHANGED <<resource, children, caches, timer, pass, world, seen>>

MarkReconciling(m) ==
    /\ pc[m] = "phase"
    /\ WriteStatus(m, "Reconciling")
    /\ \/ Goto(m, "create") /\ UNCHANGED <<queued, faults>>
       \/ LoseAnswer(m) /\ Enqueue(m)
    /\ UNCHANGED <<children, cached, timer, applied, edits, seen>>

CreateStatefulSet(m) ==
    /\ pc[m] = "create"
    /\ statefulSet = NoObject
    /\ statefulSet' = Postgres(killkrill[m])
    /\ seen' = [seen EXCEPT ![m] = @ \union {"StatefulSet"}]
    /\ Answered(m, "service", TRUE)
    /\ UNCHANGED <<resource, service, deployment, caches, timer, pass, applied, edits>>

StatefulSetExists(m) ==
    /\ pc[m] = "create"
    /\ statefulSet # NoObject
    /\ seen' = [seen EXCEPT ![m] = @ \union {"StatefulSet"}]
    /\ Goto(m, "update")
    /\ UNCHANGED <<resource, children, caches, queued, timer, pass, world>>

\* The object carries no resourceVersion: the update is unconditional, and takes
\* over a StatefulSet that an earlier resource of this name owned.
UpdateStatefulSet(m) ==
    /\ pc[m] = "update"
    /\ statefulSet # NoObject
    /\ statefulSet.storage = Postgres(killkrill[m]).storage
    /\ statefulSet' = Postgres(killkrill[m])
    /\ Answered(m, "service", statefulSet' # statefulSet)
    /\ UNCHANGED <<resource, service, deployment, caches, timer, pass, applied, edits, seen>>

\* The StatefulSet was deleted since, or its volumeClaimTemplates would change,
\* which the API server forbids.
UpdateRefused(m) ==
    /\ pc[m] = "update"
    /\ statefulSet # NoObject => statefulSet.storage # Postgres(killkrill[m]).storage
    /\ Fail(m)
    /\ UNCHANGED <<resource, children, caches, timer, pass, world, seen>>

\* A mutant of CreateService: no SetControllerReference.
CreateServiceUnowned(m) ==
    /\ pc[m] = "service"
    /\ service' = IF service = NoObject THEN [owner |-> NoObject] ELSE service
    /\ seen' = [seen EXCEPT ![m] = @ \union {"Service"}]
    /\ Answered(m, "receiver", service = NoObject)
    /\ UNCHANGED <<resource, statefulSet, deployment, caches, timer, pass, applied, edits>>

\* A Service that exists is left as it is.
CreateService(m) ==
    /\ pc[m] = "service"
    /\ service' = IF service = NoObject THEN [owner |-> killkrill[m].uid] ELSE service
    /\ seen' = [seen EXCEPT ![m] = @ \union {"Service"}]
    /\ Answered(m, "receiver", service = NoObject)
    /\ UNCHANGED <<resource, statefulSet, deployment, caches, timer, pass, applied, edits>>

\* So is a Deployment.
CreateDeployment(m) ==
    /\ pc[m] = "receiver"
    /\ deployment' = IF deployment = NoObject THEN LogReceiver(killkrill[m]) ELSE deployment
    /\ seen' = [seen EXCEPT ![m] = @ \union {"Deployment"}]
    /\ Answered(m, "ready", deployment = NoObject)
    /\ UNCHANGED <<resource, statefulSet, service, caches, timer, pass, applied, edits>>

MarkReady(m) ==
    /\ pc[m] = "ready"
    /\ WriteStatus(m, "Ready")
    /\ \/ /\ Goto(m, "idle")
          /\ timer' = [timer EXCEPT ![m] = TRUE]
          /\ UNCHANGED <<queued, faults>>
       \/ LoseAnswer(m) /\ Enqueue(m) /\ UNCHANGED timer
    /\ UNCHANGED <<children, cached, applied, edits, seen>>

\* The API server is not reached, or answers with an internal error.
CallFails(m) ==
    /\ pc[m] \notin {"idle", "get"}
    /\ faults < MaxFault
    /\ faults' = faults + 1
    /\ Fail(m)
    /\ UNCHANGED <<resource, children, caches, timer, pass, applied, edits, seen>>

TimerFires(m) ==
    /\ timer[m]
    /\ timer' = [timer EXCEPT ![m] = FALSE]
    /\ Enqueue(m)
    /\ UNCHANGED <<resource, children, caches, pc, pass, world, seen>>

\* The informer learns of the stored version, and queues the name.
Sync(m) ==
    /\ ~synced[m]
    /\ cached' = [cached EXCEPT ![m] = resource]
    /\ synced' = [synced EXCEPT ![m] = TRUE]
    /\ Enqueue(m)
    /\ UNCHANGED <<resource, children, timer, pc, pass, world, seen>>
-----------------------------------------------------------------------------
(* Users and the garbage collector *)

\* The stored version is a new one: every copy is behind.
Overtake ==
    /\ synced' = [m \in Manager |-> FALSE]
    /\ current' = [m \in Manager |-> FALSE]

Apply(s) ==
    /\ resource = NoObject
    /\ applied < MaxApply
    /\ applied' = applied + 1
    /\ resource' = [uid |-> applied + 1, spec |-> s, phase |-> ""]
    /\ Overtake
    /\ UNCHANGED <<children, cached, queued, timer, pc, killkrill, edits, faults, seen>>

Edit(s) ==
    /\ resource # NoObject
    /\ resource.spec # s
    /\ edits < MaxEdit
    /\ edits' = edits + 1
    /\ resource' = [resource EXCEPT !.spec = s]
    /\ Overtake
    /\ UNCHANGED <<children, cached, queued, timer, pc, killkrill, applied, faults, seen>>

Delete ==
    /\ resource # NoObject
    /\ resource' = NoObject
    /\ Overtake
    /\ UNCHANGED <<children, cached, queued, timer, pc, killkrill, world, seen>>

Remove(c) ==
    /\ c \in Existing
    /\ statefulSet' = IF c = "StatefulSet" THEN NoObject ELSE statefulSet
    /\ service' = IF c = "Service" THEN NoObject ELSE service
    /\ deployment' = IF c = "Deployment" THEN NoObject ELSE deployment
    /\ Notify
    /\ UNCHANGED <<resource, caches, timer, pc, pass, seen>>

DeleteChild(c) ==
    /\ edits < MaxEdit
    /\ edits' = edits + 1
    /\ Remove(c)
    /\ UNCHANGED <<applied, faults>>

Owner(c) == CASE c = "StatefulSet" -> statefulSet.owner
              [] c = "Service"     -> service.owner
              [] c = "Deployment"  -> deployment.owner

\* A child goes when the resource it names as its owner is not there, or is
\* another one of the same name.
Collect(c) ==
    /\ c \in Existing
    /\ Owner(c) # NoObject
    /\ resource # NoObject => Owner(c) # resource.uid
    /\ Remove(c)
    /\ UNCHANGED world
-----------------------------------------------------------------------------
Init ==
    /\ resource = NoObject
    /\ statefulSet = NoObject /\ service = NoObject /\ deployment = NoObject
    /\ cached = [m \in Manager |-> NoObject]
    /\ synced = [m \in Manager |-> TRUE]
    /\ queued = [m \in Manager |-> FALSE]
    /\ timer = [m \in Manager |-> FALSE]
    /\ pc = [m \in Manager |-> "idle"]
    /\ killkrill = [m \in Manager |-> NoObject]
    /\ current = [m \in Manager |-> FALSE]
    /\ applied = 0 /\ edits = 0 /\ faults = 0
    /\ seen = [m \in Manager |-> {}]

\* What a pass does next when the API server is reached.
Reconcile(m) ==
    \/ StartPass(m) \/ GetNotFound(m) \/ Get(m)
    \/ MarkReconciling(m) \/ StatusRefused(m)
    \/ CreateStatefulSet(m) \/ StatefulSetExists(m)
    \/ UpdateStatefulSet(m) \/ UpdateRefused(m)
    \/ CreateService(m) \/ CreateDeployment(m)
    \/ MarkReady(m)

Next ==
    \/ \E m \in Manager : Reconcile(m) \/ CallFails(m) \/ TimerFires(m) \/ Sync(m)
    \/ \E s \in Spec0 : Apply(s) \/ Edit(s)
    \/ Delete
    \/ \E c \in Child : DeleteChild(c) \/ Collect(c)

Spec == Init /\ [][Next]_vars

\* Passes go on, the informers follow, the delay of RequeueAfter passes and the
\* garbage collector works.  Nothing obliges users to act or calls to fail.
Fairness ==
    /\ \A m \in Manager : WF_vars(Reconcile(m)) /\ WF_vars(TimerFires(m)) /\ WF_vars(Sync(m))
    /\ \A c \in Child : WF_vars(Collect(c))

FairSpec == Spec /\ Fairness
-----------------------------------------------------------------------------
(* Properties *)

Resource == [uid : Uid, spec : Spec0, phase : Phase] \union {NoObject}

TypeOK ==
    /\ resource \in Resource
    /\ statefulSet # NoObject =>
         /\ statefulSet.owner \in Uid
         /\ \E s \in Spec0 : statefulSet = [owner |-> statefulSet.owner,
                                           database |-> Defaulted(s).database,
                                           storage |-> Defaulted(s).storage]
    /\ service # NoObject => service \in [owner : Uid]
    /\ deployment # NoObject => deployment \in [owner : Uid, replicas : Nat \ {0}]
    /\ cached \in [Manager -> Resource]
    /\ synced \in [Manager -> BOOLEAN]
    /\ queued \in [Manager -> BOOLEAN]
    /\ timer \in [Manager -> BOOLEAN]
    /\ pc \in [Manager -> Call]
    /\ killkrill \in [Manager -> Resource]
    /\ \A m \in Manager : pc[m] \notin {"idle", "get"} => killkrill[m] # NoObject
    /\ current \in [Manager -> BOOLEAN]
    /\ applied \in 0..MaxApply /\ edits \in 0..MaxEdit /\ faults \in 0..MaxFault
    /\ seen \in [Manager -> SUBSET Child]

\* "Ready" is true when it is written: the resource is still the one, and its
\* spec the one, that this pass built the children from, and every child existed
\* at some moment of the pass, however old the copy that the pass began with, and
\* whatever users and the garbage collector did between its calls (Reconcile, the
\* resourceVersion of its copy).
ReadyIsCurrent ==
    [][\A m \in Manager :
         /\ pc[m] = "ready" /\ pc'[m] = "idle"
         /\ resource' # NoObject /\ resource # NoObject
         /\ resource'.phase = "Ready" /\ resource.phase # "Ready"
         => /\ resource.uid = killkrill[m].uid
            /\ resource.spec = killkrill[m].spec
            /\ seen[m] = Child]_vars

\* The StatefulSet in the cluster claims other storage than the spec: no pass gets
\* past the refused update.
StorageClash ==
    /\ resource # NoObject /\ statefulSet # NoObject
    /\ statefulSet.storage # Postgres(resource).storage

Built ==
    /\ resource # NoObject
    /\ statefulSet = Postgres(resource)
    /\ service = [owner |-> resource.uid]
    /\ deployment # NoObject /\ deployment.owner = resource.uid

\* Once users let a resource be, its children come to exist, belong to it, and
\* PostgreSQL's follows the spec, after failed calls, lost answers, stale caches,
\* deleted children and a resource of the same name before it.
Converges ==
    <>[](resource # NoObject /\ ~StorageClash) => <>[]Built

\* A deleted resource leaves nothing behind, though a pass that read it from a
\* cache may still be creating children (SetControllerReference).
NothingLeft ==
    <>[](resource = NoObject) => <>[](Existing = {})
=============================================================================
