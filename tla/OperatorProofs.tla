---------------------------- MODULE OperatorProofs ----------------------------
(***************************************************************************)
(* Theorems about Operator, for any number of managers, any specs and any  *)
(* bounds: TLC checks one manager.  The inductive invariant says what a    *)
(* resourceVersion is worth: a copy that is current is the stored object,  *)
(* and a pass has met the children that it is past.                        *)
(***************************************************************************)
EXTENDS Operator, TLAPS

\* A copy that passes for the stored version is the stored version.
CopiesTrue ==
    /\ \A m \in Manager : synced[m] => cached[m] = resource
    /\ \A m \in Manager : current[m] /\ pc[m] \notin {"idle", "get"} => killkrill[m] = resource

\* The children that a pass has met by the time it makes a call.
Met(call) == CASE call \in {"update", "service"} -> {"StatefulSet"}
               [] call = "receiver"              -> {"StatefulSet", "Service"}
               [] call = "ready"                 -> Child
               [] OTHER                          -> {}

MeetsChildren == \A m \in Manager : Met(pc[m]) \subseteq seen[m]

IInv == TypeOK /\ CopiesTrue /\ MeetsChildren
-----------------------------------------------------------------------------
(* The children that a pass builds have their types. *)

LEMMA DefaultedReplicas ==
    ASSUME NEW s \in Spec0
    PROVE  Defaulted(s).replicas \in Nat \ {0}
  BY OperatorAssumption DEF Defaulted

LEMMA ChildTypes ==
    ASSUME NEW k \in Resource, k # NoObject
    PROVE  /\ k.uid \in Uid /\ k.spec \in Spec0 /\ k.phase \in Phase
           /\ Postgres(k).owner \in Uid
           /\ \E s \in Spec0 : Postgres(k) = [owner |-> Postgres(k).owner,
                                              database |-> Defaulted(s).database,
                                              storage |-> Defaulted(s).storage]
           /\ LogReceiver(k) \in [owner : Uid, replicas : Nat \ {0}]
  <1>1. k \in [uid : Uid, spec : Spec0, phase : Phase]
    BY DEF Resource
  <1>2. k.uid \in Uid /\ k.spec \in Spec0 /\ k.phase \in Phase
    BY <1>1
  <1>3. Postgres(k).owner = k.uid
    BY DEF Postgres
  <1>4. Postgres(k) = [owner |-> Postgres(k).owner,
                       database |-> Defaulted(k.spec).database,
                       storage |-> Defaulted(k.spec).storage]
    BY DEF Postgres
  <1>5. LogReceiver(k) \in [owner : Uid, replicas : Nat \ {0}]
    BY <1>2, DefaultedReplicas DEF LogReceiver
  <1> QED BY <1>2, <1>3, <1>4, <1>5

LEMMA InitIInv == Init => IInv
  <1> SUFFICES ASSUME Init PROVE IInv
    OBVIOUS
  <1>1. TypeOK
    BY OperatorAssumption DEF Init, TypeOK, Resource, Call
  <1>2. CopiesTrue
    BY DEF Init, CopiesTrue
  <1>3. MeetsChildren
    BY DEF Init, MeetsChildren, Met
  <1> QED BY <1>1, <1>2, <1>3 DEF IInv
-----------------------------------------------------------------------------
(* Type correctness *)

\* The type invariant in three parts, by what the variables stand for.
StoredTypes ==
    /\ resource \in Resource
    /\ statefulSet # NoObject =>
         /\ statefulSet.owner \in Uid
         /\ \E s \in Spec0 : statefulSet = [owner |-> statefulSet.owner,
                                           database |-> Defaulted(s).database,
                                           storage |-> Defaulted(s).storage]
    /\ service # NoObject => service \in [owner : Uid]
    /\ deployment # NoObject => deployment \in [owner : Uid, replicas : Nat \ {0}]

ManagerTypes ==
    /\ cached \in [Manager -> Resource]
    /\ synced \in [Manager -> BOOLEAN]
    /\ queued \in [Manager -> BOOLEAN]
    /\ timer \in [Manager -> BOOLEAN]
    /\ pc \in [Manager -> Call]
    /\ killkrill \in [Manager -> Resource]
    /\ \A m \in Manager : pc[m] \notin {"idle", "get"} => killkrill[m] # NoObject
    /\ current \in [Manager -> BOOLEAN]
    /\ seen \in [Manager -> SUBSET Child]

WorldTypes == applied \in 0..MaxApply /\ edits \in 0..MaxEdit /\ faults \in 0..MaxFault

LEMMA Types == TypeOK <=> StoredTypes /\ ManagerTypes /\ WorldTypes
  BY DEF TypeOK, StoredTypes, ManagerTypes, WorldTypes

\* WriteStatus, whose two callers have the same need of it.
LEMMA WriteStatusTypes ==
    ASSUME IInv, NEW m \in Manager, NEW phase \in Phase,
           pc[m] \in {"phase", "ready"}, WriteStatus(m, phase)
    PROVE  /\ resource' \in Resource /\ resource' # NoObject
           /\ killkrill' = [killkrill EXCEPT ![m] = resource']
           /\ killkrill' \in [Manager -> Resource]
           /\ current' \in [Manager -> BOOLEAN] /\ synced' \in [Manager -> BOOLEAN]
           /\ resource = killkrill[m] /\ resource # NoObject
           /\ resource'.uid = resource.uid /\ resource'.spec = resource.spec
  <1>1. current[m] /\ resource = killkrill[m] /\ resource # NoObject
    BY DEF IInv, CopiesTrue, TypeOK, WriteStatus
  <1>2. resource \in [uid : Uid, spec : Spec0, phase : Phase]
    BY <1>1 DEF IInv, TypeOK, Resource
  <1>3. resource' = [resource EXCEPT !.phase = phase]
    BY DEF WriteStatus
  <1>4. resource' \in [uid : Uid, spec : Spec0, phase : Phase]
    BY <1>2, <1>3
  <1>5. resource' \in Resource /\ resource' # NoObject
    BY <1>4, NoObjectAssumption DEF Resource, Uid, Phase
  <1>6. killkrill' = [killkrill EXCEPT ![m] = resource'] /\ killkrill \in [Manager -> Resource]
    BY <1>1, <1>3 DEF WriteStatus, IInv, TypeOK
  <1>7. killkrill' \in [Manager -> Resource]
    BY <1>5, <1>6
  <1>8. current' \in [Manager -> BOOLEAN] /\ synced' \in [Manager -> BOOLEAN]
    BY DEF WriteStatus, IInv, TypeOK
  <1>9. resource'.uid = resource.uid /\ resource'.spec = resource.spec
    BY <1>2, <1>3
  <1> QED BY <1>1, <1>5, <1>6, <1>7, <1>8, <1>9

\* The type invariant along the steps of a pass.
LEMMA ReconcileTypes ==
    ASSUME IInv, NEW m \in Manager, Reconcile(m)
    PROVE  TypeOK'
  <1> USE DEF IInv, Call
  <1> SUFFICES StoredTypes' /\ ManagerTypes' /\ WorldTypes'
    BY DEF TypeOK, StoredTypes, ManagerTypes, WorldTypes
  <1>0. StoredTypes /\ ManagerTypes /\ WorldTypes
    BY Types
  <1>1. CASE StartPass(m)
    BY <1>0, <1>1 DEF StartPass, Goto, StoredTypes, ManagerTypes, WorldTypes,
                      children, caches, pass, world
  <1>2. CASE GetNotFound(m)
    BY <1>0, <1>2 DEF GetNotFound, Goto, StoredTypes, ManagerTypes, WorldTypes,
                      children, caches, pass, world
  <1>3. CASE Get(m)
    <2>1. Existing \subseteq Child
      BY DEF Existing
    <2>2. ManagerTypes'
      BY <1>0, <1>3, <2>1 DEF Get, Goto, ManagerTypes, caches
    <2> QED BY <1>0, <1>3, <2>2 DEF Get, StoredTypes, WorldTypes, children, world
  <1>4. CASE MarkReconciling(m)
    <2>1. WriteStatus(m, "Reconciling") /\ pc[m] = "phase" /\ "Reconciling" \in Phase
      BY <1>4 DEF MarkReconciling, Phase
    <2>2. /\ resource' \in Resource /\ resource' # NoObject
          /\ killkrill' = [killkrill EXCEPT ![m] = resource']
          /\ killkrill' \in [Manager -> Resource]
          /\ current' \in [Manager -> BOOLEAN] /\ synced' \in [Manager -> BOOLEAN]
      BY <2>1, WriteStatusTypes
    <2>3. ManagerTypes'
      BY <1>0, <1>4, <2>2 DEF MarkReconciling, Goto, LoseAnswer, Enqueue, ManagerTypes
    <2>4. WorldTypes'
      BY <1>0, <1>4, OperatorAssumption
         DEF MarkReconciling, LoseAnswer, WorldTypes
    <2> QED BY <1>0, <1>4, <2>2, <2>3, <2>4 DEF MarkReconciling, StoredTypes, children
  <1>5. CASE StatusRefused(m)
    BY <1>0, <1>5 DEF StatusRefused, Fail, Enqueue, Goto, StoredTypes, ManagerTypes, WorldTypes,
                      children, caches, pass, world
  <1>6. CASE CreateStatefulSet(m) \/ UpdateStatefulSet(m) \/ CreateService(m) \/ CreateDeployment(m)
    <2>1. killkrill[m] \in Resource /\ killkrill[m] # NoObject
      BY <1>0, <1>6 DEF CreateStatefulSet, UpdateStatefulSet, CreateService, CreateDeployment,
                        ManagerTypes
    <2>2. StoredTypes' /\ seen' \in [Manager -> SUBSET Child]
      <3>0. /\ killkrill[m].uid \in Uid
            /\ LogReceiver(killkrill[m]) \in [owner : Uid, replicas : Nat \ {0}]
            /\ Postgres(killkrill[m]).owner \in Uid
            /\ \E s \in Spec0 : Postgres(killkrill[m]) =
                                   [owner |-> Postgres(killkrill[m]).owner,
                                    database |-> Defaulted(s).database,
                                    storage |-> Defaulted(s).storage]
        BY <2>1, ChildTypes
      <3>1. CASE CreateStatefulSet(m)
        <4>1. statefulSet' = Postgres(killkrill[m]) /\ UNCHANGED <<resource, service, deployment>>
          BY <3>1 DEF CreateStatefulSet
        <4>2. StoredTypes'
          BY <1>0, <3>0, <4>1 DEF StoredTypes
        <4> QED BY <1>0, <3>1, <4>2 DEF CreateStatefulSet, ManagerTypes, Child
      <3>2. CASE UpdateStatefulSet(m)
        <4>1. statefulSet' = Postgres(killkrill[m]) /\ UNCHANGED <<resource, service, deployment>>
          BY <3>2 DEF UpdateStatefulSet
        <4>2. StoredTypes'
          BY <1>0, <3>0, <4>1 DEF StoredTypes
        <4> QED BY <1>0, <3>2, <4>2 DEF UpdateStatefulSet, ManagerTypes
      <3>3. CASE CreateService(m)
        <4>1. /\ service' # service => service' = [owner |-> killkrill[m].uid]
              /\ UNCHANGED <<resource, statefulSet, deployment>>
          BY <3>3 DEF CreateService
        <4>2. StoredTypes'
          BY <1>0, <3>0, <4>1 DEF StoredTypes
        <4> QED BY <1>0, <3>3, <4>2 DEF CreateService, ManagerTypes, Child
      <3>4. CASE CreateDeployment(m)
        <4>1. /\ deployment' # deployment => deployment' = LogReceiver(killkrill[m])
              /\ UNCHANGED <<resource, statefulSet, service>>
          BY <3>4 DEF CreateDeployment
        <4>2. StoredTypes'
          BY <1>0, <3>0, <4>1 DEF StoredTypes
        <4> QED BY <1>0, <3>4, <4>2 DEF CreateDeployment, ManagerTypes, Child
      <3> QED BY <1>6, <3>1, <3>2, <3>3, <3>4
    <2>3. /\ \E c \in Call : pc' = [pc EXCEPT ![m] = c]
          /\ queued' \in [Manager -> BOOLEAN]
          /\ faults' = faults \/ (faults < MaxFault /\ faults' = faults + 1)
      <3>1. ASSUME NEW call \in {"service", "receiver", "ready"}, NEW changed \in BOOLEAN,
                   Answered(m, call, changed)
            PROVE  /\ \E c \in Call : pc' = [pc EXCEPT ![m] = c]
                   /\ queued' \in [Manager -> BOOLEAN]
                   /\ faults' = faults \/ (faults < MaxFault /\ faults' = faults + 1)
        <4>1. Notify \/ Enqueue(m) \/ UNCHANGED queued
          BY <3>1 DEF Answered
        <4>2. queued' \in [Manager -> BOOLEAN]
          BY <1>0, <4>1 DEF Notify, Enqueue, ManagerTypes
        <4>3. \/ pc' = [pc EXCEPT ![m] = call] /\ faults' = faults
              \/ pc' = [pc EXCEPT ![m] = "idle"] /\ faults < MaxFault /\ faults' = faults + 1
          BY <3>1 DEF Answered, Goto, LoseAnswer
        <4>4. \E c \in Call : pc' = [pc EXCEPT ![m] = c]
          BY <3>1, <4>3
        <4> QED BY <4>2, <4>3, <4>4
      <3>2. CASE CreateStatefulSet(m)
        BY <3>1, <3>2 DEF CreateStatefulSet
      <3>3. CASE UpdateStatefulSet(m)
        BY <3>1, <3>3 DEF UpdateStatefulSet
      <3>4. CASE CreateService(m)
        BY <3>1, <3>4 DEF CreateService
      <3>5. CASE CreateDeployment(m)
        BY <3>1, <3>5 DEF CreateDeployment
      <3> QED BY <1>6, <3>2, <3>3, <3>4, <3>5
    <2>4. /\ pc' \in [Manager -> Call] /\ \A n \in Manager : n # m => pc'[n] = pc[n]
          /\ faults' \in 0..MaxFault
      BY <1>0, <2>3, OperatorAssumption DEF ManagerTypes, WorldTypes
    <2>6. UNCHANGED <<caches, timer, pass, applied, edits>>
      BY <1>6 DEF CreateStatefulSet, UpdateStatefulSet, CreateService, CreateDeployment
    <2> QED BY <1>0, <2>1, <2>2, <2>3, <2>4, <2>6 DEF ManagerTypes, WorldTypes, caches, pass
  <1>7. CASE StatefulSetExists(m)
    BY <1>0, <1>7 DEF StatefulSetExists, Goto, StoredTypes, ManagerTypes, WorldTypes, Child,
                      children, caches, pass, world
  <1>8. CASE UpdateRefused(m)
    BY <1>0, <1>8 DEF UpdateRefused, Fail, Enqueue, Goto, StoredTypes, ManagerTypes, WorldTypes,
                      children, caches, pass, world
  <1>9. CASE MarkReady(m)
    <2>1. WriteStatus(m, "Ready") /\ pc[m] = "ready" /\ "Ready" \in Phase
      BY <1>9 DEF MarkReady, Phase
    <2>2. /\ resource' \in Resource /\ resource' # NoObject
          /\ killkrill' = [killkrill EXCEPT ![m] = resource']
          /\ killkrill' \in [Manager -> Resource]
          /\ current' \in [Manager -> BOOLEAN] /\ synced' \in [Manager -> BOOLEAN]
      BY <2>1, WriteStatusTypes
    <2>3. ManagerTypes'
      BY <1>0, <1>9, <2>2 DEF MarkReady, Goto, LoseAnswer, Enqueue, ManagerTypes
    <2>4. WorldTypes'
      BY <1>0, <1>9, OperatorAssumption DEF MarkReady, LoseAnswer, WorldTypes
    <2> QED BY <1>0, <1>9, <2>2, <2>3, <2>4 DEF MarkReady, StoredTypes, children
  <1> QED
    BY <1>1, <1>2, <1>3, <1>4, <1>5, <1>6, <1>7, <1>8, <1>9 DEF Reconcile

\* A step that is not a pass's: a manager's own, a user's or the collector's.
Around == \/ \E m \in Manager : CallFails(m) \/ TimerFires(m) \/ Sync(m)
          \/ \E s \in Spec0 : Apply(s) \/ Edit(s)
          \/ Delete
          \/ \E c \in Child : DeleteChild(c) \/ Collect(c)

\* The type invariant along the other steps.
LEMMA AroundTypes ==
    ASSUME IInv, Around
    PROVE  TypeOK'
  <1> USE DEF IInv
  <1> SUFFICES StoredTypes' /\ ManagerTypes' /\ WorldTypes'
    BY DEF TypeOK, StoredTypes, ManagerTypes, WorldTypes
  <1>0. StoredTypes /\ ManagerTypes /\ WorldTypes
    BY Types
  <1>1. ASSUME NEW m \in Manager, CallFails(m) PROVE StoredTypes' /\ ManagerTypes' /\ WorldTypes'
    BY <1>0, <1>1, OperatorAssumption
       DEF CallFails, Fail, Enqueue, Goto, StoredTypes, ManagerTypes, WorldTypes, Call,
           children, caches, pass
  <1>2. ASSUME NEW m \in Manager, TimerFires(m) PROVE StoredTypes' /\ ManagerTypes' /\ WorldTypes'
    BY <1>0, <1>2 DEF TimerFires, Enqueue, StoredTypes, ManagerTypes, WorldTypes,
                      children, caches, pass, world
  <1>3. ASSUME NEW m \in Manager, Sync(m) PROVE StoredTypes' /\ ManagerTypes' /\ WorldTypes'
    BY <1>0, <1>3 DEF Sync, Enqueue, StoredTypes, ManagerTypes, WorldTypes, children, pass, world
  <1>4. ASSUME NEW s \in Spec0, Apply(s) PROVE StoredTypes' /\ ManagerTypes' /\ WorldTypes'
    <2>1. applied' \in 0..MaxApply /\ applied' \in Uid
      <3>1. applied \in 0..MaxApply /\ applied < MaxApply /\ applied' = applied + 1
        BY <1>0, <1>4 DEF Apply, WorldTypes
      <3> QED BY <3>1, OperatorAssumption DEF Uid
    <2>2. resource' \in Resource
      BY <1>4, <2>1 DEF Apply, Resource, Phase
    <2> QED BY <1>0, <1>4, <2>1, <2>2
            DEF Apply, Overtake, StoredTypes, ManagerTypes, WorldTypes, children
  <1>5. ASSUME NEW s \in Spec0, Edit(s) PROVE StoredTypes' /\ ManagerTypes' /\ WorldTypes'
    <2>1. edits' \in 0..MaxEdit
      BY <1>0, <1>5, OperatorAssumption DEF Edit, WorldTypes
    <2>2. resource' \in Resource
      BY <1>0, <1>5 DEF Edit, Resource, StoredTypes
    <2> QED BY <1>0, <1>5, <2>1, <2>2
            DEF Edit, Overtake, StoredTypes, ManagerTypes, WorldTypes, children
  <1>6. CASE Delete
    BY <1>0, <1>6 DEF Delete, Overtake, StoredTypes, ManagerTypes, WorldTypes, Resource,
                      children, world
  <1>7. ASSUME NEW c \in Child, Remove(c)
        PROVE  StoredTypes' /\ ManagerTypes'
    BY <1>0, <1>7 DEF Remove, Notify, StoredTypes, ManagerTypes, caches, pass
  <1>8. ASSUME NEW c \in Child, DeleteChild(c) \/ Collect(c)
        PROVE  StoredTypes' /\ ManagerTypes' /\ WorldTypes'
    BY <1>0, <1>7, <1>8, OperatorAssumption DEF DeleteChild, Collect, WorldTypes, world
  <1> QED
    BY <1>1, <1>2, <1>3, <1>4, <1>5, <1>6, <1>8 DEF Around
-----------------------------------------------------------------------------
(* Copies and children met *)

LEMMA ReconcileCopies ==
    ASSUME IInv, NEW m \in Manager, Reconcile(m)
    PROVE  CopiesTrue'
  <1> USE DEF IInv
  <1>0. /\ pc \in [Manager -> Call] /\ killkrill \in [Manager -> Resource]
        /\ current \in [Manager -> BOOLEAN] /\ synced \in [Manager -> BOOLEAN]
    BY DEF TypeOK
  <1>1. CASE StartPass(m) \/ GetNotFound(m) \/ StatusRefused(m) \/ UpdateRefused(m)
    BY <1>0, <1>1 DEF StartPass, GetNotFound, StatusRefused, UpdateRefused, Fail, Enqueue, Goto,
                      CopiesTrue, caches, pass
  <1>2. CASE Get(m)
    BY <1>0, <1>2 DEF Get, Goto, CopiesTrue, caches
  <1>3. CASE MarkReconciling(m) \/ MarkReady(m)
    <2>1. PICK phase \in Phase : WriteStatus(m, phase) /\ pc[m] \in {"phase", "ready"}
      BY <1>3 DEF MarkReconciling, MarkReady, Phase
    <2>2. /\ resource = killkrill[m] /\ resource \in [uid : Uid, spec : Spec0, phase : Phase]
          /\ killkrill' = [killkrill EXCEPT ![m] = resource']
      BY <2>1, WriteStatusTypes DEF TypeOK, Resource
    <2>3. /\ \A n \in Manager : n # m => pc'[n] = pc[n]
          /\ cached' = cached
      BY <1>0, <1>3 DEF MarkReconciling, MarkReady, Goto, LoseAnswer
    <2>4. CASE resource.phase = phase
      <3>1. resource' = resource
        BY <2>1, <2>2, <2>4 DEF WriteStatus
      <3> QED BY <1>0, <2>1, <2>2, <2>3, <2>4, <3>1 DEF WriteStatus, CopiesTrue
    <2>5. CASE resource.phase # phase
      BY <1>0, <2>1, <2>2, <2>3, <2>5 DEF WriteStatus, CopiesTrue
    <2> QED BY <2>4, <2>5
  <1>4. CASE \/ CreateStatefulSet(m) \/ StatefulSetExists(m) \/ UpdateStatefulSet(m)
            \/ CreateService(m) \/ CreateDeployment(m)
    <2>1. /\ UNCHANGED <<resource, cached, synced, killkrill, current>>
          /\ pc[m] \notin {"idle", "get"}
      BY <1>4 DEF CreateStatefulSet, StatefulSetExists, UpdateStatefulSet, CreateService,
                  CreateDeployment, children, caches, pass
    <2>2. \A n \in Manager : n # m => pc'[n] = pc[n]
      BY <1>0, <1>4 DEF CreateStatefulSet, StatefulSetExists, UpdateStatefulSet, CreateService,
                        CreateDeployment, Answered, Goto, LoseAnswer
    <2> QED BY <2>1, <2>2 DEF CopiesTrue
  <1> QED BY <1>1, <1>2, <1>3, <1>4 DEF Reconcile

LEMMA AroundCopies ==
    ASSUME IInv, Around
    PROVE  CopiesTrue'
  <1> USE DEF IInv
  <1>0. pc \in [Manager -> Call] /\ synced \in [Manager -> BOOLEAN]
        /\ cached \in [Manager -> Resource]
    BY DEF TypeOK
  <1>1. ASSUME NEW m \in Manager, CallFails(m) \/ TimerFires(m) PROVE CopiesTrue'
    BY <1>0, <1>1 DEF CallFails, TimerFires, Fail, Enqueue, Goto, CopiesTrue, caches, pass
  <1>2. ASSUME NEW m \in Manager, Sync(m) PROVE CopiesTrue'
    BY <1>0, <1>2 DEF Sync, CopiesTrue, pass
  <1>3. ASSUME Overtake PROVE CopiesTrue'
    BY <1>3 DEF Overtake, CopiesTrue
  <1>4. ASSUME NEW c \in Child, Remove(c) PROVE CopiesTrue'
    BY <1>4 DEF Remove, CopiesTrue, caches, pass
  <1> QED BY <1>1, <1>2, <1>3, <1>4 DEF Around, Apply, Edit, Delete, DeleteChild, Collect

\* A pass moves on by itself: another manager's has no part in it.
LEMMA OtherPass ==
    ASSUME TypeOK, NEW m \in Manager, NEW n \in Manager, n # m, Reconcile(n)
    PROVE  pc'[m] = pc[m] /\ seen'[m] = seen[m]
  <1>1. pc \in [Manager -> Call] /\ seen \in [Manager -> SUBSET Child]
    BY DEF TypeOK
  <1> QED
    BY <1>1 DEF Reconcile, StartPass, GetNotFound, Get, MarkReconciling, StatusRefused,
                CreateStatefulSet, StatefulSetExists, UpdateStatefulSet, UpdateRefused,
                CreateService, CreateDeployment, MarkReady, Answered, LoseAnswer, Fail, Goto

\* A pass is past a child only when it has met it.
LEMMA NextMeetsChildren ==
    ASSUME IInv, Next
    PROVE  MeetsChildren'
  <1> USE DEF IInv
  <1>0. pc \in [Manager -> Call] /\ seen \in [Manager -> SUBSET Child]
    BY DEF TypeOK
  <1>1. SUFFICES ASSUME NEW m \in Manager
                 PROVE  Met(pc'[m]) \subseteq seen'[m]
    BY DEF MeetsChildren
  <1>2. Met(pc[m]) \subseteq seen[m]
    BY DEF MeetsChildren
  <1>3. CASE pc'[m] = pc[m] /\ seen[m] \subseteq seen'[m]
    BY <1>2, <1>3
  <1>4. CASE pc'[m] \in {"idle", "get", "phase", "create"}
    BY <1>4 DEF Met
  <1>5. CASE /\ pc[m] = "create" /\ pc'[m] \in {"update", "service"}
             /\ seen'[m] = seen[m] \union {"StatefulSet"}
    BY <1>5 DEF Met
  <1>6. CASE pc[m] = "update" /\ pc'[m] = "service" /\ seen' = seen
    BY <1>2, <1>6 DEF Met
  <1>7. CASE /\ pc[m] = "service" /\ pc'[m] = "receiver"
             /\ seen'[m] = seen[m] \union {"Service"}
    BY <1>2, <1>7 DEF Met
  <1>8. CASE /\ pc[m] = "receiver" /\ pc'[m] = "ready"
             /\ seen'[m] = seen[m] \union {"Deployment"}
    BY <1>2, <1>8 DEF Met, Child
  <1>9. \/ pc'[m] = pc[m] /\ seen[m] \subseteq seen'[m]
        \/ pc'[m] \in {"idle", "get", "phase", "create"}
        \/ /\ pc[m] = "create" /\ pc'[m] \in {"update", "service"}
           /\ seen'[m] = seen[m] \union {"StatefulSet"}
        \/ pc[m] = "update" /\ pc'[m] = "service" /\ seen' = seen
        \/ /\ pc[m] = "service" /\ pc'[m] = "receiver"
           /\ seen'[m] = seen[m] \union {"Service"}
        \/ /\ pc[m] = "receiver" /\ pc'[m] = "ready"
           /\ seen'[m] = seen[m] \union {"Deployment"}
    <2>1. ASSUME NEW n \in Manager, n # m, Reconcile(n)
          PROVE  pc'[m] = pc[m] /\ seen'[m] = seen[m]
      BY <2>1, OtherPass
    <2>2. CASE StartPass(m) \/ GetNotFound(m) \/ Get(m) \/ StatusRefused(m) \/ UpdateRefused(m)
      BY <1>0, <2>2 DEF StartPass, GetNotFound, Get, StatusRefused, UpdateRefused, Fail, Goto
    <2>3. CASE MarkReconciling(m) \/ MarkReady(m)
      BY <1>0, <2>3 DEF MarkReconciling, MarkReady, LoseAnswer, Goto
    <2>4. CASE CreateStatefulSet(m)
      BY <1>0, <2>4 DEF CreateStatefulSet, Answered, LoseAnswer, Goto
    <2>5. CASE StatefulSetExists(m)
      BY <1>0, <2>5 DEF StatefulSetExists, Goto
    <2>6. CASE UpdateStatefulSet(m)
      BY <1>0, <2>6 DEF UpdateStatefulSet, Answered, LoseAnswer, Goto
    <2>7. CASE CreateService(m)
      BY <1>0, <2>7 DEF CreateService, Answered, LoseAnswer, Goto
    <2>8. CASE CreateDeployment(m)
      BY <1>0, <2>8 DEF CreateDeployment, Answered, LoseAnswer, Goto
    <2>9. ASSUME NEW n \in Manager, CallFails(n) \/ TimerFires(n) \/ Sync(n)
          PROVE  seen' = seen /\ (pc'[m] = pc[m] \/ pc'[m] = "idle")
      BY <1>0, <2>9 DEF CallFails, TimerFires, Sync, Fail, Goto
    <2>10. ASSUME NEW s \in Spec0, Apply(s) \/ Edit(s) PROVE seen' = seen /\ pc' = pc
      BY <2>10 DEF Apply, Edit
    <2>11. CASE Delete
      BY <2>11 DEF Delete
    <2>12. ASSUME NEW c \in Child, DeleteChild(c) \/ Collect(c) PROVE seen' = seen /\ pc' = pc
      BY <2>12 DEF DeleteChild, Collect, Remove
    <2> QED
      BY <2>1, <2>2, <2>3, <2>4, <2>5, <2>6, <2>7, <2>8, <2>9, <2>10, <2>11, <2>12
         DEF Next, Reconcile
  <1> QED BY <1>3, <1>4, <1>5, <1>6, <1>7, <1>8, <1>9
-----------------------------------------------------------------------------
(* The theorems *)

LEMMA StepIInv == IInv /\ [Next]_vars => IInv'
  <1> SUFFICES ASSUME IInv, [Next]_vars PROVE IInv'
    OBVIOUS
  <1>1. CASE Next
    <2>1. (\E m \in Manager : Reconcile(m)) \/ Around
      BY <1>1 DEF Next, Around
    <2>2. TypeOK' /\ CopiesTrue'
      BY <2>1, ReconcileTypes, ReconcileCopies, AroundTypes, AroundCopies
    <2>3. MeetsChildren'
      BY <1>1, NextMeetsChildren
    <2> QED BY <2>2, <2>3 DEF IInv
  <1>2. CASE UNCHANGED vars
    BY <1>2 DEF vars, IInv, TypeOK, CopiesTrue, MeetsChildren
  <1> QED BY <1>1, <1>2

LEMMA Invariance == Spec => []IInv
  BY InitIInv, StepIInv, PTL DEF Spec

\* The objects stored and the managers' copies of them have their types, the
\* StatefulSet is always one that setDefaults makes of a spec somebody wrote, and
\* a pass that talks to the API server holds a resource (Reconcile).
THEOREM TypeCorrect == Spec => []TypeOK
  BY Invariance, PTL DEF IInv

\* Whatever the number of managers without a leader: "Ready" is only written over
\* the very version of the resource that the pass worked from, after a pass that
\* met all the children (Reconcile's status updates).
THEOREM ReadyTruthful == Spec => ReadyIsCurrent
  <1>1. IInv /\ [Next]_vars =>
          [\A m \in Manager :
             /\ pc[m] = "ready" /\ pc'[m] = "idle"
             /\ resource' # NoObject /\ resource # NoObject
             /\ resource'.phase = "Ready" /\ resource.phase # "Ready"
             => /\ resource.uid = killkrill[m].uid
                /\ resource.spec = killkrill[m].spec
                /\ seen[m] = Child]_vars
    <2> SUFFICES ASSUME IInv, Next, NEW m \in Manager,
                        pc[m] = "ready", pc'[m] = "idle",
                        resource' # NoObject, resource # NoObject,
                        resource'.phase = "Ready", resource.phase # "Ready"
                 PROVE  /\ resource.uid = killkrill[m].uid
                        /\ resource.spec = killkrill[m].spec
                        /\ seen[m] = Child
      OBVIOUS
    <2>1. seen[m] = Child
      BY DEF IInv, MeetsChildren, Met, TypeOK
    <2>2. current[m]
      <3>1. CASE Reconcile(m)
        BY <3>1 DEF Reconcile, StartPass, GetNotFound, Get, MarkReconciling, StatusRefused,
                    CreateStatefulSet, StatefulSetExists, UpdateStatefulSet, UpdateRefused,
                    CreateService, CreateDeployment, MarkReady, WriteStatus
      <3>2. ~ \E n \in Manager : n # m /\ Reconcile(n)
        BY OtherPass DEF IInv
      <3>3. ASSUME NEW n \in Manager, CallFails(n) \/ TimerFires(n) \/ Sync(n)
            PROVE  FALSE
        BY <3>3 DEF CallFails, TimerFires, Sync
      <3>4. ASSUME NEW s \in Spec0, Apply(s) \/ Edit(s) PROVE FALSE
        BY <3>4 DEF Apply, Edit
      <3>5. ~Delete
        BY DEF Delete
      <3>6. ASSUME NEW c \in Child, DeleteChild(c) \/ Collect(c) PROVE FALSE
        BY <3>6 DEF DeleteChild, Collect, Remove
      <3> QED BY <3>1, <3>2, <3>3, <3>4, <3>5, <3>6 DEF Next
    <2> QED BY <2>1, <2>2 DEF IInv, CopiesTrue
  <1> QED BY <1>1, Invariance, PTL DEF Spec, ReadyIsCurrent
=============================================================================
