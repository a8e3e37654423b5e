---------------------------- MODULE V2rayProofs ----------------------------
(***************************************************************************)
(* What the V2ray controller promises, proved for any number of objects,   *)
(* sizes, misfortunes and owners' steps.                                   *)
(***************************************************************************)
EXTENDS V2rayProps, KubeProofs

-----------------------------------------------------------------------------
(* Type correctness.                                                        *)

\* A write of an object keeps the API server's and the cache's types.
LEMMA PutTyped ==
  ASSUME TypeOK, NEW v \in Names, NEW o \in Objects, Put(v, o)
  PROVE  /\ api' \in [Names -> Objects \cup {Gone}]
         /\ synced' \subseteq Names
BY DEF TypeOK, Put, Stored

\* A write of a Deployment keeps its and its cache's types.
LEMMA PutDeploymentTyped ==
  ASSUME TypeOK, NEW v \in Names, NEW d \in Deployments \cup {Gone},
         PutDeployment(v, d)
  PROVE  /\ dep' \in [Names -> Deployments \cup {Gone}]
         /\ depSynced' \subseteq Names
BY DEF TypeOK, PutDeployment

\* While Reconcile runs it has a name and an object.
LEMMA Busy ==
  ASSUME TypeOK, pc # "idle"
  PROVE  cur \in Names /\ obj \in Objects
BY DEF TypeOK

LEMMA MisfortuneTyped ==
  ASSUME TypeOK, NEW k, Misfortune(k)
  PROVE  faults' \in 0 .. MaxFaults
BY BoundsAssumption DEF TypeOK, Misfortune

LEMMA AcceptedTyped ==
  ASSUME TypeOK, pc # "idle", NEW o \in Objects, Accepted(o) \/ Refused(o)
  PROVE  /\ api' \in [Names -> Objects \cup {Gone}]
         /\ synced' \subseteq Names
         /\ faults' \in 0 .. MaxFaults
<1>1. cur \in Names
  BY Busy
<1>2. CASE Put(cur, o)
  BY <1>1, <1>2, PutTyped, BoundsAssumption
     DEF Accepted, Refused, Misfortune, TypeOK
<1>3. CASE UNCHANGED <<api, synced>>
  BY <1>3, BoundsAssumption DEF Accepted, Refused, Misfortune, TypeOK
<1> QED
  BY <1>2, <1>3 DEF Accepted, Refused

LEMMA WriteTyped ==
  ASSUME TypeOK, NEW here \in Steps \ {"idle"}, NEW next \in Steps \ {"idle"},
         NEW o \in Objects, Write(here, o, next)
  PROVE  TypeOK'
<1>1. pc # "idle"
  BY DEF Write
<1>2. Gone \notin Objects /\ None \notin Names
  BY MarkersAssumption, NoneAssumption
<1> QED
  BY <1>1, <1>2, Busy, AcceptedTyped
     DEF Write, Continue, Leave, TypeOK, deployments, Steps

LEMMA WriteAndLeaveTyped ==
  ASSUME TypeOK, NEW here \in Steps \ {"idle"}, NEW o \in Objects,
         NEW res \in SUBSET Names, WriteAndLeave(here, o, res)
  PROVE  TypeOK'
<1>1. pc # "idle"
  BY DEF WriteAndLeave
<1> QED
  BY <1>1, Busy, AcceptedTyped
     DEF WriteAndLeave, Leave, TypeOK, deployments, Steps

LEMMA RefetchTyped ==
  ASSUME TypeOK, NEW here \in Steps \ {"idle"}, NEW next,
         cache[cur] # Gone => next \in Steps \ {"idle"}, Refetch(here, next)
  PROVE  TypeOK'
<1>1. Gone \notin Objects /\ None \notin Names /\ cur \in Names
  BY MarkersAssumption, NoneAssumption, Busy DEF Refetch
<1>2. CASE cache[cur] = Gone
  BY <1>1, <1>2 DEF Refetch, Leave, TypeOK, objects, deployments, Steps
<1>3. CASE cache[cur] # Gone
  <2>1. cache[cur] \in Objects
    BY <1>1, <1>3 DEF TypeOK
  <2>2. /\ pc' = next /\ obj' = cache[cur] /\ fresh' = (cur \in synced)
        /\ UNCHANGED <<objects, deployments, cur, queue, faults, edits>>
    BY <1>3 DEF Refetch, Continue
  <2> QED
    BY <1>1, <1>3, <2>1, <2>2 DEF TypeOK, objects, deployments
<1> QED
  BY <1>2, <1>3

\* The objects that are written are objects, and what becomes of their fields.
LEMMA ObjectFields ==
  ASSUME NEW o \in Objects
  PROVE  /\ \A a \in Avail : [o EXCEPT !.avail = a] \in Objects
         /\ \A d \in Degraded : [o EXCEPT !.degraded = d] \in Objects
         /\ \A n \in Sizes : [o EXCEPT !.size = n] \in Objects
         /\ \A b \in BOOLEAN : /\ [o EXCEPT !.fin = b] \in Objects
                              /\ [o EXCEPT !.deleting = b] \in Objects
BY DEF Objects

LEMMA AfterStatusTyped ==
  ASSUME NEW o
  PROVE  AfterStatus(o) \in {"addFinalizer", "degrading", "deployment"}
BY DEF AfterStatus

LEMMA NewObjectTyped ==
  ASSUME TypeOK, edits < MaxEdits, NEW n \in Sizes
  PROVE  NewObject(edits + 1, n) \in Objects
BY BoundsAssumption DEF TypeOK, NewObject, Objects, Uids, Avail, Degraded

LEMMA OwnerStoresTyped ==
  ASSUME TypeOK, NEW v \in Names, NEW o \in Objects, NEW act, OwnerStores(v, act, o)
  PROVE  TypeOK'
BY PutTyped, BoundsAssumption DEF OwnerStores, OwnerPuts, TypeOK, deployments

LEMMA InitTyped == Init => TypeOK
<1> SUFFICES ASSUME Init PROVE TypeOK
  OBVIOUS
<1>1. PICK size \in [Names -> Sizes] : api = [v \in Names |-> NewObject(0, size[v])]
  BY DEF Init
<1>2. api \in [Names -> Objects]
  BY <1>1, BoundsAssumption DEF NewObject, Objects, Uids, Avail, Degraded
<1>3. faults \in 0 .. MaxFaults /\ edits \in 0 .. MaxEdits
  BY BoundsAssumption DEF Init
<1> QED
  BY <1>2, <1>3 DEF Init, TypeOK, Steps

\* The object a step of the worker writes.
Written ==
  CASE pc = "initStatus"      -> [obj EXCEPT !.avail = "Unknown"]
    [] pc = "addFinalizer"    -> [obj EXCEPT !.fin = TRUE]
    [] pc = "degrading"       -> [obj EXCEPT !.degraded = "Unknown"]
    [] pc = "degraded"        -> [obj EXCEPT !.degraded = "True"]
    [] pc = "removeFinalizer" -> [obj EXCEPT !.fin = FALSE]
    [] pc = "imageMissing"    -> [obj EXCEPT !.avail = "NotCreated"]
    [] pc = "resizing"        -> [obj EXCEPT !.avail = "Resizing"]
    [] pc = "available"       -> [obj EXCEPT !.avail = "True"]

Writing == {"initStatus", "addFinalizer", "degrading", "degraded",
            "removeFinalizer", "imageMissing", "resizing", "available"}

LEMMA WrittenTyped ==
  ASSUME TypeOK, pc \in Writing
  PROVE  /\ Written \in Objects
         /\ Written.uid = obj.uid /\ Written.deleting = obj.deleting
         /\ pc \notin {"addFinalizer", "removeFinalizer"} => Written.fin = obj.fin
         /\ pc = "addFinalizer" => Written.fin
         /\ pc = "removeFinalizer" => ~Written.fin /\ Written.degraded = obj.degraded
         /\ pc = "degraded" => Written.degraded = "True"
<1>1. obj \in Objects
  BY Busy DEF Writing
<1>2. Avail = {"none", "Unknown", "NotCreated", "Resizing", "True"}
      /\ Degraded = {"none", "Unknown", "True"}
  BY DEF Avail, Degraded
<1> QED
  BY <1>1, <1>2 DEF Written, Writing, Objects

\* Where the worker goes on when its write has been accepted.
Onward ==
  CASE pc = "initStatus"   -> "refetchInit"
    [] pc = "addFinalizer" -> IF obj.deleting THEN "degrading" ELSE "deployment"
    [] pc = "degrading"    -> "refetchFinal"
    [] pc = "degraded"     -> "removeFinalizer"

\* Every step of the worker is a write of its copy, a read into its copy, or
\* a step that leaves objects and copies alone.
LEMMA WorkerSteps ==
  ASSUME Working
  PROVE  \/ /\ pc \in {"initStatus", "addFinalizer", "degrading", "degraded"}
            /\ Write(pc, Written, Onward)
         \/ /\ pc \in {"removeFinalizer", "available"}
            /\ WriteAndLeave(pc, Written, {})
         \/ /\ pc \in {"imageMissing", "resizing"}
            /\ WriteAndLeave(pc, Written, {cur})
         \/ pc = "refetchInit" /\ Refetch(pc, AfterStatus(cache[cur]))
         \/ pc = "refetchFinal" /\ Refetch(pc, "degraded")
         \/ pc = "refetchResize" /\ Refetch(pc, "resizing")
         \/ CreateDeployment \/ NoImage \/ Resize \/ RightSize
<1>1. CASE InitStatus \/ AddFinalizer \/ Degrade \/ MarkDegraded
  BY <1>1 DEF InitStatus, AddFinalizer, Degrade, MarkDegraded, Written, Onward, Write
<1>2. CASE RemoveFinalizer \/ Available \/ NotCreated \/ ResizeFailed
  BY <1>2 DEF RemoveFinalizer, Available, NotCreated, ResizeFailed, Written, WriteAndLeave
<1>3. CASE RefetchInit \/ RefetchFinal \/ RefetchResize
  BY <1>3 DEF RefetchInit, RefetchFinal, RefetchResize, Refetch
<1> QED
  BY <1>1, <1>2, <1>3 DEF Working

\* The four steps that do not write or read the object.
LEMMA DeploymentStepsTyped ==
  ASSUME TypeOK, CreateDeployment \/ NoImage \/ Resize \/ RightSize
  PROVE  TypeOK'
<1>1. pc # "idle" /\ cur \in Names /\ obj \in Objects
  BY Busy DEF CreateDeployment, NoImage, Resize, RightSize
<1>2. Gone \notin Objects /\ None \notin Names
  BY MarkersAssumption, NoneAssumption
<1>3. CASE CreateDeployment
  <2>1. DeploymentFor(obj) \in Deployments
    BY <1>1 DEF DeploymentFor, Deployments, Objects
  <2>2. /\ dep' \in [Names -> Deployments \cup {Gone}] /\ depSynced' \subseteq Names
        /\ faults' \in 0 .. MaxFaults
    <3>1. CASE PutDeployment(cur, DeploymentFor(obj))
      BY <1>1, <1>3, <2>1, <3>1, PutDeploymentTyped, MisfortuneTyped
         DEF CreateDeployment, TypeOK
    <3>2. CASE UNCHANGED <<dep, depSynced>>
      BY <1>3, <3>2, MisfortuneTyped DEF CreateDeployment, TypeOK
    <3> QED
      BY <1>3, <3>1, <3>2 DEF CreateDeployment
  <2> QED
    BY <1>1, <1>2, <1>3, <2>2 DEF CreateDeployment, Leave, TypeOK, objects, Steps
<1>4. CASE NoImage \/ RightSize
  BY <1>1, <1>2, <1>4 DEF NoImage, RightSize, Continue, TypeOK, objects, deployments, Steps
<1>5. CASE Resize
  <2> DEFINE d == [depCache[cur] EXCEPT !.replicas = obj.size]
  <2>1. d \in Deployments
    BY <1>1, <1>5 DEF Resize, TypeOK, Deployments, Objects
  <2>2. /\ dep' \in [Names -> Deployments \cup {Gone}] /\ depSynced' \subseteq Names
        /\ faults' \in 0 .. MaxFaults
    <3>1. CASE PutDeployment(cur, d)
      BY <1>1, <1>5, <2>1, <3>1, PutDeploymentTyped, MisfortuneTyped DEF Resize, TypeOK
    <3>2. CASE UNCHANGED <<dep, depSynced>>
      BY <1>5, <3>2, MisfortuneTyped DEF Resize, TypeOK
    <3> QED
      BY <1>5, <3>1, <3>2 DEF Resize
  <2>3. UNCHANGED <<objects, depCache, image, edits>>
    BY <1>5 DEF Resize
  <2>4. Leave({cur}) \/ Continue("refetchResize", obj, fresh)
    BY <1>5 DEF Resize
  <2> QED
    BY <1>1, <1>2, <2>2, <2>3, <2>4 DEF Leave, Continue, TypeOK, objects, Steps
<1> QED
  BY <1>3, <1>4, <1>5

LEMMA WorkerTyped ==
  ASSUME TypeOK, Working
  PROVE  TypeOK'
<1>1. ASSUME pc \in {"initStatus", "addFinalizer", "degrading", "degraded"},
             Write(pc, Written, Onward)
      PROVE  TypeOK'
  <2>1. Onward \in Steps \ {"idle"} /\ pc \in Steps \ {"idle"}
    BY <1>1 DEF Onward, Steps
  <2> QED
    BY <1>1, <2>1, WrittenTyped, WriteTyped DEF Writing
<1>2. ASSUME NEW res \in {{}, {cur}}, WriteAndLeave(pc, Written, res),
             pc \in {"removeFinalizer", "available", "imageMissing", "resizing"}
      PROVE  TypeOK'
  BY <1>2, Busy, WrittenTyped, WriteAndLeaveTyped DEF Writing, Steps
<1>3. ASSUME NEW next, Refetch(pc, next), pc \in {"refetchInit", "refetchFinal", "refetchResize"},
             next \in {"addFinalizer", "degrading", "deployment", "degraded", "resizing"}
      PROVE  TypeOK'
  <2>1. next \in Steps \ {"idle"} /\ pc \in Steps \ {"idle"}
    BY <1>3 DEF Steps
  <2> QED
    BY <1>3, <2>1, RefetchTyped
<1>4. AfterStatus(cache[cur]) \in {"addFinalizer", "degrading", "deployment"}
  BY AfterStatusTyped
<1> QED
  BY <1>1, <1>2, <1>3, <1>4, WorkerSteps, DeploymentStepsTyped

\* What surrounds the worker, and its panic.
World ==
  \/ Crash \/ Panic
  \/ \E v \in Names :
       \/ Start(v) \/ CacheSync(v) \/ DeploymentSync(v) \/ Resync(v)
       \/ GarbageCollect(v) \/ Rollout(v)
       \/ Create(v) \/ SetSize(v) \/ Delete(v) \/ Scale(v) \/ Remove(v)

LEMMA WorldTyped ==
  ASSUME TypeOK, World
  PROVE  TypeOK'
<1>0. Gone \notin Objects /\ None \notin Names
  BY MarkersAssumption, NoneAssumption
<1>1. CASE Crash \/ Panic
  BY <1>1, MisfortuneTyped DEF Crash, Panic, ProcessEnds, Restart, TypeOK, Steps
<1>2. ASSUME NEW v \in Names, Start(v)
      PROVE  TypeOK'
  <2>1. CASE cache[v] = Gone
    BY <1>2, <2>1 DEF Start, TypeOK, objects, deployments, hand
  <2>2. CASE cache[v] # Gone
    <3>1. cache[v] \in Objects
      BY <2>2 DEF TypeOK
    <3>2. pc' \in Steps \ {"idle"}
      BY <1>2, <2>2, AfterStatusTyped DEF Start, Steps
    <3> QED
      BY <1>0, <1>2, <2>2, <3>1, <3>2 DEF Start, TypeOK, objects, deployments
  <2> QED
    BY <2>1, <2>2
<1>3. ASSUME NEW v \in Names, CacheSync(v) \/ DeploymentSync(v) \/ Resync(v)
      PROVE  TypeOK'
  BY <1>3 DEF CacheSync, Informed, DeploymentSync, Queued, Resync, Requeued, TypeOK,
              objects, deployments, hand
<1>4. ASSUME NEW v \in Names, GarbageCollect(v) \/ Rollout(v) \/ Scale(v) \/ Remove(v)
      PROVE  TypeOK'
  <2>1. PICK d \in Deployments \cup {Gone} : PutDeployment(v, d)
    BY <1>4 DEF GarbageCollect, Rollout, Scale, Remove, TypeOK, Deployments
  <2>2. faults' \in 0 .. MaxFaults
    BY <1>4, MisfortuneTyped DEF GarbageCollect, Rollout, Scale, Remove, TypeOK
  <2>3. edits' \in 0 .. MaxEdits
    BY <1>4, BoundsAssumption DEF GarbageCollect, Rollout, Scale, Remove, Act, TypeOK
  <2>4. UNCHANGED <<objects, depCache, image, queue, hand>>
    BY <1>4 DEF GarbageCollect, Rollout, Scale, Remove
  <2> QED
    BY <2>1, <2>2, <2>3, <2>4, PutDeploymentTyped DEF TypeOK, objects, hand
<1>5. ASSUME NEW v \in Names, Create(v)
      PROVE  TypeOK'
  BY <1>5, NewObjectTyped, OwnerStoresTyped DEF Create, OwnerStores, OwnerPuts
<1>6. ASSUME NEW v \in Names, SetSize(v) \/ Delete(v)
      PROVE  TypeOK'
  <2>1. api[v] \in Objects
    BY <1>6 DEF SetSize, Delete, Exists, TypeOK
  <2> QED
    BY <1>6, <2>1, ObjectFields, OwnerStoresTyped DEF SetSize, Delete
<1> QED
  BY <1>1, <1>2, <1>3, <1>4, <1>5, <1>6 DEF World

\* Every variable keeps its type, and the worker has a name and a copy of an
\* object exactly while it is in Reconcile.
THEOREM TypeCorrect == Spec => []TypeOK
<1>1. TypeOK /\ UNCHANGED vars => TypeOK'
  BY DEF vars, objects, deployments, hand, TypeOK
<1>2. TypeOK /\ Next => TypeOK'
  BY WorkerTyped, WorldTyped DEF Next, Worker, World
<1> QED
  BY InitTyped, <1>1, <1>2, PTL DEF Spec

-----------------------------------------------------------------------------
(* What copies say about the objects they are copies of.                    *)

\* A copy that is up to date is the object or the Deployment; a deleted object
\* that is still there has a finalizer.
Coherent ==
  /\ fresh => pc # "idle" /\ obj = api[cur]
  /\ \A v \in synced : cache[v] = api[v]
  /\ \A v \in depSynced : depCache[v] = dep[v]
  /\ \A v \in Names : Exists(v) /\ api[v].deleting => api[v].fin

\* Every uid in use is that of the object of an earlier step of an owner: the
\* next object's is new.
Dated ==
  /\ \A v \in Names : /\ Exists(v) => api[v].uid <= edits
                      /\ cache[v] # Gone => cache[v].uid <= edits
                      /\ dep[v] # Gone => dep[v].owner <= edits
                      /\ depCache[v] # Gone => depCache[v].owner <= edits
  /\ obj # Gone => obj.uid <= edits

\* o is a copy of the object of name v, or was one: if the object is still
\* there, it has kept its finalizer.
Outlives(v, o) ==
  o # Gone /\ Exists(v) /\ o.uid = api[v].uid /\ o.fin => api[v].fin

\* An object keeps its finalizer as long as it is there.
Kept ==
  /\ \A v \in Names : Outlives(v, cache[v])
  /\ pc # "idle" => Outlives(cur, obj)

\* What the worker knows when it is about to create a Deployment or to let an
\* object go.
Guards ==
  /\ pc = "deployment" => obj.fin
  /\ pc = "degrading" => obj.fin /\ obj.deleting
  /\ pc \in {"refetchFinal", "degraded", "removeFinalizer"} =>
       Exists(cur) /\ api[cur].deleting
  /\ pc = "removeFinalizer" => obj.degraded = "True"

IInv == Coherent /\ Dated /\ Kept /\ Guards /\ DeployedIsGuarded

\* A write is refused without effect, or replaces the latest version. Only the
\* last write of a finalization takes the finalizer away, and then the object
\* goes.
LEMMA Wrote ==
  ASSUME TypeOK, Coherent, Guards, pc \in Writing,
         Accepted(Written) \/ Refused(Written)
  PROVE  \/ UNCHANGED <<api, synced>> /\ ~Accepted(Written)
         \/ /\ fresh /\ obj = api[cur] /\ Exists(cur) /\ Put(cur, Written)
            /\ api' = [api EXCEPT ![cur] = Stored(Written)]
            /\ pc # "removeFinalizer" =>
                 Stored(Written) = Written /\ (obj.fin => Written.fin)
            /\ pc = "removeFinalizer" => Stored(Written) = Gone
<1>1. cur \in Names /\ obj \in Objects /\ obj # Gone
  BY Busy, MarkersAssumption DEF Writing
<1>2. CASE ~Accepted(Written) /\ UNCHANGED <<api, synced>>
  BY <1>2
<1>3. CASE fresh /\ Put(cur, Written)
  <2>1. obj = api[cur] /\ Exists(cur)
    BY <1>1, <1>3 DEF Coherent, Exists
  <2>2. pc = "removeFinalizer" => Stored(Written) = Gone
    BY <2>1, WrittenTyped DEF Guards, Stored
  <2>3. obj.deleting => obj.fin
    BY <1>1, <2>1 DEF Coherent
  <2>4. pc # "removeFinalizer" => Stored(Written) = Written /\ (obj.fin => Written.fin)
    BY <2>3, WrittenTyped DEF Stored, Writing
  <2> QED
    BY <1>3, <2>1, <2>2, <2>4 DEF Put
<1> QED
  BY <1>2, <1>3 DEF Accepted, Refused

\* What a write leaves of the invariant, whatever becomes of the worker.
LEMMA WriteKeeps ==
  ASSUME TypeOK, IInv, pc \in Writing, Accepted(Written) \/ Refused(Written),
         UNCHANGED <<cache, deployments, edits>>
  PROVE  /\ \A v \in synced' : cache'[v] = api'[v]
         /\ \A v \in depSynced' : depCache'[v] = dep'[v]
         /\ \A v \in Names : Exists(v)' /\ api'[v].deleting => api'[v].fin
         /\ \A v \in Names : /\ Exists(v)' => api'[v].uid <= edits'
                             /\ cache'[v] # Gone => cache'[v].uid <= edits'
                             /\ dep'[v] # Gone => dep'[v].owner <= edits'
                             /\ depCache'[v] # Gone => depCache'[v].owner <= edits'
         /\ \A v \in Names : Outlives(v, cache[v])'
         /\ DeployedIsGuarded'
<1>1. cur \in Names /\ obj \in Objects /\ Gone \notin Objects
  BY Busy, MarkersAssumption DEF Writing
<1>2. Written \in Objects /\ Written.uid = obj.uid /\ Written.deleting = obj.deleting
  BY WrittenTyped
<1>3. CASE UNCHANGED <<api, synced>>
  BY <1>3 DEF IInv, Coherent, Dated, Kept, Outlives, DeployedIsGuarded, Owned, Exists,
              deployments
<1>4. CASE /\ obj = api[cur] /\ Exists(cur) /\ Put(cur, Written)
           /\ api' = [api EXCEPT ![cur] = Stored(Written)]
           /\ Stored(Written) = Written /\ (obj.fin => Written.fin)
  <2>1. api'[cur] = Written /\ \A v \in Names \ {cur} : api'[v] = api[v]
    BY <1>1, <1>4 DEF TypeOK
  <2>2. \A v \in synced' : cache'[v] = api'[v]
    BY <1>1, <1>4 DEF IInv, Coherent, Put, TypeOK
  <2>3. \A v \in Names : Exists(v)' /\ api'[v].deleting => api'[v].fin
    BY <1>1, <1>2, <1>4, <2>1 DEF IInv, Coherent, Exists
  <2>4. \A v \in Names : Outlives(v, cache[v])'
    BY <1>1, <1>2, <1>4, <2>1 DEF IInv, Kept, Outlives, Exists
  <2>5. DeployedIsGuarded'
    BY <1>1, <1>2, <1>4, <2>1 DEF IInv, DeployedIsGuarded, Owned, Exists, deployments
  <2>6. \A v \in Names : Exists(v)' => api'[v].uid <= edits'
    BY <1>1, <1>2, <1>4, <2>1 DEF IInv, Dated, Exists
  <2> QED
    BY <2>2, <2>3, <2>4, <2>5, <2>6 DEF IInv, Coherent, Dated, deployments
<1>5. CASE /\ obj = api[cur] /\ Put(cur, Written)
           /\ api' = [api EXCEPT ![cur] = Gone]
           /\ Stored(Written) = Gone
  <2>1. api'[cur] = Gone /\ \A v \in Names \ {cur} : api'[v] = api[v]
    BY <1>1, <1>5 DEF TypeOK
  <2>2. \A v \in synced' : cache'[v] = api'[v]
    BY <1>1, <1>5 DEF IInv, Coherent, Put, TypeOK
  <2> QED
    BY <1>1, <2>1, <2>2
       DEF IInv, Coherent, Dated, Kept, Outlives, DeployedIsGuarded, Owned, Exists,
           deployments
<1> QED
  BY <1>3, <1>4, <1>5, Wrote DEF IInv

\* The worker leaves: what it knew is forgotten.
LEMMA LeaveKeeps ==
  ASSUME Leave({}) \/ Leave({cur})
  PROVE  /\ pc' = "idle" /\ obj' = Gone /\ ~fresh'
BY DEF Leave

LEMMA WriteStepKeeps ==
  ASSUME TypeOK, IInv,
         pc \in {"initStatus", "addFinalizer", "degrading", "degraded"},
         Write(pc, Written, Onward)
  PROVE  IInv'
<1>1. pc \in Writing /\ pc # "idle"
  BY DEF Writing
<1>2. cur \in Names /\ obj \in Objects /\ Gone \notin Objects
  BY <1>1, Busy, MarkersAssumption
<1>3. UNCHANGED <<cache, deployments, edits>>
  BY DEF Write
<1>4. CASE Refused(Written) /\ Leave({cur})
  BY <1>1, <1>3, <1>4, WriteKeeps, LeaveKeeps DEF IInv, Coherent, Dated, Kept, Guards
<1>5. CASE Accepted(Written) /\ Continue(Onward, Written, TRUE)
  <2>1. /\ obj = api[cur] /\ Exists(cur)
        /\ api' = [api EXCEPT ![cur] = Written]
        /\ obj.fin => Written.fin
    BY <1>1, <1>5, Wrote DEF IInv
  <2>2. api'[cur] = Written /\ cur' = cur /\ obj' = Written /\ pc' = Onward
    BY <1>2, <1>5, <2>1 DEF Continue, TypeOK
  <2>3. Written \in Objects /\ Written.uid = obj.uid /\ Written.deleting = obj.deleting
    BY <1>1, WrittenTyped
  <2>4. Onward \in Steps \ {"idle"}
    BY DEF Onward, Steps
  <2>5. Coherent' /\ Dated' /\ Kept' /\ DeployedIsGuarded'
    BY <1>1, <1>2, <1>3, <1>5, <2>2, <2>3, <2>4, WriteKeeps
       DEF IInv, Coherent, Dated, Kept, Outlives
  <2>6. Guards'
    BY <1>1, <1>2, <2>1, <2>2, <2>3, WrittenTyped DEF IInv, Guards, Onward, Exists
  <2> QED
    BY <2>5, <2>6 DEF IInv
<1> QED
  BY <1>4, <1>5 DEF Write

LEMMA LastWriteKeeps ==
  ASSUME TypeOK, IInv, NEW res \in {{}, {cur}},
         pc \in {"removeFinalizer", "available", "imageMissing", "resizing"},
         WriteAndLeave(pc, Written, res)
  PROVE  IInv'
<1>1. pc \in Writing /\ UNCHANGED <<cache, deployments, edits>>
      /\ (Accepted(Written) \/ Refused(Written)) /\ (Leave({}) \/ Leave({cur}))
  BY DEF Writing, WriteAndLeave
<1> QED
  BY <1>1, WriteKeeps, LeaveKeeps DEF IInv, Coherent, Dated, Kept, Guards

LEMMA RefetchKeeps ==
  ASSUME TypeOK, IInv, NEW next \in Steps \ {"idle"}, Refetch(pc, next), pc # "idle",
         cache[cur] # Gone /\ next = "deployment" => cache[cur].fin,
         cache[cur] # Gone /\ next = "degrading" => cache[cur].fin /\ cache[cur].deleting,
         next \notin {"refetchFinal", "removeFinalizer"},
         next = "degraded" => pc = "refetchFinal"
  PROVE  IInv'
<1>1. cur \in Names /\ obj \in Objects
  BY Busy
<1>2. UNCHANGED <<objects, deployments, faults, edits>>
  BY DEF Refetch
<1>3. CASE cache[cur] = Gone
  <2>1. Leave({cur})
    BY <1>3 DEF Refetch
  <2> QED
    BY <1>2, <2>1, LeaveKeeps
       DEF IInv, Coherent, Dated, Kept, Outlives, Guards, DeployedIsGuarded, Owned,
           Exists, objects, deployments
<1>4. CASE cache[cur] # Gone
  <2>1. pc' = next /\ obj' = cache[cur] /\ fresh' = (cur \in synced) /\ cur' = cur
    BY <1>4 DEF Refetch, Continue
  <2>2. Guards'
    BY <1>2, <1>4, <2>1 DEF IInv, Guards, Exists, objects
  <2> QED
    BY <1>1, <1>2, <1>4, <2>1, <2>2
       DEF IInv, Coherent, Dated, Kept, Outlives, DeployedIsGuarded, Owned, Exists,
           objects, deployments, Steps
<1> QED
  BY <1>3, <1>4

\* The worker stores a Deployment of its own copy, or resizes one: either way
\* an object that has not gone without the worker's knowledge owns it.
LEMMA StoresGuarded ==
  ASSUME TypeOK, IInv, NEW d, PutDeployment(cur, d), pc = "deployment",
         UNCHANGED <<objects, depCache, edits>>,
         \/ d = DeploymentFor(obj)
         \/ d # Gone /\ dep[cur] # Gone /\ d.owner = dep[cur].owner
  PROVE  /\ \A v \in depSynced' : depCache'[v] = dep'[v]
         /\ \A v \in Names : dep'[v] # Gone => dep'[v].owner <= edits'
         /\ DeployedIsGuarded'
<1>1. cur \in Names /\ obj \in Objects /\ obj # Gone
  BY Busy, MarkersAssumption
<1>2. dep'[cur] = d /\ \A v \in Names \ {cur} : dep'[v] = dep[v]
  BY <1>1 DEF PutDeployment, TypeOK
<1>3. d.owner <= edits
  BY <1>1 DEF IInv, Dated, DeploymentFor
<1>4. Exists(cur) /\ d.owner = api[cur].uid => api[cur].fin
  BY <1>1 DEF IInv, Guards, Kept, Outlives, DeployedIsGuarded, Owned, DeploymentFor
<1>5. \A v \in depSynced' : depCache'[v] = dep'[v]
  BY <1>1, <1>2 DEF PutDeployment, IInv, Coherent, TypeOK
<1>6. \A v \in Names : dep'[v] # Gone => dep'[v].owner <= edits'
  BY <1>2, <1>3 DEF IInv, Dated
<1>7. DeployedIsGuarded'
  BY <1>1, <1>2, <1>4 DEF IInv, DeployedIsGuarded, Owned, Exists, objects
<1> QED
  BY <1>5, <1>6, <1>7

LEMMA DeploymentStepsKeep ==
  ASSUME TypeOK, IInv, CreateDeployment \/ NoImage \/ Resize \/ RightSize
  PROVE  IInv'
<1>1. /\ pc = "deployment" /\ cur \in Names /\ obj \in Objects
      /\ UNCHANGED <<objects, depCache, edits>>
  BY Busy DEF CreateDeployment, NoImage, Resize, RightSize, deployments
<1>2. /\ \A v \in depSynced' : depCache'[v] = dep'[v]
      /\ \A v \in Names : dep'[v] # Gone => dep'[v].owner <= edits'
      /\ DeployedIsGuarded'
  <2>1. CASE UNCHANGED <<dep, depSynced>>
    BY <1>1, <2>1
       DEF IInv, Coherent, Dated, DeployedIsGuarded, Owned, Exists, objects
  <2>2. CASE CreateDeployment /\ PutDeployment(cur, DeploymentFor(obj))
    BY <1>1, <2>2, StoresGuarded
  <2>3. CASE Resize /\ cur \in depSynced
             /\ PutDeployment(cur, [depCache[cur] EXCEPT !.replicas = obj.size])
    <3> DEFINE d == [depCache[cur] EXCEPT !.replicas = obj.size]
    <3>1. depCache[cur] = dep[cur] /\ dep[cur] # Gone
      BY <2>3 DEF Resize, IInv, Coherent
    <3>2. dep[cur] \in Deployments
      BY <1>1, <3>1 DEF TypeOK
    <3>3. d \in Deployments /\ d.owner = dep[cur].owner
      BY <1>1, <3>1, <3>2 DEF Deployments, Objects
    <3>4. d # Gone
      BY <3>3, MarkersAssumption
    <3> QED
      BY <1>1, <2>3, <3>1, <3>3, <3>4, StoresGuarded
  <2> QED
    BY <2>1, <2>2, <2>3 DEF CreateDeployment, NoImage, Resize, RightSize, deployments
<1>3. \/ Leave({cur})
      \/ Continue("refetchResize", obj, fresh) \/ Continue("imageMissing", obj, fresh)
      \/ Continue("available", obj, fresh)
  BY DEF CreateDeployment, NoImage, Resize, RightSize
<1>4. CASE Leave({cur})
  BY <1>1, <1>2, <1>4, LeaveKeeps
     DEF IInv, Coherent, Dated, Kept, Outlives, Guards, Exists, objects
<1>5. CASE \/ Continue("refetchResize", obj, fresh) \/ Continue("imageMissing", obj, fresh)
           \/ Continue("available", obj, fresh)
  BY <1>1, <1>2, <1>5
     DEF Continue, IInv, Coherent, Dated, Kept, Outlives, Guards, Exists, objects
<1> QED
  BY <1>3, <1>4, <1>5

LEMMA WorkerKeeps ==
  ASSUME TypeOK, IInv, Working
  PROVE  IInv'
<1>1. CASE pc = "refetchInit" /\ Refetch(pc, AfterStatus(cache[cur]))
  <2>1. cache[cur] # Gone => cache[cur] \in Objects
    BY <1>1, Busy DEF TypeOK
  <2>2. /\ AfterStatus(cache[cur]) \in {"addFinalizer", "degrading", "deployment"}
        /\ AfterStatus(cache[cur]) = "deployment" => cache[cur].fin
        /\ AfterStatus(cache[cur]) = "degrading" => cache[cur].fin /\ cache[cur].deleting
    BY DEF AfterStatus
  <2>3. AfterStatus(cache[cur]) \in Steps \ {"idle"}
    BY <2>2 DEF Steps
  <2> QED
    BY <1>1, <2>1, <2>2, <2>3, RefetchKeeps
<1>2. CASE pc = "refetchFinal" /\ Refetch(pc, "degraded")
  BY <1>2, RefetchKeeps DEF Steps
<1>3. CASE pc = "refetchResize" /\ Refetch(pc, "resizing")
  BY <1>3, RefetchKeeps DEF Steps
<1> QED
  BY <1>1, <1>2, <1>3, WorkerSteps, WriteStepKeeps, LastWriteKeeps, DeploymentStepsKeep

\* An owner's step on the object v: a new one has a uid of its own, any other
\* keeps uid and finalizer.
LEMMA OwnerKeeps ==
  ASSUME TypeOK, IInv, NEW v \in Names, NEW act, NEW o \in Objects,
         OwnerStores(v, act, o),
         \/ ~Exists(v) /\ o.uid = edits + 1 /\ ~o.deleting
         \/ /\ Exists(v) /\ o.uid = api[v].uid /\ o.fin = api[v].fin
            /\ api[v].deleting => o.deleting
  PROVE  IInv'
<1>1. /\ api' = [api EXCEPT ![v] = Stored(o)] /\ edits' = edits + 1
      /\ synced' = IF Stored(o) = api[v] THEN synced ELSE synced \ {v}
      /\ fresh' = (fresh /\ (cur # v \/ Stored(o) = api[v]))
      /\ UNCHANGED <<cache, deployments, queue, pc, cur, obj, faults>>
  BY DEF OwnerStores, OwnerPuts, Put
<1>2. api'[v] = Stored(o) /\ \A w \in Names \ {v} : api'[w] = api[w]
  BY <1>1 DEF TypeOK
<1>3. edits \in Nat /\ Gone \notin Objects
  BY BoundsAssumption, MarkersAssumption DEF TypeOK
<1>4. Coherent'
  <2>1. fresh' => pc' # "idle" /\ obj' = api'[cur']
    BY <1>1, <1>2, Busy DEF IInv, Coherent
  <2>2. \A w \in synced' : cache'[w] = api'[w]
    BY <1>1, <1>2 DEF IInv, Coherent, TypeOK
  <2>3. \A w \in Names : Exists(w)' /\ api'[w].deleting => api'[w].fin
    BY <1>2 DEF IInv, Coherent, Exists, Stored
  <2> QED
    BY <1>1, <2>1, <2>2, <2>3 DEF IInv, Coherent, deployments
<1>5. Dated'
  <2>1. \A w \in Names : /\ api[w] # Gone => api[w].uid \in Nat
                         /\ cache[w] # Gone => cache[w].uid \in Nat
                         /\ dep[w] # Gone => dep[w].owner \in Nat
                         /\ depCache[w] # Gone => depCache[w].owner \in Nat
    BY BoundsAssumption DEF TypeOK, Objects, Deployments, Uids
  <2>2. obj # Gone => obj.uid \in Nat
    BY BoundsAssumption DEF TypeOK, Objects, Uids
  <2>3. \A w \in Names : Exists(w)' => api'[w].uid <= edits'
    BY <1>1, <1>2, <1>3, <2>1 DEF IInv, Dated, Exists, Stored
  <2> QED
    BY <1>1, <1>3, <2>1, <2>2, <2>3 DEF IInv, Dated, deployments
<1>6. ASSUME NEW w \in Names, NEW c, Outlives(w, c), c # Gone => c.uid <= edits,
             c # Gone => c \in Objects
      PROVE  Outlives(w, c)'
  <2>1. CASE w # v
    BY <1>2, <1>6, <2>1 DEF Outlives, Exists
  <2>2. CASE w = v /\ Exists(v) /\ o.uid = api[v].uid /\ o.fin = api[v].fin
    BY <1>2, <1>6, <2>2 DEF Outlives, Exists, Stored
  <2>3. CASE w = v /\ o.uid = edits + 1
    <3>1. c # Gone => c.uid \in Nat
      BY <1>6, BoundsAssumption DEF Objects, Uids
    <3> QED
      BY <1>2, <1>3, <1>6, <2>3, <3>1 DEF Outlives, Exists, Stored
  <2> QED
    BY <2>1, <2>2, <2>3
<1>7. Kept'
  <2>1. \A w \in Names : Outlives(w, cache[w])'
    BY <1>1, <1>6 DEF IInv, Kept, Dated, TypeOK, Outlives, Exists
  <2>2. pc # "idle" => Outlives(cur, obj)'
    BY <1>1, <1>6, Busy DEF IInv, Kept, Dated, Outlives, Exists
  <2> QED
    BY <1>1, <2>1, <2>2 DEF Kept
<1>8. Guards'
  <2>1. CASE ~(pc \in {"refetchFinal", "degraded", "removeFinalizer"} /\ cur = v)
    BY <1>1, <1>2, <2>1, Busy DEF IInv, Guards, Exists
  <2>2. CASE pc \in {"refetchFinal", "degraded", "removeFinalizer"} /\ cur = v
    <3>1. Exists(v) /\ api[v].deleting /\ api[v].fin
      BY <2>2 DEF IInv, Guards, Coherent
    <3>2. api'[v] = o /\ o.deleting /\ o # Gone
      BY <1>2, <1>3, <3>1 DEF Stored
    <3> QED
      BY <1>1, <2>2, <3>2 DEF IInv, Guards, Exists
  <2> QED
    BY <2>1, <2>2
<1>9. DeployedIsGuarded'
  <2>1. dep[v] # Gone => dep[v].owner \in Nat /\ dep[v].owner <= edits
    BY BoundsAssumption DEF IInv, Dated, TypeOK, Deployments, Uids
  <2> QED
    BY <1>1, <1>2, <1>3, <2>1
       DEF IInv, DeployedIsGuarded, Owned, Exists, Stored, deployments
<1> QED
  BY <1>4, <1>5, <1>7, <1>8, <1>9 DEF IInv

LEMMA WorldKeeps ==
  ASSUME TypeOK, IInv, World
  PROVE  IInv'
<1>0. Gone \notin Objects /\ None \notin Names
  BY MarkersAssumption, NoneAssumption
<1>1. CASE Crash \/ Panic
  BY <1>1 DEF Crash, Panic, ProcessEnds, Restart, IInv, Coherent, Dated, Kept, Outlives, Guards,
              DeployedIsGuarded, Owned, Exists
<1>2. ASSUME NEW v \in Names, Start(v)
      PROVE  IInv'
  <2>1. UNCHANGED <<objects, deployments, edits>>
    BY <1>2 DEF Start
  <2>2. CASE cache[v] = Gone
    BY <1>2, <2>1, <2>2
       DEF Start, IInv, Coherent, Dated, Kept, Outlives, Guards, DeployedIsGuarded,
           Owned, Exists, objects, deployments, hand
  <2>3. CASE cache[v] # Gone
    <3>1. /\ pc' \in {"initStatus", AfterStatus(cache[v])}
          /\ cur' = v /\ obj' = cache[v] /\ fresh' = (v \in synced)
      BY <1>2, <2>3 DEF Start
    <3>2. cache[v] \in Objects
      BY <2>3 DEF TypeOK
    <3>3. pc' \in {"initStatus", "addFinalizer", "degrading", "deployment"}
      BY <3>1, AfterStatusTyped
    <3>4. /\ pc' = "deployment" => obj'.fin
          /\ pc' = "degrading" => obj'.fin /\ obj'.deleting
      BY <3>1, <3>2 DEF AfterStatus
    <3>5. Guards'
      BY <3>1, <3>3, <3>4, <2>3 DEF Guards
    <3> QED
      BY <1>2, <2>1, <2>3, <3>1, <3>3, <3>5
         DEF IInv, Coherent, Dated, Kept, Outlives, DeployedIsGuarded, Owned, Exists,
             objects, deployments
  <2> QED
    BY <2>2, <2>3
<1>3. ASSUME NEW v \in Names, CacheSync(v)
      PROVE  IInv'
  <2>1. /\ cache' = [cache EXCEPT ![v] = api[v]] /\ synced' = synced \cup {v}
        /\ UNCHANGED <<api, hand, deployments, edits>>
    BY <1>3 DEF CacheSync, Informed
  <2>2. cache'[v] = api[v] /\ \A w \in Names \ {v} : cache'[w] = cache[w]
    BY <2>1 DEF TypeOK
  <2>3. Coherent'
    BY <2>1, <2>2 DEF IInv, Coherent, TypeOK, hand, deployments, Exists
  <2>4. Dated'
    BY <2>1, <2>2 DEF IInv, Dated, hand, deployments, Exists
  <2>5. Kept'
    BY <2>1, <2>2 DEF IInv, Kept, Outlives, hand, Exists
  <2> QED
    BY <2>1, <2>3, <2>4, <2>5
       DEF IInv, Guards, DeployedIsGuarded, Owned, hand, deployments, Exists
<1>4. ASSUME NEW v \in Names, DeploymentSync(v)
      PROVE  IInv'
  <2>1. /\ depCache' = [depCache EXCEPT ![v] = dep[v]]
        /\ depSynced' = depSynced \cup {v}
        /\ UNCHANGED <<objects, dep, hand, edits>>
    BY <1>4 DEF DeploymentSync
  <2>2. depCache'[v] = dep[v] /\ \A w \in Names \ {v} : depCache'[w] = depCache[w]
    BY <2>1 DEF TypeOK
  <2> QED
    BY <2>1, <2>2
       DEF IInv, Coherent, Dated, Kept, Outlives, Guards, DeployedIsGuarded, Owned,
           TypeOK, hand, objects, Exists
<1>5. ASSUME NEW v \in Names, Resync(v)
      PROVE  IInv'
  BY <1>5 DEF Resync, Requeued, IInv, Coherent, Dated, Kept, Outlives, Guards,
              DeployedIsGuarded, Owned, Exists, hand, objects, deployments
<1>6. ASSUME NEW v \in Names, GarbageCollect(v) \/ Rollout(v) \/ Scale(v) \/ Remove(v)
      PROVE  IInv'
  <2>1. PICK d : /\ PutDeployment(v, d)
                 /\ d = Gone \/ (dep[v] # Gone /\ d.owner = dep[v].owner)
    <3>1. CASE GarbageCollect(v) \/ Remove(v)
      BY <3>1 DEF GarbageCollect, Remove
    <3>2. CASE Rollout(v)
      BY <3>2 DEF Rollout
    <3>3. CASE Scale(v)
      <4>1. PICK n \in Sizes : PutDeployment(v, [dep[v] EXCEPT !.replicas = n])
        BY <3>3 DEF Scale
      <4>2. dep[v] \in Deployments /\ dep[v] # Gone
        BY <3>3 DEF Scale, TypeOK
      <4>3. [dep[v] EXCEPT !.replicas = n].owner = dep[v].owner
        BY <4>2 DEF Deployments
      <4> QED
        BY <4>1, <4>2, <4>3
    <3> QED
      BY <1>6, <3>1, <3>2, <3>3
  <2>2. edits' \in {edits, edits + 1} /\ UNCHANGED <<objects, depCache, hand>>
    BY <1>6 DEF GarbageCollect, Rollout, Scale, Remove, Act
  <2>3. dep'[v] = d /\ (\A w \in Names \ {v} : dep'[w] = dep[w])
        /\ depSynced' = depSynced \ {v}
    BY <2>1 DEF PutDeployment, TypeOK
  <2>4. Coherent'
    BY <2>2, <2>3 DEF IInv, Coherent, TypeOK, hand, objects, Exists
  <2>5. Dated'
    <3>1. \A w \in Names : /\ api[w] # Gone => api[w].uid \in Nat
                           /\ cache[w] # Gone => cache[w].uid \in Nat
                           /\ dep[w] # Gone => dep[w].owner \in Nat
                           /\ depCache[w] # Gone => depCache[w].owner \in Nat
      BY BoundsAssumption DEF TypeOK, Objects, Deployments, Uids
    <3>2. obj # Gone => obj.uid \in Nat
      BY BoundsAssumption DEF TypeOK, Objects, Uids
    <3>3. edits \in Nat
      BY BoundsAssumption DEF TypeOK
    <3>4. /\ edits <= edits'
          /\ \A n \in Nat : n <= edits => n <= edits'
      BY <2>2, <3>3
    <3>5. \A w \in Names : dep'[w] # Gone => dep'[w].owner <= edits'
      BY <2>1, <2>3, <3>1, <3>4 DEF IInv, Dated
    <3> QED
      BY <2>2, <3>1, <3>2, <3>4, <3>5 DEF IInv, Dated, hand, objects, Exists
  <2>6. DeployedIsGuarded'
    BY <2>1, <2>2, <2>3 DEF IInv, DeployedIsGuarded, Owned, Exists, objects
  <2> QED
    BY <2>2, <2>4, <2>5, <2>6 DEF IInv, Kept, Outlives, Guards, Exists, hand, objects
<1>7. ASSUME NEW v \in Names, Create(v)
      PROVE  IInv'
  <2>1. PICK n \in Sizes : OwnerStores(v, "create", NewObject(edits + 1, n))
    BY <1>7 DEF Create
  <2>2. NewObject(edits + 1, n) \in Objects
    BY <2>1, NewObjectTyped DEF OwnerStores, OwnerPuts
  <2> QED
    BY <1>7, <2>1, <2>2, OwnerKeeps DEF Create, NewObject
<1>8. ASSUME NEW v \in Names, SetSize(v)
      PROVE  IInv'
  <2>1. Exists(v) /\ api[v] \in Objects
    BY <1>8 DEF SetSize, Exists, TypeOK
  <2>2. PICK n \in Sizes : OwnerStores(v, "size", [api[v] EXCEPT !.size = n])
    BY <1>8 DEF SetSize
  <2> DEFINE o == [api[v] EXCEPT !.size = n]
  <2>3. o \in Objects /\ o.uid = api[v].uid /\ o.fin = api[v].fin
        /\ o.deleting = api[v].deleting
    BY <2>1 DEF Objects
  <2> QED
    BY <2>1, <2>2, <2>3, OwnerKeeps
<1>9. ASSUME NEW v \in Names, Delete(v)
      PROVE  IInv'
  <2>1. Exists(v) /\ api[v] \in Objects
    BY <1>9 DEF Delete, Exists, TypeOK
  <2> DEFINE o == [api[v] EXCEPT !.deleting = TRUE]
  <2>2. o \in Objects /\ o.uid = api[v].uid /\ o.fin = api[v].fin /\ o.deleting
    BY <2>1 DEF Objects
  <2> QED
    BY <1>9, <2>1, <2>2, OwnerKeeps DEF Delete
<1> QED
  BY <1>1, <1>2, <1>3, <1>4, <1>5, <1>6, <1>7, <1>8, <1>9 DEF World

LEMMA InitInvariant == Init => IInv
<1> SUFFICES ASSUME Init PROVE IInv
  OBVIOUS
<1>1. PICK size \in [Names -> Sizes] : api = [v \in Names |-> NewObject(0, size[v])]
  BY DEF Init
<1>2. \A v \in Names : api[v].uid = 0 /\ ~api[v].deleting
  BY <1>1 DEF NewObject
<1>3. /\ obj = Gone /\ ~fresh /\ pc = "idle" /\ edits = 0
      /\ synced = Names /\ depSynced = Names
      /\ \A v \in Names : cache[v] = api[v] /\ dep[v] = Gone /\ depCache[v] = Gone
  BY DEF Init
<1> QED
  BY <1>2, <1>3 DEF IInv, Coherent, Dated, Kept, Outlives, Guards, DeployedIsGuarded,
                    Owned

\* The invariant holds of every behaviour.
LEMMA Invariant == Spec => [](TypeOK /\ IInv)
<1>1. IInv /\ UNCHANGED vars => IInv'
  BY DEF vars, objects, deployments, hand, IInv, Coherent, Dated, Kept, Outlives,
         Guards, DeployedIsGuarded, Owned, Exists
<1>2. TypeOK /\ IInv /\ Next => IInv'
  BY WorkerKeeps, WorldKeeps DEF Next, Worker, World
<1> QED
  BY InitInvariant, TypeCorrect, <1>1, <1>2, PTL DEF Spec

\* The controller never creates a Deployment for an object that could still go
\* without its knowledge, whatever copies it worked from, whatever owners did
\* and wherever the process was interrupted: a Deployment whose owner exists has
\* an owner with the finalizer.
THEOREM Guarded == Spec => []DeployedIsGuarded
<1>1. IInv => DeployedIsGuarded
  BY DEF IInv
<1> QED
  BY <1>1, Invariant, PTL

-----------------------------------------------------------------------------
(* The abstract life cycle.                                                 *)

\* Only objects with a finalizer are reported available, and only deleted ones
\* have a note of their finalization.
Sound(o) ==
  o # Gone =>
    /\ o.avail = "True" => o.fin
    /\ ~o.deleting => o.degraded = "none"

Lived ==
  /\ \A v \in Names : Sound(api[v])
  /\ pc \in {"deployment", "available"} => obj.fin /\ ~obj.deleting

\* What the fields of a written copy are.
LEMMA WrittenFields ==
  ASSUME TypeOK, pc \in Writing
  PROVE  /\ Written # Gone
         /\ pc # "addFinalizer" /\ pc # "removeFinalizer" => Written.fin = obj.fin
         /\ pc = "addFinalizer" => Written.fin
         /\ Written.deleting = obj.deleting
         /\ Written.avail = (CASE pc = "initStatus" -> "Unknown"
                               [] pc = "imageMissing" -> "NotCreated"
                               [] pc = "resizing" -> "Resizing"
                               [] pc = "available" -> "True"
                               [] OTHER -> obj.avail)
         /\ Written.degraded = (CASE pc = "degrading" -> "Unknown"
                                  [] pc = "degraded" -> "True"
                                  [] OTHER -> obj.degraded)
<1>1. obj \in Objects
  BY Busy DEF Writing
<1>2. Written # Gone
  BY WrittenTyped, MarkersAssumption
<1> QED
  BY <1>1, <1>2 DEF Written, Writing, Objects

\* Every write of the worker is a step of the life cycle.
LEMMA WriteLives ==
  ASSUME TypeOK, IInv, Lived, pc \in Writing, Accepted(Written) \/ Refused(Written)
  PROVE  (\A v \in Names : Sound(api'[v])) /\ [L!Next]_(L!states)
<1>1. CASE UNCHANGED api
  BY <1>1, NothingHappens DEF Lived
<1>2. CASE /\ obj = api[cur] /\ Exists(cur)
           /\ api' = [api EXCEPT ![cur] = Stored(Written)]
           /\ pc # "removeFinalizer" =>
                Stored(Written) = Written /\ (obj.fin => Written.fin)
           /\ pc = "removeFinalizer" => Stored(Written) = Gone
  <2>1. cur \in Names /\ obj \in Objects /\ obj # Gone /\ DOMAIN api = Names
    BY Busy, MarkersAssumption DEF Writing, TypeOK
  <2>2. Sound(obj) /\ (obj.deleting => obj.fin)
    BY <1>2, <2>1 DEF Lived, IInv, Coherent
  <2>3. obj.fin \in BOOLEAN /\ obj.deleting \in BOOLEAN
    BY <2>1 DEF Objects
  <2>4. pc \in {"degrading", "degraded", "removeFinalizer"} => obj.deleting
    BY <1>2 DEF IInv, Guards
  <2>5. pc = "removeFinalizer" => obj.degraded = "True"
    BY DEF IInv, Guards
  <2>6. pc = "available" => obj.fin /\ ~obj.deleting
    BY DEF Lived
  <2>7. Sound(Stored(Written)) /\ Fate(obj, Stored(Written))
    <3>1. CASE pc = "removeFinalizer"
      BY <1>2, <2>1, <2>2, <2>4, <2>5, <3>1 DEF Sound, Fate, Phase, Reported
    <3>2. CASE pc = "addFinalizer"
      BY <1>2, <2>1, <2>2, <2>3, <3>2, WrittenFields DEF Sound, Fate, Phase, Reported
    <3>3. CASE pc \in {"degrading", "degraded"}
      BY <1>2, <2>1, <2>2, <2>3, <2>4, <3>3, WrittenFields
         DEF Sound, Fate, Phase, Reported
    <3>4. CASE pc \in {"initStatus", "imageMissing", "resizing", "available"}
      BY <1>2, <2>1, <2>2, <2>3, <2>6, <3>4, WrittenFields
         DEF Sound, Fate, Phase, Reported
    <3> QED
      BY <3>1, <3>2, <3>3, <3>4 DEF Writing
  <2>8. \A v \in Names : Sound(api'[v])
    BY <1>2, <2>1, <2>7 DEF Lived
  <2> QED
    BY <1>2, <2>1, <2>7, <2>8, FateIsAStep
<1> QED
  BY <1>1, <1>2, Wrote DEF IInv

LEMMA WorkerLives ==
  ASSUME TypeOK, IInv, Lived, Working
  PROVE  Lived' /\ [L!Next]_(L!states)
<1>1. ASSUME pc \in {"initStatus", "addFinalizer", "degrading", "degraded"},
             Write(pc, Written, Onward)
      PROVE  Lived' /\ [L!Next]_(L!states)
  <2>1. pc \in Writing
    BY <1>1 DEF Writing
  <2>2. (\A v \in Names : Sound(api'[v])) /\ [L!Next]_(L!states)
    BY <1>1, <2>1, WriteLives DEF Write
  <2>3. pc' \in {"deployment", "available"} => obj'.fin /\ ~obj'.deleting
    BY <1>1, <2>1, WrittenFields DEF Write, Leave, Continue, Onward
  <2> QED
    BY <2>2, <2>3 DEF Lived
<1>2. ASSUME NEW res \in {{}, {cur}}, WriteAndLeave(pc, Written, res),
             pc \in {"removeFinalizer", "available", "imageMissing", "resizing"}
      PROVE  Lived' /\ [L!Next]_(L!states)
  <2>1. pc \in Writing /\ pc' = "idle"
    BY <1>2 DEF Writing, WriteAndLeave, Leave
  <2> QED
    BY <1>2, <2>1, WriteLives DEF WriteAndLeave, Lived
<1>3. ASSUME NEW next, Refetch(pc, next),
             next \in {AfterStatus(cache[cur]), "degraded", "resizing"}
      PROVE  Lived' /\ [L!Next]_(L!states)
  <2>1. UNCHANGED api
    BY <1>3 DEF Refetch, objects
  <2>2. pc' \in {"deployment", "available"} => obj'.fin /\ ~obj'.deleting
    BY <1>3 DEF Refetch, Leave, Continue, AfterStatus
  <2> QED
    BY <2>1, <2>2, NothingHappens DEF Lived
<1>4. CASE CreateDeployment \/ NoImage \/ Resize \/ RightSize
  <2>1. UNCHANGED api
    BY <1>4 DEF CreateDeployment, NoImage, Resize, RightSize, objects
  <2>2. pc' \in {"deployment", "available"} => obj'.fin /\ ~obj'.deleting
    BY <1>4 DEF CreateDeployment, NoImage, Resize, RightSize, Leave, Continue, Lived
  <2> QED
    BY <2>1, <2>2, NothingHappens DEF Lived
<1> QED
  BY <1>1, <1>2, <1>3, <1>4, WorkerSteps

\* An owner's step on the object v that is a step of the life cycle.
LEMMA OwnerLives ==
  ASSUME TypeOK, IInv, Lived, NEW v \in Names, NEW act, NEW o \in Objects,
         OwnerStores(v, act, o), Sound(Stored(o)), Fate(api[v], Stored(o))
  PROVE  Lived' /\ [L!Next]_(L!states)
<1>1. api' = [api EXCEPT ![v] = Stored(o)] /\ UNCHANGED <<pc, obj>>
  BY DEF OwnerStores, OwnerPuts, Put
<1>2. DOMAIN api = Names
  BY DEF TypeOK
<1>3. [L!Next]_(L!states)
  BY <1>1, <1>2, FateIsAStep
<1>4. \A w \in Names : Sound(api'[w])
  BY <1>1, <1>2 DEF Lived
<1> QED
  BY <1>1, <1>3, <1>4 DEF Lived

LEMMA WorldLives ==
  ASSUME TypeOK, IInv, Lived, World
  PROVE  Lived' /\ [L!Next]_(L!states)
<1>1. ASSUME NEW v \in Names, Create(v)
      PROVE  Lived' /\ [L!Next]_(L!states)
  <2>1. PICK n \in Sizes : OwnerStores(v, "create", NewObject(edits + 1, n))
    BY <1>1 DEF Create
  <2> DEFINE o == NewObject(edits + 1, n)
  <2>2. o \in Objects /\ o # Gone
    BY <2>1, NewObjectTyped, MarkersAssumption DEF OwnerStores, OwnerPuts
  <2>3. ~o.fin /\ ~o.deleting /\ o.avail = "none" /\ o.degraded = "none"
    BY DEF NewObject
  <2>4. Stored(o) = o /\ Sound(o)
    BY <2>3 DEF Stored, Sound
  <2>5. Fate(api[v], Stored(o))
    BY <1>1, <2>2, <2>3, <2>4 DEF Create, Exists, Fate, Phase, Reported
  <2> QED
    BY <2>1, <2>2, <2>4, <2>5, OwnerLives
<1>2. ASSUME NEW v \in Names, SetSize(v)
      PROVE  Lived' /\ [L!Next]_(L!states)
  <2>1. Exists(v) /\ api[v] \in Objects /\ api[v] # Gone
    BY <1>2 DEF SetSize, Exists, TypeOK
  <2>2. PICK n \in Sizes : OwnerStores(v, "size", [api[v] EXCEPT !.size = n])
    BY <1>2 DEF SetSize
  <2> DEFINE o == [api[v] EXCEPT !.size = n]
  <2>3. o \in Objects /\ o # Gone
    BY <2>1, MarkersAssumption DEF Objects
  <2>4. /\ o.fin = api[v].fin /\ o.deleting = api[v].deleting
        /\ o.avail = api[v].avail /\ o.degraded = api[v].degraded
    BY <2>1 DEF Objects
  <2>5. Sound(api[v]) /\ (api[v].deleting => api[v].fin)
    BY <2>1 DEF Lived, IInv, Coherent
  <2>6. Stored(o) = o /\ Sound(o) /\ Fate(api[v], o)
    BY <2>1, <2>3, <2>4, <2>5 DEF Stored, Sound, Fate, Phase, Reported
  <2> QED
    BY <2>2, <2>3, <2>6, OwnerLives
<1>3. ASSUME NEW v \in Names, Delete(v)
      PROVE  Lived' /\ [L!Next]_(L!states)
  <2>1. Exists(v) /\ api[v] \in Objects /\ api[v] # Gone /\ ~api[v].deleting
    BY <1>3 DEF Delete, Exists, TypeOK
  <2> DEFINE o == [api[v] EXCEPT !.deleting = TRUE]
  <2>2. o \in Objects /\ o # Gone
    BY <2>1, MarkersAssumption DEF Objects
  <2>3. /\ o.fin = api[v].fin /\ o.deleting
        /\ o.avail = api[v].avail /\ o.degraded = api[v].degraded
    BY <2>1 DEF Objects
  <2>4. Sound(api[v]) /\ api[v].fin \in BOOLEAN
    BY <2>1 DEF Lived, Objects
  <2>5. Sound(Stored(o)) /\ Fate(api[v], Stored(o))
    BY <2>1, <2>2, <2>3, <2>4 DEF Stored, Sound, Fate, Phase, Reported
  <2> QED
    BY <1>3, <2>2, <2>5, OwnerLives DEF Delete
<1>4. ASSUME NEW v \in Names, Start(v)
      PROVE  Lived' /\ [L!Next]_(L!states)
  <2>1. UNCHANGED api
    BY <1>4 DEF Start, objects
  <2>2. pc' \in {"deployment", "available"} => obj'.fin /\ ~obj'.deleting
    BY <1>4 DEF Start, AfterStatus, Lived, hand
  <2> QED
    BY <2>1, <2>2, NothingHappens DEF Lived
<1>5. CASE UNCHANGED api /\ (UNCHANGED <<pc, obj>> \/ pc' = "idle")
  BY <1>5, NothingHappens DEF Lived
<1> QED
  BY <1>1, <1>2, <1>3, <1>4, <1>5
     DEF World, Crash, Panic, ProcessEnds, Restart, CacheSync, Informed, DeploymentSync, Resync,
         Requeued, GarbageCollect, Rollout, Scale, Remove, objects, hand

LEMMA InitLives == Init => Lived /\ L!Init
<1> SUFFICES ASSUME Init PROVE Lived /\ L!Init
  OBVIOUS
<1>1. PICK size \in [Names -> Sizes] : api = [v \in Names |-> NewObject(0, size[v])]
  BY DEF Init
<1>2. \A v \in Names : api[v] \in Objects /\ api[v] # Gone
  <2>1. api \in [Names -> Objects]
    BY <1>1, BoundsAssumption DEF NewObject, Objects, Uids, Avail, Degraded
  <2> QED
    BY <2>1, MarkersAssumption
<1>3. \A v \in Names : /\ ~api[v].fin /\ ~api[v].deleting
                       /\ api[v].avail = "none" /\ api[v].degraded = "none"
  BY <1>1 DEF NewObject
<1>4. \A v \in Names : Phase(api[v]) = "unguarded" /\ Reported(api[v]) = FALSE
  BY <1>2, <1>3 DEF Phase, Reported
<1>5. pc = "idle"
  BY DEF Init
<1> QED
  BY <1>3, <1>4, <1>5 DEF Lived, Sound, L!Init

\* V2ray objects live and go as the abstract life cycle says: whatever copies
\* the worker writes back and wherever it is interrupted, every change of a
\* stored object is one that the life cycle allows.
THEOREM Implements == Spec => ImplementsLifecycle
<1>1. Lived /\ UNCHANGED vars => Lived' /\ [L!Next]_(L!states)
  BY NothingHappens DEF vars, objects, hand, Lived
<1>2. TypeOK /\ IInv /\ Lived /\ [Next]_vars => Lived' /\ [L!Next]_(L!states)
  BY <1>1, WorkerLives, WorldLives DEF Next, Worker, World
<1> QED
  BY InitLives, <1>2, Invariant, PTL DEF Spec, ImplementsLifecycle, L!Spec

-----------------------------------------------------------------------------
(* What an available object has.                                            *)

\* The invariant behind AvailableIsDeployed: when the worker is about to report
\* an object, its Deployment is as it should be, or has an event that will come
\* or has come.
Deploys ==
  /\ AvailableIsDeployed
  /\ pc = "available" /\ cur \notin queue /\ cur \in depSynced =>
       dep[cur] # Gone /\ ~WrongSize(dep[cur], obj)

\* v has what it had, or an event of v is under way.
Stays(v) ==
  Exists(v)' /\ Settled(v)' =>
    Exists(v) /\ Settled(v) /\ api'[v] = api[v] /\ dep'[v] = dep[v]

\* The worker leaves the other objects and their Deployments alone.
LEMMA WorkerStays ==
  ASSUME TypeOK, IInv, Working
  PROVE  /\ cur' \in {cur, None}
         /\ \A v \in Names \ {cur} : Stays(v)
<1>1. pc # "idle" /\ cur \in Names
  <2>1. pc # "idle"
    BY WorkerSteps DEF Write, WriteAndLeave, Refetch, CreateDeployment, NoImage, Resize,
       RightSize
  <2> QED
    BY <2>1, Busy
<1>2. cur' \in {cur, None} /\ queue' \in {queue, queue \cup {cur}}
  BY WorkerSteps DEF Write, WriteAndLeave, Refetch, CreateDeployment, NoImage, Resize,
     RightSize, Continue, Leave, hand
<1>3. \A v \in Names \ {cur} :
        api'[v] = api[v] /\ (v \in synced' <=> v \in synced)
  <2>1. ASSUME pc \in Writing, Accepted(Written) \/ Refused(Written)
        PROVE  \A v \in Names \ {cur} :
                 api'[v] = api[v] /\ (v \in synced' <=> v \in synced)
    BY <1>1, <2>1 DEF Accepted, Refused, Put, TypeOK
  <2>2. CASE UNCHANGED <<api, synced>>
    BY <2>2
  <2> QED
    BY <2>1, <2>2, WorkerSteps DEF Write, WriteAndLeave, Writing, Refetch,
       CreateDeployment, NoImage, Resize, RightSize, objects
<1>4. \A v \in Names \ {cur} :
        dep'[v] = dep[v] /\ (v \in depSynced' <=> v \in depSynced)
  <2>1. ASSUME NEW d, PutDeployment(cur, d)
        PROVE  \A v \in Names \ {cur} :
                 dep'[v] = dep[v] /\ (v \in depSynced' <=> v \in depSynced)
    BY <1>1, <2>1 DEF PutDeployment, TypeOK
  <2>2. CASE UNCHANGED <<dep, depSynced>>
    BY <2>2
  <2> QED
    BY <2>1, <2>2, WorkerSteps DEF Write, WriteAndLeave, Refetch,
       CreateDeployment, NoImage, Resize, RightSize, deployments
<1>5. None \notin Names
  BY NoneAssumption
<1> QED
  BY <1>1, <1>2, <1>3, <1>4, <1>5 DEF Stays, Exists, Settled

\* What stays, and was as it should be, is.
LEMMA StaysDeployed ==
  ASSUME AvailableIsDeployed, NEW v \in Names, Stays(v),
         Exists(v)', Settled(v)', api'[v].avail = "True", ~api'[v].deleting
  PROVE  dep'[v] # Gone /\ (api'[v].size # 0 => dep'[v].replicas = api'[v].size)
BY DEF Stays, AvailableIsDeployed

LEMMA WorkerDeploys ==
  ASSUME TypeOK, IInv, Deploys, Working
  PROVE  Deploys'
<1>1. cur' \in {cur, None} /\ \A v \in Names \ {cur} : Stays(v)
  BY WorkerStays
<1>2. pc' = "available" => RightSize
  BY WorkerSteps DEF Write, WriteAndLeave, Refetch, CreateDeployment, NoImage, Resize,
     Continue, Leave, Onward, AfterStatus, hand
<1>3. CASE RightSize
  <2>1. /\ UNCHANGED <<objects, deployments, cur, queue>> /\ obj' = obj
        /\ depCache[cur] # Gone /\ ~WrongSize(depCache[cur], obj)
    BY <1>3 DEF RightSize, Continue
  <2>2. cur \in depSynced => depCache[cur] = dep[cur]
    BY DEF IInv, Coherent
  <2>3. AvailableIsDeployed'
    BY <2>1 DEF Deploys, AvailableIsDeployed, Settled, Exists, objects, deployments
  <2> QED
    BY <2>1, <2>2, <2>3 DEF Deploys, WrongSize, deployments
<1>4. ASSUME ~RightSize, NEW v \in Names, v = cur, Exists(v)', Settled(v)',
             api'[v].avail = "True"
      PROVE  dep'[v] # Gone /\ (api'[v].size # 0 => dep'[v].replicas = api'[v].size)
  <2>1. cur' # v /\ v \notin queue' /\ v \in synced' /\ v \in depSynced'
    BY <1>4 DEF Settled
  <2>2. /\ pc \in {"removeFinalizer", "available"}
        /\ Accepted(Written) /\ queue' = queue /\ UNCHANGED deployments
    BY <1>4, <2>1, WorkerSteps DEF Write, WriteAndLeave, Refetch, CreateDeployment,
       NoImage, Resize, Continue, Leave
  <2>3. /\ obj = api[v] /\ Put(v, Written)
        /\ pc # "removeFinalizer" => Stored(Written) = Written
        /\ pc = "removeFinalizer" => Stored(Written) = Gone
    BY <1>4, <2>2, Wrote DEF IInv, Writing
  <2>4. api'[v] = Stored(Written)
    BY <1>4, <2>3 DEF Put, TypeOK
  <2>5. pc = "available" /\ Stored(Written) = Written
    BY <1>4, <2>2, <2>3, <2>4 DEF Exists
  <2>6. Written = api[v]
    BY <1>4, <2>1, <2>3, <2>5 DEF Put
  <2>7. dep[v] # Gone /\ ~WrongSize(dep[v], obj)
    BY <1>4, <2>1, <2>2, <2>5 DEF Deploys, deployments
  <2> QED
    BY <2>2, <2>3, <2>4, <2>5, <2>6, <2>7 DEF WrongSize, deployments
<1>5. CASE ~RightSize
  <2>1. ASSUME NEW v \in Names, Exists(v)', Settled(v)',
               api'[v].avail = "True", ~api'[v].deleting
        PROVE  dep'[v] # Gone /\ (api'[v].size # 0 => dep'[v].replicas = api'[v].size)
    <3>1. CASE v = cur
      BY <1>4, <1>5, <2>1, <3>1
    <3>2. CASE v # cur
      BY <1>1, <2>1, <3>2, StaysDeployed DEF Deploys
    <3> QED
      BY <3>1, <3>2
  <2> QED
    BY <1>2, <1>5, <2>1 DEF Deploys, AvailableIsDeployed
<1> QED
  BY <1>3, <1>5

LEMMA WorldDeploys ==
  ASSUME TypeOK, IInv, Deploys, World
  PROVE  Deploys'
<1>1. ASSUME \A v \in Names : Stays(v)
      PROVE  AvailableIsDeployed'
  BY <1>1, StaysDeployed DEF Deploys, AvailableIsDeployed
<1>2. CASE Crash \/ Panic
  <2>1. /\ pc' = "idle" /\ api' = api
        /\ queue' = {v \in Names : Exists(v) \/ dep[v] # Gone}
    BY <1>2 DEF Crash, Panic, ProcessEnds, Restart
  <2>2. \A v \in Names : Stays(v)
    BY <2>1 DEF Stays, Exists, Settled
  <2> QED
    BY <1>1, <2>1, <2>2 DEF Deploys
<1>3. ASSUME NEW v \in Names, Start(v)
      PROVE  Deploys'
  <2>1. /\ UNCHANGED <<api, synced, dep, depSynced>> /\ queue' = queue \ {v}
        /\ pc = "idle" /\ cur = None /\ None \notin Names
    BY <1>3, NoneAssumption DEF Start, TypeOK, objects, deployments
  <2>2. cache[v] = Gone \/ cur' = v
    BY <1>3 DEF Start
  <2>3. v \in synced => cache[v] = api[v]
    BY DEF IInv, Coherent
  <2>4. \A w \in Names : Stays(w)
    BY <2>1, <2>2, <2>3 DEF Stays, Exists, Settled
  <2>5. pc' # "available"
    BY <1>3 DEF Start, AfterStatus, hand
  <2> QED
    BY <1>1, <2>4, <2>5 DEF Deploys
<1>4. ASSUME NEW v \in Names, CacheSync(v) \/ DeploymentSync(v) \/ Resync(v)
      PROVE  Deploys'
  <2>1. /\ UNCHANGED <<api, dep, pc, cur, obj>> /\ queue' = queue \cup {v}
        /\ \A w \in Names \ {v} : /\ w \in synced' <=> w \in synced
                                  /\ w \in depSynced' <=> w \in depSynced
    BY <1>4 DEF CacheSync, Informed, DeploymentSync, Queued, Resync, Requeued, hand,
       objects, deployments
  <2>2. \A w \in Names : Stays(w)
    BY <2>1 DEF Stays, Exists, Settled
  <2>3. pc = "available" => cur \in Names
    BY Busy
  <2> QED
    BY <1>1, <2>1, <2>2, <2>3 DEF Deploys
<1>5. ASSUME NEW v \in Names, GarbageCollect(v) \/ Rollout(v) \/ Scale(v) \/ Remove(v)
      PROVE  Deploys'
  <2>1. UNCHANGED <<objects, queue, hand>> /\ \E d : PutDeployment(v, d)
    BY <1>5 DEF GarbageCollect, Rollout, Scale, Remove
  <2>2. /\ UNCHANGED <<api, synced, queue, pc, cur, obj>> /\ v \notin depSynced'
        /\ \A w \in Names \ {v} : /\ dep'[w] = dep[w]
                                  /\ w \in depSynced' <=> w \in depSynced
    BY <2>1 DEF PutDeployment, TypeOK, objects, hand
  <2>3. \A w \in Names : Stays(w)
    BY <2>2 DEF Stays, Exists, Settled
  <2>4. pc = "available" => cur \in Names
    BY Busy
  <2> QED
    BY <1>1, <2>2, <2>3, <2>4 DEF Deploys, WrongSize
<1>6. ASSUME NEW v \in Names, Create(v) \/ SetSize(v) \/ Delete(v)
      PROVE  Deploys'
  <2>1. \E act, o : OwnerPuts(v, act, o) /\ UNCHANGED deployments
    BY <1>6 DEF Create, SetSize, Delete, OwnerStores
  <2>2. /\ UNCHANGED <<deployments, queue, pc, cur, obj>>
        /\ v \in synced' => api'[v] = api[v] /\ v \in synced
        /\ \A w \in Names \ {v} : /\ api'[w] = api[w]
                                  /\ w \in synced' <=> w \in synced
    BY <2>1 DEF OwnerPuts, Put, TypeOK
  <2>3. \A w \in Names : Stays(w)
    BY <2>2 DEF Stays, Exists, Settled, deployments
  <2> QED
    BY <1>1, <2>2, <2>3 DEF Deploys, deployments
<1> QED
  BY <1>2, <1>3, <1>4, <1>5, <1>6 DEF World

\* Whoever scales or removes a Deployment, whichever object it was made for, and
\* however old both caches are: an available object none of whose events is under
\* way has a Deployment, and of its size.
THEOREM Deployed == Spec => []AvailableIsDeployed
<1>1. Init => Deploys
  <2> SUFFICES ASSUME Init PROVE Deploys
    OBVIOUS
  <2>1. queue = Names /\ pc = "idle"
    BY DEF Init
  <2> QED
    BY <2>1 DEF Deploys, AvailableIsDeployed, Settled
<1>2. Deploys /\ UNCHANGED vars => Deploys'
  BY DEF vars, objects, deployments, hand, Deploys, AvailableIsDeployed, Settled, Exists,
         WrongSize
<1>3. TypeOK /\ IInv /\ Next /\ Deploys => Deploys'
  BY WorkerDeploys, WorldDeploys DEF Next, Worker, World
<1>4. Deploys => AvailableIsDeployed
  BY DEF Deploys
<1> QED
  BY Invariant, <1>1, <1>2, <1>3, <1>4, PTL DEF Spec
=============================================================================
