-------------------------- MODULE V2rayUserProofs --------------------------
(***************************************************************************)
(* What the V2rayUser controller promises, proved for any number of        *)
(* objects, servers, regions, misfortunes and owner's steps.               *)
(***************************************************************************)
EXTENDS V2rayUserProps, KubeProofs

-----------------------------------------------------------------------------
(* Type correctness.                                                        *)

\* A write of an object keeps the API server's and the cache's types.
LEMMA PutTyped ==
  ASSUME TypeOK, NEW u \in Names, NEW o \in Objects, Put(u, o)
  PROVE  /\ api' \in [Names -> Objects \cup {Gone}]
         /\ synced' \subseteq Names
BY DEF TypeOK, Put, Stored

\* While Reconcile runs it has a name and an object.
LEMMA Busy ==
  ASSUME TypeOK, pc # "idle"
  PROVE  cur \in Names /\ obj \in Objects
BY DEF TypeOK

LEMMA MisfortuneTyped ==
  ASSUME TypeOK, NEW k, Misfortune(k)
  PROVE  faults' \in 0 .. MaxFaults
BY BoundsAssumption DEF TypeOK, Misfortune

LEMMA AcceptedTyped ==
  ASSUME TypeOK, pc # "idle", NEW o \in Objects, Accepted(o) \/ Refused(o)
  PROVE  /\ api' \in [Names -> Objects \cup {Gone}]
         /\ synced' \subseteq Names
         /\ faults' \in 0 .. MaxFaults
<1>1. cur \in Names
  BY Busy
<1>2. CASE Put(cur, o)
  BY <1>1, <1>2, PutTyped, BoundsAssumption
     DEF Accepted, Refused, Misfortune, TypeOK
<1>3. CASE UNCHANGED <<api, synced>>
  BY <1>3, BoundsAssumption DEF Accepted, Refused, Misfortune, TypeOK
<1> QED
  BY <1>2, <1>3 DEF Accepted, Refused

LEMMA WriteTyped ==
  ASSUME TypeOK, NEW here \in Steps \ {"idle"}, NEW next \in Steps \ {"idle"},
         NEW o \in Objects, Write(here, o, next)
  PROVE  TypeOK'
<1>1. pc # "idle"
  BY DEF Write
<1>2. Gone \notin Objects /\ None \notin Names
  BY MarkersAssumption, NoneAssumption
<1> QED
  BY <1>1, <1>2, Busy, AcceptedTyped
     DEF Write, Continue, Return, Leave, TypeOK, calls, world, Steps

LEMMA WriteAndReturnTyped ==
  ASSUME TypeOK, NEW here \in Steps \ {"idle"},
         NEW o \in Objects, WriteAndReturn(here, o)
  PROVE  TypeOK'
<1>1. pc # "idle"
  BY DEF WriteAndReturn
<1> QED
  BY <1>1, Busy, AcceptedTyped
     DEF WriteAndReturn, Return, Leave, TypeOK, calls, world, Steps

LEMMA RefetchTyped ==
  ASSUME TypeOK, pc # "idle", NEW next \in Steps \ {"idle"}, Refetch(next)
  PROVE  TypeOK'
<1>1. Gone \notin Objects /\ None \notin Names /\ cur \in Names
  BY MarkersAssumption, NoneAssumption, Busy
<1>2. CASE cache[cur] = Gone
  BY <1>1, <1>2 DEF Refetch, Return, Leave, TypeOK, world, Steps
<1>3. CASE cache[cur] # Gone
  <2>1. cache[cur] \in Objects
    BY <1>1, <1>3 DEF TypeOK
  <2>2. /\ pc' = next /\ obj' = cache[cur] /\ fresh' = (cur \in synced)
        /\ UNCHANGED <<api, cache, synced, queue, cur, calls, world, faults, edits>>
    BY <1>3 DEF Refetch, Continue
  <2> QED
    BY <1>1, <2>1, <2>2 DEF TypeOK, calls, world
<1> QED
  BY <1>2, <1>3

\* The objects the worker writes are objects.
LEMMA ObjectFields ==
  ASSUME NEW o \in Objects
  PROVE  /\ \A a \in Avail : [o EXCEPT !.avail = a] \in Objects
         /\ \A d \in Degraded : [o EXCEPT !.degraded = d] \in Objects
         /\ \A i \in Ids \cup {NoId} : [o EXCEPT !.id = i] \in Objects
         /\ \A e \in Emails : [o EXCEPT !.email = e] \in Objects
         /\ \A nl \in NodeLists : [o EXCEPT !.nodeList = nl] \in Objects
         /\ \A b \in BOOLEAN : /\ [o EXCEPT !.fin = b] \in Objects
                              /\ [o EXCEPT !.deleting = b] \in Objects
BY DEF Objects

LEMMA RebuiltTyped ==
  ASSUME NEW served \in SUBSET Services
  PROVE  Rebuilt(served) \in NodeLists
<1> SUFFICES ASSUME NEW r \in Regions,
                    NEW here, here = {s \in served : Label[s] = r}
             PROVE  (IF here = {} THEN NoEntry ELSE [size |-> 0, info |-> here])
                      \in Entries \cup {NoEntry}
  BY DEF Rebuilt, NodeLists
<1> QED
  BY DEF Entries

LEMMA NewObjectTyped ==
  ASSUME NEW spec \in Wanted
  PROVE  NewObject(spec) \in Objects
BY DEF Wanted, NewObject, Objects, Avail, Degraded

\* The Services of a nodeList are Services.
LEMMA ListedTyped ==
  ASSUME NEW o \in Objects
  PROVE  Listed(o) \subseteq Services
<1> SUFFICES ASSUME NEW r \in Regions, o.nodeList[r] # NoEntry
             PROVE  o.nodeList[r].info \subseteq Services
  BY DEF Listed, Named
<1> QED
  BY DEF Objects, NodeLists, Entries

LEMMA RegisterTyped ==
  ASSUME TypeOK, NEW s \in Services, NEW e \in Emails, NEW i \in Ids \cup {NoId},
         Register(s, e, i) \/ Unregister(s, e) \/ UNCHANGED reg
  PROVE  reg' \in [Services -> [Emails -> Ids \cup {NoId}]]
BY DEF TypeOK, Register, Unregister

LEMMA OwnerStoresTyped ==
  ASSUME TypeOK, NEW u \in Names, NEW o \in Objects, NEW act, OwnerStores(u, act, o)
  PROVE  TypeOK'
BY PutTyped, BoundsAssumption DEF OwnerStores, OwnerPuts, TypeOK, calls, world

LEMMA InitTyped == Init => TypeOK
<1> SUFFICES ASSUME Init PROVE TypeOK
  OBVIOUS
<1>1. api \in [Names -> Objects]
  <2>1. PICK spec \in [Names -> UNION {Specs[u] : u \in Names}] :
          /\ \A u \in Names : spec[u] \in Specs[u]
          /\ api = [u \in Names |-> NewObject(spec[u])]
    BY DEF Init
  <2> QED
    BY <2>1, NewObjectTyped, SpecsAssumption
<1>2. reg \in [Services -> [Emails -> Ids \cup {NoId}]]
  BY DEF Init
<1>3. faults \in 0 .. MaxFaults /\ edits \in 0 .. MaxEdits
  BY BoundsAssumption DEF Init
<1> QED
  BY <1>1, <1>2, <1>3, ServicesAssumption, InboundAssumption DEF Init, TypeOK, Steps

LEMMA WorkerTyped ==
  ASSUME TypeOK, Worker
  PROVE  TypeOK'
<1> USE DEF Steps
<1>1. CASE InitStatus
  <2>1. pc # "idle"
    BY <1>1 DEF InitStatus, Write
  <2>2. [obj EXCEPT !.avail = "Unknown"] \in Objects
    BY <2>1, Busy, ObjectFields DEF Avail
  <2> QED
    BY <1>1, <2>2, WriteTyped DEF InitStatus
<1>2. CASE RefetchInit
  BY <1>2, RefetchTyped DEF RefetchInit
<1>3. CASE SaveSpec
  <2>1. PICK id \in Ids \cup {NoId} : Write("saveSpec", [obj EXCEPT !.id = id], "refetchSpec")
    BY <1>3, Busy DEF SaveSpec, Objects
  <2> QED
    BY <1>3, <2>1, Busy, ObjectFields, WriteTyped DEF SaveSpec
<1>4. CASE RefetchSpec
  BY <1>4, RefetchTyped DEF RefetchSpec
<1>5. CASE Elect
  <2>1. todo' \subseteq Services
    BY <1>5 DEF Elect, Elections, Candidates, TypeOK
  <2> QED
    BY <1>5, <2>1 DEF Elect, TypeOK, world
<1>6. CASE NoNode
  BY <1>6, Busy, ObjectFields, WriteAndReturnTyped
     DEF NoNode, WriteAndReturn, Avail
<1>7. ASSUME NEW s \in Services, AddUser(s)
      PROVE  TypeOK'
  <2>1. obj.email \in Emails /\ obj.id \in Ids \cup {NoId}
    BY <1>7, Busy DEF AddUser, Objects
  <2> QED
    BY <1>7, <2>1, RegisterTyped DEF AddUser, TypeOK
<1>8. ASSUME NEW s \in Services, AddUserFails(s)
      PROVE  TypeOK'
  <2>1. obj.email \in Emails /\ obj.id \in Ids \cup {NoId}
    BY <1>8, Busy DEF AddUserFails, Objects
  <2>2. reg' \in [Services -> [Emails -> Ids \cup {NoId}]]
    BY <1>8, <2>1, RegisterTyped DEF AddUserFails
  <2>3. faults' \in 0 .. MaxFaults
    BY <1>8, MisfortuneTyped DEF AddUserFails, TypeOK
  <2> QED
    BY <1>8, <2>2, <2>3 DEF AddUserFails, TypeOK
<1>9. ASSUME NEW s \in Services, Rollback(s)
      PROVE  TypeOK'
  <2>1. obj.email \in Emails /\ obj.id \in Ids \cup {NoId}
    BY <1>9, Busy DEF Rollback, Objects
  <2>2. reg' \in [Services -> [Emails -> Ids \cup {NoId}]]
    BY <1>9, <2>1, RegisterTyped DEF Rollback
  <2>3. faults' \in 0 .. MaxFaults
    BY <1>9, MisfortuneTyped DEF Rollback, TypeOK
  <2> QED
    BY <1>9, <2>2, <2>3 DEF Rollback, TypeOK
<1>10. CASE SaveNodes
  <2> DEFINE o == [obj EXCEPT !.nodeList = Rebuilt(done)]
  <2>1. o \in Objects /\ obj \in Objects
    BY <1>10, Busy, RebuiltTyped, ObjectFields DEF SaveNodes, TypeOK
  <2>2. CASE Accepted(o) \/ Refused(o)
    <3>1. /\ api' \in [Names -> Objects \cup {Gone}]
          /\ synced' \subseteq Names
          /\ faults' \in 0 .. MaxFaults
      BY <1>10, <2>1, <2>2, AcceptedTyped DEF SaveNodes
    <3>2. /\ pc' \in Steps \ {"idle"} /\ obj' \in Objects /\ fresh' \in BOOLEAN
          /\ done' \subseteq Services /\ cur' = cur
          /\ UNCHANGED <<queue, todo, expired, cache, world, edits>>
      BY <1>10, <2>1 DEF SaveNodes, Continue, AfterAdding, TypeOK, calls
    <3> QED
      BY <1>10, <3>1, <3>2, MarkersAssumption, NoneAssumption
         DEF TypeOK, world, SaveNodes
  <2>3. CASE /\ UNCHANGED <<api, synced, faults>>
             /\ Continue("rollback", obj, fresh) /\ UNCHANGED calls
    BY <1>10, <2>3 DEF SaveNodes, Continue, TypeOK, calls, world
  <2> QED
    BY <1>10, <2>2, <2>3 DEF SaveNodes
<1>11. CASE AddFailed
  BY <1>11, Busy, ObjectFields, WriteAndReturnTyped
     DEF AddFailed, WriteAndReturn, Avail
<1>12. CASE AddFinalizer
  <2>1. pc # "idle"
    BY <1>12 DEF AddFinalizer, Write
  <2>2. [obj EXCEPT !.fin = TRUE] \in Objects
    BY <2>1, Busy, ObjectFields
  <2> QED
    BY <1>12, <2>2, WriteTyped DEF AddFinalizer
<1>13. CASE Available
  BY <1>13, Busy, ObjectFields, WriteAndReturnTyped
     DEF Available, WriteAndReturn, Avail
<1>14. CASE Degrade
  <2> DEFINE o == [obj EXCEPT !.degraded = "Unknown"]
  <2>1. o \in Objects /\ obj \in Objects /\ cur \in Names
    BY <1>14, Busy, ObjectFields DEF Degrade, Degraded
  <2>2. /\ api' \in [Names -> Objects \cup {Gone}]
        /\ synced' \subseteq Names
        /\ faults' \in 0 .. MaxFaults
    BY <1>14, <2>1, AcceptedTyped DEF Degrade
  <2>3. Listed(o) \subseteq Services
    BY <2>1, ListedTyped
  <2> QED
    BY <1>14, <2>1, <2>2, <2>3, MarkersAssumption, NoneAssumption
       DEF Degrade, Continue, Return, Leave, TypeOK, world
<1>15. CASE RefetchFinal
  BY <1>15, RefetchTyped DEF RefetchFinal
<1>16. CASE MarkDegraded
  <2>1. pc # "idle"
    BY <1>16 DEF MarkDegraded, Write
  <2>2. [obj EXCEPT !.degraded = "True"] \in Objects
    BY <2>1, Busy, ObjectFields DEF Degraded
  <2> QED
    BY <1>16, <2>2, WriteTyped DEF MarkDegraded
<1>17. CASE RemoveFinalizer
  BY <1>17, Busy, ObjectFields, WriteAndReturnTyped
     DEF RemoveFinalizer, WriteAndReturn
<1>18. ASSUME NEW s \in Services, RemoveUser(s)
       PROVE  TypeOK'
  <2>1. obj.email \in Emails
    BY <1>18, Busy DEF RemoveUser, Objects
  <2> QED
    BY <1>18, <2>1, RegisterTyped DEF RemoveUser, TypeOK
<1>19. ASSUME NEW s \in Services, RemoveUserFails(s)
       PROVE  TypeOK'
  <2>1. obj.email \in Emails
    BY <1>19, Busy DEF RemoveUserFails, Objects
  <2>2. reg' \in [Services -> [Emails -> Ids \cup {NoId}]]
    BY <1>19, <2>1, RegisterTyped DEF RemoveUserFails
  <2>3. faults' \in 0 .. MaxFaults
    BY <1>19, MisfortuneTyped DEF RemoveUserFails, TypeOK
  <2> QED
    BY <1>19, <2>2, <2>3 DEF RemoveUserFails, TypeOK
<1>20. ASSUME NEW s \in Services, Restore(s)
       PROVE  TypeOK'
  <2>1. obj.email \in Emails /\ obj.id \in Ids \cup {NoId}
    BY <1>20, Busy DEF Restore, Objects
  <2>2. reg' \in [Services -> [Emails -> Ids \cup {NoId}]]
    BY <1>20, <2>1, RegisterTyped DEF Restore
  <2>3. faults' \in 0 .. MaxFaults
    BY <1>20, MisfortuneTyped DEF Restore, TypeOK
  <2> QED
    BY <1>20, <2>2, <2>3 DEF Restore, TypeOK
<1>21. CASE RestoreDone \/ ElectFails
  BY <1>21, Busy, MisfortuneTyped DEF RestoreDone, ElectFails, Return, Leave, TypeOK, world
<1> QED
  BY <1>1, <1>2, <1>3, <1>4, <1>5, <1>6, <1>7, <1>8, <1>9, <1>10, <1>11,
     <1>12, <1>13, <1>14, <1>15, <1>16, <1>17, <1>18, <1>19, <1>20, <1>21
     DEF Worker

\* What the controller is surrounded by.
World ==
  \/ Deadline \/ Crash \/ PanicElsewhere
  \/ \E u \in Names : \/ Start(u) \/ CacheSync(u) \/ Resync(u)
                      \/ Create(u) \/ Edit(u) \/ Delete(u)
  \/ \E s \in Services : \/ RestartServer(s) \/ ComeUp(s)
                         \/ RetireService(s) \/ ServiceAppears(s)
                         \/ \E t \in Tags : InboundAppears(s, t)

\* Everything around the worker keeps the types.
LEMMA WorldTyped ==
  ASSUME TypeOK, World
  PROVE  TypeOK'
<1> USE DEF Steps
<1>1. CASE Deadline
  <2>1. faults' \in 0 .. MaxFaults
    BY <1>1, MisfortuneTyped DEF Deadline
  <2> QED
    BY <1>1, <2>1 DEF Deadline, TypeOK, world
<1>2. CASE Crash \/ PanicElsewhere
  <2>1. faults' \in 0 .. MaxFaults
    BY <1>2, MisfortuneTyped DEF Crash, PanicElsewhere, TypeOK
  <2>2. queue' \subseteq Names
    BY <1>2 DEF Crash, PanicElsewhere, ProcessEnds, Restart
  <2>3. cache' = api /\ synced' = Names
    BY <1>2 DEF Crash, PanicElsewhere, ProcessEnds, Restart
  <2> QED
    BY <1>2, <2>1, <2>2, <2>3 DEF Crash, PanicElsewhere, ProcessEnds, Restart, TypeOK, world
<1>3. ASSUME NEW u \in Names, Start(u)
      PROVE  TypeOK'
  <2>1. CASE cache[u] = Gone
    BY <1>3, <2>1 DEF Start, TypeOK, calls, world
  <2>2. CASE cache[u] # Gone
    <3>1. cache[u] \in Objects /\ cache[u] # Gone /\ u # None
      BY <2>2, MarkersAssumption, NoneAssumption DEF TypeOK
    <3>2. /\ pc' \in Steps \ {"idle"} /\ cur' = u /\ obj' = cache[u]
          /\ fresh' \in BOOLEAN /\ queue' \subseteq Names
          /\ UNCHANGED <<api, cache, synced, calls, world, faults, edits>>
      BY <1>3, <2>2 DEF Start, TypeOK
    <3> QED
      BY <3>1, <3>2 DEF TypeOK, calls, world
  <2> QED
    BY <2>1, <2>2
<1>4. ASSUME NEW u \in Names, CacheSync(u) \/ Resync(u)
      PROVE  TypeOK'
  BY <1>4
     DEF CacheSync, Informed, Resync, Requeued, hand, objects, calls, TypeOK,
         worker, world
<1>5. ASSUME NEW u \in Names, Create(u)
      PROVE  TypeOK'
  <2>1. PICK spec \in Specs[u] : OwnerStores(u, "create", NewObject(spec))
    BY <1>5 DEF Create
  <2>2. NewObject(spec) \in Objects
    BY NewObjectTyped, SpecsAssumption
  <2> QED
    BY <2>1, <2>2, OwnerStoresTyped
<1>6. ASSUME NEW u \in Names, Edit(u)
      PROVE  TypeOK'
  <2>1. PICK spec \in Specs[u] :
          \/ OwnerStores(u, "id", [api[u] EXCEPT !.id = spec.id])
          \/ OwnerStores(u, "email", [api[u] EXCEPT !.email = spec.email])
          \/ OwnerStores(u, "nodes", [api[u] EXCEPT !.nodeList = spec.nodeList])
    BY <1>6 DEF Edit
  <2>2. api[u] \in Objects
    BY <1>6 DEF Edit, Exists, TypeOK
  <2>3. spec.id \in Ids \cup {NoId} /\ spec.email \in Emails /\ spec.nodeList \in NodeLists
    BY SpecsAssumption DEF Wanted
  <2> QED
    BY <2>1, <2>2, <2>3, ObjectFields, OwnerStoresTyped
<1>7. ASSUME NEW u \in Names, Delete(u)
      PROVE  TypeOK'
  <2>1. [api[u] EXCEPT !.deleting = TRUE] \in Objects
    BY <1>7, ObjectFields DEF Delete, Exists, TypeOK
  <2> QED
    BY <1>7, <2>1, OwnerStoresTyped DEF Delete
<1>8. ASSUME NEW s \in Services,
             RestartServer(s) \/ RetireService(s)
      PROVE  TypeOK'
  <2>1. reg' \in [Services -> [Emails -> Ids \cup {NoId}]]
    BY <1>8 DEF RestartServer, RetireService, Forget, TypeOK
  <2>2. faults' \in 0 .. MaxFaults
    BY <1>8, MisfortuneTyped DEF RestartServer, RetireService
  <2>3. inbounds' \subseteq Services \X Tags
    BY <1>8, InboundAssumption DEF RestartServer, RetireService, Forget, TypeOK
  <2> QED
    BY <1>8, <2>1, <2>2, <2>3 DEF RestartServer, RetireService, TypeOK, worker
<1>9. ASSUME NEW s \in Services, ComeUp(s)
      PROVE  TypeOK'
  BY <1>9 DEF ComeUp, TypeOK, worker
<1>10. ASSUME NEW s \in Services, ServiceAppears(s)
       PROVE  TypeOK'
  <2>1. faults' \in 0 .. MaxFaults
    BY <1>10, MisfortuneTyped DEF ServiceAppears
  <2> QED
    BY <1>10, <2>1 DEF ServiceAppears, TypeOK, worker
<1>11. ASSUME NEW s \in Services, NEW t \in Tags, InboundAppears(s, t)
       PROVE  TypeOK'
  BY <1>11 DEF InboundAppears, TypeOK, worker
<1> QED
  BY <1>1, <1>2, <1>3, <1>4, <1>5, <1>6, <1>7, <1>8, <1>9, <1>10, <1>11 DEF World

\* Every variable keeps its type, and the worker has a name and a copy of an
\* object exactly while it is in Reconcile.
THEOREM TypeCorrect == Spec => []TypeOK
<1>1. TypeOK /\ UNCHANGED vars => TypeOK'
  BY DEF vars, worker, world, TypeOK
<1>2. TypeOK /\ Next => TypeOK'
  BY WorkerTyped, WorldTyped DEF Next, World
<1> QED
  BY InitTyped, <1>1, <1>2, PTL DEF Spec
-----------------------------------------------------------------------------
(* What copies say about the objects they are copies of.                    *)

\* A copy that is up to date is the object; a deleted object that is still
\* there has a finalizer.
Coherent ==
  /\ fresh => pc # "idle" /\ obj = api[cur]
  /\ \A u \in synced : cache[u] = api[u]
  /\ \A u \in Names : Exists(u) /\ api[u].deleting => api[u].fin

\* A write keeps the cache's and the API server's part of it.
LEMMA PutCoherent ==
  ASSUME TypeOK, Coherent, NEW u \in Names, NEW o \in Objects, Put(u, o),
         UNCHANGED cache
  PROVE  /\ \A v \in synced' : cache'[v] = api'[v]
         /\ \A v \in Names : Exists(v)' /\ api'[v].deleting => api'[v].fin
BY DEF TypeOK, Coherent, Put, Stored, Exists

LEMMA ReturnCoherent ==
  ASSUME TypeOK, Coherent, pc # "idle", NEW o \in Objects, NEW again,
         \/ Accepted(o) \/ Refused(o)
         \/ UNCHANGED <<api, synced>>,
         Return(again), UNCHANGED cache
  PROVE  Coherent'
<1>1. fresh' = FALSE /\ cache' = cache
  BY DEF Return, Leave
<1>2. CASE Put(cur, o)
  BY <1>1, <1>2, Busy, PutCoherent DEF Coherent
<1>3. CASE UNCHANGED <<api, synced>>
  BY <1>1, <1>3 DEF Coherent, Exists
<1> QED
  BY <1>2, <1>3 DEF Accepted, Refused

LEMMA WriteCoherent ==
  ASSUME TypeOK, Coherent, NEW here \in Steps \ {"idle"}, NEW next \in Steps \ {"idle"},
         NEW o \in Objects, o.deleting = obj.deleting, obj.fin => o.fin,
         Write(here, o, next)
  PROVE  Coherent'
<1>1. pc # "idle" /\ cache' = cache
  BY DEF Write
<1>2. CASE Accepted(o) /\ Continue(next, o, TRUE)
  <2>1. Stored(o) = o
    BY <1>1, <1>2, Busy DEF Accepted, Coherent, Stored, Exists, TypeOK
  <2>2. Put(cur, o) /\ api'[cur] = o
    BY <1>1, <1>2, <2>1, Busy DEF Accepted, Put, TypeOK
  <2> QED
    BY <1>1, <1>2, <2>2, Busy, PutCoherent DEF Continue, Coherent
<1>3. CASE Refused(o) /\ Return({cur})
  BY <1>1, <1>3, ReturnCoherent
<1> QED
  BY <1>2, <1>3 DEF Write

LEMMA WriteAndReturnCoherent ==
  ASSUME TypeOK, Coherent, NEW here \in Steps \ {"idle"}, NEW o \in Objects,
         WriteAndReturn(here, o)
  PROVE  Coherent'
BY ReturnCoherent DEF WriteAndReturn

LEMMA RefetchCoherent ==
  ASSUME TypeOK, Coherent, pc # "idle", NEW next \in Steps \ {"idle"}, Refetch(next)
  PROVE  Coherent'
<1>1. CASE cache[cur] = Gone
  BY <1>1, Busy, ReturnCoherent DEF Refetch
<1>2. CASE cache[cur] # Gone
  BY <1>2, Busy DEF Refetch, Continue, Coherent, Exists
<1> QED
  BY <1>1, <1>2
\* Steps that touch neither the copies nor what they are copies of.
LEMMA SameCopies ==
  ASSUME Coherent, UNCHANGED <<api, cache, synced, cur, obj, fresh>>,
         pc # "idle" => pc' # "idle"
  PROVE  Coherent'
BY DEF Coherent, Exists

LEMMA WorkerCoherent ==
  ASSUME TypeOK, Coherent, Worker
  PROVE  Coherent'
<1> USE DEF Steps
<1>1. CASE InitStatus \/ SaveSpec \/ AddFinalizer \/ MarkDegraded
  <2>1. pc # "idle"
    BY <1>1 DEF InitStatus, SaveSpec, AddFinalizer, MarkDegraded, Write
  <2>2. obj \in Objects
    BY <2>1, Busy
  <2>3. CASE InitStatus
    <3>1. [obj EXCEPT !.avail = "Unknown"] \in Objects
      BY <2>2, ObjectFields DEF Avail
    <3> QED
      BY <2>2, <2>3, <3>1, WriteCoherent DEF InitStatus, Objects
  <2>4. CASE SaveSpec
    <3>1. PICK id \in Ids \cup {NoId} : Write("saveSpec", [obj EXCEPT !.id = id], "refetchSpec")
      BY <2>2, <2>4 DEF SaveSpec, Objects
    <3>2. [obj EXCEPT !.id = id] \in Objects
      BY <2>2, ObjectFields
    <3> QED
      BY <2>2, <3>1, <3>2, WriteCoherent DEF Objects
  <2>5. CASE AddFinalizer
    <3>1. [obj EXCEPT !.fin = TRUE] \in Objects
      BY <2>2, ObjectFields
    <3> QED
      BY <2>2, <2>5, <3>1, WriteCoherent DEF AddFinalizer, Objects
  <2>6. CASE MarkDegraded
    <3>1. [obj EXCEPT !.degraded = "True"] \in Objects
      BY <2>2, ObjectFields DEF Degraded
    <3> QED
      BY <2>2, <2>6, <3>1, WriteCoherent DEF MarkDegraded, Objects
  <2> QED
    BY <1>1, <2>3, <2>4, <2>5, <2>6
<1>2. CASE RefetchInit \/ RefetchSpec \/ RefetchFinal
  BY <1>2, RefetchCoherent DEF RefetchInit, RefetchSpec, RefetchFinal
<1>3. CASE NoNode \/ AddFailed \/ Available \/ RemoveFinalizer
  <2>1. pc # "idle"
    BY <1>3 DEF NoNode, AddFailed, Available, RemoveFinalizer, WriteAndReturn
  <2>2. /\ [obj EXCEPT !.avail = "NoNodeElected"] \in Objects
        /\ [obj EXCEPT !.avail = "V2raySvcAddFailed"] \in Objects
        /\ [obj EXCEPT !.avail = "True"] \in Objects
        /\ [obj EXCEPT !.fin = FALSE] \in Objects
    BY <2>1, Busy, ObjectFields DEF Avail
  <2> QED
    BY <1>3, <2>2, WriteAndReturnCoherent
       DEF NoNode, AddFailed, Available, RemoveFinalizer
<1>4. CASE Elect
  BY <1>4, SameCopies DEF Elect
<1>5. ASSUME NEW s \in Services,
             \/ AddUser(s) \/ AddUserFails(s) \/ Rollback(s)
             \/ RemoveUser(s) \/ RemoveUserFails(s) \/ Restore(s)
      PROVE  Coherent'
  BY <1>5, SameCopies
     DEF AddUser, AddUserFails, Rollback, RemoveUser, RemoveUserFails, Restore
<1>6. CASE SaveNodes
  <2> DEFINE o == [obj EXCEPT !.nodeList = Rebuilt(done)]
  <2>1. o \in Objects /\ obj \in Objects /\ cur \in Names /\ pc # "idle" /\ cache' = cache
    BY <1>6, Busy, RebuiltTyped, ObjectFields DEF SaveNodes, TypeOK
  <2>2. CASE Accepted(o) /\ Continue(AfterAdding(o), o, TRUE)
    <3>1. Stored(o) = o
      BY <2>1, <2>2 DEF Accepted, Coherent, Stored, Exists, TypeOK, Objects
    <3>2. Put(cur, o) /\ api'[cur] = o /\ pc' # "idle" /\ obj' = o /\ cur' = cur
      BY <2>1, <2>2, <3>1 DEF Accepted, Put, TypeOK, Continue, AfterAdding
    <3> QED
      BY <2>1, <3>2, PutCoherent DEF Coherent
  <2>3. CASE UNCHANGED <<api, synced>> /\ Continue("rollback", obj, fresh)
    BY <2>1, <2>3, SameCopies DEF Continue
  <2>4. CASE Refused(o) /\ Continue("rollback", obj, fresh /\ api' = api)
    <3>1. CASE UNCHANGED <<api, synced>>
      BY <2>1, <2>4, <3>1 DEF Continue, Coherent, Exists
    <3>2. CASE Put(cur, o)
      BY <2>1, <2>4, <3>2, PutCoherent DEF Continue, Coherent
    <3> QED
      BY <2>4, <3>1, <3>2 DEF Refused
  <2> QED
    BY <1>6, <2>2, <2>3, <2>4 DEF SaveNodes
<1>7. CASE Degrade
  <2> DEFINE o == [obj EXCEPT !.degraded = "Unknown"]
  <2>1. o \in Objects /\ obj \in Objects /\ cur \in Names /\ pc # "idle" /\ cache' = cache
    BY <1>7, Busy, ObjectFields DEF Degrade, Degraded
  <2>2. CASE Accepted(o) /\ Continue("finalize", o, TRUE)
    <3>1. Stored(o) = o
      BY <2>1, <2>2 DEF Accepted, Coherent, Stored, Exists, TypeOK, Objects
    <3>2. Put(cur, o) /\ api'[cur] = o /\ pc' # "idle" /\ obj' = o /\ cur' = cur
      BY <2>1, <2>2, <3>1 DEF Accepted, Put, TypeOK, Continue
    <3> QED
      BY <2>1, <3>2, PutCoherent DEF Coherent
  <2>3. CASE Refused(o) /\ Return({cur})
    BY <2>1, <2>3, ReturnCoherent
  <2> QED
    BY <1>7, <2>2, <2>3 DEF Degrade
<1>8. CASE RestoreDone \/ ElectFails
  <2>1. pc # "idle" /\ cache' = cache /\ UNCHANGED <<api, synced>> /\ Return({cur})
    BY <1>8 DEF RestoreDone, ElectFails
  <2> QED
    BY <2>1, Busy, ReturnCoherent
<1> QED
  BY <1>1, <1>2, <1>3, <1>4, <1>5, <1>6, <1>7, <1>8 DEF Worker

LEMMA OwnerStoresCoherent ==
  ASSUME TypeOK, Coherent, NEW u \in Names, NEW o \in Objects, NEW act,
         OwnerStores(u, act, o)
  PROVE  Coherent'
<1>1. fresh' => pc' # "idle" /\ obj' = api'[cur']
  BY DEF OwnerStores, OwnerPuts, Put, Coherent, TypeOK
<1> QED
  BY <1>1, PutCoherent DEF OwnerStores, OwnerPuts, Coherent

LEMMA EditTyped ==
  ASSUME TypeOK, NEW u \in Names, Exists(u), NEW spec \in Specs[u]
  PROVE  /\ [api[u] EXCEPT !.id = spec.id] \in Objects
         /\ [api[u] EXCEPT !.email = spec.email] \in Objects
         /\ [api[u] EXCEPT !.nodeList = spec.nodeList] \in Objects
         /\ [api[u] EXCEPT !.deleting = TRUE] \in Objects
         /\ NewObject(spec) \in Objects
<1>1. api[u] \in Objects /\ spec \in Wanted
  BY SpecsAssumption DEF Exists, TypeOK
<1> QED
  BY <1>1, ObjectFields, NewObjectTyped DEF Wanted

LEMMA WorldCoherent ==
  ASSUME TypeOK, Coherent, World
  PROVE  Coherent'
<1>1. CASE Deadline
  BY <1>1, SameCopies DEF Deadline
<1>2. CASE Crash \/ PanicElsewhere
  BY <1>2 DEF Crash, PanicElsewhere, ProcessEnds, Restart, Coherent, Exists
<1>3. ASSUME NEW u \in Names, Start(u)
      PROVE  Coherent'
  BY <1>3 DEF Start, Coherent, Exists, TypeOK
<1>4. ASSUME NEW u \in Names, CacheSync(u)
      PROVE  Coherent'
  BY <1>4 DEF CacheSync, Informed, hand, calls, Coherent, Exists, TypeOK, worker
<1>5. ASSUME NEW u \in Names, Resync(u)
      PROVE  Coherent'
  BY <1>5, SameCopies DEF Resync, Requeued, hand, objects, calls, worker
<1>6. ASSUME NEW u \in Names, Create(u)
      PROVE  Coherent'
  BY <1>6, SpecsAssumption, NewObjectTyped, OwnerStoresCoherent DEF Create
<1>7. ASSUME NEW u \in Names, Edit(u) \/ Delete(u)
      PROVE  Coherent'
  <2>1. [api[u] EXCEPT !.deleting = TRUE] \in Objects
    BY <1>7, ObjectFields DEF Edit, Delete, Exists, TypeOK
  <2> QED
    BY <1>7, <2>1, EditTyped, OwnerStoresCoherent DEF Edit, Delete
<1>8. ASSUME NEW s \in Services,
             RestartServer(s) \/ ComeUp(s) \/ RetireService(s) \/ ServiceAppears(s)
      PROVE  Coherent'
  BY <1>8, SameCopies
     DEF RestartServer, ComeUp, RetireService, ServiceAppears, worker
<1>9. ASSUME NEW s \in Services, NEW t \in Tags, InboundAppears(s, t)
      PROVE  Coherent'
  BY <1>9, SameCopies DEF InboundAppears, worker
<1> QED
  BY <1>1, <1>2, <1>3, <1>4, <1>5, <1>6, <1>7, <1>8, <1>9 DEF World

\* The worker knows whether its copy is the latest version, and the cache
\* which of its objects are.
THEOREM CopiesCoherent == Spec => []Coherent
<1>1. Init => Coherent
  <2> SUFFICES ASSUME Init PROVE Coherent
    OBVIOUS
  <2>1. ASSUME NEW u \in Names PROVE ~api[u].deleting
    BY DEF Init, NewObject
  <2> QED
    BY <2>1 DEF Init, Coherent
<1>2. TypeOK /\ Coherent /\ UNCHANGED vars => Coherent'
  BY DEF vars, worker, Coherent, Exists
<1>3. TypeOK /\ Coherent /\ Next => Coherent'
  BY WorkerCoherent, WorldCoherent DEF Next, World
<1> QED
  BY TypeCorrect, <1>1, <1>2, <1>3, PTL DEF Spec
-----------------------------------------------------------------------------
(* What the worker writes.                                                  *)

\* o is what a step of the worker may make of its copy.
Successor(o) ==
  /\ o.email = obj.email
  /\ obj.id # NoId => o.id = obj.id
  /\ o.deleting = obj.deleting
  /\ obj.fin /\ ~o.fin => pc = "removeFinalizer"
  /\ ~obj.fin /\ o.fin => pc = "addFinalizer"
  /\ o.avail = "True" => obj.avail = "True" \/ pc = "available"
  /\ o.nodeList # obj.nodeList => pc = "add"
  /\ pc \in {"addFinalizer", "removeFinalizer"} => (o.fin <=> pc = "addFinalizer")
  /\ pc \in {"addFinalizer", "degrading", "degraded", "removeFinalizer"} =>
       o.avail = obj.avail
  /\ o.degraded = (CASE pc = "degrading" -> "Unknown"
                      [] pc = "degraded" -> "True"
                      [] OTHER -> obj.degraded)

\* Every object the worker writes is a successor of an up-to-date copy.
WritesSuccessor ==
  \/ UNCHANGED <<api, synced>>
  \/ \E o \in Objects : fresh /\ Put(cur, o) /\ Successor(o)

LEMMA WriteSucceeds ==
  ASSUME NEW o \in Objects, Accepted(o) \/ Refused(o), Successor(o)
  PROVE  WritesSuccessor
BY DEF Accepted, Refused, WritesSuccessor

LEMMA WorkerWrites ==
  ASSUME TypeOK, Worker
  PROVE  /\ WritesSuccessor
         /\ pc # "idle" /\ UNCHANGED <<cache, svcs, up, edits>>
<1> USE DEF Steps
<1>1. pc # "idle" /\ UNCHANGED <<cache, svcs, up, edits>>
  BY DEF Worker, InitStatus, RefetchInit, SaveSpec, RefetchSpec, Elect, NoNode,
         AddUser, AddUserFails, Rollback, SaveNodes, AddFailed, AddFinalizer,
         Available, Degrade, RefetchFinal, MarkDegraded, RemoveFinalizer,
         RemoveUser, RemoveUserFails, Restore, RestoreDone, ElectFails,
         Write, WriteAndReturn, Refetch, world
<1> SUFFICES WritesSuccessor
  BY <1>1
<1>2. obj \in Objects
  BY <1>1, Busy
<1>3. CASE InitStatus
  <2>1. Successor([obj EXCEPT !.avail = "Unknown"])
    BY <1>2, <1>3 DEF Successor, Objects, InitStatus, Write
  <2>2. [obj EXCEPT !.avail = "Unknown"] \in Objects
    BY <1>2, ObjectFields DEF Avail
  <2> QED
    BY <1>3, <2>1, <2>2, WriteSucceeds DEF InitStatus, Write
<1>4. CASE SaveSpec
  <2>1. PICK id \in Ids \cup {NoId} :
          /\ obj.id # NoId => id = obj.id
          /\ Write("saveSpec", [obj EXCEPT !.id = id], "refetchSpec")
    BY <1>2, <1>4 DEF SaveSpec, Objects
  <2>2. [obj EXCEPT !.id = id] \in Objects
    BY <1>2, ObjectFields
  <2>3. Successor([obj EXCEPT !.id = id])
    BY <1>2, <2>1 DEF Successor, Objects, Write
  <2> QED
    BY <2>1, <2>2, <2>3, WriteSucceeds DEF Write
<1>5. CASE NoNode
  <2>1. Successor([obj EXCEPT !.avail = "NoNodeElected"])
    BY <1>2, <1>5 DEF Successor, Objects, NoNode, WriteAndReturn
  <2>2. [obj EXCEPT !.avail = "NoNodeElected"] \in Objects
    BY <1>2, ObjectFields DEF Avail
  <2> QED
    BY <1>5, <2>1, <2>2, WriteSucceeds DEF NoNode, WriteAndReturn
<1>6. CASE SaveNodes
  <2> DEFINE o == [obj EXCEPT !.nodeList = Rebuilt(done)]
  <2>1. o \in Objects
    BY <1>2, RebuiltTyped, ObjectFields DEF TypeOK
  <2>2. Successor(o)
    BY <1>2, <1>6 DEF Successor, Objects, SaveNodes
  <2> QED
    BY <1>6, <2>1, <2>2, WriteSucceeds DEF SaveNodes, WritesSuccessor
<1>7. CASE AddFailed
  <2>1. Successor([obj EXCEPT !.avail = "V2raySvcAddFailed"])
    BY <1>2, <1>7 DEF Successor, Objects, AddFailed, WriteAndReturn
  <2>2. [obj EXCEPT !.avail = "V2raySvcAddFailed"] \in Objects
    BY <1>2, ObjectFields DEF Avail
  <2> QED
    BY <1>7, <2>1, <2>2, WriteSucceeds DEF AddFailed, WriteAndReturn
<1>8. CASE AddFinalizer
  <2>1. Successor([obj EXCEPT !.fin = TRUE])
    BY <1>2, <1>8 DEF Successor, Objects, AddFinalizer, Write
  <2>2. [obj EXCEPT !.fin = TRUE] \in Objects
    BY <1>2, ObjectFields
  <2> QED
    BY <1>8, <2>1, <2>2, WriteSucceeds DEF AddFinalizer, Write
<1>9. CASE Available
  <2>1. Successor([obj EXCEPT !.avail = "True"])
    BY <1>2, <1>9 DEF Successor, Objects, Available, WriteAndReturn
  <2>2. [obj EXCEPT !.avail = "True"] \in Objects
    BY <1>2, ObjectFields DEF Avail
  <2> QED
    BY <1>9, <2>1, <2>2, WriteSucceeds DEF Available, WriteAndReturn
<1>10. CASE Degrade \/ MarkDegraded
  <2>1. \A d \in Degraded : [obj EXCEPT !.degraded = d] \in Objects
    BY <1>2, ObjectFields
  <2>2. Degrade => Successor([obj EXCEPT !.degraded = "Unknown"])
    BY <1>2 DEF Successor, Objects, Degrade
  <2>3. MarkDegraded => Successor([obj EXCEPT !.degraded = "True"])
    BY <1>2 DEF Successor, Objects, MarkDegraded, Write
  <2> QED
    BY <1>10, <2>1, <2>2, <2>3, WriteSucceeds DEF Degrade, MarkDegraded, Write, Degraded
<1>11. CASE RemoveFinalizer
  <2>1. Successor([obj EXCEPT !.fin = FALSE])
    BY <1>2, <1>11 DEF Successor, Objects, RemoveFinalizer, WriteAndReturn
  <2>2. [obj EXCEPT !.fin = FALSE] \in Objects
    BY <1>2, ObjectFields
  <2> QED
    BY <1>11, <2>1, <2>2, WriteSucceeds DEF RemoveFinalizer, WriteAndReturn
<1>12. CASE RefetchInit \/ RefetchSpec \/ RefetchFinal \/ Elect \/ RestoreDone \/ ElectFails
  BY <1>12
     DEF RefetchInit, RefetchSpec, RefetchFinal, Refetch, Elect, RestoreDone, ElectFails,
               WritesSuccessor
<1>13. ASSUME NEW s \in Services,
              \/ AddUser(s) \/ AddUserFails(s) \/ Rollback(s)
              \/ RemoveUser(s) \/ RemoveUserFails(s) \/ Restore(s)
       PROVE  WritesSuccessor
  BY <1>13 DEF AddUser, AddUserFails, Rollback, RemoveUser, RemoveUserFails,
               Restore, WritesSuccessor
<1> QED
  BY <1>1, <1>3, <1>4, <1>5, <1>6, <1>7, <1>8, <1>9, <1>10, <1>11, <1>12, <1>13
     DEF Worker

\* Only the owner replaces a stored id: whatever old copies the worker reads
\* and whatever ids it draws, its write of a second id is refused.
THEOREM IdsStay == Spec => IdNeverReplaced
<1> DEFINE Kept == \A u \in Names :
                     (Exists(u) /\ api[u].id # NoId /\ Exists(u)' /\ api'[u].id # api[u].id)
                       => edits' # edits
<1>1. ASSUME TypeOK, Coherent, Worker PROVE Kept
  <2>1. CASE UNCHANGED <<api, synced>>
    BY <2>1
  <2>2. CASE \E o \in Objects : fresh /\ Put(cur, o) /\ Successor(o)
    <3>1. PICK o \in Objects : fresh /\ Put(cur, o) /\ Successor(o)
      BY <2>2
    <3>2. /\ api' = [api EXCEPT ![cur] = Stored(o)]
          /\ obj = api[cur] /\ cur \in Names
      BY <1>1, <3>1, WorkerWrites, Busy DEF Put, Coherent
    <3>3. Stored(o) = Gone \/ Stored(o) = o
      BY DEF Stored
    <3>4. api'[cur] = Gone \/ api'[cur].id = o.id
      BY <1>1, <3>2, <3>3 DEF TypeOK
    <3>5. \A u \in Names \ {cur} : api'[u] = api[u]
      BY <1>1, <3>2 DEF TypeOK
    <3>6. api[cur].id # NoId => o.id = api[cur].id
      BY <3>1, <3>2 DEF Successor
    <3>7. ASSUME NEW u \in Names, Exists(u), api[u].id # NoId, Exists(u)'
          PROVE  api'[u].id = api[u].id
      BY <3>4, <3>5, <3>6, <3>7 DEF Exists
    <3> QED
      BY <3>7
  <2> QED
    BY <1>1, <2>1, <2>2, WorkerWrites DEF WritesSuccessor
<1>2. ASSUME TypeOK, World PROVE Kept
  <2>1. ASSUME NEW u \in Names, Create(u) \/ Edit(u) \/ Delete(u)
        PROVE  edits' # edits
    <3>1. edits' = edits + 1
      BY <2>1 DEF Create, Edit, Delete, OwnerStores, OwnerPuts
    <3>2. edits \in Int
      BY <1>2, BoundsAssumption DEF TypeOK
    <3> QED
      BY <3>1, <3>2
  <2>2. CASE UNCHANGED api
    BY <2>2
  <2> QED
    BY <1>2, <2>1, <2>2
       DEF World, Deadline, Crash, PanicElsewhere, ProcessEnds, Restart, Start, CacheSync, Informed,
           Resync, Requeued, hand, objects, calls,
       RestartServer, ComeUp, RetireService, ServiceAppears, InboundAppears
<1>3. UNCHANGED vars => Kept
  BY DEF vars
<1>4. TypeOK /\ Coherent /\ [Next]_vars => [Kept]_vars
  BY <1>1, <1>2, <1>3 DEF Next, World
<1> QED
  BY TypeCorrect, CopiesCoherent, <1>4, PTL DEF Spec, IdNeverReplaced
-----------------------------------------------------------------------------
(* Finalizers.                                                              *)

Finalizing == {"degrading", "finalize", "restore", "degraded", "removeFinalizer"}

\* The invariant behind AvailableIsGuarded: the worker reports an object it
\* has put its finalizer on, and finalizes an object that is being deleted.
Guards ==
  /\ AvailableIsGuarded
  /\ pc = "available" => obj.fin
  /\ pc \in Finalizing => Exists(cur) /\ api[cur].deleting /\ api[cur].fin

\* Where the worker comes from when it is about to report or to finalize.
LEMMA WorkerMoves ==
  ASSUME Worker
  PROVE  /\ pc' = "available" => SaveNodes \/ AddFinalizer
         /\ pc' \in Finalizing =>
              \/ SaveNodes \/ AddFinalizer
              \/ pc \in Finalizing \ {"removeFinalizer"} /\ cur' = cur
<1> USE DEF Finalizing
<1>1. ASSUME NEW s \in Services,
             \/ AddUser(s) \/ AddUserFails(s) \/ Rollback(s)
             \/ RemoveUser(s) \/ RemoveUserFails(s) \/ Restore(s)
      PROVE  /\ pc' # "available"
             /\ pc' \in Finalizing => pc \in Finalizing \ {"removeFinalizer"} /\ cur' = cur
  BY <1>1
     DEF AddUser, AddUserFails, Rollback, RemoveUser, RemoveUserFails, Restore
<1>2. CASE \/ InitStatus \/ RefetchInit \/ SaveSpec \/ RefetchSpec
           \/ Elect \/ NoNode \/ AddFailed \/ Available
           \/ Degrade \/ RefetchFinal \/ MarkDegraded \/ RemoveFinalizer \/ RestoreDone \/ ElectFails
  BY <1>2 DEF InitStatus, RefetchInit, SaveSpec, RefetchSpec, Elect, NoNode,
       AddFailed, Available, Degrade, RefetchFinal, MarkDegraded, RemoveFinalizer,
       RestoreDone, ElectFails, Write, WriteAndReturn, Refetch, Continue, Return, Leave
<1> QED
  BY <1>1, <1>2 DEF Worker

\* Going on to report or to finalize, the worker has just had o accepted.
LEMMA EntersGuarded ==
  ASSUME TypeOK, Coherent, SaveNodes \/ AddFinalizer,
         pc' \in Finalizing \cup {"available"}
  PROVE  \E o \in Objects :
           /\ obj' = o /\ api'[cur'] = o /\ cur' \in Names /\ o.fin
           /\ pc' # "available" => o.deleting
<1> USE DEF Finalizing
<1>1. pc # "idle"
  BY DEF SaveNodes, AddFinalizer, Write
<1>2. obj \in Objects /\ cur \in Names
  BY <1>1, Busy
<1>3. CASE SaveNodes
  <2> DEFINE o == [obj EXCEPT !.nodeList = Rebuilt(done)]
  <2>1. o \in Objects /\ o.fin = obj.fin /\ o.deleting = obj.deleting
    BY <1>2, RebuiltTyped, ObjectFields DEF TypeOK, Objects
  <2>2. Accepted(o) /\ Continue(AfterAdding(o), o, TRUE)
    BY <1>3 DEF SaveNodes, Continue
  <2>3. o.fin /\ (pc' # "available" => o.deleting) /\ cur' = cur /\ obj' = o
    BY <2>1, <2>2 DEF Continue, AfterAdding, Objects
  <2>4. api'[cur] = o
    BY <1>2, <2>1, <2>2, <2>3 DEF Accepted, Put, Stored, TypeOK
  <2> QED
    BY <1>2, <2>1, <2>3, <2>4
<1>4. CASE AddFinalizer
  <2> DEFINE o == [obj EXCEPT !.fin = TRUE]
  <2>1. o \in Objects /\ o.fin = TRUE /\ o.deleting = obj.deleting
    BY <1>2, ObjectFields DEF Objects
  <2>2. /\ Accepted(o)
        /\ Continue(IF obj.deleting THEN "degrading" ELSE "available", o, TRUE)
    BY <1>4 DEF AddFinalizer, Write, Return, Leave
  <2>3. api'[cur] = o
    BY <1>2, <2>1, <2>2 DEF Accepted, Put, Stored, TypeOK
  <2> QED
    BY <1>2, <2>1, <2>2, <2>3 DEF Continue
<1> QED
  BY <1>3, <1>4

LEMMA WorkerGuards ==
  ASSUME TypeOK, Coherent, Guards, Worker
  PROVE  Guards'
<1>1. obj \in Objects /\ cur \in Names
  BY WorkerWrites, Busy
<1>2. AvailableIsGuarded' /\ (pc \in Finalizing \ {"removeFinalizer"} =>
                                api'[cur] # Gone /\ api'[cur].deleting /\ api'[cur].fin)
  <2>1. CASE UNCHANGED <<api, synced>>
    BY <2>1 DEF Guards, AvailableIsGuarded, Exists
  <2>2. CASE \E o \in Objects : fresh /\ Put(cur, o) /\ Successor(o)
    <3>1. PICK o \in Objects : fresh /\ Put(cur, o) /\ Successor(o)
      BY <2>2
    <3>2. obj = api[cur] /\ Exists(cur)
      BY <1>1, <3>1, MarkersAssumption, NoneAssumption DEF Coherent, Exists
    <3>3. /\ api'[cur] = Stored(o)
          /\ \A u \in Names \ {cur} : api'[u] = api[u]
      BY <1>1, <3>1 DEF Put, TypeOK
    <3>4. Stored(o) # Gone /\ o.avail = "True" => o.fin
      <4> SUFFICES ASSUME Stored(o) # Gone, o.avail = "True", ~o.fin
                   PROVE  FALSE
        BY DEF Objects
      <4>1. obj.fin
        BY <1>1, <3>1, <3>2 DEF Successor, Guards, AvailableIsGuarded
      <4>2. pc = "removeFinalizer"
        BY <3>1, <4>1 DEF Successor
      <4>3. o.deleting
        BY <3>1, <3>2, <4>2 DEF Successor, Guards, Finalizing
      <4> QED
        BY <4>3 DEF Stored
    <3>5. AvailableIsGuarded'
      <4>1. ASSUME NEW u \in Names, api'[u] # Gone, api'[u].avail = "True"
            PROVE  api'[u].fin
        <5>1. CASE u = cur
          BY <3>3, <3>4, <4>1, <5>1 DEF Stored
        <5>2. CASE u # cur
          BY <3>3, <4>1, <5>2 DEF Guards, AvailableIsGuarded, Exists
        <5> QED
          BY <5>1, <5>2
      <4> QED
        BY <4>1 DEF AvailableIsGuarded, Exists
    <3>6. pc \in Finalizing \ {"removeFinalizer"} => o.deleting /\ o.fin /\ Stored(o) = o
      BY <3>1, <3>2 DEF Successor, Guards, Stored
    <3> QED
      BY <3>3, <3>5, <3>6, MarkersAssumption, NoneAssumption
  <2> QED
    BY <2>1, <2>2, WorkerWrites DEF WritesSuccessor
<1>3. CASE pc' \in Finalizing \cup {"available"} /\ (SaveNodes \/ AddFinalizer)
  <2>1. PICK o \in Objects :
           /\ obj' = o /\ api'[cur'] = o /\ cur' \in Names /\ o.fin
           /\ pc' # "available" => o.deleting
    BY <1>3, EntersGuarded
  <2> QED
    BY <1>2, <2>1, MarkersAssumption, NoneAssumption
       DEF Guards, Exists, Finalizing
<1>4. CASE ~(pc' \in Finalizing \cup {"available"} /\ (SaveNodes \/ AddFinalizer))
  BY <1>2, <1>4, WorkerMoves DEF Guards, Exists
<1> QED
  BY <1>3, <1>4
\* The keys an object's owner files its user under.
Owned(u) == {spec.email : spec \in Specs[u]}

\* The ids its owner writes.
Chosen(u) == {spec.id : spec \in Specs[u]}

\* What an owner's step makes of the object u.
LEMMA OwnerWrites ==
  ASSUME TypeOK, Coherent, NEW u \in Names, Create(u) \/ Edit(u) \/ Delete(u)
  PROVE  /\ UNCHANGED <<cache, queue, pc, cur, obj, todo, done, expired, reg, svcs, up>>
         /\ \A v \in Names \ {u} : /\ api'[v] = api[v]
                                   /\ v \in synced' <=> v \in synced
         /\ u \in synced' => api'[u] = api[u] /\ u \in synced
         /\ \/ api'[u] = Gone /\ Exists(u) /\ ~api[u].fin
            \/ \E spec \in Specs[u] : ~Exists(u) /\ api'[u] = NewObject(spec)
            \/ /\ Exists(u) /\ api'[u] \in Objects
               /\ api'[u].fin = api[u].fin
               /\ api'[u].avail = api[u].avail
               /\ api'[u].degraded = api[u].degraded
               /\ api[u].deleting => api'[u].deleting
               /\ api'[u].email \in {api[u].email} \cup Owned(u)
               /\ api'[u].id \in {api[u].id} \cup Chosen(u)
<1>1. PICK o \in Objects, act \in {"create", "id", "email", "nodes", "delete"} :
        /\ OwnerStores(u, act, o)
        /\ \/ \E spec \in Specs[u] : ~Exists(u) /\ o = NewObject(spec)
           \/ /\ Exists(u) /\ o.fin = api[u].fin /\ o.avail = api[u].avail
              /\ o.degraded = api[u].degraded
              /\ o.deleting = api[u].deleting \/ (o.deleting /\ act = "delete")
              /\ o.email \in {api[u].email} \cup Owned(u)
              /\ o.id \in {api[u].id} \cup Chosen(u)
  <2>1. CASE Create(u)
    BY <2>1, NewObjectTyped, SpecsAssumption DEF Create
  <2>2. CASE Edit(u)
    <3>1. api[u] \in Objects /\ Exists(u)
      BY <2>2 DEF Edit, Exists, TypeOK
    <3>2. PICK spec \in Specs[u] :
          \/ OwnerStores(u, "id", [api[u] EXCEPT !.id = spec.id])
          \/ OwnerStores(u, "email", [api[u] EXCEPT !.email = spec.email])
          \/ OwnerStores(u, "nodes", [api[u] EXCEPT !.nodeList = spec.nodeList])
      BY <2>2 DEF Edit
    <3>3. /\ [api[u] EXCEPT !.id = spec.id] \in Objects
          /\ [api[u] EXCEPT !.email = spec.email] \in Objects
          /\ [api[u] EXCEPT !.nodeList = spec.nodeList] \in Objects
      BY <3>1, EditTyped
    <3> QED
      BY <3>1, <3>2, <3>3 DEF Objects, Owned, Chosen
  <2>3. CASE Delete(u)
    <3>1. api[u] \in Objects /\ Exists(u)
      BY <2>3 DEF Delete, Exists, TypeOK
    <3>2. [api[u] EXCEPT !.deleting = TRUE] \in Objects
      BY <3>1, ObjectFields
    <3> QED
      BY <2>3, <3>1, <3>2 DEF Delete, Objects
  <2> QED
    BY <2>1, <2>2, <2>3
<1>2. /\ api'[u] = Stored(o)
      /\ \A v \in Names \ {u} : api'[v] = api[v]
      /\ synced' = IF Stored(o) = api[u] THEN synced ELSE synced \ {u}
  BY <1>1 DEF OwnerStores, OwnerPuts, Put, TypeOK
<1>3. UNCHANGED <<cache, queue, pc, cur, obj, todo, done, expired, reg, svcs, up>>
  BY <1>1 DEF OwnerStores, OwnerPuts, calls, world
<1>4. CASE \E spec \in Specs[u] : ~Exists(u) /\ o = NewObject(spec)
  <2>1. Stored(o) = o
    BY <1>4 DEF Stored, NewObject
  <2> QED
    BY <1>2, <1>3, <1>4, <2>1
<1>5. CASE /\ Exists(u) /\ o.fin = api[u].fin /\ o.avail = api[u].avail
           /\ o.degraded = api[u].degraded
           /\ o.deleting = api[u].deleting \/ (o.deleting /\ act = "delete")
           /\ o.email \in {api[u].email} \cup Owned(u)
           /\ o.id \in {api[u].id} \cup Chosen(u)
  <2>1. Stored(o) = Gone => ~api[u].fin
    BY <1>5, MarkersAssumption, NoneAssumption DEF Stored
  <2>2. Stored(o) = o \/ Stored(o) = Gone
    BY DEF Stored
  <2> QED
    BY <1>2, <1>3, <1>5, <2>1, <2>2 DEF Objects
<1> QED
  BY <1>1, <1>4, <1>5

\* The other steps around the worker leave the objects alone.
LEMMA WorldWrites ==
  ASSUME World
  PROVE  \/ \E u \in Names : Create(u) \/ Edit(u) \/ Delete(u)
         \/ /\ UNCHANGED api
            /\ \/ UNCHANGED <<pc, cur, obj>>
               \/ pc' \in {"idle", "initStatus", "saveSpec"}
BY
   DEF World, Deadline, Crash, PanicElsewhere, ProcessEnds, Restart, Start, CacheSync, Informed, Resync,
       Requeued, hand, objects, calls, RestartServer, ComeUp,
       RetireService, ServiceAppears, InboundAppears, worker

LEMMA WorldGuards ==
  ASSUME TypeOK, Coherent, Guards, World
  PROVE  Guards'
<1>1. CASE /\ UNCHANGED api
           /\ \/ UNCHANGED <<pc, cur, obj>>
              \/ pc' \in {"idle", "initStatus", "saveSpec"}
  BY <1>1 DEF Guards, AvailableIsGuarded, Exists, Finalizing
<1>2. ASSUME NEW u \in Names, Create(u) \/ Edit(u) \/ Delete(u)
      PROVE  Guards'
  <2>1. ASSUME NEW v \in Names, api'[v] # Gone, api'[v].avail = "True"
        PROVE  api'[v].fin
    <3>1. CASE v = u
      <4>1. \/ /\ Exists(u) /\ api'[u].fin = api[u].fin
               /\ api'[u].avail = api[u].avail
            \/ \E spec \in Specs[u] : api'[u] = NewObject(spec)
        BY <1>2, <2>1, <3>1, OwnerWrites
      <4>2. \A spec \in Specs[u] : NewObject(spec).avail # "True"
        BY DEF NewObject
      <4>3. Exists(u) /\ api'[u].fin = api[u].fin /\ api'[u].avail = api[u].avail
        BY <2>1, <3>1, <4>1, <4>2
      <4> QED
        BY <2>1, <3>1, <4>3 DEF Guards, AvailableIsGuarded
    <3>2. CASE v # u
      <4>1. api'[v] = api[v]
        BY <1>2, <3>2, OwnerWrites
      <4> QED
        BY <2>1, <4>1 DEF Guards, AvailableIsGuarded, Exists
    <3> QED
      BY <3>1, <3>2
  <2>2. pc' \in Finalizing => Exists(cur)' /\ api'[cur'].deleting /\ api'[cur'].fin
    <3> SUFFICES ASSUME pc' \in Finalizing
                 PROVE  Exists(cur)' /\ api'[cur'].deleting /\ api'[cur'].fin
      OBVIOUS
    <3>1. pc \in Finalizing /\ cur' = cur
      BY <1>2, OwnerWrites
    <3>2. cur \in Names
      BY <3>1, Busy DEF Finalizing
    <3>3. Exists(cur) /\ api[cur].deleting /\ api[cur].fin
      BY <3>1 DEF Guards
    <3>4. CASE cur = u
      <4>1. api'[u] \in Objects /\ api'[u].fin = api[u].fin /\ api'[u].deleting
        BY <1>2, <3>3, <3>4, OwnerWrites
      <4> QED
        BY <3>1, <3>3, <3>4, <4>1, MarkersAssumption, NoneAssumption DEF Exists
    <3>5. CASE cur # u
      <4>1. api'[cur] = api[cur]
        BY <1>2, <3>2, <3>5, OwnerWrites
      <4> QED
        BY <3>1, <3>3, <4>1 DEF Exists
    <3> QED
      BY <3>4, <3>5
  <2>3. pc' = pc /\ obj' = obj
    BY <1>2, OwnerWrites
  <2> QED
    BY <2>1, <2>2, <2>3 DEF Guards, AvailableIsGuarded, Exists
<1> QED
  BY <1>1, <1>2, WorldWrites

LEMMA GuardsHold == Spec => []Guards
<1>1. Init => Guards
  <2> SUFFICES ASSUME Init PROVE Guards
    OBVIOUS
  <2>1. ASSUME NEW u \in Names PROVE api[u].avail = "none"
    BY DEF Init, NewObject
  <2> QED
    BY <2>1 DEF Init, Guards, AvailableIsGuarded, Finalizing
<1>2. Guards /\ UNCHANGED vars => Guards'
  BY DEF vars, worker, Guards, AvailableIsGuarded, Exists
<1>3. TypeOK /\ Coherent /\ Guards /\ Next => Guards'
  BY WorkerGuards, WorldGuards DEF Next, World
<1> QED
  BY TypeCorrect, CopiesCoherent, <1>1, <1>2, <1>3, PTL DEF Spec

\* An object that was reported available cannot go without its finalizer
\* having been run.
THEOREM Guarded == Spec => []AvailableIsGuarded
<1>1. Guards => AvailableIsGuarded
  BY DEF Guards
<1> QED
  BY <1>1, GuardsHold, PTL
-----------------------------------------------------------------------------
(* Registrations.                                                           *)

\* Every copy of an object has one of its owner's keys.
EmailsOwned ==
  /\ \A u \in Names : /\ Exists(u) => api[u].email \in Owned(u)
                      /\ cache[u] # Gone => cache[u].email \in Owned(u)
  /\ pc # "idle" => obj.email \in Owned(cur)

LEMMA InitEmails == Init => EmailsOwned
<1> SUFFICES ASSUME Init PROVE EmailsOwned
  OBVIOUS
<1>1. PICK spec \in [Names -> UNION {Specs[u] : u \in Names}] :
        /\ \A u \in Names : spec[u] \in Specs[u]
        /\ api = [u \in Names |-> NewObject(spec[u])]
  BY DEF Init
<1>2. ASSUME NEW u \in Names PROVE api[u].email \in Owned(u)
  BY <1>1 DEF NewObject, Owned
<1> QED
  BY <1>2 DEF Init, EmailsOwned, Exists

\* Within Reconcile only Refetch and the worker's writes touch the copy, and
\* none of them changes its key.
LEMMA WorkerCopies ==
  ASSUME TypeOK, Worker
  PROVE  /\ cur' \in {cur, None}
         /\ cur' = None => pc' = "idle"
         /\ cur' = cur => obj'.email = obj.email \/ (obj' = cache[cur] /\ cache[cur] # Gone)
<1> USE DEF Steps
<1>1. pc # "idle"
  BY WorkerWrites
<1>2. obj \in Objects /\ cur \in Names
  BY <1>1, Busy
<1>3. CASE InitStatus \/ SaveSpec \/ AddFinalizer \/ MarkDegraded \/ SaveNodes \/ Degrade
  <2>1. ASSUME NEW here, NEW o, NEW next, Write(here, o, next), o.email = obj.email
        PROVE  /\ cur' \in {cur, None}
               /\ cur' = None => pc' = "idle"
               /\ cur' = cur => obj'.email = obj.email
    BY <1>2, <2>1, MarkersAssumption, NoneAssumption
       DEF Write, Continue, Return, Leave
  <2>2. CASE InitStatus
    BY <1>2, <2>1, <2>2 DEF InitStatus, Objects
  <2>3. CASE SaveSpec
    <3>1. PICK id : Write("saveSpec", [obj EXCEPT !.id = id], "refetchSpec")
      BY <2>3 DEF SaveSpec
    <3> QED
      BY <1>2, <2>1, <3>1 DEF Objects
  <2>4. CASE AddFinalizer
    BY <1>2, <2>1, <2>4 DEF AddFinalizer, Objects
  <2>5. CASE MarkDegraded
    BY <1>2, <2>1, <2>5 DEF MarkDegraded, Objects
  <2>6. CASE SaveNodes
    BY <1>2, <2>6, MarkersAssumption, NoneAssumption
       DEF SaveNodes, Continue, Objects
  <2>7. CASE Degrade
    BY <1>2, <2>7, MarkersAssumption, NoneAssumption
       DEF Degrade, Continue, Return, Leave, Objects
  <2> QED
    BY <1>3, <2>2, <2>3, <2>4, <2>5, <2>6, <2>7
<1>4. CASE RefetchInit \/ RefetchSpec \/ RefetchFinal
  BY <1>2, <1>4, MarkersAssumption, NoneAssumption
     DEF RefetchInit, RefetchSpec, RefetchFinal, Refetch, Continue, Return, Leave
<1>5. CASE NoNode \/ AddFailed \/ Available \/ RemoveFinalizer \/ RestoreDone \/ ElectFails
  BY <1>2, <1>5, MarkersAssumption, NoneAssumption
        DEF NoNode, AddFailed, Available, RemoveFinalizer, RestoreDone, ElectFails,
            WriteAndReturn, Return, Leave
<1>6. CASE Elect
  BY <1>2, <1>6, MarkersAssumption, NoneAssumption DEF Elect
<1>7. ASSUME NEW s \in Services,
             \/ AddUser(s) \/ AddUserFails(s) \/ Rollback(s)
             \/ RemoveUser(s) \/ RemoveUserFails(s) \/ Restore(s)
      PROVE  cur' = cur /\ obj' = obj
  BY <1>7
     DEF AddUser, AddUserFails, Rollback, RemoveUser, RemoveUserFails, Restore
<1> QED
  BY <1>2, <1>3, <1>4, <1>5, <1>6, <1>7, MarkersAssumption, NoneAssumption
     DEF Worker

LEMMA NextEmails ==
  ASSUME TypeOK, Coherent, EmailsOwned, Next
  PROVE  EmailsOwned'
<1>1. CASE Worker
  <2>1. /\ pc # "idle" /\ cache' = cache /\ obj \in Objects /\ cur \in Names
        /\ obj.email \in Owned(cur)
    BY <1>1, WorkerWrites, Busy DEF EmailsOwned
  <2>2. pc' # "idle" => obj'.email \in Owned(cur')
    BY <1>1, <2>1, WorkerCopies DEF EmailsOwned
  <2>3. ASSUME NEW u \in Names, api'[u] # Gone
        PROVE  api'[u].email \in Owned(u)
    <3>1. CASE UNCHANGED <<api, synced>>
      BY <2>3, <3>1 DEF EmailsOwned, Exists
    <3>2. CASE \E o \in Objects : fresh /\ Put(cur, o) /\ Successor(o)
      <4>1. PICK o \in Objects : fresh /\ Put(cur, o) /\ Successor(o)
        BY <3>2
      <4>2. CASE u = cur
        BY <2>1, <2>3, <4>1, <4>2 DEF Put, Stored, Successor, TypeOK
      <4>3. CASE u # cur
        BY <2>1, <2>3, <4>1, <4>3 DEF Put, EmailsOwned, Exists, TypeOK
      <4> QED
        BY <4>2, <4>3
    <3> QED
      BY <1>1, <3>1, <3>2, WorkerWrites DEF WritesSuccessor
  <2> QED
    BY <2>1, <2>2, <2>3 DEF EmailsOwned, Exists
<1>2. ASSUME NEW u \in Names, Create(u) \/ Edit(u) \/ Delete(u)
      PROVE  EmailsOwned'
  <2>1. /\ UNCHANGED <<cache, pc, cur, obj>>
        /\ \A v \in Names \ {u} : api'[v] = api[v]
    BY <1>2, OwnerWrites
  <2>2. api'[u] # Gone => api'[u].email \in Owned(u)
    <3>1. \A spec \in Specs[u] : NewObject(spec).email \in Owned(u)
      BY DEF NewObject, Owned
    <3>2. api'[u] = Gone \/ (\E spec \in Specs[u] : api'[u] = NewObject(spec))
          \/ (Exists(u) /\ api'[u].email \in {api[u].email} \cup Owned(u))
      BY <1>2, OwnerWrites
    <3> QED
      BY <3>1, <3>2 DEF EmailsOwned
  <2> QED
    BY <2>1, <2>2 DEF EmailsOwned, Exists
<1>3. ASSUME NEW u \in Names, Start(u)
      PROVE  EmailsOwned'
  BY <1>3 DEF Start, EmailsOwned, Exists
<1>4. ASSUME NEW u \in Names, CacheSync(u)
      PROVE  EmailsOwned'
  BY <1>4
     DEF CacheSync, Informed, hand, calls, EmailsOwned, Exists, worker, TypeOK
<1>5. CASE Crash \/ PanicElsewhere
  BY <1>5 DEF Crash, PanicElsewhere, ProcessEnds, Restart, EmailsOwned, Exists
<1>6. CASE UNCHANGED <<api, cache, cur, obj>> /\ (pc = "idle" => pc' = "idle")
  BY <1>6 DEF EmailsOwned, Exists
<1> QED
  BY <1>1, <1>2, <1>3, <1>4, <1>5, <1>6
        DEF Next, Deadline, Resync, Requeued, hand, objects, calls,
            RestartServer, ComeUp, RetireService, ServiceAppears, InboundAppears,
            worker
\* Every Service an object's nodeList names knows its user, and there is one.
Served(o) ==
  /\ Listed(o) # {}
  /\ \A s \in Listed(o) : reg[s][o.email] # NoId

\* The invariant behind AvailableIsServed: successedSvcList holds servers that
\* know the user, and so does the nodeList made from it.
Registrations ==
  /\ pc = "add" => todo \cup done # {} /\ \A s \in done : reg[s][obj.email] # NoId
  /\ pc \in {"addFinalizer", "available"} => Served(obj)
  /\ AvailableIsServed

\* The nodeList made from a set of Services names exactly these.
LEMMA ListedRebuilt ==
  ASSUME NEW served \in SUBSET Services, NEW o, o.nodeList = Rebuilt(served)
  PROVE  Listed(o) = served
<1> DEFINE here(r) == {s \in served : Label[s] = r}
<1>1. \A r \in Regions :
        /\ Rebuilt(served)[r] = IF here(r) = {} THEN NoEntry ELSE [size |-> 0, info |-> here(r)]
        /\ Rebuilt(served)[r] # NoEntry => here(r) # {}
  BY DEF Rebuilt
<1>2. \A r \in Regions : here(r) # {} => Rebuilt(served)[r] # NoEntry
  <2> SUFFICES ASSUME NEW r \in Regions, here(r) # {}
               PROVE  Rebuilt(served)[r] # NoEntry
    OBVIOUS
  <2>1. [size |-> 0, info |-> here(r)] \in Entries
    BY DEF Entries
  <2> QED
    BY <1>1, <2>1, MarkersAssumption, NoneAssumption
<1>3. ASSUME NEW r \in Named(o.nodeList)
      PROVE  o.nodeList[r].info = here(r)
  <2>1. r \in Regions /\ Rebuilt(served)[r] # NoEntry
    BY DEF Named
  <2>2. Rebuilt(served)[r] = [size |-> 0, info |-> here(r)]
    BY <1>1, <2>1
  <2> QED
    BY <2>2
<1>4. ASSUME NEW s \in served
      PROVE  Label[s] \in Named(o.nodeList) /\ s \in here(Label[s])
  <2>1. Label[s] \in Regions
    BY LabelAssumption
  <2>2. s \in here(Label[s])
    OBVIOUS
  <2>3. Rebuilt(served)[Label[s]] # NoEntry
    BY <1>2, <2>1, <2>2
  <2> QED
    BY <2>1, <2>2, <2>3 DEF Named
<1>5. ASSUME NEW s \in served PROVE s \in Listed(o)
  <2>1. Label[s] \in Named(o.nodeList) /\ s \in o.nodeList[Label[s]].info
    BY <1>3, <1>4
  <2> QED
    BY <2>1 DEF Listed
<1>6. ASSUME NEW s \in Listed(o) PROVE s \in served
  <2>1. PICK r \in Named(o.nodeList) : s \in o.nodeList[r].info
    BY <1>6 DEF Listed
  <2>2. s \in here(r)
    BY <1>3, <2>1
  <2> QED
    BY <2>2
<1> QED
  BY <1>5, <1>6

\* A registration is only taken back under the key of the worker's copy, in a
\* rollback or a finalization.
LEMMA WorkerForgets ==
  ASSUME TypeOK, Worker
  PROVE  \A s \in Services, e \in Emails :
           reg[s][e] # NoId /\ reg'[s][e] # reg[s][e] =>
             e = obj.email /\ pc \in {"rollback", "finalize"}
<1>1. pc # "idle" /\ obj.email \in Emails /\ obj \in Objects
  BY WorkerWrites, Busy DEF Objects
<1>2. ASSUME NEW s \in Services, AddUser(s) \/ AddUserFails(s) \/ Restore(s)
      PROVE  UNCHANGED reg \/ Register(s, obj.email, obj.id)
  BY <1>2 DEF AddUser, AddUserFails, Restore
<1>3. ASSUME NEW s \in Services, Rollback(s) \/ RemoveUser(s) \/ RemoveUserFails(s)
      PROVE  /\ UNCHANGED reg \/ Unregister(s, obj.email)
             /\ pc \in {"rollback", "finalize"}
  BY <1>3 DEF Rollback, RemoveUser, RemoveUserFails
<1>4. ASSUME NEW s \in Services, Register(s, obj.email, obj.id)
      PROVE  \A t \in Services, e \in Emails : reg[t][e] # NoId => reg'[t][e] = reg[t][e]
  BY <1>1, <1>4 DEF Register, TypeOK
<1>5. ASSUME NEW s \in Services, Unregister(s, obj.email)
      PROVE  \A t \in Services, e \in Emails : e # obj.email => reg'[t][e] = reg[t][e]
  BY <1>1, <1>5 DEF Unregister, TypeOK
<1>6. CASE \/ InitStatus \/ RefetchInit \/ SaveSpec \/ RefetchSpec
           \/ Elect \/ NoNode \/ SaveNodes \/ AddFailed \/ AddFinalizer \/ Available
           \/ Degrade \/ RefetchFinal \/ MarkDegraded \/ RemoveFinalizer \/ RestoreDone \/ ElectFails
  BY <1>6
     DEF InitStatus, RefetchInit, SaveSpec, RefetchSpec, Elect, NoNode,
         SaveNodes,
       AddFailed, AddFinalizer, Available, Degrade, RefetchFinal, MarkDegraded,
       RemoveFinalizer, RestoreDone, ElectFails, Write, WriteAndReturn, Refetch, world
<1> QED
  BY <1>2, <1>3, <1>4, <1>5, <1>6 DEF Worker

\* The worker leaves the other objects alone, and comes to rest without
\* putting its object back in the queue only after one of four writes.
LEMMA WorkerLeaves ==
  ASSUME TypeOK, Worker
  PROVE  /\ \A v \in Names \ {cur} : /\ api'[v] = api[v]
                                     /\ v \in queue' <=> v \in queue
                                     /\ v \in synced' <=> v \in synced
         /\ \/ cur' = cur
            \/ cur \in queue'
            \/ /\ NoNode /\ Accepted([obj EXCEPT !.avail = "NoNodeElected"])
            \/ /\ AddFailed /\ Accepted([obj EXCEPT !.avail = "V2raySvcAddFailed"])
            \/ /\ Available /\ Accepted([obj EXCEPT !.avail = "True"])
            \/ /\ RemoveFinalizer /\ Accepted([obj EXCEPT !.fin = FALSE])
<1>1. pc # "idle" /\ cur \in Names
  BY WorkerWrites, Busy
<1>2. \A v \in Names \ {cur} : api'[v] = api[v] /\ (v \in synced' <=> v \in synced)
  <2>1. CASE UNCHANGED <<api, synced>>
    BY <2>1
  <2>2. CASE \E o \in Objects : fresh /\ Put(cur, o) /\ Successor(o)
    BY <1>1, <2>2 DEF Put, TypeOK
  <2> QED
    BY <2>1, <2>2, WorkerWrites DEF WritesSuccessor
<1>3. ASSUME NEW here, NEW o, NEW next, Write(here, o, next)
      PROVE  \/ queue' = queue /\ cur' = cur
             \/ queue' = queue \cup {cur}
  BY <1>3 DEF Write, Continue, Return, Leave
<1>4. ASSUME NEW here, NEW o, WriteAndReturn(here, o)
      PROVE  \/ queue' = queue /\ Accepted(o)
             \/ queue' = queue \cup {cur}
  BY <1>4 DEF WriteAndReturn, Return, Leave
<1>5. ASSUME NEW s \in Services,
             \/ AddUser(s) \/ AddUserFails(s) \/ Rollback(s)
             \/ RemoveUser(s) \/ RemoveUserFails(s) \/ Restore(s)
      PROVE  cur' = cur /\ queue' = queue
  BY <1>5
     DEF AddUser, AddUserFails, Rollback, RemoveUser, RemoveUserFails, Restore
<1>6. queue' = queue \/ queue' = queue \cup {cur}
  <2>1. CASE InitStatus \/ SaveSpec \/ AddFinalizer \/ MarkDegraded
    BY <1>3, <2>1 DEF InitStatus, SaveSpec, AddFinalizer, MarkDegraded
  <2>2. CASE NoNode \/ AddFailed \/ Available \/ RemoveFinalizer
    BY <1>4, <2>2 DEF NoNode, AddFailed, Available, RemoveFinalizer
  <2>3. CASE RefetchInit \/ RefetchSpec \/ RefetchFinal \/ Elect \/ SaveNodes
             \/ Degrade \/ RestoreDone \/ ElectFails
    BY <2>3 DEF RefetchInit, RefetchSpec, RefetchFinal, Refetch, Elect, SaveNodes,
                Degrade, RestoreDone, ElectFails, Continue, Return, Leave
  <2> QED
    BY <1>5, <2>1, <2>2, <2>3 DEF Worker
<1>7. \A v \in Names \ {cur} : v \in queue' <=> v \in queue
  BY <1>6
<1>8. \/ cur' = cur
       \/ cur \in queue'
       \/ /\ NoNode /\ Accepted([obj EXCEPT !.avail = "NoNodeElected"])
       \/ /\ AddFailed /\ Accepted([obj EXCEPT !.avail = "V2raySvcAddFailed"])
       \/ /\ Available /\ Accepted([obj EXCEPT !.avail = "True"])
       \/ /\ RemoveFinalizer /\ Accepted([obj EXCEPT !.fin = FALSE])
  <2>1. CASE InitStatus \/ SaveSpec \/ AddFinalizer \/ MarkDegraded
    BY <1>3, <2>1 DEF InitStatus, SaveSpec, AddFinalizer, MarkDegraded
  <2>2. CASE NoNode \/ AddFailed \/ Available \/ RemoveFinalizer
    BY <1>4, <2>2 DEF NoNode, AddFailed, Available, RemoveFinalizer
  <2>3. CASE RefetchInit \/ RefetchSpec \/ RefetchFinal \/ Elect \/ SaveNodes
             \/ Degrade \/ RestoreDone \/ ElectFails
    BY <2>3 DEF RefetchInit, RefetchSpec, RefetchFinal, Refetch, Elect, SaveNodes,
                Degrade, RestoreDone, ElectFails, Continue, Return, Leave
  <2> QED
    BY <1>5, <2>1, <2>2, <2>3 DEF Worker
<1> QED
  BY <1>2, <1>7, <1>8
\* The servers a server's own restart or retirement would make forget.
Lasting == Kinds \cap {"restart", "retire"} = {}

\* As long as no server forgets, other objects' registrations stay.
LEMMA OthersServed ==
  ASSUME TypeOK, EmailsOwned, Private, Worker,
         NEW u \in Names, u # cur, Exists(u), Served(api[u])
  PROVE  Served(api[u])'
<1>1. pc # "idle" /\ cur \in Names
  BY WorkerWrites, Busy
<1>2. api'[u] = api[u]
  BY WorkerLeaves
<1>3. api[u].email # obj.email
  <2>1. api[u].email \in Owned(u) /\ obj.email \in Owned(cur)
    BY <1>1 DEF EmailsOwned
  <2> QED
    BY <1>1, <2>1 DEF Private, Owned
<1>4. api[u].email \in Emails /\ Listed(api[u]) \subseteq Services
  <2>1. api[u] \in Objects
    BY DEF Exists, TypeOK
  <2> QED
    BY <2>1, ListedTyped DEF Objects
<1> QED
  BY <1>2, <1>3, <1>4, WorkerForgets DEF Served
\* The loop of additions starts with an empty successedSvcList and appends
\* servers that know the user.
LEMMA AddingServed ==
  ASSUME TypeOK, Registrations, Worker, pc' = "add"
  PROVE  todo' \cup done' # {} /\ \A s \in done' : reg'[s][obj'.email] # NoId
<1>1. pc # "idle" /\ obj \in Objects
  BY WorkerWrites, Busy
<1>2. CASE Elect
  BY <1>2 DEF Elect
<1>3. ASSUME NEW s \in Services, AddUser(s)
      PROVE  todo' \cup done' # {} /\ \A t \in done' : reg'[t][obj'.email] # NoId
  <2>1. /\ obj' = obj /\ obj.id # NoId /\ done' = done \cup {s}
        /\ Register(s, obj.email, obj.id)
        /\ \A t \in done : reg[t][obj.email] # NoId
        /\ obj.email \in Emails /\ done \subseteq Services
    BY <1>1, <1>3 DEF AddUser, Registrations, TypeOK, Objects
  <2>2. reg'[s][obj.email] # NoId
    BY <2>1 DEF Register, TypeOK
  <2>3. ASSUME NEW t \in done PROVE reg'[t][obj.email] # NoId
    BY <2>1, <2>3 DEF Register, TypeOK
  <2> QED
    BY <2>1, <2>2, <2>3
<1>4. ASSUME NEW s \in Services,
             \/ AddUserFails(s) \/ Rollback(s)
             \/ RemoveUser(s) \/ RemoveUserFails(s) \/ Restore(s)
      PROVE  FALSE
  BY <1>4 DEF AddUserFails, Rollback, RemoveUser, RemoveUserFails, Restore
<1>5. CASE \/ InitStatus \/ RefetchInit \/ SaveSpec \/ RefetchSpec
           \/ NoNode \/ SaveNodes \/ AddFailed \/ AddFinalizer \/ Available
           \/ Degrade \/ RefetchFinal \/ MarkDegraded \/ RemoveFinalizer \/ RestoreDone \/ ElectFails
  BY <1>5 DEF InitStatus, RefetchInit, SaveSpec, RefetchSpec, NoNode, SaveNodes,
       AddFailed, AddFinalizer, Available, Degrade, RefetchFinal, MarkDegraded,
       RemoveFinalizer, RestoreDone, ElectFails, Write, WriteAndReturn, Refetch, Continue,
       Return, Leave, AfterAdding
<1> QED
  BY <1>2, <1>3, <1>4, <1>5 DEF Worker

\* What goes on to the finalizer or the last status is served.
LEMMA AddedServed ==
  ASSUME TypeOK, Registrations, Worker, pc' \in {"addFinalizer", "available"}
  PROVE  Served(obj)'
<1>1. pc # "idle" /\ obj \in Objects
  BY WorkerWrites, Busy
<1>2. CASE SaveNodes
  <2> DEFINE o == [obj EXCEPT !.nodeList = Rebuilt(done)]
  <2>1. /\ obj' = o /\ reg' = reg /\ todo = {} /\ pc = "add"
    BY <1>2 DEF SaveNodes, Continue, world
  <2>2. o.nodeList = Rebuilt(done) /\ o.email = obj.email
    BY <1>1 DEF Objects
  <2>3. Listed(o) = done
    BY <2>2, ListedRebuilt DEF TypeOK
  <2>4. done # {} /\ \A s \in done : reg[s][obj.email] # NoId
    BY <2>1 DEF Registrations
  <2>5. Listed(obj') = done /\ obj'.email = obj.email
    BY <2>1, <2>2, <2>3
  <2> QED
    BY <2>1, <2>4, <2>5 DEF Served, Listed, Named
<1>3. CASE AddFinalizer
  <2>1. /\ obj' = [obj EXCEPT !.fin = TRUE] /\ reg' = reg /\ Served(obj)
    BY <1>3 DEF AddFinalizer, Write, Continue, Return, Leave, world, Registrations
  <2>2. obj'.nodeList = obj.nodeList /\ obj'.email = obj.email
    BY <1>1, <2>1 DEF Objects
  <2> QED
    BY <2>1, <2>2 DEF Served, Listed, Named
<1>4. ASSUME NEW s \in Services,
             \/ AddUser(s) \/ AddUserFails(s) \/ Rollback(s)
             \/ RemoveUser(s) \/ RemoveUserFails(s) \/ Restore(s)
      PROVE  FALSE
  BY <1>4
     DEF AddUser, AddUserFails, Rollback, RemoveUser, RemoveUserFails, Restore
<1>5. CASE \/ InitStatus \/ RefetchInit \/ SaveSpec \/ RefetchSpec
           \/ Elect \/ NoNode \/ AddFailed \/ Available
           \/ Degrade \/ RefetchFinal \/ MarkDegraded \/ RemoveFinalizer \/ RestoreDone \/ ElectFails
  BY <1>5 DEF InitStatus, RefetchInit, SaveSpec, RefetchSpec, Elect, NoNode,
       AddFailed, Available, Degrade, RefetchFinal, MarkDegraded,
       RemoveFinalizer, RestoreDone, ElectFails, Write, WriteAndReturn, Refetch, Continue, Return, Leave
<1> QED
  BY <1>2, <1>3, <1>4, <1>5 DEF Worker

\* When the worker comes to rest without putting its object back in the queue,
\* and the object is available, its servers know the user.
LEMMA RestingServed ==
  ASSUME TypeOK, Coherent, Guards, Registrations, Worker,
         NEW u \in Names, u = cur,
         cur' # u, u \notin queue', Exists(u)', api'[u].avail = "True"
  PROVE  Served(api[u])'
<1>1. pc # "idle" /\ obj \in Objects
  BY WorkerWrites, Busy
<1>2. ASSUME NEW o, Accepted(o)
      PROVE  obj = api[u] /\ api'[u] = Stored(o)
  BY <1>1, <1>2 DEF Accepted, Put, Coherent, TypeOK
<1>3. CASE NoNode /\ Accepted([obj EXCEPT !.avail = "NoNodeElected"])
  <2>1. api'[u].avail = "NoNodeElected"
    BY <1>1, <1>2, <1>3 DEF Stored, Exists, Objects
  <2> QED
    BY <2>1
<1>4. CASE AddFailed /\ Accepted([obj EXCEPT !.avail = "V2raySvcAddFailed"])
  <2>1. api'[u].avail = "V2raySvcAddFailed"
    BY <1>1, <1>2, <1>4 DEF Stored, Exists, Objects
  <2> QED
    BY <2>1
<1>5. CASE Available /\ Accepted([obj EXCEPT !.avail = "True"])
  <2>1. Served(obj) /\ reg' = reg
    BY <1>5 DEF Available, WriteAndReturn, Registrations, world
  <2>2. api'[u].email = obj.email /\ api'[u].nodeList = obj.nodeList
    BY <1>1, <1>2, <1>5 DEF Stored, Exists, Objects
  <2> QED
    BY <2>1, <2>2 DEF Served, Listed, Named
<1>6. CASE RemoveFinalizer /\ Accepted([obj EXCEPT !.fin = FALSE])
  <2>1. obj.deleting
    BY <1>2, <1>6 DEF RemoveFinalizer, WriteAndReturn, Guards, Finalizing
  <2>2. api'[u] = Gone
    BY <1>1, <1>2, <1>6, <2>1 DEF Stored, Objects
  <2> QED
    BY <2>2 DEF Exists
<1> QED
  BY <1>3, <1>4, <1>5, <1>6, WorkerLeaves
LEMMA WorkerRegistrations ==
  ASSUME TypeOK, Coherent, Guards, EmailsOwned, Private, Registrations, Worker
  PROVE  Registrations'
<1>1. ASSUME NEW u \in Names, Exists(u)', Settled(u)', api'[u].avail = "True"
      PROVE  Served(api[u])'
  <2>1. CASE u = cur
    BY <1>1, <2>1, RestingServed DEF Settled
  <2>2. CASE u # cur
    <3>1. api'[u] = api[u] /\ u \notin queue /\ u \in synced
      BY <1>1, <2>2, WorkerLeaves DEF Settled
    <3>2. Exists(u) /\ Served(api[u])
      BY <1>1, <2>2, <3>1
         DEF Exists, Settled, Registrations, AvailableIsServed, Served
    <3> QED
      BY <2>2, <3>2, OthersServed
  <2> QED
    BY <2>1, <2>2
<1>2. AvailableIsServed'
  BY <1>1 DEF AvailableIsServed, Served
<1> QED
  BY <1>2, AddingServed, AddedServed DEF Registrations

\* A step that leaves the registrations, and what the worker is at, as they
\* are can only unsettle objects.
LEMMA SameRegistrations ==
  ASSUME Registrations, UNCHANGED reg,
         \/ UNCHANGED <<pc, obj, todo, done>>
         \/ pc' \in {"idle", "initStatus", "saveSpec"},
         \A u \in Names : Exists(u)' /\ Settled(u)' =>
           api'[u] = api[u] /\ Exists(u) /\ Settled(u)
  PROVE  Registrations'
<1>1. AvailableIsServed'
  <2> SUFFICES ASSUME NEW u \in Names,
                      Exists(u)', Settled(u)', api'[u].avail = "True"
               PROVE  Served(api[u])'
    BY DEF AvailableIsServed, Served
  <2>1. Served(api[u]) /\ api'[u] = api[u]
    BY DEF Registrations, AvailableIsServed, Served
  <2> QED
    BY <2>1 DEF Served
<1> QED
  BY <1>1 DEF Registrations, Served

LEMMA WorldRegistrations ==
  ASSUME TypeOK, Coherent, Registrations, Lasting, World
  PROVE  Registrations'
<1>1. CASE Deadline
  BY <1>1, SameRegistrations DEF Deadline, Exists, Settled, world
<1>2. CASE Crash \/ PanicElsewhere
  BY <1>2, SameRegistrations DEF Crash, PanicElsewhere, ProcessEnds, Restart, Exists, Settled, world
<1>3. ASSUME NEW u \in Names, Start(u)
      PROVE  Registrations'
  <2>1. UNCHANGED <<reg, api, synced, todo, done>> /\ queue' = queue \ {u}
    BY <1>3 DEF Start, world, calls
  <2>2. \/ UNCHANGED <<pc, obj>>
        \/ pc' \in {"idle", "initStatus", "saveSpec"}
    BY <1>3 DEF Start
  <2>3. ASSUME NEW v \in Names, Exists(v)', Settled(v)'
        PROVE  Exists(v) /\ Settled(v)
    <3>1. CASE v = u
      <4>1. cache[u] = Gone \/ cur' = u
        BY <1>3 DEF Start
      <4>2. u \in synced => cache[u] = api[u]
        BY DEF Coherent
      <4> QED
        BY <2>1, <2>3, <3>1, <4>1, <4>2 DEF Exists, Settled
    <3>2. CASE v # u
      <4>1. pc = "idle" /\ cur = None
        BY <1>3 DEF Start, TypeOK
      <4> QED
        BY <2>1, <2>3, <3>2, <4>1, MarkersAssumption, NoneAssumption
           DEF Exists, Settled
    <3> QED
      BY <3>1, <3>2
  <2> QED
    BY <2>1, <2>2, <2>3, SameRegistrations
<1>4. ASSUME NEW u \in Names, CacheSync(u) \/ Resync(u)
      PROVE  Registrations'
  <2>1. /\ UNCHANGED <<reg, api, cur, pc, obj, todo, done>>
        /\ queue' = queue \cup {u}
        /\ \A v \in Names \ {u} : v \in synced' <=> v \in synced
    BY <1>4
       DEF CacheSync, Informed, Resync, Requeued, hand, objects, calls, world,
           worker
  <2> QED
    BY <2>1, SameRegistrations DEF Exists, Settled
<1>5. ASSUME NEW u \in Names, Create(u) \/ Edit(u) \/ Delete(u)
      PROVE  Registrations'
  <2>1. /\ UNCHANGED <<queue, pc, cur, obj, todo, done, reg>>
        /\ \A v \in Names \ {u} : /\ api'[v] = api[v]
                                  /\ v \in synced' <=> v \in synced
        /\ u \in synced' => api'[u] = api[u] /\ u \in synced
    BY <1>5, OwnerWrites
  <2> QED
    BY <2>1, SameRegistrations DEF Exists, Settled
<1>6. ASSUME NEW s \in Services, ComeUp(s) \/ ServiceAppears(s)
      PROVE  Registrations'
  BY <1>6, SameRegistrations DEF ComeUp, ServiceAppears, worker, Exists, Settled
<1>7. ASSUME NEW s \in Services, RestartServer(s) \/ RetireService(s)
      PROVE  FALSE
  BY <1>7 DEF RestartServer, RetireService, Misfortune, Lasting
<1>8. ASSUME NEW s \in Services, NEW t \in Tags, InboundAppears(s, t)
      PROVE  Registrations'
  BY <1>8, SameRegistrations DEF InboundAppears, worker, Exists, Settled
<1> QED
  BY <1>1, <1>2, <1>3, <1>4, <1>5, <1>6, <1>7, <1>8 DEF World

\* As long as objects do not share keys and servers keep what they registered,
\* an available object with no event under way names at least one server, and
\* only servers that know its user: a stale copy, a refused write, a failed or
\* lost call, an expired deadline or a crash never leaves it otherwise.
THEOREM ServedWhenAvailable ==
  ASSUME Private, Lasting
  PROVE  Spec => []AvailableIsServed
<1>1. Init => Guards /\ Registrations
  <2> SUFFICES ASSUME Init PROVE Guards /\ Registrations
    OBVIOUS
  <2>1. ASSUME NEW u \in Names PROVE api[u].avail = "none"
    BY DEF Init, NewObject
  <2> QED
    BY <2>1 DEF Init, Guards, AvailableIsGuarded, Finalizing, Registrations,
                AvailableIsServed
<1>2. /\ Coherent /\ Guards /\ EmailsOwned /\ Registrations
      /\ UNCHANGED vars
      => Guards' /\ EmailsOwned' /\ Registrations'
  <2> SUFFICES ASSUME Coherent, Guards, EmailsOwned, Registrations, UNCHANGED vars
               PROVE  Guards' /\ EmailsOwned' /\ Registrations'
    OBVIOUS
  <2>1. Guards' /\ EmailsOwned'
    BY DEF vars, worker, Guards, AvailableIsGuarded, Exists, EmailsOwned
  <2>2. Registrations'
    BY SameRegistrations DEF vars, worker, world, Exists, Settled
  <2> QED
    BY <2>1, <2>2
<1>3. TypeOK /\ Coherent /\ Guards /\ EmailsOwned /\ Registrations /\ Next
      => Guards' /\ EmailsOwned' /\ Registrations'
  BY WorkerGuards, WorldGuards, NextEmails, WorkerRegistrations, WorldRegistrations
     DEF Next, World
<1>4. Registrations => AvailableIsServed
  BY DEF Registrations
<1> QED
  BY TypeCorrect, CopiesCoherent, InitEmails, <1>1, <1>2, <1>3, <1>4, PTL DEF Spec

-----------------------------------------------------------------------------
(* The abstract life cycle.                                                 *)

\* Only objects with a finalizer are reported available, and only deleted ones
\* have a note of their finalization.
Sound(o) ==
  o # Gone =>
    /\ o.avail = "True" => o.fin
    /\ ~o.deleting => o.degraded = "none"

\* With Guards: what the worker reports is not being deleted, and what it
\* releases it has noted.
Lived ==
  /\ \A u \in Names : Sound(api[u])
  /\ pc = "available" => ~obj.deleting
  /\ pc = "removeFinalizer" => obj.degraded = "True"

\* Every write of the worker is a step of the life cycle.
LEMMA WriteLives ==
  ASSUME TypeOK, Coherent, Guards, Lived, Worker
  PROVE  (\A u \in Names : Sound(api'[u])) /\ [L!Next]_(L!states)
<1>1. cur \in Names /\ obj \in Objects /\ obj # Gone /\ DOMAIN api = Names
  BY WorkerWrites, Busy, MarkersAssumption DEF TypeOK
<1>2. CASE UNCHANGED <<api, synced>>
  BY <1>2, NothingHappens DEF Lived
<1>3. CASE \E o \in Objects : fresh /\ Put(cur, o) /\ Successor(o)
  <2>1. PICK o \in Objects : fresh /\ Put(cur, o) /\ Successor(o)
    BY <1>3
  <2>2. obj = api[cur] /\ Exists(cur) /\ o # Gone
        /\ api' = [api EXCEPT ![cur] = Stored(o)]
    BY <1>1, <2>1, MarkersAssumption DEF Coherent, Exists, Put
  <2>3. Sound(obj) /\ (obj.deleting => obj.fin)
    BY <1>1, <2>2 DEF Lived, Coherent
  <2>4. /\ obj.fin \in BOOLEAN /\ obj.deleting \in BOOLEAN
        /\ o.fin \in BOOLEAN /\ o.deleting \in BOOLEAN
    BY <1>1 DEF Objects
  <2>5. pc \in {"degrading", "degraded", "removeFinalizer"} => obj.deleting
    BY <2>2 DEF Guards, Finalizing
  <2>6. /\ pc = "available" => obj.fin /\ ~obj.deleting
        /\ pc = "removeFinalizer" => obj.degraded = "True"
    BY DEF Guards, Lived
  <2>7. Sound(Stored(o)) /\ Fate(obj, Stored(o))
    <3>1. CASE pc = "removeFinalizer"
      BY <1>1, <2>1, <2>3, <2>5, <2>6, <3>1
         DEF Successor, Stored, Sound, Fate, Phase, Reported
    <3>2. CASE pc = "addFinalizer"
      BY <1>1, <2>1, <2>2, <2>3, <2>4, <3>2
         DEF Successor, Stored, Sound, Fate, Phase, Reported
    <3>3. CASE pc \in {"degrading", "degraded"}
      BY <1>1, <2>1, <2>2, <2>3, <2>4, <2>5, <3>3
         DEF Successor, Stored, Sound, Fate, Phase, Reported
    <3>4. CASE pc \notin {"removeFinalizer", "addFinalizer", "degrading", "degraded"}
      <4>1. /\ o.deleting = obj.deleting /\ o.degraded = obj.degraded
            /\ o.fin = obj.fin
            /\ o.avail = "True" => obj.avail = "True" \/ pc = "available"
        BY <2>1, <2>4, <3>4 DEF Successor
      <4> QED
        BY <1>1, <2>2, <2>3, <2>4, <2>6, <4>1 DEF Stored, Sound, Fate, Phase, Reported
    <3> QED
      BY <3>1, <3>2, <3>3, <3>4
  <2>8. \A u \in Names : Sound(api'[u])
    BY <1>1, <2>2, <2>7 DEF Lived
  <2> QED
    BY <1>1, <2>2, <2>7, <2>8, FateIsAStep
<1> QED
  BY <1>2, <1>3, WorkerWrites DEF WritesSuccessor

\* What the worker knows of an object it is about to report or to release.
LEMMA WorkerLived ==
  ASSUME TypeOK, Lived, Worker
  PROVE  /\ pc' = "available" => ~obj'.deleting
         /\ pc' = "removeFinalizer" => obj'.degraded = "True"
<1>1. pc # "idle" /\ obj \in Objects /\ cur \in Names
  BY WorkerWrites, Busy
<1>2. ASSUME NEW s \in Services,
             \/ AddUser(s) \/ AddUserFails(s) \/ Rollback(s)
             \/ RemoveUser(s) \/ RemoveUserFails(s) \/ Restore(s)
      PROVE  pc' \notin {"available", "removeFinalizer"}
  BY <1>2 DEF AddUser, AddUserFails, Rollback, RemoveUser, RemoveUserFails, Restore
<1>3. CASE SaveNodes
  <2> DEFINE o == [obj EXCEPT !.nodeList = Rebuilt(done)]
  <2>1. o.deleting = obj.deleting
    BY <1>1 DEF Objects
  <2>2. \/ pc' = AfterAdding(o) /\ obj' = o
        \/ pc' = "rollback"
    BY <1>3 DEF SaveNodes, Continue
  <2> QED
    BY <2>1, <2>2 DEF AfterAdding
<1>4. CASE AddFinalizer
  <2>1. [obj EXCEPT !.fin = TRUE].deleting = obj.deleting
    BY <1>1 DEF Objects
  <2> QED
    BY <1>4, <2>1 DEF AddFinalizer, Write, Continue, Return, Leave
<1>5. CASE MarkDegraded
  <2>1. [obj EXCEPT !.degraded = "True"].degraded = "True"
    BY <1>1 DEF Objects
  <2> QED
    BY <1>5, <2>1 DEF MarkDegraded, Write, Continue, Return, Leave
<1>6. CASE \/ InitStatus \/ RefetchInit \/ SaveSpec \/ RefetchSpec
           \/ Elect \/ NoNode \/ AddFailed \/ Available
           \/ Degrade \/ RefetchFinal \/ RemoveFinalizer \/ RestoreDone \/ ElectFails
  BY <1>6 DEF InitStatus, RefetchInit, SaveSpec, RefetchSpec, Elect, NoNode,
       AddFailed, Available, Degrade, RefetchFinal, RemoveFinalizer,
       RestoreDone, ElectFails, Write, WriteAndReturn, Refetch, Continue, Return, Leave
<1> QED
  BY <1>2, <1>3, <1>4, <1>5, <1>6 DEF Worker

\* An owner's step is a step of the life cycle, and so is what else surrounds
\* the worker.
LEMMA WorldLives ==
  ASSUME TypeOK, Coherent, Lived, World
  PROVE  Lived' /\ [L!Next]_(L!states)
<1>1. CASE /\ UNCHANGED api
           /\ \/ UNCHANGED <<pc, cur, obj>>
              \/ pc' \in {"idle", "initStatus", "saveSpec"}
  BY <1>1, NothingHappens DEF Lived
<1>2. ASSUME NEW u \in Names, Create(u) \/ Edit(u) \/ Delete(u)
      PROVE  Lived' /\ [L!Next]_(L!states)
  <2>1. UNCHANGED <<pc, obj>> /\ \A v \in Names \ {u} : api'[v] = api[v]
    BY <1>2, OwnerWrites
  <2>2. DOMAIN api = Names /\ DOMAIN api' = Names
    BY WorldTyped, <1>2 DEF World, TypeOK
  <2>3. api' = [api EXCEPT ![u] = api'[u]]
    <3>1. api' = [v \in Names |-> api'[v]] /\ api = [v \in Names |-> api[v]]
      BY WorldTyped, <1>2 DEF World, TypeOK
    <3> QED
      BY <2>1, <2>2, <3>1
  <2>4. Sound(api[u])
    BY DEF Lived
  <2>5. Sound(api'[u]) /\ Fate(api[u], api'[u])
    <3>1. CASE api'[u] = Gone /\ Exists(u) /\ ~api[u].fin
      BY <2>4, <3>1 DEF Sound, Fate, Phase, Reported, Exists
    <3>2. CASE \E spec \in Specs[u] : ~Exists(u) /\ api'[u] = NewObject(spec)
      <4>1. PICK spec \in Specs[u] : ~Exists(u) /\ api'[u] = NewObject(spec)
        BY <3>2
      <4>2. NewObject(spec) # Gone
        BY NewObjectTyped, SpecsAssumption, MarkersAssumption
      <4>3. /\ ~api'[u].fin /\ ~api'[u].deleting /\ api'[u].avail = "none"
            /\ api'[u].degraded = "none"
        BY <4>1 DEF NewObject
      <4> QED
        BY <4>1, <4>2, <4>3 DEF Sound, Fate, Phase, Reported, Exists
    <3>3. CASE /\ Exists(u) /\ api'[u] \in Objects
               /\ api'[u].fin = api[u].fin
               /\ api'[u].avail = api[u].avail
               /\ api'[u].degraded = api[u].degraded
               /\ api[u].deleting => api'[u].deleting
      <4>1. api'[u] # Gone /\ api[u] # Gone
        BY <3>3, MarkersAssumption DEF Exists
      <4> QED
        BY <2>4, <3>3, <4>1 DEF Sound, Fate, Phase, Reported
    <3> QED
      BY <1>2, <3>1, <3>2, <3>3, OwnerWrites
  <2>6. [L!Next]_(L!states)
    BY <2>2, <2>3, <2>5, FateIsAStep
  <2> QED
    BY <2>1, <2>5, <2>6 DEF Lived
<1> QED
  BY <1>1, <1>2, WorldWrites

LEMMA InitLives == Init => Lived /\ L!Init
<1> SUFFICES ASSUME Init PROVE Lived /\ L!Init
  OBVIOUS
<1>1. \A u \in Names : /\ ~api[u].fin /\ ~api[u].deleting
                       /\ api[u].avail = "none" /\ api[u].degraded = "none"
  BY DEF Init, NewObject
<1>2. \A u \in Names : api[u] # Gone
  <2>1. PICK spec \in [Names -> UNION {Specs[u] : u \in Names}] :
          /\ \A u \in Names : spec[u] \in Specs[u]
          /\ api = [u \in Names |-> NewObject(spec[u])]
    BY DEF Init
  <2>2. \A u \in Names : NewObject(spec[u]) \in Objects
    BY <2>1, NewObjectTyped, SpecsAssumption
  <2> QED
    BY <2>1, <2>2, MarkersAssumption
<1>3. \A u \in Names : Phase(api[u]) = "unguarded" /\ Reported(api[u]) = FALSE
  BY <1>1, <1>2 DEF Phase, Reported
<1>4. pc = "idle"
  BY DEF Init
<1> QED
  BY <1>1, <1>3, <1>4 DEF Lived, Sound, L!Init

\* V2rayUser objects live and go as the abstract life cycle says: whatever old
\* copies the worker writes back, whatever servers and API server refuse and
\* wherever the process ends, every change of a stored object is one that the
\* life cycle allows.
THEOREM Implements == Spec => ImplementsLifecycle
<1>1. Lived /\ UNCHANGED vars => Lived' /\ [L!Next]_(L!states)
  BY NothingHappens DEF vars, worker, Lived
<1>2. TypeOK /\ Coherent /\ Guards /\ Lived /\ Worker => Lived' /\ [L!Next]_(L!states)
  BY WriteLives, WorkerLived DEF Lived
<1>3. TypeOK /\ Coherent /\ Guards /\ Lived /\ [Next]_vars =>
        Lived' /\ [L!Next]_(L!states)
  BY <1>1, <1>2, WorldLives DEF Next, World
<1> QED
  BY TypeCorrect, CopiesCoherent, GuardsHold, InitLives, <1>3, PTL
     DEF Spec, ImplementsLifecycle, L!Spec

-----------------------------------------------------------------------------
(* Credentials.                                                             *)

\* Owners neither recreate objects nor edit ids.
Steady == OwnerMay \cap {"create", "id"} = {}

LEMMA OwnedTyped == \A u \in Names : Owned(u) \subseteq Emails
BY SpecsAssumption DEF Owned, Wanted

\* c is a copy of u: it lacks an id, or has the one that u has.
Faithful(c, u) == c.id \in {NoId, api[u].id}

\* Whatever email u has had, a server knows it under the id that u has.
KnownById(u) ==
  \A s \in Services, e \in Owned(u) : reg[s][e] # NoId => reg[s][e] = api[u].id

\* The invariant behind CredentialsMatch: no copy has an id its object has not.
Credentials ==
  /\ \A u \in Names : Exists(u) /\ cache[u] # Gone => Faithful(cache[u], u)
  /\ pc # "idle" /\ Exists(cur) => Faithful(obj, cur)
  /\ \A u \in Names : Exists(u) => KnownById(u)

\* u' has what u has, and perhaps its first id.
Matures(u) ==
  Exists(u)' => Exists(u) /\ (api[u].id # NoId => api'[u].id = api[u].id)

\* Copies stay faithful to objects that mature.
LEMMA StaysFaithful ==
  ASSUME NEW u \in Names, NEW c, Matures(u), Exists(u)', Faithful(c, u)
  PROVE  c.id \in {NoId, api'[u].id}
BY DEF Matures, Faithful

\* An owner that may not do more leaves ids alone.
LEMMA OwnerMatures ==
  ASSUME TypeOK, Coherent, Steady, NEW u \in Names, Create(u) \/ Edit(u) \/ Delete(u)
  PROVE  /\ UNCHANGED <<cache, pc, cur, obj, reg>>
         /\ \A v \in Names : Matures(v)
<1>1. /\ UNCHANGED <<cache, pc, cur, obj, reg>>
      /\ \A v \in Names \ {u} : api'[v] = api[v]
  BY OwnerWrites
<1>2. \E o \in Objects : \E act : Exists(u) /\ OwnerPuts(u, act, o) /\ o.id = api[u].id
  <2>1. ~Create(u)
    BY DEF Create, OwnerStores, OwnerPuts, Steady
  <2>2. CASE Edit(u)
    <3>1. api[u] \in Objects /\ Exists(u)
      BY <2>2 DEF Edit, Exists, TypeOK
    <3>2. PICK spec \in Specs[u] :
            \/ OwnerPuts(u, "email", [api[u] EXCEPT !.email = spec.email])
            \/ OwnerPuts(u, "nodes", [api[u] EXCEPT !.nodeList = spec.nodeList])
      BY <2>2 DEF Edit, OwnerStores, OwnerPuts, Steady
    <3>3. /\ [api[u] EXCEPT !.email = spec.email] \in Objects
          /\ [api[u] EXCEPT !.nodeList = spec.nodeList] \in Objects
      BY <3>1, EditTyped
    <3> QED
      BY <3>1, <3>2, <3>3 DEF Objects
  <2>3. CASE Delete(u)
    <3>1. api[u] \in Objects /\ Exists(u)
      BY <2>3 DEF Delete, Exists, TypeOK
    <3>2. [api[u] EXCEPT !.deleting = TRUE] \in Objects
      BY <3>1, ObjectFields
    <3> QED
      BY <2>3, <3>1, <3>2 DEF Delete, OwnerStores, Objects
  <2> QED
    BY <2>1, <2>2, <2>3
<1>3. PICK o \in Objects : \E act : Exists(u) /\ OwnerPuts(u, act, o) /\ o.id = api[u].id
  BY <1>2
<1>4. api'[u] \in {o, Gone}
  BY <1>3 DEF OwnerPuts, Put, Stored, TypeOK
<1> QED
  BY <1>1, <1>3, <1>4 DEF Matures, Exists

\* What the worker writes is what its object was, and perhaps its first id.
LEMMA WorkerMatures ==
  ASSUME TypeOK, Coherent, Worker
  PROVE  \A v \in Names : Matures(v)
<1>1. CASE UNCHANGED <<api, synced>>
  BY <1>1 DEF Matures, Exists
<1>2. ASSUME NEW o \in Objects, fresh, Put(cur, o), Successor(o)
      PROVE  \A v \in Names : Matures(v)
  <2>1. obj = api[cur] /\ cur \in Names /\ obj # Gone
    BY <1>2, WorkerWrites, Busy, MarkersAssumption DEF Coherent
  <2>2. /\ api'[cur] \in {o, Gone}
        /\ \A v \in Names \ {cur} : api'[v] = api[v]
    BY <1>2, <2>1 DEF Put, Stored, TypeOK
  <2>3. api[cur].id # NoId => o.id = api[cur].id
    BY <1>2, <2>1 DEF Successor
  <2> QED
    BY <2>1, <2>2, <2>3 DEF Matures, Exists
<1> QED
  BY <1>1, <1>2, WorkerWrites DEF WritesSuccessor

\* Within Reconcile the copy's id changes with a write that is accepted only.
LEMMA WorkerIds ==
  ASSUME TypeOK, Worker, pc' # "idle"
  PROVE  obj'.id = obj.id \/ (obj' = cache[cur] /\ cache[cur] # Gone) \/ fresh'
<1>1. pc # "idle" /\ obj \in Objects
  BY WorkerWrites, Busy
<1>2. ASSUME NEW here, NEW o, NEW next, Write(here, o, next) \/ WriteAndReturn(here, o)
      PROVE  fresh'
  BY <1>2 DEF Write, WriteAndReturn, Continue, Return, Leave
<1>3. CASE \/ InitStatus \/ SaveSpec \/ AddFinalizer \/ MarkDegraded \/ NoNode
           \/ AddFailed \/ Available \/ RemoveFinalizer
  BY <1>2, <1>3 DEF InitStatus, SaveSpec, AddFinalizer, MarkDegraded, NoNode, AddFailed,
     Available, RemoveFinalizer
<1>4. CASE RefetchInit \/ RefetchSpec \/ RefetchFinal
  BY <1>4 DEF RefetchInit, RefetchSpec, RefetchFinal, Refetch, Continue, Return, Leave
<1>5. CASE SaveNodes \/ Degrade \/ RestoreDone \/ ElectFails \/ Elect
  BY <1>1, <1>5 DEF SaveNodes, Degrade, RestoreDone, ElectFails, Elect, Continue,
     Return, Leave
<1>6. ASSUME NEW s \in Services,
             \/ AddUser(s) \/ AddUserFails(s) \/ Rollback(s)
             \/ RemoveUser(s) \/ RemoveUserFails(s) \/ Restore(s)
      PROVE  obj' = obj
  BY <1>6
     DEF AddUser, AddUserFails, Rollback, RemoveUser, RemoveUserFails, Restore
<1> QED
  BY <1>3, <1>4, <1>5, <1>6 DEF Worker

\* A server is told no id but that of the worker's copy, under its email.
LEMMA WorkerRegisters ==
  ASSUME TypeOK, Worker, NEW s \in Services, NEW e \in Emails
  PROVE  \/ reg'[s][e] \in {reg[s][e], NoId}
         \/ e = obj.email /\ reg'[s][e] = obj.id
<1>1. ASSUME NEW t \in Services, AddUser(t) \/ AddUserFails(t) \/ Restore(t)
      PROVE  UNCHANGED reg \/ Register(t, obj.email, obj.id)
  BY <1>1 DEF AddUser, AddUserFails, Restore
<1>2. ASSUME NEW t \in Services, Rollback(t) \/ RemoveUser(t) \/ RemoveUserFails(t)
      PROVE  UNCHANGED reg \/ Unregister(t, obj.email)
  BY <1>2 DEF Rollback, RemoveUser, RemoveUserFails
<1>3. ASSUME NEW t \in Services, Register(t, obj.email, obj.id)
      PROVE  reg'[s][e] = reg[s][e] \/ (e = obj.email /\ reg'[s][e] = obj.id)
  BY <1>3 DEF Register, TypeOK
<1>4. ASSUME NEW t \in Services, Unregister(t, obj.email)
      PROVE  reg'[s][e] \in {reg[s][e], NoId}
  BY <1>4 DEF Unregister, TypeOK
<1>5. CASE \/ InitStatus \/ RefetchInit \/ SaveSpec \/ RefetchSpec
           \/ Elect \/ NoNode \/ SaveNodes \/ AddFailed \/ AddFinalizer \/ Available
           \/ Degrade \/ RefetchFinal \/ MarkDegraded \/ RemoveFinalizer \/ RestoreDone \/ ElectFails
  BY <1>5
     DEF InitStatus, RefetchInit, SaveSpec, RefetchSpec, Elect, NoNode, SaveNodes,
         AddFailed, AddFinalizer, Available, Degrade, RefetchFinal, MarkDegraded,
         RemoveFinalizer, RestoreDone, ElectFails, Write, WriteAndReturn, Refetch, world
<1> QED
  BY <1>1, <1>2, <1>3, <1>4, <1>5 DEF Worker

LEMMA WorkerCredentials ==
  ASSUME TypeOK, Coherent, EmailsOwned, Private, Credentials, Worker
  PROVE  Credentials'
<1>1. pc # "idle" /\ cache' = cache /\ cur \in Names /\ obj \in Objects
  BY WorkerWrites, Busy
<1>2. \A v \in Names : Matures(v)
  BY WorkerMatures
<1>3. ASSUME NEW u \in Names, Exists(u)', cache'[u] # Gone
      PROVE  Faithful(cache[u], u)'
  BY <1>1, <1>2, <1>3, StaysFaithful DEF Credentials, Faithful, Matures
<1>4. ASSUME pc' # "idle", Exists(cur)'
      PROVE  Faithful(obj, cur)'
  <2>1. cur' = cur /\ Exists(cur)
    BY <1>1, <1>2, <1>4, WorkerCopies DEF Matures, Exists
  <2>2. CASE fresh'
    <3>1. obj' = api'[cur']
      BY <2>2, WorkerCoherent DEF Coherent
    <3> QED
      BY <3>1 DEF Faithful
  <2>3. CASE ~fresh' /\ obj' = cache[cur] /\ cache[cur] # Gone
    BY <1>1, <1>2, <1>4, <2>1, <2>3, StaysFaithful DEF Credentials, Faithful, Exists
  <2>4. CASE obj'.id = obj.id
    BY <1>1, <1>2, <1>4, <2>1, <2>4, StaysFaithful DEF Credentials, Faithful, Exists
  <2> QED
    BY <1>4, <2>1, <2>2, <2>3, <2>4, WorkerIds, WorkerCopies
<1>5. ASSUME NEW v \in Names, NEW s \in Services, NEW e \in Owned(v), Exists(v)',
             reg'[s][e] # NoId
      PROVE  reg'[s][e] = api'[v].id
  <2>1. Exists(v) /\ (api[v].id # NoId => api'[v].id = api[v].id) /\ e \in Emails
    BY <1>2, <1>5, OwnedTyped DEF Matures
  <2>2. CASE reg'[s][e] = reg[s][e]
    BY <1>5, <2>1, <2>2 DEF Credentials, KnownById
  <2>3. CASE e = obj.email /\ reg'[s][e] = obj.id
    <3>1. obj.email \in Owned(cur)
      BY <1>1 DEF EmailsOwned
    <3>2. v = cur
      BY <1>1, <2>3, <3>1 DEF Private, Owned
    <3>3. obj.id # NoId /\ obj.id = api[v].id
      BY <1>1, <1>5, <2>1, <2>3, <3>2 DEF Credentials, Faithful
    <3> QED
      BY <2>1, <2>3, <3>3
  <2> QED
    BY <1>5, <2>1, <2>2, <2>3, WorkerRegisters
<1> QED
  BY <1>3, <1>4, <1>5 DEF Credentials, KnownById

\* Steps that leave objects and ids alone keep it, whatever servers forget.
LEMMA SameCredentials ==
  ASSUME Credentials,
         \A v \in Names : Matures(v),
         \A s \in Services, e \in Emails : reg'[s][e] \in {reg[s][e], NoId}
  PROVE  \A v \in Names : Exists(v)' => KnownById(v)'
<1>1. ASSUME NEW v \in Names, NEW s \in Services, NEW e \in Owned(v), Exists(v)',
             reg'[s][e] # NoId
      PROVE  reg'[s][e] = api'[v].id
  <2>1. Exists(v) /\ (api[v].id # NoId => api'[v].id = api[v].id) /\ e \in Emails
    BY <1>1, OwnedTyped DEF Matures
  <2> QED
    BY <1>1, <2>1 DEF Credentials, KnownById
<1> QED
  BY <1>1 DEF KnownById

\* Of the other steps, those of owners apart, none changes a stored object or
\* tells a server an id, and copies are of stored or cached objects.
LEMMA WorldForgets ==
  ASSUME TypeOK, World, ~ \E u \in Names : Create(u) \/ Edit(u) \/ Delete(u)
  PROVE  /\ UNCHANGED api
         /\ \A s \in Services, e \in Emails : reg'[s][e] \in {reg[s][e], NoId}
         /\ \A v \in Names : cache'[v] \in {cache[v], api[v]}
         /\ pc' # "idle" => \/ UNCHANGED <<pc, cur, obj>>
                            \/ cur' \in Names /\ obj' = cache[cur'] /\ obj' # Gone
<1>1. CASE Deadline \/ \E s \in Services : \/ ComeUp(s) \/ ServiceAppears(s)
                                           \/ \E t \in Tags : InboundAppears(s, t)
  BY <1>1 DEF Deadline, ComeUp, ServiceAppears, InboundAppears, worker, world
<1>2. CASE Crash \/ PanicElsewhere
  BY <1>2 DEF Crash, PanicElsewhere, ProcessEnds, Restart, world
<1>3. ASSUME NEW u \in Names, Start(u)
      PROVE  /\ UNCHANGED <<api, cache, reg>>
             /\ pc' # "idle" => cur' \in Names /\ obj' = cache[cur'] /\ obj' # Gone
  BY <1>3 DEF Start, world, TypeOK
<1>4. ASSUME NEW u \in Names, CacheSync(u) \/ Resync(u)
      PROVE  /\ UNCHANGED <<api, reg, pc, cur, obj>>
             /\ \A v \in Names : cache'[v] \in {cache[v], api[v]}
  BY <1>4 DEF CacheSync, Informed, Resync, Requeued, hand, objects, world, TypeOK
<1>5. ASSUME NEW s \in Services, RestartServer(s) \/ RetireService(s)
      PROVE  /\ UNCHANGED <<api, cache, pc, cur, obj>>
             /\ \A t \in Services, e \in Emails : reg'[t][e] \in {reg[t][e], NoId}
  BY <1>5 DEF RestartServer, RetireService, Forget, TypeOK, worker
<1> QED
  BY <1>1, <1>2, <1>3, <1>4, <1>5 DEF World

LEMMA WorldCredentials ==
  ASSUME TypeOK, Coherent, Steady, Credentials, World
  PROVE  Credentials'
<1>1. ASSUME NEW u \in Names, Create(u) \/ Edit(u) \/ Delete(u)
      PROVE  Credentials'
  <2>1. UNCHANGED <<cache, pc, cur, obj, reg>> /\ \A v \in Names : Matures(v)
    BY <1>1, OwnerMatures
  <2>2. \A v \in Names : Exists(v)' => KnownById(v)'
    BY <2>1, SameCredentials
  <2>3. ASSUME NEW v \in Names, Exists(v)', cache'[v] # Gone
        PROVE  Faithful(cache[v], v)'
    BY <2>1, <2>3, StaysFaithful DEF Credentials, Faithful, Matures
  <2>4. ASSUME pc' # "idle", Exists(cur)'
        PROVE  Faithful(obj, cur)'
    <3>1. cur \in Names /\ Exists(cur)'
      BY <2>1, <2>4, Busy DEF Exists
    <3>2. Exists(cur) /\ Faithful(obj, cur)
      BY <2>1, <2>4, <3>1 DEF Matures, Credentials, Exists
    <3> QED
      BY <2>1, <2>4, <3>1, <3>2, StaysFaithful DEF Faithful, Exists
  <2> QED
    BY <2>2, <2>3, <2>4 DEF Credentials
<1>2. CASE /\ UNCHANGED api
           /\ \A s \in Services, e \in Emails : reg'[s][e] \in {reg[s][e], NoId}
           /\ \A v \in Names : cache'[v] \in {cache[v], api[v]}
           /\ pc' # "idle" => \/ UNCHANGED <<pc, cur, obj>>
                              \/ cur' \in Names /\ obj' = cache[cur'] /\ obj' # Gone
  <2>1. \A v \in Names : Matures(v)
    BY <1>2 DEF Matures, Exists
  <2>2. \A v \in Names : Exists(v)' => KnownById(v)'
    BY <1>2, <2>1, SameCredentials
  <2>3. ASSUME NEW v \in Names, Exists(v)', cache'[v] # Gone
        PROVE  Faithful(cache[v], v)'
    BY <1>2, <2>3 DEF Credentials, Faithful, Exists
  <2>4. ASSUME pc' # "idle", Exists(cur)'
        PROVE  Faithful(obj, cur)'
    BY <1>2, <2>4 DEF Credentials, Faithful, Exists
  <2> QED
    BY <2>2, <2>3, <2>4 DEF Credentials
<1> QED
  BY <1>1, <1>2, WorldForgets

\* As long as objects do not share keys and owners neither recreate objects nor
\* edit ids, a server that knows an object's user knows it under the object's
\* id, whatever emails it goes by: an id is stored before a server learns it, and
\* never drawn again from an old copy.
THEOREM OneId ==
  ASSUME Private, Steady
  PROVE  Spec => []CredentialsMatch
<1>1. Init => Credentials
  <2> SUFFICES ASSUME Init PROVE Credentials
    OBVIOUS
  <2>1. cache = api /\ pc = "idle" /\ reg = [s \in Services |-> [e \in Emails |-> NoId]]
    BY DEF Init
  <2> QED
    BY <2>1, OwnedTyped DEF Credentials, KnownById, Faithful
<1>2. EmailsOwned /\ Credentials /\ UNCHANGED vars => EmailsOwned' /\ Credentials'
  BY DEF vars, worker, world, EmailsOwned, Credentials, KnownById, Faithful, Exists
<1>3. TypeOK /\ Coherent /\ EmailsOwned /\ Credentials /\ Next
      => EmailsOwned' /\ Credentials'
  BY NextEmails, WorkerCredentials, WorldCredentials DEF Next, World
<1>4. EmailsOwned /\ Credentials => CredentialsMatch
  BY DEF EmailsOwned, Credentials, KnownById, CredentialsMatch, Exists
<1> QED
  BY TypeCorrect, CopiesCoherent, InitEmails, <1>1, <1>2, <1>3, <1>4, PTL DEF Spec

-----------------------------------------------------------------------------
(* Ids that owners choose.                                                  *)

\* The owner of an object gives it one id and never another.
Given ==
  \A u \in Names : NoId \notin Chosen(u) /\ \A i, j \in Chosen(u) : i = j

\* Every copy has its owner's id, and so has every registration.
IdsGiven ==
  /\ \A u \in Names : /\ Exists(u) => api[u].id \in Chosen(u)
                      /\ cache[u] # Gone => cache[u].id \in Chosen(u)
  /\ pc # "idle" => obj.id \in Chosen(cur)
  /\ \A u \in Names : \A s \in Services, e \in Owned(u) :
       reg[s][e] \in {NoId} \cup Chosen(u)

LEMMA WorkerIdsGiven ==
  ASSUME TypeOK, Coherent, EmailsOwned, Private, Given, IdsGiven, Worker
  PROVE  IdsGiven'
<1>1. /\ pc # "idle" /\ cache' = cache /\ obj \in Objects /\ cur \in Names
      /\ obj.id \in Chosen(cur) /\ obj.id # NoId
  BY WorkerWrites, Busy DEF IdsGiven, Given
<1>2. ASSUME NEW u \in Names, api'[u] # Gone
      PROVE  api'[u].id \in Chosen(u)
  <2>1. CASE UNCHANGED <<api, synced>>
    BY <1>2, <2>1 DEF IdsGiven, Exists
  <2>2. ASSUME NEW o \in Objects, fresh, Put(cur, o), Successor(o)
        PROVE  api'[u].id \in Chosen(u)
    <3>1. CASE u = cur
      BY <1>1, <1>2, <2>2, <3>1 DEF Put, Stored, Successor, TypeOK
    <3>2. CASE u # cur
      BY <1>1, <1>2, <2>2, <3>2 DEF Put, IdsGiven, Exists, TypeOK
    <3> QED
      BY <3>1, <3>2
  <2> QED
    BY <2>1, <2>2, WorkerWrites DEF WritesSuccessor
<1>3. ASSUME pc' # "idle"
      PROVE  obj'.id \in Chosen(cur')
  <2>1. cur' = cur
    BY <1>3, WorkerCopies
  <2>2. CASE fresh'
    <3>1. obj' = api'[cur] /\ api'[cur] # Gone
      BY <1>1, <1>3, <2>1, <2>2, WorkerCoherent, WorkerTyped, MarkersAssumption
         DEF Coherent, TypeOK
    <3> QED
      BY <1>1, <1>2, <2>1, <3>1
  <2>3. CASE obj' = cache[cur] /\ cache[cur] # Gone
    BY <1>1, <2>1, <2>3 DEF IdsGiven
  <2>4. CASE obj'.id = obj.id
    BY <1>1, <2>1, <2>4
  <2> QED
    BY <1>3, <2>2, <2>3, <2>4, WorkerIds
<1>4. ASSUME NEW u \in Names, NEW s \in Services, NEW e \in Owned(u)
      PROVE  reg'[s][e] \in {NoId} \cup Chosen(u)
  <2>1. e \in Emails
    BY OwnedTyped
  <2>2. CASE reg'[s][e] \in {reg[s][e], NoId}
    BY <2>2 DEF IdsGiven
  <2>3. CASE e = obj.email /\ reg'[s][e] = obj.id
    <3>1. obj.email \in Owned(cur)
      BY <1>1 DEF EmailsOwned
    <3>2. u = cur
      BY <1>1, <2>3, <3>1 DEF Private, Owned
    <3> QED
      BY <1>1, <2>3, <3>2
  <2> QED
    BY <2>1, <2>2, <2>3, WorkerRegisters
<1> QED
  BY <1>1, <1>2, <1>3, <1>4 DEF IdsGiven, Exists

LEMMA WorldIdsGiven ==
  ASSUME TypeOK, Coherent, IdsGiven, World
  PROVE  IdsGiven'
<1>1. ASSUME NEW u \in Names, Create(u) \/ Edit(u) \/ Delete(u)
      PROVE  IdsGiven'
  <2>1. /\ UNCHANGED <<cache, pc, cur, obj, reg>>
        /\ \A v \in Names \ {u} : api'[v] = api[v]
    BY <1>1, OwnerWrites
  <2>2. api'[u] # Gone => api'[u].id \in Chosen(u)
    <3>1. \A spec \in Specs[u] : NewObject(spec).id \in Chosen(u)
      BY DEF NewObject, Chosen
    <3>2. \/ api'[u] = Gone
          \/ \E spec \in Specs[u] : api'[u] = NewObject(spec)
          \/ Exists(u) /\ api'[u].id \in {api[u].id} \cup Chosen(u)
      BY <1>1, OwnerWrites
    <3> QED
      BY <3>1, <3>2 DEF IdsGiven
  <2> QED
    BY <2>1, <2>2 DEF IdsGiven, Exists
<1>2. CASE /\ UNCHANGED api
           /\ \A s \in Services, e \in Emails : reg'[s][e] \in {reg[s][e], NoId}
           /\ \A v \in Names : cache'[v] \in {cache[v], api[v]}
           /\ pc' # "idle" => \/ UNCHANGED <<pc, cur, obj>>
                              \/ cur' \in Names /\ obj' = cache[cur'] /\ obj' # Gone
  <2>1. \A u \in Names : \A s \in Services, e \in Owned(u) :
          reg'[s][e] \in {NoId} \cup Chosen(u)
    BY <1>2, OwnedTyped DEF IdsGiven
  <2> QED
    BY <1>2, <2>1 DEF IdsGiven, Exists
<1> QED
  BY <1>1, <1>2, WorldForgets

\* As long as objects do not share keys and every owner gives an object an id of
\* its own choice, always the same one, servers know users under their ids,
\* although objects are recreated and edited and registrations are left behind.
THEOREM GivenIds ==
  ASSUME Private, Given
  PROVE  Spec => []CredentialsMatch
<1>1. Init => IdsGiven
  <2> SUFFICES ASSUME Init PROVE IdsGiven
    OBVIOUS
  <2>1. PICK spec \in [Names -> UNION {Specs[u] : u \in Names}] :
          /\ \A u \in Names : spec[u] \in Specs[u]
          /\ api = [u \in Names |-> NewObject(spec[u])]
    BY DEF Init
  <2>2. \A u \in Names : api[u].id \in Chosen(u)
    BY <2>1 DEF NewObject, Chosen
  <2>3. cache = api /\ pc = "idle" /\ reg = [s \in Services |-> [e \in Emails |-> NoId]]
    BY DEF Init
  <2> QED
    BY <2>2, <2>3, OwnedTyped DEF IdsGiven
<1>2. EmailsOwned /\ IdsGiven /\ UNCHANGED vars => EmailsOwned' /\ IdsGiven'
  BY DEF vars, worker, world, EmailsOwned, IdsGiven, Exists
<1>3. TypeOK /\ Coherent /\ EmailsOwned /\ IdsGiven /\ Next => EmailsOwned' /\ IdsGiven'
  BY NextEmails, WorkerIdsGiven, WorldIdsGiven DEF Next, World
<1>4. EmailsOwned /\ IdsGiven => CredentialsMatch
  BY DEF EmailsOwned, IdsGiven, Given, CredentialsMatch, Exists
<1> QED
  BY TypeCorrect, CopiesCoherent, InitEmails, <1>1, <1>2, <1>3, <1>4, PTL DEF Spec

-----------------------------------------------------------------------------
(* Removal.                                                                 *)

\* Owners do not edit emails, and edit nodeLists without naming servers if at all.
Unlisted ==
  /\ "email" \notin OwnerMay
  /\ "nodes" \in OwnerMay => \A u \in Names : \A spec \in Specs[u] : Listed(spec) = {}

\* The invariant behind RemovalIsClean: of the servers the stored object names,
\* the finalizer has still to visit those that know its user.
Cleaning ==
  pc \in {"finalize", "degraded", "removeFinalizer"} =>
    /\ pc = "finalize" => obj.email = api[cur].email
    /\ pc # "finalize" => todo = {}
    /\ \A s \in Listed(api[cur]) \ todo : reg[s][api[cur].email] = NoId

\* What an owner's step makes of an object with a finalizer.
LEMMA OwnerUnlists ==
  ASSUME TypeOK, Unlisted, NEW u \in Names, Create(u) \/ Edit(u) \/ Delete(u),
         Exists(u), api[u].fin
  PROVE  api'[u].email = api[u].email /\ Listed(api'[u]) \subseteq Listed(api[u])
<1>1. api[u] \in Objects
  BY DEF Exists, TypeOK
<1>2. \E o \in Objects : \E act : /\ OwnerPuts(u, act, o) /\ o.fin
                                  /\ o.email = api[u].email /\ Listed(o) \subseteq Listed(api[u])
  <2>1. CASE Edit(u)
    <3>1. PICK spec \in Specs[u] :
            \/ OwnerPuts(u, "id", [api[u] EXCEPT !.id = spec.id])
            \/ OwnerPuts(u, "nodes", [api[u] EXCEPT !.nodeList = spec.nodeList])
      BY <2>1 DEF Edit, OwnerStores, OwnerPuts, Unlisted
    <3>2. /\ [api[u] EXCEPT !.id = spec.id] \in Objects
          /\ [api[u] EXCEPT !.nodeList = spec.nodeList] \in Objects
      BY <1>1, EditTyped
    <3>3. Listed([api[u] EXCEPT !.id = spec.id]) = Listed(api[u])
      BY <1>1 DEF Listed, Objects
    <3>4. Listed([api[u] EXCEPT !.nodeList = spec.nodeList]) = Listed(spec)
      BY <1>1 DEF Listed, Objects
    <3>5. "nodes" \in OwnerMay => Listed(spec) = {}
      BY DEF Unlisted
    <3>6. \A o : OwnerPuts(u, "nodes", o) => "nodes" \in OwnerMay
      BY DEF OwnerPuts
    <3> QED
      BY <1>1, <3>1, <3>2, <3>3, <3>4, <3>5, <3>6 DEF Objects
  <2>2. CASE Delete(u)
    <3>1. [api[u] EXCEPT !.deleting = TRUE] \in Objects
      BY <1>1, ObjectFields
    <3>2. Listed([api[u] EXCEPT !.deleting = TRUE]) = Listed(api[u])
      BY <1>1 DEF Listed, Objects
    <3> QED
      BY <1>1, <2>2, <3>1, <3>2 DEF Delete, OwnerStores, Objects
  <2> QED
    BY <2>1, <2>2 DEF Create
<1>3. PICK o \in Objects : \E act :
        /\ OwnerPuts(u, act, o) /\ o.fin
        /\ o.email = api[u].email /\ Listed(o) \subseteq Listed(api[u])
  BY <1>2
<1>4. api'[u] = o
  BY <1>3 DEF OwnerPuts, Put, Stored, TypeOK
<1> QED
  BY <1>3, <1>4

LEMMA WorkerCleans ==
  ASSUME TypeOK, Coherent, Guards, Cleaning, Worker
  PROVE  Cleaning'
<1> USE DEF Steps
<1>1. pc # "idle" /\ cur \in Names /\ obj \in Objects
  BY WorkerWrites, Busy
<1> SUFFICES ASSUME pc' \in {"finalize", "degraded", "removeFinalizer"}
             PROVE  /\ pc' = "finalize" => obj'.email = api'[cur'].email
                    /\ pc' # "finalize" => todo' = {}
                    /\ \A s \in Listed(api'[cur']) \ todo' :
                         reg'[s][api'[cur'].email] = NoId
  BY DEF Cleaning, Listed, Named
<1>2. CASE Degrade
  <2> DEFINE o == [obj EXCEPT !.degraded = "Unknown"]
  <2>1. /\ Accepted(o) /\ pc = "degrading" /\ cur' = cur /\ obj' = o
        /\ todo' = Listed(o) /\ pc' = "finalize"
    BY <1>2 DEF Degrade, Continue, Return, Leave
  <2>2. obj = api[cur] /\ o.fin
    BY <1>1, <2>1 DEF Accepted, Coherent, Guards, Finalizing, Objects
  <2>3. api'[cur] = o
    BY <1>1, <2>1, <2>2 DEF Accepted, Put, Stored, TypeOK
  <2> QED
    BY <2>1, <2>3
<1>3. ASSUME NEW s \in Services, RemoveUser(s)
      PROVE  /\ pc' = "finalize" => obj'.email = api'[cur'].email
             /\ pc' # "finalize" => todo' = {}
             /\ \A t \in Listed(api'[cur']) \ todo' : reg'[t][api'[cur'].email] = NoId
  <2>1. /\ pc = "finalize" /\ UNCHANGED <<api, cur, obj, pc>> /\ todo' = todo \ {s}
        /\ Unregister(s, obj.email)
    BY <1>3 DEF RemoveUser
  <2>2. obj.email = api[cur].email /\ obj.email \in Emails
    BY <1>1, <2>1 DEF Cleaning, Objects
  <2>3. \A t \in Services :
          reg'[t][obj.email] = IF t = s THEN NoId ELSE reg[t][obj.email]
    BY <2>1, <2>2 DEF Unregister, TypeOK
  <2>4. Listed(api[cur]) \subseteq Services
    <3>1. api[cur] \in Objects
      BY <1>1, <2>1 DEF Guards, Finalizing, Exists, TypeOK
    <3> QED
      BY <3>1, ListedTyped
  <2> QED
    BY <2>1, <2>2, <2>3, <2>4 DEF Cleaning
<1>4. CASE RefetchFinal
  BY <1>1, <1>4 DEF RefetchFinal, Refetch, Continue, Return, Leave, Cleaning, calls, world
<1>5. CASE MarkDegraded
  <2> DEFINE o == [obj EXCEPT !.degraded = "True"]
  <2>1. /\ Accepted(o) /\ pc = "degraded" /\ cur' = cur /\ pc' = "removeFinalizer"
        /\ UNCHANGED <<reg, todo>>
    BY <1>5 DEF MarkDegraded, Write, Continue, Return, Leave, calls, world
  <2>2. obj = api[cur] /\ o.fin
    BY <1>1, <2>1 DEF Accepted, Coherent, Guards, Finalizing, Objects
  <2>3. api'[cur] = o
    BY <1>1, <2>1, <2>2 DEF Accepted, Put, Stored, TypeOK
  <2>4. Listed(o) = Listed(obj) /\ o.email = obj.email
    BY <1>1 DEF Listed, Objects
  <2> HIDE DEF o
  <2> QED
    BY <2>1, <2>2, <2>3, <2>4 DEF Cleaning
<1>6. ASSUME NEW s \in Services,
             \/ AddUser(s) \/ AddUserFails(s) \/ Rollback(s)
             \/ RemoveUserFails(s) \/ Restore(s)
      PROVE  FALSE
  BY <1>6 DEF AddUser, AddUserFails, Rollback, RemoveUserFails, Restore
<1>7. CASE \/ InitStatus \/ RefetchInit \/ SaveSpec \/ RefetchSpec
           \/ Elect \/ NoNode \/ SaveNodes \/ AddFailed \/ AddFinalizer \/ Available
           \/ RemoveFinalizer \/ RestoreDone \/ ElectFails
  BY <1>7
     DEF InitStatus, RefetchInit, SaveSpec, RefetchSpec, Elect, NoNode, SaveNodes,
         AddFailed, AddFinalizer, Available, RemoveFinalizer, RestoreDone, ElectFails,
         Write, WriteAndReturn, Refetch, Continue, Return, Leave, AfterAdding
<1> QED
  BY <1>2, <1>3, <1>4, <1>5, <1>6, <1>7 DEF Worker

LEMMA WorldCleans ==
  ASSUME TypeOK, Coherent, Guards, Cleaning, Unlisted, World
  PROVE  Cleaning'
<1>1. ASSUME NEW u \in Names, Create(u) \/ Edit(u) \/ Delete(u)
      PROVE  Cleaning'
  <2>1. /\ UNCHANGED <<pc, cur, obj, todo, reg>>
        /\ \A v \in Names \ {u} : api'[v] = api[v]
    BY <1>1, OwnerWrites
  <2>2. ASSUME pc \in {"finalize", "degraded", "removeFinalizer"}
        PROVE  api'[cur].email = api[cur].email /\ Listed(api'[cur]) \subseteq Listed(api[cur])
    <3>1. cur \in Names /\ Exists(cur) /\ api[cur].fin
      BY <2>2, Busy DEF Guards, Finalizing
    <3> QED
      BY <1>1, <2>1, <3>1, OwnerUnlists
  <2>3. ASSUME pc' \in {"finalize", "degraded", "removeFinalizer"}
        PROVE  /\ pc' = "finalize" => obj'.email = api'[cur'].email
               /\ pc' # "finalize" => todo' = {}
               /\ \A s \in Listed(api'[cur']) \ todo' : reg'[s][api'[cur'].email] = NoId
    BY <2>1, <2>2, <2>3 DEF Cleaning
  <2> QED
    BY <2>3 DEF Cleaning, Listed, Named
<1>2. CASE pc' \in {"idle", "initStatus", "saveSpec"}
  BY <1>2 DEF Cleaning
<1>3. CASE /\ UNCHANGED <<api, pc, cur, obj, todo>>
           /\ \A s \in Services, e \in Emails : reg'[s][e] \in {reg[s][e], NoId}
  <2>1. ASSUME pc \in {"finalize", "degraded", "removeFinalizer"}
        PROVE  Listed(api[cur]) \subseteq Services /\ api[cur].email \in Emails
    <3>1. api[cur] \in Objects
      BY <2>1, Busy DEF Guards, Finalizing, Exists, TypeOK
    <3> QED
      BY <3>1, ListedTyped DEF Objects
  <2>2. ASSUME pc' \in {"finalize", "degraded", "removeFinalizer"}
        PROVE  /\ pc' = "finalize" => obj'.email = api'[cur'].email
               /\ pc' # "finalize" => todo' = {}
               /\ \A s \in Listed(api'[cur']) \ todo' : reg'[s][api'[cur'].email] = NoId
    <3>1. \A s \in Listed(api[cur]) \ todo : reg[s][api[cur].email] = NoId
      BY <1>3, <2>2 DEF Cleaning
    <3> QED
      BY <1>3, <2>1, <2>2, <3>1 DEF Cleaning
  <2> QED
    BY <2>2 DEF Cleaning, Listed, Named
<1>4. ASSUME NEW s \in Services, RestartServer(s) \/ RetireService(s)
      PROVE  Cleaning'
  <2>1. \A t \in Services, e \in Emails : reg'[t][e] \in {reg[t][e], NoId}
    BY <1>4 DEF RestartServer, RetireService, Forget, TypeOK
  <2> QED
    BY <1>3, <1>4, <2>1 DEF RestartServer, RetireService, worker
<1>5. CASE Crash \/ PanicElsewhere
  BY <1>2, <1>5 DEF Crash, PanicElsewhere, ProcessEnds, Restart
<1>6. ASSUME NEW u \in Names, Start(u)
      PROVE  Cleaning'
  BY <1>2, <1>6 DEF Start
<1>7. CASE \/ Deadline
           \/ \E u \in Names : CacheSync(u) \/ Resync(u)
           \/ \E s \in Services : \/ ComeUp(s) \/ ServiceAppears(s)
                                  \/ \E t \in Tags : InboundAppears(s, t)
  BY <1>3, <1>7 DEF Deadline, CacheSync, Informed, Resync, Requeued, ComeUp,
     ServiceAppears, InboundAppears, hand, objects, calls, world, worker
<1> QED
  BY <1>1, <1>4, <1>5, <1>6, <1>7 DEF World

\* An object with a finalizer goes when the worker has visited its servers only.
LEMMA Goes ==
  ASSUME TypeOK, Coherent, Guards, Cleaning, Next,
         NEW u \in Names, Exists(u), api[u].fin, ~Exists(u)'
  PROVE  \A s \in Listed(api[u]) : reg[s][api[u].email] = NoId
<1>1. CASE Worker
  <2>1. PICK o \in Objects : fresh /\ Put(cur, o) /\ Successor(o)
    BY <1>1, WorkerWrites DEF WritesSuccessor, Exists
  <2>2. obj = api[cur] /\ cur \in Names
    BY <1>1, <2>1, WorkerWrites, Busy DEF Coherent
  <2>3. u = cur /\ Stored(o) = Gone
    BY <2>1, <2>2 DEF Put, Exists, TypeOK
  <2>4. ~o.fin
    BY <2>1, <2>3, MarkersAssumption DEF Stored
  <2>5. pc = "removeFinalizer"
    BY <2>1, <2>2, <2>3, <2>4 DEF Successor
  <2> QED
    BY <2>3, <2>5 DEF Cleaning
<1>2. CASE World
  BY <1>2, WorldWrites, OwnerWrites, MarkersAssumption DEF Exists, NewObject
<1> QED
  BY <1>1, <1>2 DEF Next, World

\* As long as owners do not edit emails, nor add servers to a nodeList that is
\* there already, an object with a finalizer goes only when no server it names knows
\* its user, whatever fails half-way, is done again or restarts.
THEOREM Clean ==
  ASSUME Unlisted
  PROVE  Spec => RemovalIsClean
<1>1. Init => Guards /\ Cleaning
  <2> SUFFICES ASSUME Init PROVE Guards /\ Cleaning
    OBVIOUS
  <2>1. ASSUME NEW u \in Names PROVE api[u].avail = "none"
    BY DEF Init, NewObject
  <2> QED
    BY <2>1 DEF Init, Guards, AvailableIsGuarded, Finalizing, Cleaning
<1>2. Cleaning /\ UNCHANGED vars => Cleaning'
  BY DEF vars, worker, world, Cleaning, Listed, Named
<1>3. TypeOK /\ Coherent /\ Guards /\ Cleaning /\ Next => Cleaning'
  BY WorkerCleans, WorldCleans DEF Next, World
<1>4. TypeOK /\ Coherent /\ Guards /\ Cleaning /\ [Next]_vars
      => [\A u \in Names :
            Exists(u) /\ api[u].fin /\ ~Exists(u)' =>
              \A s \in Listed(api[u]) : reg[s][api[u].email] = NoId]_vars
  BY Goes
<1> QED
  BY TypeCorrect, CopiesCoherent, GuardsHold, <1>1, <1>2, <1>3, <1>4, PTL
     DEF Spec, RemovalIsClean
=============================================================================
