------------------------- MODULE V2rayClientProofs -------------------------
(***************************************************************************)
(* What the V2rayClient controller promises, proved for any number of      *)
(* objects, servers, handlers, misfortunes and owners' steps.              *)
(***************************************************************************)
EXTENDS V2rayClientProps, KubeProofs, SequenceTheorems

-----------------------------------------------------------------------------
(* Type correctness.                                                        *)

\* A write of an object keeps the API server's and the cache's types.
LEMMA PutTyped ==
  ASSUME TypeOK, NEW n \in Names, NEW o \in Objects, Put(n, o)
  PROVE  /\ api' \in [Names -> Objects \cup {Gone}]
         /\ synced' \subseteq Names
BY DEF TypeOK, Put, Stored

\* While Reconcile runs it has a name and an object.
LEMMA Busy ==
  ASSUME TypeOK, pc # "idle"
  PROVE  cur \in Names /\ obj \in Objects /\ obj # Gone
BY MarkersAssumption DEF TypeOK

LEMMA MisfortuneTyped ==
  ASSUME TypeOK, NEW k, Misfortune(k)
  PROVE  faults' \in 0 .. MaxFaults
BY BoundsAssumption DEF TypeOK, Misfortune

LEMMA AcceptedTyped ==
  ASSUME TypeOK, pc # "idle", NEW o \in Objects, Accepted(o) \/ Refused(o)
  PROVE  /\ api' \in [Names -> Objects \cup {Gone}]
         /\ synced' \subseteq Names
         /\ faults' \in 0 .. MaxFaults
<1>1. cur \in Names
  BY Busy
<1>2. CASE Put(cur, o)
  BY <1>1, <1>2, PutTyped, BoundsAssumption
     DEF Accepted, Refused, Misfortune, TypeOK
<1>3. CASE UNCHANGED <<api, synced>>
  BY <1>3, BoundsAssumption DEF Accepted, Refused, Misfortune, TypeOK
<1> QED
  BY <1>2, <1>3 DEF Accepted, Refused

LEMMA WriteTyped ==
  ASSUME TypeOK, NEW here \in Steps \ {"idle"}, NEW next \in Steps \ {"idle"},
         NEW o \in Objects, Write(here, o, next)
  PROVE  TypeOK'
<1>1. pc # "idle"
  BY DEF Write
<1>2. Gone \notin Objects /\ None \notin Names /\ <<>> \in Seq(Calls)
  BY MarkersAssumption, NoneAssumption
<1> QED
  BY <1>1, <1>2, Busy, AcceptedTyped
     DEF Write, Continue, Return, Leave, TypeOK, loop, world, Steps

LEMMA WriteAndReturnTyped ==
  ASSUME TypeOK, NEW here \in Steps \ {"idle"}, NEW o \in Objects,
         WriteAndReturn(here, o)
  PROVE  TypeOK'
<1>1. pc # "idle" /\ <<>> \in Seq(Calls)
  BY DEF WriteAndReturn
<1> QED
  BY <1>1, Busy, AcceptedTyped
     DEF WriteAndReturn, Return, Leave, TypeOK, world, Steps

LEMMA RefetchTyped ==
  ASSUME TypeOK, pc # "idle", NEW next, cache[cur] # Gone => next \in Steps \ {"idle"},
         Refetch(next)
  PROVE  TypeOK'
<1>1. Gone \notin Objects /\ None \notin Names /\ cur \in Names /\ <<>> \in Seq(Calls)
  BY MarkersAssumption, NoneAssumption, Busy
<1>2. CASE cache[cur] = Gone
  BY <1>1, <1>2 DEF Refetch, Return, Leave, TypeOK, objects, world, Steps
<1>3. CASE cache[cur] # Gone
  <2>1. cache[cur] \in Objects
    BY <1>1, <1>3 DEF TypeOK
  <2>2. /\ pc' = next /\ obj' = cache[cur] /\ fresh' = (cur \in synced)
        /\ UNCHANGED <<objects, loop, world, cur, queue, faults, edits>>
    BY <1>3 DEF Refetch, Continue
  <2> QED
    BY <1>1, <1>3, <2>1, <2>2 DEF TypeOK, objects, loop, world
<1> QED
  BY <1>2, <1>3

\* The object a step of the worker writes.
Written ==
  CASE pc \in {"initStatus", "initAgain"} -> [obj EXCEPT !.avail = "Unknown"]
    [] pc = "addFinalizer"    -> [obj EXCEPT !.fin = TRUE]
    [] pc = "degrading"       -> [obj EXCEPT !.degraded = "Unknown"]
    [] pc = "degraded"        -> [obj EXCEPT !.degraded = "True"]
    [] pc = "removeFinalizer" -> [obj EXCEPT !.fin = FALSE]
    [] pc = "available"       -> [obj EXCEPT !.avail = "True"]

Writing == {"initStatus", "initAgain", "addFinalizer", "degrading", "degraded",
            "removeFinalizer", "available"}

LEMMA WrittenTyped ==
  ASSUME TypeOK, pc \in Writing
  PROVE  /\ Written \in Objects /\ Written # Gone
         /\ Written.spec = obj.spec /\ Written.deleting = obj.deleting
         /\ pc \notin {"addFinalizer", "removeFinalizer"} => Written.fin = obj.fin
         /\ pc = "addFinalizer" => Written.fin
         /\ pc = "removeFinalizer" => ~Written.fin
         /\ Written.avail = (CASE pc \in {"initStatus", "initAgain"} -> "Unknown"
                               [] pc = "available" -> "True"
                               [] OTHER -> obj.avail)
         /\ Written.degraded = (CASE pc = "degrading" -> "Unknown"
                                  [] pc = "degraded" -> "True"
                                  [] OTHER -> obj.degraded)
<1>1. obj \in Objects
  BY Busy DEF Writing
<1>2. Avail = {"none", "Unknown", "True"} /\ Degraded = {"none", "Unknown", "True"}
  BY DEF Avail, Degraded
<1>3. Written \in Objects
  BY <1>1, <1>2 DEF Written, Writing, Objects
<1>4. Written # Gone
  BY <1>3, MarkersAssumption
<1> QED
  BY <1>1, <1>3, <1>4 DEF Written, Writing, Objects

\* Where the worker goes on when its write has been accepted.
Onward ==
  CASE pc = "initStatus"   -> "validate"
    [] pc = "initAgain"    -> "refetchInit"
    [] pc = "addFinalizer" -> IF obj.deleting THEN "degrading" ELSE "available"
    [] pc = "degrading"    -> "refetchFinal"
    [] pc = "degraded"     -> "removeFinalizer"

\* Where the worker goes on when it has read the object again.
AfterInit(o) ==
  CASE ~o.fin -> "addFinalizer"
    [] o.fin /\ o.deleting -> "degrading"
    [] OTHER -> "available"

\* The steps of the loop over the elected servers, and what ends before it.
Applying ==
  \/ Invalid \/ Elect \/ ElectFails \/ (\E s \in Services : Dial(s))
  \/ AddHandler \/ AddHandlerFails \/ Panic

\* Every step of the worker is a write of its copy, a read into its copy, or
\* one that leaves objects and copies alone.
LEMMA WorkerSteps ==
  ASSUME Worker
  PROVE  \/ /\ pc \in {"initStatus", "initAgain", "addFinalizer", "degrading", "degraded"}
            /\ Write(pc, Written, Onward)
         \/ /\ pc \in {"removeFinalizer", "available"}
            /\ WriteAndReturn(pc, Written)
         \/ pc = "refetchInit" /\ Refetch(AfterInit(cache[cur]))
         \/ pc = "refetchFinal" /\ Refetch("degraded")
         \/ Reread
         \/ Applying
<1>1. CASE InitStatus \/ InitAgain \/ AddFinalizer \/ Degrade \/ MarkDegraded
  BY <1>1 DEF InitStatus, InitAgain, AddFinalizer, Degrade, MarkDegraded, Written,
              Onward, Write
<1>2. CASE RemoveFinalizer \/ Available
  BY <1>2 DEF RemoveFinalizer, Available, Written, WriteAndReturn
<1>3. CASE RefetchInit \/ RefetchFinal
  BY <1>3 DEF RefetchInit, RefetchFinal, AfterInit
<1> QED
  BY <1>1, <1>2, <1>3 DEF Worker, Working, Applying

\* What is to be added to one server is a sequence of calls to it.
LEMMA CallsToTyped ==
  ASSUME NEW s \in Services, NEW c \in Configs
  PROVE  /\ CallsTo(s, c) \in Seq(Calls)
         /\ \A i \in DOMAIN c.ins : \E j \in DOMAIN CallsTo(s, c) :
              CallsTo(s, c)[j] = [svc |-> s, kind |-> "in", tag |-> c.ins[i]]
         /\ \A i \in DOMAIN c.outs : \E j \in DOMAIN CallsTo(s, c) :
              CallsTo(s, c)[j] = [svc |-> s, kind |-> "out", tag |-> c.outs[i]]
<1> DEFINE a == [i \in DOMAIN c.ins  |-> [svc |-> s, kind |-> "in",  tag |-> c.ins[i]]]
           b == [i \in DOMAIN c.outs |-> [svc |-> s, kind |-> "out", tag |-> c.outs[i]]]
<1>1. c.ins \in Seq(Tags) /\ c.outs \in Seq(Tags)
  BY ConfigsAssumption DEF IsConfig
<1>2. /\ Len(c.ins) \in Nat /\ DOMAIN c.ins = 1 .. Len(c.ins)
      /\ Len(c.outs) \in Nat /\ DOMAIN c.outs = 1 .. Len(c.outs)
      /\ \A i \in DOMAIN c.ins : c.ins[i] \in Tags
      /\ \A i \in DOMAIN c.outs : c.outs[i] \in Tags
  BY <1>1
<1>3. /\ a \in Seq(Calls) /\ Len(a) = Len(c.ins)
      /\ \A i \in DOMAIN c.ins : a[i] = [svc |-> s, kind |-> "in", tag |-> c.ins[i]]
  <2>1. \A i \in 1 .. Len(c.ins) : [svc |-> s, kind |-> "in", tag |-> c.ins[i]] \in Calls
    BY <1>2 DEF Calls
  <2>2. a = [i \in 1 .. Len(c.ins) |-> [svc |-> s, kind |-> "in", tag |-> c.ins[i]]]
    BY <1>2
  <2> QED
    BY <1>2, <2>1, <2>2, IsASeq, LenProperties
<1>4. /\ b \in Seq(Calls) /\ Len(b) = Len(c.outs)
      /\ \A i \in DOMAIN c.outs : b[i] = [svc |-> s, kind |-> "out", tag |-> c.outs[i]]
  <2>1. \A i \in 1 .. Len(c.outs) : [svc |-> s, kind |-> "out", tag |-> c.outs[i]] \in Calls
    BY <1>2 DEF Calls
  <2>2. b = [i \in 1 .. Len(c.outs) |-> [svc |-> s, kind |-> "out", tag |-> c.outs[i]]]
    BY <1>2
  <2> QED
    BY <1>2, <2>1, <2>2, IsASeq, LenProperties
<1>5. CallsTo(s, c) = a \o b
  BY DEF CallsTo
<1> HIDE DEF a, b
<1>6. a \o b \in Seq(Calls) /\ Len(a \o b) = Len(a) + Len(b)
  BY <1>3, <1>4, ConcatProperties
<1>7. ASSUME NEW i \in DOMAIN c.ins
      PROVE  i \in DOMAIN (a \o b) /\ (a \o b)[i] = a[i]
  BY <1>2, <1>3, <1>4, <1>6, <1>7, ConcatProperties
<1>8. ASSUME NEW i \in DOMAIN c.outs
      PROVE  Len(a) + i \in DOMAIN (a \o b) /\ (a \o b)[Len(a) + i] = b[i]
  BY <1>2, <1>3, <1>4, <1>6, <1>8, ConcatProperties
<1> QED
  BY <1>3, <1>4, <1>5, <1>6, <1>7, <1>8

\* The loop over the elected servers keeps the types, and leaves the objects
\* alone.
LEMMA ApplyingTyped ==
  ASSUME TypeOK, Applying
  PROVE  TypeOK'
<1>1. pc # "idle"
  BY DEF Applying, Invalid, Elect, ElectFails, Dial, AddHandler, AddHandlerFails, Panic
<1>2. cur \in Names /\ obj \in Objects /\ None \notin Names /\ Gone \notin Objects
      /\ <<>> \in Seq(Calls)
  BY <1>1, Busy, NoneAssumption, MarkersAssumption
<1>3. CASE Invalid \/ ElectFails
  BY <1>2, <1>3, MisfortuneTyped
     DEF Invalid, ElectFails, Return, Leave, TypeOK, objects, world, Steps
<1>4. CASE Elect
  <2>1. todo' \subseteq Services /\ faults' \in 0 .. MaxFaults
    BY <1>4, MisfortuneTyped DEF Elect, Elections, TypeOK
  <2> QED
    BY <1>2, <1>4, <2>1 DEF Elect, TypeOK, objects, world, Steps
<1>5. ASSUME NEW s \in Services, Dial(s)
      PROVE  TypeOK'
  <2>1. calls' \in Seq(Calls)
    BY <1>2, <1>5, CallsToTyped DEF Dial, Objects
  <2> QED
    BY <1>2, <1>5, <2>1 DEF Dial, TypeOK, objects, hand, world, Steps
<1>6. CASE AddHandler \/ AddHandlerFails
  <2>1. calls \in Seq(Calls) /\ calls # <<>>
    BY <1>6 DEF AddHandler, AddHandlerFails, TypeOK
  <2>2. Head(calls) \in Calls /\ Tail(calls) \in Seq(Calls)
    BY <2>1
  <2>3. handlers' \subseteq Calls /\ faults' \in 0 .. MaxFaults
    BY <1>6, <2>2, MisfortuneTyped DEF AddHandler, AddHandlerFails, TypeOK
  <2>4. CASE AddHandler
    BY <2>2, <2>3, <2>4 DEF AddHandler, TypeOK, objects, hand
  <2>5. CASE AddHandlerFails
    BY <1>2, <2>3, <2>5 DEF AddHandlerFails, Return, Leave, TypeOK, objects, Steps
  <2> QED
    BY <1>6, <2>4, <2>5
<1>7. CASE Panic
  BY <1>2, <1>7 DEF Panic, ProcessEnds, Restart, TypeOK, world, Steps
<1> QED
  BY <1>3, <1>4, <1>5, <1>6, <1>7 DEF Applying

LEMMA AfterTyped ==
  ASSUME NEW o
  PROVE  /\ AfterStatus(o) \in {"initAgain", "addFinalizer", "degrading", "available"}
         /\ AfterInit(o) \in {"addFinalizer", "degrading", "available"}
BY DEF AfterStatus, AfterInit

LEMMA WorkerTyped ==
  ASSUME TypeOK, Worker
  PROVE  TypeOK'
<1>1. CASE /\ pc \in {"initStatus", "initAgain", "addFinalizer", "degrading", "degraded"}
           /\ Write(pc, Written, Onward)
  <2>1. Onward \in Steps \ {"idle"} /\ pc \in Steps \ {"idle"} /\ pc \in Writing
    BY <1>1 DEF Onward, Steps, Writing
  <2> QED
    BY <1>1, <2>1, WrittenTyped, WriteTyped
<1>2. CASE pc \in {"removeFinalizer", "available"} /\ WriteAndReturn(pc, Written)
  BY <1>2, WrittenTyped, WriteAndReturnTyped DEF Writing, Steps
<1>3. CASE pc = "refetchInit" /\ Refetch(AfterInit(cache[cur]))
  <2>1. AfterInit(cache[cur]) \in Steps \ {"idle"}
    BY AfterTyped DEF Steps
  <2> QED
    BY <1>3, <2>1, RefetchTyped
<1>4. CASE pc = "refetchFinal" /\ Refetch("degraded")
  BY <1>4, RefetchTyped DEF Steps
<1>5. CASE Reread
  <2>1. AfterStatus(cache[cur]) \in Steps \ {"idle"}
    BY AfterTyped DEF Steps
  <2>2. cur \in Names /\ None \notin Names /\ Gone \notin Objects /\ <<>> \in Seq(Calls)
    BY <1>5, Busy, NoneAssumption, MarkersAssumption DEF Reread
  <2>3. CASE cache[cur] = Gone
    BY <1>5, <2>2, <2>3 DEF Reread, Return, Leave, TypeOK, objects, world, Steps
  <2>4. CASE cache[cur] # Gone
    <3>1. cache[cur] \in Objects
      BY <2>2, <2>4 DEF TypeOK
    <3>2. /\ pc' = AfterStatus(cache[cur]) /\ obj' = cache[cur]
          /\ fresh' = (cur \in synced)
          /\ UNCHANGED <<objects, loop, world, cur, queue, faults, edits>>
      BY <1>5, <2>4 DEF Reread, Continue
    <3> QED
      BY <2>1, <2>2, <3>1, <3>2 DEF TypeOK, objects, loop, world
  <2> QED
    BY <2>3, <2>4
<1> QED
  BY <1>1, <1>2, <1>3, <1>4, <1>5, WorkerSteps, ApplyingTyped

\* What surrounds the worker.
World ==
  \/ Crash
  \/ \E n \in Names : \/ Start(n) \/ CacheSync(n) \/ Resync(n)
                      \/ Create(n) \/ Configure(n) \/ Delete(n)
  \/ \E s \in Services : \/ RestartServer(s) \/ ComeUp(s)
                         \/ RetireService(s) \/ ServiceAppears(s)

LEMMA OwnerStoresTyped ==
  ASSUME TypeOK, NEW n \in Names, NEW o \in Objects, NEW act, OwnerStores(n, act, o)
  PROVE  TypeOK'
BY PutTyped, BoundsAssumption DEF OwnerStores, OwnerPuts, TypeOK, loop, world

\* The objects owners write.
LEMMA OwnersObjects ==
  ASSUME TypeOK
  PROVE  /\ \A c \in Configs : NewObject(c) \in Objects
         /\ \A n \in Names : Exists(n) =>
              /\ api[n] \in Objects
              /\ \A c \in Configs : [api[n] EXCEPT !.spec = c] \in Objects
              /\ [api[n] EXCEPT !.deleting = TRUE] \in Objects
<1>1. \A c \in Configs : NewObject(c) \in Objects
  BY DEF NewObject, Objects, Avail, Degraded
<1>2. ASSUME NEW n \in Names, Exists(n)
      PROVE  /\ api[n] \in Objects
             /\ \A c \in Configs : [api[n] EXCEPT !.spec = c] \in Objects
             /\ [api[n] EXCEPT !.deleting = TRUE] \in Objects
  <2>1. api[n] \in Objects
    BY <1>2 DEF Exists, TypeOK
  <2> QED
    BY <2>1 DEF Objects
<1> QED
  BY <1>1, <1>2

LEMMA WorldTyped ==
  ASSUME TypeOK, World
  PROVE  TypeOK'
<1>0. Gone \notin Objects /\ None \notin Names /\ <<>> \in Seq(Calls)
  BY MarkersAssumption, NoneAssumption
<1>1. CASE Crash
  BY <1>0, <1>1, MisfortuneTyped DEF Crash, ProcessEnds, Restart, TypeOK, world, Steps
<1>2. ASSUME NEW n \in Names, Start(n)
      PROVE  TypeOK'
  <2>1. CASE cache[n] = Gone
    BY <1>2, <2>1 DEF Start, TypeOK, objects, hand, loop, world
  <2>2. CASE cache[n] # Gone
    <3>1. cache[n] \in Objects
      BY <2>2 DEF TypeOK
    <3>2. pc' \in Steps \ {"idle"}
      BY <1>2, <2>2 DEF Start, Steps
    <3> QED
      BY <1>0, <1>2, <2>2, <3>1, <3>2 DEF Start, TypeOK, objects, loop, world
  <2> QED
    BY <2>1, <2>2
<1>3. ASSUME NEW n \in Names, CacheSync(n) \/ Resync(n)
      PROVE  TypeOK'
  BY <1>3 DEF CacheSync, Informed, Resync, Requeued, TypeOK, objects, hand, loop, world
<1>4. ASSUME NEW n \in Names, Create(n) \/ Configure(n) \/ Delete(n)
      PROVE  TypeOK'
  BY <1>4, OwnersObjects, OwnerStoresTyped DEF Create, Configure, Delete
<1>5. ASSUME NEW s \in Services,
             RestartServer(s) \/ ComeUp(s) \/ RetireService(s) \/ ServiceAppears(s)
      PROVE  TypeOK'
  <2>1. faults' \in 0 .. MaxFaults
    BY <1>5, MisfortuneTyped DEF RestartServer, ComeUp, RetireService, ServiceAppears, TypeOK
  <2> QED
    BY <1>5, <2>1 DEF RestartServer, ComeUp, RetireService, ServiceAppears, Forget,
                      TypeOK, objects, hand, loop
<1> QED
  BY <1>1, <1>2, <1>3, <1>4, <1>5 DEF World

LEMMA InitTyped == Init => TypeOK
<1> SUFFICES ASSUME Init PROVE TypeOK
  OBVIOUS
<1>1. PICK c \in [Names -> Configs] : api = [n \in Names |-> NewObject(c[n])]
  BY DEF Init
<1>2. api \in [Names -> Objects]
  BY <1>1 DEF NewObject, Objects, Avail, Degraded
<1>3. faults \in 0 .. MaxFaults /\ edits \in 0 .. MaxEdits /\ <<>> \in Seq(Calls)
  BY BoundsAssumption DEF Init
<1>4. InitialServices \subseteq Services
  BY ServicesAssumption
<1> QED
  BY <1>2, <1>3, <1>4 DEF Init, TypeOK, Steps

\* Every variable keeps its type, and the worker has a name and a copy of an
\* object exactly while it is in Reconcile.
THEOREM TypeCorrect == Spec => []TypeOK
<1>1. TypeOK /\ UNCHANGED vars => TypeOK'
  BY DEF vars, objects, hand, loop, world, TypeOK
<1>2. TypeOK /\ Next => TypeOK'
  BY WorkerTyped, WorldTyped DEF Next, World
<1> QED
  BY InitTyped, <1>1, <1>2, PTL DEF Spec

-----------------------------------------------------------------------------
(* What copies say about the objects they are copies of.                    *)

\* A copy that is up to date is the object.
Coherent ==
  /\ fresh => pc # "idle" /\ obj = api[cur]
  /\ \A n \in synced : cache[n] = api[n]

\* What is always so of a stored object.
Sound(o) ==
  o # Gone =>
    /\ o.deleting => o.fin
    /\ o.avail = "True" => o.fin
    /\ ~o.deleting => o.degraded = "none"

\* What the worker knows when it is about to report an object or to let it go.
Guards ==
  /\ pc = "available" => obj.fin /\ ~obj.deleting
  /\ pc = "degrading" => obj.fin /\ obj.deleting
  /\ pc \in {"refetchFinal", "degraded", "removeFinalizer"} =>
       Exists(cur) /\ api[cur].deleting
  /\ pc = "removeFinalizer" => obj.degraded = "True"

IInv == Coherent /\ (\A n \in Names : Sound(api[n])) /\ Guards

\* A write is refused without effect, or replaces the latest version, in a way
\* that the life cycle allows. Only the last write of a finalization takes the
\* finalizer away, and then the object goes.
LEMMA Wrote ==
  ASSUME TypeOK, IInv, pc \in Writing, Accepted(Written) \/ Refused(Written)
  PROVE  \/ UNCHANGED <<api, synced>> /\ ~Accepted(Written)
         \/ /\ fresh /\ obj = api[cur] /\ Exists(cur) /\ Put(cur, Written)
            /\ api' = [api EXCEPT ![cur] = Stored(Written)]
            /\ Sound(Stored(Written)) /\ Fate(api[cur], Stored(Written))
            /\ pc # "removeFinalizer" => Stored(Written) = Written
<1>1. cur \in Names /\ obj \in Objects /\ obj # Gone
  BY Busy DEF Writing
<1>2. CASE ~Accepted(Written) /\ UNCHANGED <<api, synced>>
  BY <1>2
<1>3. CASE fresh /\ Put(cur, Written)
  <2>1. obj = api[cur] /\ Exists(cur) /\ Sound(obj)
    BY <1>1, <1>3 DEF IInv, Coherent, Exists
  <2>2. obj.fin \in BOOLEAN /\ obj.deleting \in BOOLEAN
    BY <1>1 DEF Objects
  <2>3. CASE pc = "removeFinalizer"
    <3>1. Stored(Written) = Gone
      BY <2>1, <2>3, WrittenTyped DEF IInv, Guards, Stored
    <3>2. Phase(obj) = "noted"
      BY <1>1, <2>1, <2>3 DEF IInv, Guards, Sound, Phase
    <3>3. Phase(Gone) = "absent" /\ ~Reported(Gone) /\ Sound(Gone)
      BY DEF Phase, Reported, Sound
    <3> QED
      BY <1>3, <2>1, <2>3, <3>1, <3>2, <3>3 DEF Fate, Put
  <2>4. CASE pc # "removeFinalizer"
    <3>1. /\ Written # Gone /\ Written.deleting = obj.deleting
          /\ pc # "addFinalizer" => Written.fin = obj.fin
          /\ pc = "addFinalizer" => Written.fin
      BY <2>4, WrittenTyped
    <3>2. Stored(Written) = Written
      BY <1>1, <2>1, <3>1 DEF Sound, Stored
    <3>3. pc \in {"degrading", "degraded"} => obj.deleting
      BY <2>1 DEF IInv, Guards
    <3>4. pc = "available" => obj.fin /\ ~obj.deleting
      BY DEF IInv, Guards
    <3>5. Sound(Written) /\ Fate(obj, Written)
      <4>1. CASE pc = "addFinalizer"
        BY <1>1, <2>1, <2>2, <3>1, <4>1, WrittenTyped DEF Sound, Fate, Phase, Reported
      <4>2. CASE pc \in {"degrading", "degraded"}
        BY <1>1, <2>1, <2>2, <3>1, <3>3, <4>2, WrittenTyped
           DEF Sound, Fate, Phase, Reported
      <4>3. CASE pc \in {"initStatus", "initAgain", "available"}
        BY <1>1, <2>1, <2>2, <3>1, <3>4, <4>3, WrittenTyped
           DEF Sound, Fate, Phase, Reported
      <4> QED
        BY <2>4, <4>1, <4>2, <4>3 DEF Writing
    <3> QED
      BY <1>3, <2>1, <3>2, <3>5 DEF Put
  <2> QED
    BY <2>3, <2>4
<1> QED
  BY <1>2, <1>3 DEF Accepted, Refused

\* What a write leaves of the invariant, whatever becomes of the worker.
LEMMA WriteKeeps ==
  ASSUME TypeOK, IInv, pc \in Writing, Accepted(Written) \/ Refused(Written),
         UNCHANGED cache
  PROVE  /\ \A n \in synced' : cache'[n] = api'[n]
         /\ \A n \in Names : Sound(api'[n])
         /\ [L!Next]_(L!states)
<1>1. cur \in Names /\ DOMAIN api = Names
  BY Busy DEF Writing, TypeOK
<1>2. CASE UNCHANGED <<api, synced>>
  BY <1>2, NothingHappens DEF IInv, Coherent
<1>3. CASE /\ Put(cur, Written) /\ api' = [api EXCEPT ![cur] = Stored(Written)]
           /\ Sound(Stored(Written)) /\ Fate(api[cur], Stored(Written))
  <2>1. \A n \in synced' : cache'[n] = api'[n]
    BY <1>1, <1>3 DEF IInv, Coherent, Put, TypeOK
  <2>2. \A n \in Names : Sound(api'[n])
    BY <1>1, <1>3 DEF IInv
  <2> QED
    BY <1>1, <1>3, <2>1, <2>2, FateIsAStep
<1> QED
  BY <1>2, <1>3, Wrote

LEMMA WorkerKeeps ==
  ASSUME TypeOK, IInv, Worker
  PROVE  IInv' /\ [L!Next]_(L!states)
<1>0. pc # "idle" => cur \in Names /\ obj \in Objects /\ obj # Gone
  BY Busy
<1>1. ASSUME pc \in {"initStatus", "initAgain", "addFinalizer", "degrading", "degraded"},
             Write(pc, Written, Onward)
      PROVE  IInv' /\ [L!Next]_(L!states)
  <2>1. pc \in Writing /\ pc # "idle" /\ UNCHANGED cache
    BY <1>1 DEF Writing, Write
  <2>2. /\ \A n \in synced' : cache'[n] = api'[n]
        /\ \A n \in Names : Sound(api'[n])
        /\ [L!Next]_(L!states)
    BY <1>1, <2>1, WriteKeeps DEF Write
  <2>3. CASE Leave({cur})
    BY <2>2, <2>3 DEF Leave, IInv, Coherent, Guards
  <2>4. CASE Accepted(Written) /\ Continue(Onward, Written, TRUE)
    <3>1. /\ obj = api[cur] /\ Exists(cur) /\ Stored(Written) = Written
          /\ api' = [api EXCEPT ![cur] = Written]
      BY <1>1, <2>1, <2>4, Wrote
    <3>2. api'[cur] = Written /\ cur' = cur /\ obj' = Written /\ pc' = Onward
      BY <1>0, <2>1, <2>4, <3>1 DEF Continue, TypeOK
    <3>3. pc' # "idle"
      BY <1>1, <3>2 DEF Onward
    <3>4. Guards'
      BY <1>0, <1>1, <2>1, <3>1, <3>2, WrittenTyped
         DEF IInv, Guards, Sound, Onward, Exists
    <3> QED
      BY <2>2, <3>2, <3>3, <3>4 DEF IInv, Coherent
  <2> QED
    BY <1>1, <2>3, <2>4 DEF Write, Return
<1>2. ASSUME pc \in {"removeFinalizer", "available"}, WriteAndReturn(pc, Written)
      PROVE  IInv' /\ [L!Next]_(L!states)
  <2>1. pc \in Writing /\ UNCHANGED cache
    BY <1>2 DEF Writing, WriteAndReturn
  <2> QED
    BY <1>2, <2>1, WriteKeeps
       DEF WriteAndReturn, Return, Leave, IInv, Coherent, Guards
<1>3. CASE pc = "refetchInit" /\ Refetch(AfterInit(cache[cur]))
  BY <1>0, <1>3, NothingHappens
     DEF Refetch, Return, Leave, Continue, AfterInit, IInv, Coherent, Guards, objects
<1>4. CASE pc = "refetchFinal" /\ Refetch("degraded")
  BY <1>0, <1>4, NothingHappens
     DEF Refetch, Return, Leave, Continue, IInv, Coherent, Guards, Exists, objects
<1>5. CASE Reread
  BY <1>0, <1>5, NothingHappens
     DEF Reread, Return, Leave, Continue, AfterStatus, IInv, Coherent, Guards, objects
<1>6. CASE Applying
  <2>1. /\ UNCHANGED api
        /\ \/ UNCHANGED <<cache, synced, cur, obj, fresh>> /\ pc' = "apply"
           \/ UNCHANGED <<cache, synced>> /\ pc' = "idle" /\ ~fresh'
           \/ cache' = api /\ pc' = "idle" /\ ~fresh'
    BY <1>6 DEF Applying, Invalid, Elect, ElectFails, Dial, AddHandler, AddHandlerFails,
                Panic, ProcessEnds, Restart, Return, Leave, objects, hand
  <2> QED
    BY <2>1, <1>6, NothingHappens
       DEF IInv, Coherent, Guards, Applying, Invalid, Elect, ElectFails, Dial,
           AddHandler, AddHandlerFails, Panic
<1> QED
  BY <1>1, <1>2, <1>3, <1>4, <1>5, <1>6, WorkerSteps

\* An owner's step on the object n that is a step of the life cycle.
LEMMA OwnerKeeps ==
  ASSUME TypeOK, IInv, NEW n \in Names, NEW act, NEW o \in Objects,
         OwnerStores(n, act, o), Sound(Stored(o)), Fate(api[n], Stored(o)),
         Exists(n) /\ api[n].deleting => Stored(o) # Gone /\ Stored(o).deleting
  PROVE  IInv' /\ [L!Next]_(L!states)
<1>1. /\ api' = [api EXCEPT ![n] = Stored(o)] /\ DOMAIN api = Names
      /\ synced' = IF Stored(o) = api[n] THEN synced ELSE synced \ {n}
      /\ fresh' = (fresh /\ (cur # n \/ Stored(o) = api[n]))
      /\ UNCHANGED <<cache, pc, cur, obj>>
  BY DEF OwnerStores, OwnerPuts, Put, TypeOK
<1>2. api'[n] = Stored(o) /\ \A m \in Names \ {n} : api'[m] = api[m]
  BY <1>1
<1>3. pc # "idle" => cur \in Names
  BY Busy
<1>4. Coherent'
  BY <1>1, <1>2, <1>3 DEF IInv, Coherent, TypeOK
<1>5. \A m \in Names : Sound(api'[m])
  BY <1>1 DEF IInv
<1>6. Guards'
  BY <1>1, <1>2, <1>3 DEF IInv, Guards, Exists
<1> QED
  BY <1>1, <1>4, <1>5, <1>6, FateIsAStep DEF IInv

LEMMA WorldKeeps ==
  ASSUME TypeOK, IInv, World
  PROVE  IInv' /\ [L!Next]_(L!states)
<1>1. ASSUME NEW n \in Names, Create(n)
      PROVE  IInv' /\ [L!Next]_(L!states)
  <2>1. PICK c \in Configs : OwnerStores(n, "create", NewObject(c))
    BY <1>1 DEF Create
  <2>2. NewObject(c) \in Objects /\ NewObject(c) # Gone
    BY OwnersObjects, MarkersAssumption
  <2>3. /\ ~NewObject(c).fin /\ ~NewObject(c).deleting
        /\ NewObject(c).avail = "none" /\ NewObject(c).degraded = "none"
    BY DEF NewObject
  <2>4. Stored(NewObject(c)) = NewObject(c) /\ Sound(NewObject(c))
    BY <2>3 DEF Stored, Sound
  <2>5. Fate(api[n], Stored(NewObject(c)))
    BY <1>1, <2>2, <2>3, <2>4 DEF Create, Exists, Fate, Phase, Reported
  <2> QED
    BY <1>1, <2>1, <2>2, <2>4, <2>5, OwnerKeeps DEF Create
<1>2. ASSUME NEW n \in Names, Configure(n)
      PROVE  IInv' /\ [L!Next]_(L!states)
  <2>1. Exists(n) /\ api[n] \in Objects /\ api[n] # Gone /\ Sound(api[n])
    BY <1>2 DEF Configure, Exists, TypeOK, IInv
  <2>2. PICK c \in Configs : OwnerStores(n, "config", [api[n] EXCEPT !.spec = c])
    BY <1>2 DEF Configure
  <2> DEFINE o == [api[n] EXCEPT !.spec = c]
  <2>3. o \in Objects /\ o # Gone
    BY <2>1, MarkersAssumption DEF Objects
  <2>4. /\ o.fin = api[n].fin /\ o.deleting = api[n].deleting
        /\ o.avail = api[n].avail /\ o.degraded = api[n].degraded
    BY <2>1 DEF Objects
  <2>5. Stored(o) = o /\ Sound(o) /\ Fate(api[n], o)
    BY <2>1, <2>3, <2>4 DEF Stored, Sound, Fate, Phase, Reported
  <2> QED
    BY <2>2, <2>3, <2>4, <2>5, OwnerKeeps
<1>3. ASSUME NEW n \in Names, Delete(n)
      PROVE  IInv' /\ [L!Next]_(L!states)
  <2>1. /\ Exists(n) /\ api[n] \in Objects /\ api[n] # Gone /\ ~api[n].deleting
        /\ Sound(api[n]) /\ api[n].fin \in BOOLEAN
    BY <1>3 DEF Delete, Exists, TypeOK, IInv, Objects
  <2> DEFINE o == [api[n] EXCEPT !.deleting = TRUE]
  <2>2. o \in Objects /\ o # Gone
    BY <2>1, MarkersAssumption DEF Objects
  <2>3. /\ o.fin = api[n].fin /\ o.deleting
        /\ o.avail = api[n].avail /\ o.degraded = api[n].degraded
    BY <2>1 DEF Objects
  <2>4. Sound(Stored(o)) /\ Fate(api[n], Stored(o))
    BY <2>1, <2>2, <2>3 DEF Stored, Sound, Fate, Phase, Reported
  <2> QED
    BY <1>3, <2>1, <2>2, <2>4, OwnerKeeps DEF Delete
<1>4. ASSUME NEW n \in Names, Start(n)
      PROVE  IInv' /\ [L!Next]_(L!states)
  BY <1>4, NothingHappens DEF Start, IInv, Coherent, Guards, objects, hand
<1>5. CASE Crash \/ \E n \in Names : CacheSync(n) \/ Resync(n)
  BY <1>5, NothingHappens
     DEF Crash, ProcessEnds, Restart, CacheSync, Informed, Resync, Requeued, IInv,
         Coherent, Guards, Exists, TypeOK, objects, hand
<1>6. ASSUME NEW s \in Services,
             RestartServer(s) \/ ComeUp(s) \/ RetireService(s) \/ ServiceAppears(s)
      PROVE  IInv' /\ [L!Next]_(L!states)
  BY <1>6, NothingHappens
     DEF RestartServer, ComeUp, RetireService, ServiceAppears, IInv, Coherent, Guards,
         Exists, objects, hand
<1> QED
  BY <1>1, <1>2, <1>3, <1>4, <1>5, <1>6 DEF World

LEMMA InitKeeps == Init => IInv /\ L!Init
<1> SUFFICES ASSUME Init PROVE IInv /\ L!Init
  OBVIOUS
<1>1. PICK c \in [Names -> Configs] : api = [n \in Names |-> NewObject(c[n])]
  BY DEF Init
<1>2. \A n \in Names : api[n] # Gone
  BY <1>1, InitTyped, OwnersObjects, MarkersAssumption
<1>3. \A n \in Names : /\ ~api[n].fin /\ ~api[n].deleting
                       /\ api[n].avail = "none" /\ api[n].degraded = "none"
  BY <1>1 DEF NewObject
<1>4. \A n \in Names : Phase(api[n]) = "unguarded" /\ Reported(api[n]) = FALSE
  BY <1>2, <1>3 DEF Phase, Reported
<1> QED
  BY <1>3, <1>4 DEF Init, IInv, Coherent, Guards, Sound, L!Init

LEMMA NextKeeps ==
  ASSUME TypeOK, IInv, [Next]_vars
  PROVE  IInv' /\ [L!Next]_(L!states)
<1>1. CASE UNCHANGED vars
  BY <1>1, NothingHappens DEF vars, objects, hand, IInv, Coherent, Guards, Exists
<1> QED
  BY <1>1, WorkerKeeps, WorldKeeps DEF Next, World

LEMMA Invariant == Spec => []IInv
BY InitKeeps, NextKeeps, TypeCorrect, PTL DEF Spec

\* A V2rayClient object that was reported available has its finalizer,
\* although the finalizer and the condition are written from different copies.
THEOREM Guarded == Spec => []AvailableIsGuarded
<1>1. IInv => AvailableIsGuarded
  BY DEF IInv, Sound, AvailableIsGuarded, Exists
<1> QED
  BY <1>1, Invariant, PTL

\* V2rayClient objects live and go as the abstract life cycle says, although
\* the worker looks at the deletion only after it has applied the spec to the
\* servers, and whatever becomes of that.
THEOREM Implements == Spec => ImplementsLifecycle
BY InitKeeps, NextKeeps, TypeCorrect, Invariant, PTL DEF Spec, ImplementsLifecycle, L!Spec

-----------------------------------------------------------------------------
(* What the servers run for an object that is reported available.           *)

\* Objects keep their specs, and servers and their Services stay and keep what
\* was added to them.
Settled ==
  /\ OwnerMay \subseteq {"delete"}
  /\ Kinds \cap {"list", "restart", "retire", "appear"} = {}

\* A copy has the spec of the object it is, or was, a copy of.
SpecsAgree ==
  /\ \A n \in Names : Exists(n) /\ cache[n] # Gone => api[n].spec = cache[n].spec
  /\ pc # "idle" /\ Exists(cur) => api[cur].spec = obj.spec
  /\ pc # "idle" /\ cache[cur] # Gone => cache[cur].spec = obj.spec

\* The servers of one election run everything that c asks for.
Served(c) == \E E \in Elections(c.nums) : Due(E, c) \subseteq handlers

\* h is still to be added in this pass over the elected servers.
Pending(h) == h.svc \in todo \/ \E i \in DOMAIN calls : calls[i] = h

\* The worker has been through all elected servers.
Passed == {"initAgain", "refetchInit", "addFinalizer", "degrading", "refetchFinal",
           "degraded", "removeFinalizer", "available"}

\* n is reported available.
Up(n) == Exists(n) /\ api[n].avail = "True"

\* What is reported is served, and so is what is about to be.
AllServed ==
  /\ \A n \in Names : Up(n) => Served(api[n].spec)
  /\ pc = "apply" => \E E \in Elections(obj.spec.nums) :
                       \A h \in Due(E, obj.spec) : h \in handlers \/ Pending(h)
  /\ pc \in Passed => Served(obj.spec)

\* What the object in hand needs and an available one has, the worker has
\* still to try to add: it will be refused.
Claims(n) == Needed(api[n].spec) \cap Needed(obj.spec)

AllExclusive ==
  /\ \A n, m \in Names : n # m /\ Up(n) /\ Up(m) =>
       Needed(api[n].spec) \cap Needed(api[m].spec) = {}
  /\ \A n \in Names : n # cur /\ Up(n) =>
       /\ pc = "apply" => \A h \in Claims(n) : Pending(h)
       /\ pc \in Passed => Claims(n) = {}

\* What a server is due, and what an object needs, is a call.
LEMMA DueTo ==
  ASSUME NEW E, NEW c \in Configs, E \subseteq Services
  PROVE  /\ Due(E, c) \subseteq Calls
         /\ \A h \in Due(E, c) :
              /\ h.svc \in E \cap Reachable
              /\ \E i \in DOMAIN CallsTo(h.svc, c) : CallsTo(h.svc, c)[i] = h
<1>1. c.ins \in Seq(Tags) /\ c.outs \in Seq(Tags)
  BY ConfigsAssumption DEF IsConfig
<1>2. ASSUME NEW s \in E \cap Reachable, NEW i \in DOMAIN c.ins
      PROVE  [svc |-> s, kind |-> "in", tag |-> c.ins[i]] \in Calls
  BY <1>1, <1>2 DEF Calls
<1>3. ASSUME NEW s \in E \cap Reachable, NEW i \in DOMAIN c.outs
      PROVE  [svc |-> s, kind |-> "out", tag |-> c.outs[i]] \in Calls
  BY <1>1, <1>3 DEF Calls
<1>4. ASSUME NEW h \in Due(E, c)
      PROVE  /\ h \in Calls /\ h.svc \in E \cap Reachable
             /\ \E i \in DOMAIN CallsTo(h.svc, c) : CallsTo(h.svc, c)[i] = h
  <2>1. CASE \E s \in E \cap Reachable : \E i \in DOMAIN c.ins :
               h = [svc |-> s, kind |-> "in", tag |-> c.ins[i]]
    BY <1>2, <2>1, CallsToTyped
  <2>2. CASE \E s \in E \cap Reachable : \E i \in DOMAIN c.outs :
               h = [svc |-> s, kind |-> "out", tag |-> c.outs[i]]
    BY <1>3, <2>2, CallsToTyped
  <2> QED
    BY <1>4, <2>1, <2>2 DEF Due
<1> QED
  BY <1>4

\* While the Services stay and the servers forget nothing, what is served
\* stays served.
LEMMA StaysServed ==
  ASSUME UNCHANGED svcs, handlers \subseteq handlers', NEW c, Served(c)
  PROVE  Served(c)'
<1>1. Elections(c.nums)' = Elections(c.nums)
  BY DEF Elections, Candidates
<1>2. \A E : Due(E, c)' = Due(E, c)
  BY DEF Due
<1> QED
  BY <1>1, <1>2 DEF Served

LEMMA SameNeeds ==
  ASSUME UNCHANGED svcs, NEW c
  PROVE  Needed(c)' = Needed(c)
BY DEF Needed, Elections, Candidates, Due

\* What a step that reports no further object leaves of what was promised, for
\* the stored objects and for the one in hand.
LEMMA KeepsReports ==
  ASSUME TypeOK, AllServed, AllExclusive, UNCHANGED svcs, handlers \subseteq handlers',
         \A n \in Names : Up(n)' => Up(n) /\ api'[n].spec = api[n].spec
  PROVE  /\ \A n \in Names : Up(n)' => Served(api[n].spec)'
         /\ \A n, m \in Names : n # m /\ Up(n)' /\ Up(m)' =>
              Needed(api[n].spec)' \cap Needed(api[m].spec)' = {}
         /\ pc \in Passed /\ obj'.spec = obj.spec =>
              /\ Served(obj.spec)'
              /\ \A n \in Names : n # cur /\ Up(n)' => Claims(n)' = {}
<1>1. \A n \in Names : Up(n)' => Served(api[n].spec)'
  BY StaysServed DEF AllServed
<1>2. \A n \in Names : Up(n)' => Needed(api[n].spec)' = Needed(api[n].spec)
  BY SameNeeds
<1>3. ASSUME pc \in Passed, obj'.spec = obj.spec
      PROVE  /\ Served(obj.spec)'
             /\ \A n \in Names : n # cur /\ Up(n)' => Claims(n)' = {}
  <2>1. Served(obj.spec)'
    BY <1>3, StaysServed DEF AllServed
  <2>2. Needed(obj.spec)' = Needed(obj.spec)
    BY <1>3, SameNeeds
  <2> QED
    BY <1>2, <1>3, <2>1, <2>2 DEF AllExclusive, Claims
<1> QED
  BY <1>1, <1>2, <1>3 DEF AllExclusive

\* What a write does to the reports: only the last one adds one.
LEMMA WriteReports ==
  ASSUME TypeOK, IInv, SpecsAgree, pc \in Writing,
         Accepted(Written) \/ Refused(Written), UNCHANGED cache
  PROVE  /\ \A n \in Names : Exists(n)' => Exists(n) /\ api'[n].spec = api[n].spec
         /\ \A n \in Names : Up(n)' => Up(n) \/ (n = cur /\ pc = "available")
         /\ \A n \in Names : Exists(n)' /\ cache'[n] # Gone => api'[n].spec = cache'[n].spec
         /\ api'[cur] # Gone => api'[cur].spec = obj.spec
         /\ cache'[cur] # Gone => cache'[cur].spec = obj.spec
<1>1. cur \in Names /\ obj \in Objects /\ DOMAIN api = Names /\ pc # "idle"
  BY Busy DEF Writing, TypeOK
<1>2. CASE UNCHANGED <<api, synced>>
  BY <1>1, <1>2 DEF SpecsAgree, Exists, Up
<1>3. CASE /\ obj = api[cur] /\ Exists(cur)
           /\ api' = [api EXCEPT ![cur] = Stored(Written)]
  <2>1. /\ Written.spec = obj.spec
        /\ Written.avail = "True" => obj.avail = "True" \/ pc = "available"
    BY WrittenTyped DEF Writing
  <2>2. Stored(Written) \in {Gone, Written}
    BY DEF Stored
  <2>3. \A n \in Names \ {cur} : api'[n] = api[n]
    BY <1>3
  <2>4. api'[cur] \in {Gone, Written}
    BY <1>1, <1>3, <2>2
  <2> QED
    BY <1>1, <1>3, <2>1, <2>3, <2>4 DEF SpecsAgree, Exists, Up
<1> QED
  BY <1>2, <1>3, Wrote

Promises == SpecsAgree /\ AllServed /\ AllExclusive

LEMMA WriteServes ==
  ASSUME TypeOK, IInv, Promises,
         pc \in {"initStatus", "initAgain", "addFinalizer", "degrading", "degraded"},
         Write(pc, Written, Onward)
  PROVE  Promises'
<1>1. pc \in Writing /\ pc # "idle" /\ pc # "available" /\ pc # "apply"
  BY DEF Writing
<1>2. UNCHANGED <<cache, svcs, handlers>> /\ (Accepted(Written) \/ Refused(Written))
  BY DEF Write, world
<1>3. cur \in Names /\ obj \in Objects
  BY <1>1, Busy
<1>4. \A n \in Names : Up(n)' => Up(n) /\ api'[n].spec = api[n].spec
  BY <1>1, <1>2, WriteReports DEF Promises, Up
<1>5. \/ pc' = "idle"
      \/ /\ cur' = cur /\ obj' = Written /\ obj'.spec = obj.spec
         /\ \/ pc = "initStatus" /\ pc' = "validate"
            \/ pc \in Passed /\ pc' \in Passed
  BY <1>1, WrittenTyped
     DEF Write, Return, Leave, Continue, Onward, Passed
<1>6. SpecsAgree'
  BY <1>1, <1>2, <1>5, WriteReports DEF Promises, SpecsAgree, Exists
<1>7. AllServed' /\ AllExclusive'
  BY <1>2, <1>4, <1>5, KeepsReports
     DEF Promises, AllServed, AllExclusive, Passed
<1> QED
  BY <1>6, <1>7 DEF Promises

LEMMA LastWriteServes ==
  ASSUME TypeOK, IInv, Promises, pc \in {"removeFinalizer", "available"},
         WriteAndReturn(pc, Written)
  PROVE  Promises'
<1>1. pc \in Writing /\ pc # "idle" /\ pc \in Passed
  BY DEF Writing, Passed
<1>2. /\ UNCHANGED <<cache, svcs, handlers>> /\ pc' = "idle"
      /\ Accepted(Written) \/ Refused(Written)
  BY DEF WriteAndReturn, Return, Leave, world
<1>3. cur \in Names
  BY <1>1, Busy
<1>4. SpecsAgree'
  BY <1>1, <1>2, WriteReports DEF Promises, SpecsAgree
<1>5. \A n \in Names : /\ Up(n)' => api'[n].spec = api[n].spec
                       /\ Up(n)' => Up(n) \/ (n = cur /\ api'[n].spec = obj.spec)
  BY <1>1, <1>2, WriteReports DEF Promises, Up, Exists
<1>6. \A n \in Names : Up(n)' => Served(api[n].spec)'
  BY <1>1, <1>2, <1>5, StaysServed DEF Promises, AllServed
<1>7. \A n \in Names : Up(n)' => Needed(api[n].spec)' = Needed(api'[n].spec)
  BY <1>2, SameNeeds
<1>8. ASSUME NEW n \in Names, NEW m \in Names, n # m, Up(n)', Up(m)'
      PROVE  Needed(api'[n].spec) \cap Needed(api'[m].spec) = {}
  <2>1. CASE Up(n) /\ Up(m)
    BY <1>5, <1>8, <2>1 DEF Promises, AllExclusive
  <2>2. CASE ~Up(n)
    BY <1>1, <1>5, <1>8, <2>2 DEF Promises, AllExclusive, Claims
  <2>3. CASE ~Up(m)
    BY <1>1, <1>5, <1>8, <2>3 DEF Promises, AllExclusive, Claims
  <2> QED
    BY <2>1, <2>2, <2>3
<1> QED
  BY <1>2, <1>4, <1>6, <1>7, <1>8 DEF Promises, AllServed, AllExclusive, Passed

\* The steps that read the object again: everything has been added when the
\* first of them does.
LEMMA ReadServes ==
  ASSUME TypeOK, IInv, Promises,
         \/ pc = "refetchInit" /\ Refetch(AfterInit(cache[cur]))
         \/ pc = "refetchFinal" /\ Refetch("degraded")
         \/ Reread
  PROVE  Promises'
<1>1. UNCHANGED <<api, cache, svcs, handlers>> /\ pc # "idle"
  BY DEF Refetch, Reread, objects, world
<1>2. cur \in Names
  BY <1>1, Busy
<1>3. \/ pc' = "idle"
      \/ /\ cur' = cur /\ obj' = cache[cur] /\ cache[cur] # Gone /\ pc' \in Passed
         /\ pc \in Passed \/ Reread
  BY AfterTyped DEF Refetch, Reread, Return, Leave, Continue, Passed
<1>4. cache[cur] # Gone => cache[cur].spec = obj.spec
  BY <1>1 DEF Promises, SpecsAgree
<1>5. SpecsAgree'
  BY <1>1, <1>2, <1>3, <1>4 DEF Promises, SpecsAgree, Exists
<1>6. ASSUME Reread
      PROVE  Served(obj.spec) /\ \A n \in Names : n # cur /\ Up(n) => Claims(n) = {}
  <2>1. \A h : ~Pending(h)
    BY <1>6 DEF Reread, Pending
  <2>2. pc = "apply"
    BY <1>6 DEF Reread
  <2>3. Served(obj.spec)
    BY <2>1, <2>2 DEF Promises, AllServed, Served
  <2> QED
    BY <2>1, <2>2, <2>3 DEF Promises, AllExclusive
<1>7. pc \in Passed =>
        Served(obj.spec) /\ \A n \in Names : n # cur /\ Up(n) => Claims(n) = {}
  BY DEF Promises, AllServed, AllExclusive
<1>8. \A c : Served(c)' = Served(c) /\ Needed(c)' = Needed(c)
  BY <1>1, SameNeeds DEF Served, Elections, Candidates, Due
<1>9. \A n \in Names : Up(n)' = Up(n)
  BY <1>1 DEF Up, Exists
<1>10. AllServed'
  BY <1>1, <1>3, <1>4, <1>6, <1>7, <1>8, <1>9 DEF Promises, AllServed, Passed
<1>11. AllExclusive'
  BY <1>1, <1>3, <1>4, <1>6, <1>7, <1>8, <1>9
     DEF Promises, AllExclusive, Claims, Passed
<1> QED
  BY <1>5, <1>10, <1>11 DEF Promises

\* The steps of the loop: a server's turn begins, a call succeeds.
LEMMA DialServes ==
  ASSUME TypeOK, Promises, NEW s \in Services, Dial(s)
  PROVE  \A E, h : h \in Due(E, obj.spec) /\ E \subseteq Services /\ Pending(h)
                     => Pending(h)'
<1>1. /\ calls = <<>> /\ calls' = CallsTo(s, obj.spec) /\ todo' = todo \ {s}
      /\ obj \in Objects
  BY Busy DEF Dial
<1>2. ASSUME NEW E, NEW h, h \in Due(E, obj.spec), E \subseteq Services, Pending(h)
      PROVE  Pending(h)'
  <2>1. h.svc \in todo
    BY <1>1, <1>2 DEF Pending
  <2>2. CASE h.svc = s
    BY <1>1, <1>2, <2>2, DueTo DEF Pending, Objects
  <2>3. CASE h.svc # s
    BY <1>1, <2>1, <2>3 DEF Pending
  <2> QED
    BY <2>2, <2>3
<1> QED
  BY <1>2

LEMMA AddServes ==
  ASSUME TypeOK, AddHandler
  PROVE  /\ Head(calls) \notin handlers \/ Head(calls).tag = NoTag
         /\ handlers' = handlers \cup {Head(calls)}
         /\ \A h : Pending(h) /\ h # Head(calls) => Pending(h)'
<1>1. calls \in Seq(Calls) /\ calls # <<>> /\ calls' = Tail(calls) /\ UNCHANGED todo
  BY DEF AddHandler, TypeOK
<1>2. /\ Head(calls) \notin handlers \/ Head(calls).tag = NoTag
      /\ handlers' = handlers \cup {Head(calls)}
  BY DEF AddHandler, Taken
<1>3. ASSUME NEW h, NEW i \in DOMAIN calls, calls[i] = h, h # Head(calls)
      PROVE  \E j \in DOMAIN calls' : calls'[j] = h
  <2>1. Head(calls) = calls[1] /\ Len(calls) \in Nat /\ i \in 1 .. Len(calls) /\ i # 1
    BY <1>1, <1>3
  <2>2. i - 1 \in 1 .. Len(calls) - 1 /\ (i - 1) + 1 = i
    BY <2>1
  <2>3. Len(Tail(calls)) = Len(calls) - 1 /\ Tail(calls)[i - 1] = calls[i]
    BY <1>1, <2>2
  <2>4. i - 1 \in DOMAIN Tail(calls)
    BY <1>1, <2>2, <2>3
  <2> QED
    BY <1>1, <1>3, <2>3, <2>4
<1> QED
  BY <1>1, <1>2, <1>3 DEF Pending

LEMMA ApplyingServes ==
  ASSUME TypeOK, IInv, Promises, Settled, Applying
  PROVE  Promises'
<1>1. pc # "idle" /\ pc \notin Passed /\ cur \in Names /\ obj \in Objects
  BY Busy DEF Applying, Invalid, Elect, ElectFails, Dial, AddHandler, AddHandlerFails,
              Panic, Passed
<1>2. UNCHANGED <<api, svcs>> /\ handlers \subseteq handlers'
  BY DEF Applying, Invalid, Elect, ElectFails, Dial, AddHandler, AddHandlerFails, Panic,
         ProcessEnds, Restart, objects, world
<1>3. \A n \in Names : Up(n)' = Up(n)
  BY <1>2 DEF Up, Exists
<1>4. /\ \A n \in Names : Up(n)' => Served(api[n].spec)'
      /\ \A n, m \in Names : n # m /\ Up(n)' /\ Up(m)' =>
           Needed(api[n].spec)' \cap Needed(api[m].spec)' = {}
  BY <1>2, <1>3, KeepsReports DEF Promises
<1>5. CASE Invalid \/ ElectFails \/ AddHandlerFails \/ Panic
  <2>1. pc' = "idle" /\ cache' \in {cache, api}
    BY <1>5 DEF Invalid, ElectFails, AddHandlerFails, Panic, ProcessEnds, Restart,
                Return, Leave, objects
  <2>2. SpecsAgree'
    BY <1>2, <2>1 DEF Promises, SpecsAgree, Exists
  <2> QED
    BY <1>4, <2>1, <2>2 DEF Promises, AllServed, AllExclusive, Passed
<1>6. CASE Elect \/ AddHandler \/ \E s \in Services : Dial(s)
  <2>1. pc' = "apply" /\ UNCHANGED <<cur, obj, cache>>
    BY <1>6 DEF Elect, AddHandler, Dial, objects, hand
  <2>2. SpecsAgree'
    BY <1>1, <1>2, <2>1 DEF Promises, SpecsAgree, Exists
  <2>3. \A E : E \in Elections(obj.spec.nums)' <=> E \in Elections(obj.spec.nums)
    BY <1>2, <2>1 DEF Elections, Candidates
  <2>4. \A E : Due(E, obj.spec)' = Due(E, obj.spec)
    BY <2>1 DEF Due
  <2>5. \A n \in Names : Claims(n)' = Claims(n)
    BY <1>2, <2>1, SameNeeds DEF Claims
  <2>6. \A E \in Elections(obj.spec.nums) : E \subseteq Services
    BY DEF Elections, TypeOK
  <2>7. \A n \in Names, E \in Elections(obj.spec.nums) : Claims(n) \subseteq Due(E, obj.spec)
    BY DEF Claims, Needed
  <2>8. \A n \in Names : Up(n) => \A h \in Claims(n) : h \in handlers /\ h.tag # NoTag
    BY DEF Claims, Needed, Promises, AllServed, Served
  <2> DEFINE Further ==
        \E E \in Elections(obj.spec.nums) :
          /\ \A h \in Due(E, obj.spec) : h \in handlers' \/ Pending(h)'
          /\ \A n \in Names : n # cur /\ Up(n) => \A h \in Claims(n) : Pending(h)'
  <2>9. Further
    <3>1. CASE Elect
      <4>1. PICK E \in Elections(obj.spec.nums) : todo' = E \cap Reachable
        BY <3>1 DEF Elect, Settled, Misfortune
      <4>2. \A h \in Due(E, obj.spec) : Pending(h)'
        BY <1>1, <2>6, <4>1, DueTo DEF Pending, Objects
      <4> QED
        BY <2>7, <4>1, <4>2
    <3>2. ASSUME NEW s \in Services, Dial(s)
          PROVE  Further
      <4>1. pc = "apply" /\ handlers' = handlers
        BY <3>2 DEF Dial, world
      <4>2. PICK E \in Elections(obj.spec.nums) :
                   \A h \in Due(E, obj.spec) : h \in handlers \/ Pending(h)
        BY <4>1 DEF Promises, AllServed
      <4>3. \A h \in Due(E, obj.spec) : Pending(h) => Pending(h)'
        BY <2>6, <3>2, <4>2, DialServes
      <4> QED
        BY <2>7, <4>1, <4>2, <4>3 DEF Promises, AllExclusive
    <3>3. CASE AddHandler
      <4>1. pc = "apply"
        BY <3>3 DEF AddHandler
      <4>2. PICK E \in Elections(obj.spec.nums) :
                   \A h \in Due(E, obj.spec) : h \in handlers \/ Pending(h)
        BY <4>1 DEF Promises, AllServed
      <4>3. \A n \in Names : n # cur /\ Up(n) => \A h \in Claims(n) : Pending(h)'
        BY <2>8, <3>3, <4>1, AddServes DEF Promises, AllExclusive
      <4> QED
        BY <3>3, <4>2, <4>3, AddServes
    <3> QED
      BY <1>6, <3>1, <3>2, <3>3
  <2> QED
    BY <1>3, <1>4, <2>1, <2>2, <2>3, <2>4, <2>5, <2>9
       DEF Promises, AllServed, AllExclusive, Passed
<1> QED
  BY <1>5, <1>6 DEF Applying

LEMMA WorldServes ==
  ASSUME TypeOK, IInv, Promises, Settled, World
  PROVE  Promises'
<1>1. UNCHANGED svcs /\ handlers \subseteq handlers'
  BY DEF World, Crash, ProcessEnds, Start, CacheSync, Resync, Create, Configure, Delete,
         OwnerStores, RestartServer, ComeUp, RetireService, ServiceAppears, Misfortune,
         Settled, world
<1>2. \A n \in Names : Exists(n)' => Exists(n) /\ api'[n].spec = api[n].spec
                                     /\ api'[n].avail = api[n].avail
  <2>1. ASSUME NEW n \in Names, Delete(n)
        PROVE  \A m \in Names : Exists(m)' => Exists(m) /\ api'[m].spec = api[m].spec
                                              /\ api'[m].avail = api[m].avail
    <3>1. api[n] \in Objects /\ DOMAIN api = Names
      BY <2>1 DEF Delete, Exists, TypeOK
    <3> DEFINE o == [api[n] EXCEPT !.deleting = TRUE]
    <3>2. o.spec = api[n].spec /\ o.avail = api[n].avail /\ Stored(o) \in {Gone, o}
      BY <3>1 DEF Objects, Stored
    <3>3. api' = [api EXCEPT ![n] = Stored(o)] /\ Exists(n)
      BY <2>1 DEF Delete, OwnerStores, OwnerPuts, Put
    <3> HIDE DEF o
    <3> QED
      BY <3>1, <3>2, <3>3 DEF Exists
  <2>2. CASE UNCHANGED api
    BY <2>2 DEF Exists
  <2> QED
    BY <2>1, <2>2
       DEF World, Crash, ProcessEnds, Restart, Start, CacheSync, Informed, Resync,
           Requeued, Create, Configure, OwnerStores, OwnerPuts, RestartServer, ComeUp,
           RetireService, ServiceAppears, Settled, objects
<1>3. \A n \in Names : Up(n)' => Up(n) /\ api'[n].spec = api[n].spec
  BY <1>2 DEF Up, Exists
<1>4. /\ \A n \in Names : Up(n)' => Served(api[n].spec)'
      /\ \A n, m \in Names : n # m /\ Up(n)' /\ Up(m)' =>
           Needed(api[n].spec)' \cap Needed(api[m].spec)' = {}
      /\ pc \in Passed /\ obj'.spec = obj.spec =>
           /\ Served(obj.spec)'
           /\ \A n \in Names : n # cur /\ Up(n)' => Claims(n)' = {}
  BY <1>1, <1>3, KeepsReports DEF Promises
<1>5. \/ UNCHANGED <<pc, cur, obj, todo, calls, handlers, svcs>>
      \/ pc' \in {"idle", "initStatus", "validate"}
  BY DEF World, Crash, ProcessEnds, Restart, Start, CacheSync, Informed, Resync,
         Requeued, Create, Configure, Delete, OwnerStores, OwnerPuts, RestartServer,
         ComeUp, RetireService, ServiceAppears, Misfortune, Settled, hand, loop, world
<1>6. \A n \in Names : \/ cache'[n] = cache[n]
                       \/ cache'[n] = api[n] /\ api'[n] = api[n]
  BY DEF World, Crash, ProcessEnds, Restart, Start, CacheSync, Informed, Resync,
         Requeued, Create, Configure, Delete, OwnerStores, OwnerPuts, RestartServer,
         ComeUp, RetireService, ServiceAppears, TypeOK, objects
<1>7. \/ UNCHANGED <<pc, cur, obj>>
      \/ pc' = "idle"
      \/ /\ pc' # "idle" /\ cur' \in Names /\ obj' = cache[cur'] /\ obj' # Gone
         /\ UNCHANGED <<api, cache>>
  BY DEF World, Crash, ProcessEnds, Restart, Start, CacheSync, Informed, Resync,
         Requeued, Create, Configure, Delete, OwnerStores, OwnerPuts, RestartServer,
         ComeUp, RetireService, ServiceAppears, hand, objects
<1>8. SpecsAgree'
  <2>1. pc # "idle" => cur \in Names
    BY Busy
  <2> QED
    BY <1>2, <1>6, <1>7, <2>1 DEF Promises, SpecsAgree, Exists
<1>9. pc = "apply" /\ UNCHANGED <<pc, cur, obj, todo, calls, handlers, svcs>> =>
        /\ \E E \in Elections(obj.spec.nums)' :
             \A h \in Due(E, obj.spec)' : h \in handlers' \/ Pending(h)'
        /\ \A n \in Names : n # cur /\ Up(n)' => \A h \in Claims(n)' : Pending(h)'
  <2> SUFFICES ASSUME pc = "apply",
                      UNCHANGED <<pc, cur, obj, todo, calls, handlers, svcs>>
               PROVE  /\ \E E \in Elections(obj.spec.nums)' :
                           \A h \in Due(E, obj.spec)' : h \in handlers' \/ Pending(h)'
                      /\ \A n \in Names : n # cur /\ Up(n)' =>
                           \A h \in Claims(n)' : Pending(h)'
    OBVIOUS
  <2>1. \A h : Pending(h)' = Pending(h)
    BY DEF Pending
  <2>2. Elections(obj.spec.nums)' = Elections(obj.spec.nums)
    BY DEF Elections, Candidates
  <2>3. \A E : Due(E, obj.spec)' = Due(E, obj.spec)
    BY DEF Due
  <2>4. \A n \in Names : Up(n)' => Claims(n)' = Claims(n)
    BY <1>3, SameNeeds DEF Claims
  <2> QED
    BY <1>3, <2>1, <2>2, <2>3, <2>4 DEF Promises, AllServed, AllExclusive
<1>10. AllServed'
  BY <1>4, <1>5, <1>9 DEF AllServed, Passed
<1>11. AllExclusive'
  BY <1>4, <1>5, <1>9 DEF AllExclusive, Passed
<1> QED
  BY <1>8, <1>10, <1>11 DEF Promises

LEMMA InitServes == Init => Promises
<1> SUFFICES ASSUME Init PROVE Promises
  OBVIOUS
<1>1. PICK c \in [Names -> Configs] : api = [n \in Names |-> NewObject(c[n])]
  BY DEF Init
<1>2. \A n \in Names : ~Up(n)
  BY <1>1 DEF NewObject, Up
<1>3. pc = "idle" /\ cache = api
  BY DEF Init
<1>4. AllServed /\ AllExclusive
  BY <1>2, <1>3 DEF AllServed, AllExclusive, Passed
<1> QED
  BY <1>3, <1>4 DEF Promises, SpecsAgree

\* Of every pass over the elected servers that went through, what was asked
\* for has arrived, and what two objects both need has been refused to one.
LEMMA PromisesKept ==
  ASSUME Settled
  PROVE  Spec => []Promises
<1>1. TypeOK /\ IInv /\ Promises /\ UNCHANGED vars => Promises'
  <2> SUFFICES ASSUME Promises, UNCHANGED vars PROVE Promises'
    OBVIOUS
  <2>1. /\ \A n : Exists(n)' = Exists(n) /\ Up(n)' = Up(n)
        /\ \A c : Served(c)' = Served(c) /\ Needed(c)' = Needed(c)
        /\ \A h : Pending(h)' = Pending(h)
        /\ \A n : Claims(n)' = Claims(n)
    BY DEF vars, objects, hand, loop, world, Exists, Up, Served, Needed, Elections,
           Candidates, Due, Pending, Claims
  <2>2. SpecsAgree'
    BY <2>1 DEF vars, objects, hand, Promises, SpecsAgree
  <2>3. AllExclusive'
    BY <2>1 DEF vars, objects, hand, Promises, AllExclusive
  <2>4. AllServed'
    <3>1. /\ Elections(obj.spec.nums)' = Elections(obj.spec.nums)
          /\ \A E : Due(E, obj.spec)' = Due(E, obj.spec)
      BY DEF vars, hand, world, Elections, Candidates, Due
    <3> QED
      BY <2>1, <3>1 DEF vars, objects, hand, loop, world, Promises, AllServed
  <2> QED
    BY <2>2, <2>3, <2>4 DEF Promises
<1>2. TypeOK /\ IInv /\ Promises /\ Next => Promises'
  BY WorkerSteps, WriteServes, LastWriteServes, ReadServes, ApplyingServes, WorldServes
     DEF Next, World
<1> QED
  BY InitServes, <1>1, <1>2, TypeCorrect, Invariant, PTL DEF Spec

\* As long as objects keep their specs, lists are answered, and servers and
\* their Services stay, an available object's inbounds and outbounds run on all
\* servers of one election: attempts that failed or crashed half-way, lost
\* answers and copies read again in between never let it be reported sooner.
THEOREM AppliedWhenAvailable ==
  ASSUME Settled
  PROVE  Spec => []AvailableIsApplied
<1>1. Promises => AvailableIsApplied
  BY DEF Promises, AllServed, Served, Up, AvailableIsApplied
<1> QED
  BY <1>1, PromisesKept, PTL

\* Under the same assumption, two available objects never both need one
\* inbound or outbound of a server: whichever comes second is refused, however
\* often it is tried again, and is not reported.
THEOREM Exclusive ==
  ASSUME Settled
  PROVE  Spec => []HandlersAreExclusive
<1>1. Promises => HandlersAreExclusive
  BY DEF Promises, AllExclusive, Up, HandlersAreExclusive
<1> QED
  BY <1>1, PromisesKept, PTL
=============================================================================
