------------------------- MODULE V2rayClientBounds -------------------------
(***************************************************************************)
(* How long a reconciliation of a V2rayClient takes, for any number of     *)
(* Services and handlers.                                                  *)
(***************************************************************************)
EXTENDS V2rayClientProofs

-----------------------------------------------------------------------------
(* The steps a reconciliation has left.                                     *)

LEMMA Sizes ==
  ASSUME NEW S \in SUBSET Services
  PROVE  /\ Cardinality(Services) \in Nat
         /\ IsFiniteSet(S)
         /\ Cardinality(S) \in Nat
         /\ Cardinality(S) <= Cardinality(Services)
BY ServicesAssumption, FS_Subset, FS_CardinalityType

\* The steps of the visit of one Service: a dial, and a call for every handler.
Visit(o) == 1 + Len(o.spec.ins) + Len(o.spec.outs)

LEMMA VisitTyped ==
  ASSUME NEW o \in Objects
  PROVE  Visit(o) \in Nat /\ Visit(o) >= 1
<1>1. o.spec.ins \in Seq(Tags) /\ o.spec.outs \in Seq(Tags)
  BY ConfigsAssumption DEF Objects, IsConfig
<1> DEFINE i == Len(o.spec.ins)
           j == Len(o.spec.outs)
<1>2. i \in Nat /\ j \in Nat /\ Visit(o) = 1 + i + j
  BY <1>1, LenProperties DEF Visit
<1> HIDE DEF i, j
<1> QED
  BY <1>2

LEMMA CallsToLength ==
  ASSUME NEW s \in Services, NEW o \in Objects
  PROVE  Len(CallsTo(s, o.spec)) = Visit(o) - 1
<1> DEFINE c == o.spec
           a == [i \in DOMAIN c.ins  |-> [svc |-> s, kind |-> "in",  tag |-> c.ins[i]]]
           b == [i \in DOMAIN c.outs |-> [svc |-> s, kind |-> "out", tag |-> c.outs[i]]]
<1>1. c.ins \in Seq(Tags) /\ c.outs \in Seq(Tags)
  BY ConfigsAssumption DEF Objects, IsConfig
<1>2. /\ Len(c.ins) \in Nat /\ DOMAIN c.ins = 1 .. Len(c.ins)
      /\ Len(c.outs) \in Nat /\ DOMAIN c.outs = 1 .. Len(c.outs)
      /\ \A i \in DOMAIN c.ins : c.ins[i] \in Tags
      /\ \A i \in DOMAIN c.outs : c.outs[i] \in Tags
  BY <1>1
<1>3. a \in Seq(Calls) /\ Len(a) = Len(c.ins)
  <2>1. \A i \in 1 .. Len(c.ins) : [svc |-> s, kind |-> "in", tag |-> c.ins[i]] \in Calls
    BY <1>2 DEF Calls
  <2>2. a = [i \in 1 .. Len(c.ins) |-> [svc |-> s, kind |-> "in", tag |-> c.ins[i]]]
    BY <1>2
  <2> QED
    BY <1>2, <2>1, <2>2, IsASeq, LenProperties
<1>4. b \in Seq(Calls) /\ Len(b) = Len(c.outs)
  <2>1. \A i \in 1 .. Len(c.outs) : [svc |-> s, kind |-> "out", tag |-> c.outs[i]] \in Calls
    BY <1>2 DEF Calls
  <2>2. b = [i \in 1 .. Len(c.outs) |-> [svc |-> s, kind |-> "out", tag |-> c.outs[i]]]
    BY <1>2
  <2> QED
    BY <1>2, <2>1, <2>2, IsASeq, LenProperties
<1>5. CallsTo(s, c) = a \o b
  BY DEF CallsTo
<1> HIDE DEF a, b
<1>6. Len(a \o b) = Len(a) + Len(b)
  BY <1>3, <1>4, ConcatProperties
<1> DEFINE i == Len(c.ins)
           j == Len(c.outs)
<1>7. i \in Nat /\ j \in Nat /\ Visit(o) = 1 + i + j
  BY <1>2 DEF Visit
<1>8. Len(CallsTo(s, o.spec)) = i + j
  BY <1>3, <1>4, <1>5, <1>6
<1> HIDE DEF i, j
<1> QED
  BY <1>7, <1>8

\* What the arithmetic of the loops comes to.
LEMMA FewerVisits ==
  ASSUME NEW v \in Nat, NEW a \in Nat, NEW b \in Nat, a <= b
  PROVE  /\ a * v \in Nat /\ b * v \in Nat /\ a * v <= b * v
         /\ (a - 1) * v = a * v - v
<1>1. PICK d \in Nat : b = a + d
  <2>1. b - a \in Nat /\ b = a + (b - a)
    OBVIOUS
  <2> QED
    BY <2>1
<1>2. a * v \in Nat /\ d * v \in Nat /\ b * v = a * v + d * v
  BY <1>1
<1>3. (a - 1) * v = a * v - v
  OBVIOUS
<1> QED
  BY <1>2, <1>3

\* How many steps are left at each place.
LEMMA StepsAt ==
  ASSUME TypeOK
  PROVE  /\ pc = "apply" =>
              StepsLeft = 8 + Len(calls) + Cardinality(todo) * Visit(obj)
         /\ pc = "validate" => StepsLeft = 9 + Cardinality(Services) * Visit(obj)
         /\ pc = "initStatus" => StepsLeft = 10 + Cardinality(Services) * Visit(obj)
         /\ pc \in Steps \ {"idle", "apply", "validate", "initStatus"} =>
              StepsLeft \in {1, 2, 3, 4, 5, 6, 7}
         /\ pc = "idle" => StepsLeft = 0
<1>1. CASE pc = "apply"
  BY <1>1 DEF StepsLeft, Visit
<1>2. CASE pc = "validate"
  BY <1>2 DEF StepsLeft, Visit
<1>3. CASE pc = "initStatus"
  BY <1>3 DEF StepsLeft, Visit
<1>4. CASE pc \in Steps \ {"apply", "validate", "initStatus"}
  BY <1>4 DEF StepsLeft, Steps
<1> QED
  BY <1>1, <1>2, <1>3, <1>4 DEF TypeOK

\* Behind the loops fewer steps are left than in or before them.
LEMMA StepsLeftTyped ==
  ASSUME TypeOK
  PROVE  /\ StepsLeft \in Nat
         /\ StepsLeft = 0 <=> pc = "idle"
         /\ pc \in {"apply", "validate", "initStatus"} => StepsLeft >= 8
<1>1. /\ Cardinality(Services) \in Nat /\ Cardinality(todo) \in Nat
      /\ Cardinality(todo) <= Cardinality(Services)
      /\ Len(calls) \in Nat
  BY Sizes, LenProperties DEF TypeOK
<1>2. CASE pc \in {"apply", "validate", "initStatus"}
  <2> DEFINE n == Cardinality(Services) * Visit(obj)
             m == Cardinality(todo) * Visit(obj)
  <2>1. n \in Nat /\ m \in Nat
    BY <1>1, <1>2, Busy, VisitTyped, FewerVisits
  <2>2. \/ pc = "apply" /\ StepsLeft = 8 + Len(calls) + m
        \/ pc = "validate" /\ StepsLeft = 9 + n
        \/ pc = "initStatus" /\ StepsLeft = 10 + n
    BY <1>2, StepsAt
  <2> HIDE DEF n, m
  <2> QED
    BY <1>1, <1>2, <2>1, <2>2
<1>3. CASE pc \in Steps \ {"idle", "apply", "validate", "initStatus"}
  BY <1>3, StepsAt
<1>4. CASE pc = "idle"
  BY <1>4, StepsAt
<1> QED
  BY <1>2, <1>3, <1>4 DEF TypeOK

\* A step that ends the reconciliation leaves nothing.
LEMMA Returns ==
  ASSUME TypeOK, pc # "idle", pc' = "idle"
  PROVE  StepsLeft' < StepsLeft
<1>1. StepsLeft' = 0
  BY DEF StepsLeft
<1> QED
  BY <1>1, StepsLeftTyped

\* Calls are pending in the loop only.
CallsInLoop == pc # "apply" => calls = <<>>

LEMMA WriteCalls ==
  ASSUME CallsInLoop, NEW here \in Steps \ {"apply"}, NEW next, NEW o,
         Write(here, o, next) \/ WriteAndReturn(here, o)
  PROVE  CallsInLoop'
BY DEF CallsInLoop, Write, WriteAndReturn, Return, loop

LEMMA CallsInLoopStep ==
  ASSUME TypeOK, CallsInLoop, [Next]_vars
  PROVE  CallsInLoop'
<1>1. CASE Worker
  <2>1. CASE /\ pc \in {"initStatus", "initAgain", "addFinalizer", "degrading", "degraded"}
             /\ Write(pc, Written, Onward)
    BY <2>1, WriteCalls DEF Steps
  <2>2. CASE pc \in {"removeFinalizer", "available"} /\ WriteAndReturn(pc, Written)
    BY <2>2, WriteCalls DEF Steps
  <2>3. CASE \/ pc = "refetchInit" /\ Refetch(AfterInit(cache[cur]))
             \/ pc = "refetchFinal" /\ Refetch("degraded")
    BY <2>3 DEF CallsInLoop, Refetch, Return, loop
  <2>4. CASE Reread
    BY <2>4 DEF CallsInLoop, Reread, Return, loop
  <2>5. CASE Applying
    BY <2>5 DEF CallsInLoop, Applying, Invalid, Elect, ElectFails, Dial, AddHandler,
       AddHandlerFails, Panic, ProcessEnds, Return, hand
  <2> QED
    BY <1>1, <2>1, <2>2, <2>3, <2>4, <2>5, WorkerSteps
<1>2. CASE World
  BY <1>2 DEF CallsInLoop, World, Crash, ProcessEnds, Start, CacheSync, Informed, Resync,
     Requeued, hand, loop, Create, Configure, Delete, OwnerStores, OwnerPuts,
     RestartServer, ComeUp, RetireService, ServiceAppears
<1>3. CASE UNCHANGED vars
  BY <1>3 DEF CallsInLoop, vars, hand, loop
<1> QED
  BY <1>1, <1>2, <1>3 DEF Next, World

\* The loops: every dial and every call leave fewer of them.
LEMMA LoopsShorten ==
  ASSUME TypeOK, CallsInLoop, Applying
  PROVE  StepsLeft' < StepsLeft
<1>1. pc # "idle"
  BY DEF Applying, Invalid, Elect, ElectFails, Dial, AddHandler, AddHandlerFails, Panic
<1> DEFINE v == Visit(obj)
           n == Cardinality(todo)
<1>2. /\ Cardinality(Services) \in Nat /\ n \in Nat
      /\ Len(calls) \in Nat /\ obj \in Objects /\ v \in Nat
  BY <1>1, Sizes, LenProperties, Busy, VisitTyped DEF TypeOK
<1>3. CASE Invalid \/ ElectFails \/ AddHandlerFails \/ Panic
  <2>1. pc' = "idle"
    BY <1>3 DEF Invalid, ElectFails, AddHandlerFails, Panic, ProcessEnds, Restart,
       Return, Leave
  <2> QED
    BY <1>1, <2>1, Returns
<1>4. ASSUME pc' = "apply", obj' = obj
      PROVE  StepsLeft' = 8 + Len(calls') + Cardinality(todo') * v
  BY <1>4 DEF StepsLeft, Visit
<1>5. CASE Elect
  <2> DEFINE m == Cardinality(todo')
             N == Cardinality(Services)
  <2>1. /\ pc = "validate" /\ pc' = "apply" /\ obj' = obj /\ calls' = <<>>
        /\ todo' \in SUBSET Services
    BY <1>5 DEF Elect, Elections, TypeOK, CallsInLoop
  <2>2. m \in Nat /\ m <= N /\ Len(calls') = 0
    BY <2>1, Sizes
  <2>3. StepsLeft' = 8 + 0 + m * v /\ StepsLeft = 9 + N * v
    BY <1>4, <2>1, <2>2, StepsAt
  <2>4. m * v \in Nat /\ N * v \in Nat /\ m * v <= N * v
    BY <1>2, <2>2, FewerVisits
  <2> HIDE DEF m, v, N
  <2> QED
    BY <2>3, <2>4
<1>6. ASSUME NEW s \in Services, Dial(s)
      PROVE  StepsLeft' < StepsLeft
  <2> DEFINE m == Cardinality(todo')
  <2>1. /\ pc = "apply" /\ pc' = "apply" /\ obj' = obj /\ calls = <<>>
        /\ calls' = CallsTo(s, obj.spec) /\ s \in todo /\ todo' = todo \ {s}
    BY <1>6 DEF Dial, hand
  <2>2. m = n - 1
    BY <2>1, Sizes, FS_RemoveElement DEF TypeOK
  <2>3. Len(calls) = 0 /\ Len(calls') = v - 1
    BY <1>2, <2>1, CallsToLength
  <2>4. StepsLeft' = 8 + (v - 1) + (n - 1) * v /\ StepsLeft = 8 + 0 + n * v
    BY <1>4, <2>1, <2>2, <2>3, StepsAt
  <2>5. n * v \in Nat /\ (n - 1) * v = n * v - v
    BY <1>2, FewerVisits
  <2> HIDE DEF m, v, n
  <2> QED
    BY <1>2, <2>4, <2>5
<1>7. CASE AddHandler
  <2>1. /\ pc = "apply" /\ pc' = "apply" /\ obj' = obj /\ calls # <<>>
        /\ calls' = Tail(calls) /\ todo' = todo
    BY <1>7 DEF AddHandler, hand
  <2>2. Len(calls') = Len(calls) - 1
    BY <2>1 DEF TypeOK
  <2>3. StepsLeft' = 8 + (Len(calls) - 1) + n * v /\ StepsLeft = 8 + Len(calls) + n * v
    BY <1>4, <2>1, <2>2, StepsAt
  <2>4. n * v \in Nat
    BY <1>2, FewerVisits
  <2> DEFINE l == Len(calls)
             w == n * v
  <2>5. StepsLeft' = 8 + (l - 1) + w /\ StepsLeft = 8 + l + w /\ l \in Nat /\ w \in Nat
    BY <1>2, <2>3, <2>4
  <2> HIDE DEF l, w
  <2> QED
    BY <2>5
<1> QED
  BY <1>3, <1>5, <1>6, <1>7 DEF Applying

\* Every other step goes on to a place further down, or returns.
LEMMA Descends ==
  ASSUME TypeOK, CallsInLoop, Worker
  PROVE  StepsLeft' < StepsLeft
<1>1. CASE Applying
  BY <1>1, LoopsShorten
<1>2. CASE pc = "initStatus" /\ Write(pc, Written, Onward)
  <2>1. CASE pc' = "idle"
    BY <1>2, <2>1, Returns
  <2>2. CASE pc' # "idle"
    <3> DEFINE N == Cardinality(Services) * Visit(obj)
    <3>1. pc' = "validate" /\ obj' = Written
      BY <1>2, <2>2 DEF Write, Continue, Return, Leave, Onward
    <3>2. obj'.spec = obj.spec
      BY <1>2, <3>1, WrittenTyped DEF Writing
    <3>3. StepsLeft' = 9 + N
      BY <3>1, <3>2 DEF StepsLeft, Visit
    <3>4. StepsLeft = 10 + N
      BY <1>2, StepsAt
    <3>5. N \in Nat
      BY <1>2, Sizes, Busy, VisitTyped, FewerVisits
    <3> HIDE DEF N
    <3> QED
      BY <3>3, <3>4, <3>5
  <2> QED
    BY <2>1, <2>2
<1>3. CASE /\ pc \in {"initAgain", "addFinalizer", "degrading", "degraded"}
           /\ Write(pc, Written, Onward)
  <2>1. CASE pc' = "idle"
    BY <1>3, <2>1, Returns
  <2>2. CASE pc' # "idle"
    <3>1. pc' = Onward
      BY <1>3, <2>2 DEF Write, Continue, Return, Leave
    <3>2. \/ pc = "initAgain" /\ pc' = "refetchInit"
          \/ pc = "addFinalizer" /\ pc' \in {"degrading", "available"}
          \/ pc = "degrading" /\ pc' = "refetchFinal"
          \/ pc = "degraded" /\ pc' = "removeFinalizer"
      BY <1>3, <3>1 DEF Onward
    <3>3. \/ StepsLeft = 7 /\ StepsLeft' = 6
          \/ StepsLeft = 5 /\ StepsLeft' \in {1, 4}
          \/ StepsLeft = 4 /\ StepsLeft' = 3
          \/ StepsLeft = 2 /\ StepsLeft' = 1
      BY <3>2 DEF StepsLeft
    <3> QED
      BY <3>3
  <2> QED
    BY <2>1, <2>2
<1>4. CASE pc \in {"removeFinalizer", "available"} /\ WriteAndReturn(pc, Written)
  BY <1>4, Returns DEF WriteAndReturn, Return, Leave
<1>5. CASE \/ pc = "refetchInit" /\ Refetch(AfterInit(cache[cur]))
           \/ pc = "refetchFinal" /\ Refetch("degraded")
  <2>1. CASE pc' = "idle"
    BY <1>5, <2>1, Returns
  <2>2. CASE pc' # "idle"
    <3>1. \/ pc = "refetchInit" /\ pc' \in {"addFinalizer", "degrading", "available"}
          \/ pc = "refetchFinal" /\ pc' = "degraded"
      BY <1>5, <2>2, AfterTyped DEF Refetch, Continue, Return, Leave
    <3>2. \/ StepsLeft = 6 /\ StepsLeft' \in {1, 4, 5}
          \/ StepsLeft = 3 /\ StepsLeft' = 2
      BY <3>1 DEF StepsLeft
    <3> QED
      BY <3>2
  <2> QED
    BY <2>1, <2>2
<1>6. CASE Reread
  <2>1. CASE pc' = "idle"
    BY <1>6, <2>1, Returns DEF Reread
  <2>2. CASE pc' # "idle"
    <3>1. pc = "apply" /\ pc' \in {"initAgain", "addFinalizer", "degrading", "available"}
      BY <1>6, <2>2, AfterTyped DEF Reread, Continue, Return, Leave
    <3>2. StepsLeft' \in {1, 4, 5, 7}
      BY <3>1 DEF StepsLeft
    <3> QED
      BY <3>1, <3>2, StepsLeftTyped
  <2> QED
    BY <2>1, <2>2
<1> QED
  BY <1>1, <1>2, <1>3, <1>4, <1>5, <1>6, WorkerSteps

\* While it runs, nobody else takes a reconciliation back.
LEMMA WorldWaits ==
  ASSUME TypeOK, World, pc # "idle"
  PROVE  StepsLeft' <= StepsLeft
<1>1. StepsLeft \in Nat
  BY StepsLeftTyped
<1>2. UNCHANGED <<pc, obj, todo, calls>> \/ pc' = "idle"
  BY DEF World, Crash, ProcessEnds, Restart, Start, CacheSync, Informed, Resync, Requeued,
     hand, loop, Create, Configure, Delete, OwnerStores, OwnerPuts, RestartServer, ComeUp,
     RetireService, ServiceAppears
<1>3. CASE UNCHANGED <<pc, obj, todo, calls>>
  <2>1. StepsLeft' = StepsLeft
    BY <1>3 DEF StepsLeft
  <2> QED
    BY <1>1, <2>1
<1>4. CASE pc' = "idle"
  <2>1. StepsLeft' = 0
    BY <1>4 DEF StepsLeft
  <2> QED
    BY <1>1, <2>1
<1> QED
  BY <1>2, <1>3, <1>4

\* A reconciliation makes at most 10 steps and, for every Service, a dial and a
\* call for every handler of its object, however many objects, regions and
\* failures there are: no loop goes round without getting shorter, and nobody
\* else makes it longer.
THEOREM Bounded ==
  Spec => /\ ReconciliationIsBounded
          /\ [](/\ StepsLeft \in Nat
                /\ pc = "initStatus" => StepsLeft = 10 + Cardinality(Services) * Visit(obj))
<1>1. TypeOK => /\ StepsLeft \in Nat
                /\ pc = "initStatus" => StepsLeft = 10 + Cardinality(Services) * Visit(obj)
  BY StepsLeftTyped, StepsAt
<1>2. Init => CallsInLoop
  BY DEF Init, CallsInLoop
<1>3. TypeOK /\ CallsInLoop /\ [Next]_vars => CallsInLoop'
  BY CallsInLoopStep
<1>4. TypeOK /\ CallsInLoop /\ (StepsLeft \in Nat)' /\ [Next]_vars =>
        [pc # "idle" => /\ StepsLeft' <= StepsLeft
                        /\ Worker => StepsLeft' < StepsLeft]_vars
  <2> SUFFICES ASSUME TypeOK, CallsInLoop, (StepsLeft \in Nat)', Next, pc # "idle"
               PROVE  /\ StepsLeft' <= StepsLeft
                      /\ Worker => StepsLeft' < StepsLeft
    OBVIOUS
  <2>1. CASE Worker
    BY <1>1, <2>1, Descends
  <2>2. CASE ~Worker
    BY <2>2, WorldWaits DEF Next, World
  <2> QED
    BY <2>1, <2>2
<1> QED
  BY TypeCorrect, <1>1, <1>2, <1>3, <1>4, PTL DEF Spec, ReconciliationIsBounded
=============================================================================
