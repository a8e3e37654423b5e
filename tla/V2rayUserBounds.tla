-------------------------- MODULE V2rayUserBounds --------------------------
(***************************************************************************)
(* How long a reconciliation of a V2rayUser takes, and that its election   *)
(* always has an outcome, for any number of Services.                      *)
(***************************************************************************)
EXTENDS V2rayUserProofs

-----------------------------------------------------------------------------
(* The steps a reconciliation has left.                                     *)

\* The sets a loop goes through are no larger than the set of Services.
LEMMA Sizes ==
  ASSUME NEW S \in SUBSET Services
  PROVE  /\ Cardinality(Services) \in Nat
         /\ IsFiniteSet(S)
         /\ Cardinality(S) \in 0 .. Cardinality(Services)
<1>1. /\ IsFiniteSet(S) /\ Cardinality(S) \in Nat /\ Cardinality(Services) \in Nat
      /\ Cardinality(S) <= Cardinality(Services)
  BY FiniteAssumption, FS_Subset, FS_CardinalityType
<1> QED
  BY <1>1

LEMMA StepsLeftBounded ==
  ASSUME TypeOK
  PROVE  /\ StepsLeft \in 0 .. (11 + 3 * Cardinality(Services))
         /\ StepsLeft = 0 <=> pc = "idle"
<1>1. /\ Cardinality(Services) \in Nat
      /\ Cardinality(todo) \in Nat /\ Cardinality(todo) <= Cardinality(Services)
      /\ Cardinality(done) \in Nat /\ Cardinality(done) <= Cardinality(Services)
  BY Sizes DEF TypeOK
<1>2. pc \in Steps
  BY DEF TypeOK
<1> DEFINE n == Cardinality(Services)
<1>3. CASE pc \in {"rollback", "restore"}
  <2>1. StepsLeft = 1 + Cardinality(done)
    BY <1>3 DEF StepsLeft
  <2> QED
    BY <1>1, <1>3, <2>1
<1>4. CASE pc = "finalize"
  <2>1. StepsLeft = 3 + n + Cardinality(todo)
    BY <1>4 DEF StepsLeft
  <2> QED
    BY <1>1, <1>4, <2>1
<1>5. CASE pc = "add"
  <2>1. StepsLeft = 6 + 2 * n + Cardinality(todo)
    BY <1>5 DEF StepsLeft
  <2> QED
    BY <1>1, <1>5, <2>1
<1>6. CASE pc \in Steps \ {"rollback", "restore", "finalize", "add"}
  <2>1. \/ pc = "idle" /\ StepsLeft = 0
        \/ pc # "idle" /\ StepsLeft \in {1, 2}
        \/ pc # "idle" /\ StepsLeft \in {4 + 2 * n, 5 + 2 * n}
        \/ /\ pc # "idle"
           /\ StepsLeft \in {7 + 3 * n, 8 + 3 * n, 9 + 3 * n, 10 + 3 * n, 11 + 3 * n}
    BY <1>6 DEF StepsLeft, Steps
  <2> QED
    BY <1>1, <2>1
<1> QED
  BY <1>2, <1>3, <1>4, <1>5, <1>6

\* The loops make one call for every Service they visit.
LEMMA LoopsShorten ==
  ASSUME TypeOK, NEW s \in Services,
         \/ AddUser(s) \/ AddUserFails(s) \/ Rollback(s)
         \/ RemoveUser(s) \/ RemoveUserFails(s) \/ Restore(s)
  PROVE  StepsLeft' < StepsLeft
<1>1. /\ Cardinality(Services) \in Nat
      /\ Cardinality(todo) \in 0 .. Cardinality(Services)
      /\ Cardinality(done) \in 0 .. Cardinality(Services)
      /\ s \in todo => Cardinality(todo \ {s}) = Cardinality(todo) - 1
      /\ s \in done => Cardinality(done \ {s}) = Cardinality(done) - 1
  BY Sizes, FS_RemoveElement DEF TypeOK
<1>2. CASE AddUser(s) \/ RemoveUser(s)
  <2>1. /\ s \in todo /\ todo' = todo \ {s} /\ pc' = pc /\ pc \in {"add", "finalize"}
    BY <1>2 DEF AddUser, RemoveUser
  <2> QED
    BY <1>1, <2>1 DEF StepsLeft
<1>3. CASE Rollback(s) \/ Restore(s)
  <2>1. /\ s \in done /\ done' = done \ {s} /\ pc' = pc /\ pc \in {"rollback", "restore"}
    BY <1>3 DEF Rollback, Restore
  <2> QED
    BY <1>1, <2>1 DEF StepsLeft
<1>4. CASE AddUserFails(s) \/ RemoveUserFails(s)
  <2>1. /\ done' = done /\ pc \in {"add", "finalize"} /\ pc' \in {"rollback", "restore"}
    BY <1>4 DEF AddUserFails, RemoveUserFails
  <2> QED
    BY <1>1, <2>1 DEF StepsLeft
<1> QED
  BY <1>2, <1>3, <1>4

\* Every other step goes on to a place further down, or returns.
LEMMA Descends ==
  ASSUME TypeOK, Worker
  PROVE  StepsLeft' < StepsLeft
<1>1. /\ Cardinality(Services) \in Nat
      /\ Cardinality(todo) \in 0 .. Cardinality(Services)
      /\ Cardinality(done) \in 0 .. Cardinality(Services)
  BY Sizes DEF TypeOK
<1>2. ASSUME pc # "idle", pc' = "idle"
      PROVE  StepsLeft' < StepsLeft
  <2>1. pc \in Steps
    BY DEF TypeOK
  <2> QED
    BY <1>1, <1>2, <2>1 DEF StepsLeft, Steps
<1>4. CASE InitStatus \/ RefetchInit \/ SaveSpec \/ RefetchSpec
  <2>1. \/ pc' = "idle" /\ pc # "idle"
        \/ pc = "initStatus" /\ pc' = "refetchInit"
        \/ pc = "refetchInit" /\ pc' = "saveSpec"
        \/ pc = "saveSpec" /\ pc' = "refetchSpec"
        \/ pc = "refetchSpec" /\ pc' = "elect"
    BY <1>4 DEF InitStatus, RefetchInit, SaveSpec, RefetchSpec, Write, Refetch,
       Continue, Return, Leave
  <2>2. CASE pc' = "idle" /\ pc # "idle"
    BY <1>2, <2>2
  <2>3. CASE ~(pc' = "idle" /\ pc # "idle")
    BY <1>1, <2>1, <2>3 DEF StepsLeft
  <2> QED
    BY <2>2, <2>3
<1>5. CASE Elect
  <2>1. /\ pc = "elect" /\ pc' \in {"noNode", "add"} /\ todo' \subseteq svcs
    BY <1>5 DEF Elect, Elections
  <2>2. Cardinality(todo') \in 0 .. Cardinality(Services)
    BY <2>1, Sizes DEF TypeOK
  <2> QED
    BY <1>1, <2>1, <2>2 DEF StepsLeft
<1>6. CASE SaveNodes
  <2>1. /\ pc = "add"
        /\ \/ pc' \in {"addFinalizer", "degrading", "available"}
           \/ pc' = "rollback" /\ done' = done
    BY <1>6 DEF SaveNodes, Continue, AfterAdding, calls
  <2> QED
    BY <1>1, <2>1 DEF StepsLeft
<1>7. CASE AddFinalizer \/ Degrade \/ RefetchFinal \/ MarkDegraded
  <2>1. \/ pc' = "idle" /\ pc # "idle"
        \/ pc = "addFinalizer" /\ pc' \in {"degrading", "available"}
        \/ pc = "degrading" /\ pc' = "finalize" /\ todo' \subseteq Services
        \/ pc = "finalize" /\ pc' = "degraded"
        \/ pc = "degraded" /\ pc' = "removeFinalizer"
    <3>1. pc = "degrading" => Listed([obj EXCEPT !.degraded = "Unknown"]) \subseteq Services
      <4>1. pc = "degrading" => [obj EXCEPT !.degraded = "Unknown"] \in Objects
        BY Busy, ObjectFields DEF Degraded
      <4> QED
        BY <4>1, ListedTyped
    <3> QED
      BY <1>7, <3>1 DEF AddFinalizer, Degrade, RefetchFinal, MarkDegraded, Write, Refetch,
         Continue, Return, Leave
  <2>2. todo' \subseteq Services => Cardinality(todo') \in 0 .. Cardinality(Services)
    BY Sizes
  <2>3. CASE pc' = "idle" /\ pc # "idle"
    BY <1>2, <2>3
  <2>4. CASE ~(pc' = "idle" /\ pc # "idle")
    BY <1>1, <2>1, <2>2, <2>4 DEF StepsLeft
  <2> QED
    BY <2>3, <2>4
<1>8. CASE ElectFails \/ NoNode \/ AddFailed \/ Available \/ RemoveFinalizer \/ RestoreDone
  <2>1. pc' = "idle" /\ pc # "idle"
    BY <1>8 DEF ElectFails, NoNode, AddFailed, Available, RemoveFinalizer, RestoreDone,
       WriteAndReturn, Return, Leave
  <2> QED
    BY <1>2, <2>1
<1> QED
  BY <1>4, <1>5, <1>6, <1>7, <1>8, LoopsShorten DEF Worker

\* While it runs, nobody else takes a reconciliation back.
LEMMA WorldWaits ==
  ASSUME TypeOK, World, pc # "idle"
  PROVE  StepsLeft' <= StepsLeft
<1>1. StepsLeft \in Nat
  BY StepsLeftBounded, Sizes
<1>2. \/ UNCHANGED <<pc, todo, done>>
      \/ pc' = "idle"
  BY DEF World, Deadline, Crash, PanicElsewhere, ProcessEnds, Restart, Start, CacheSync,
     Informed, Resync, Requeued, hand, Create, Edit, Delete, OwnerStores, OwnerPuts, calls,
     RestartServer, ComeUp, RetireService, ServiceAppears, InboundAppears, worker
<1>3. CASE UNCHANGED <<pc, todo, done>>
  <2>1. StepsLeft' = StepsLeft
    BY <1>3 DEF StepsLeft
  <2> QED
    BY <1>1, <2>1
<1>4. CASE pc' = "idle"
  <2>1. StepsLeft' = 0
    BY <1>4 DEF StepsLeft
  <2> QED
    BY <1>1, <2>1
<1> QED
  BY <1>2, <1>3, <1>4

\* A reconciliation makes at most 11 steps and 3 for every Service, however
\* many objects, regions and failures there are: no loop goes round without
\* getting shorter, and nobody else makes it longer.
THEOREM Bounded ==
  Spec => /\ ReconciliationIsBounded
          /\ [](StepsLeft \in 0 .. (11 + 3 * Cardinality(Services)))
<1>1. TypeOK => /\ StepsLeft \in Nat
                /\ StepsLeft \in 0 .. (11 + 3 * Cardinality(Services))
  BY StepsLeftBounded, Sizes
<1>2. TypeOK /\ (StepsLeft \in Nat)' /\ [Next]_vars =>
        [pc # "idle" => /\ StepsLeft' <= StepsLeft
                        /\ Worker => StepsLeft' < StepsLeft]_vars
  <2> SUFFICES ASSUME TypeOK, (StepsLeft \in Nat)', Next, pc # "idle"
               PROVE  /\ StepsLeft' <= StepsLeft
                      /\ Worker => StepsLeft' < StepsLeft
    OBVIOUS
  <2>1. CASE Worker
    BY <1>1, <2>1, Descends
  <2>2. CASE ~Worker
    BY <2>2, WorldWaits DEF Next, World
  <2> QED
    BY <2>1, <2>2
<1> QED
  BY TypeCorrect, <1>1, <1>2, PTL DEF Spec, ReconciliationIsBounded

-----------------------------------------------------------------------------
(* Elections.                                                               *)

LEMMA CandidatesFinite ==
  ASSUME TypeOK, NEW r \in Regions
  PROVE  /\ Candidates(r) \subseteq svcs
         /\ IsFiniteSet(Candidates(r)) /\ Cardinality(Candidates(r)) \in Nat
         /\ Cardinality(Candidates(r)) = 0 <=> Candidates(r) = {}
<1>1. Candidates(r) \subseteq svcs /\ Candidates(r) \in SUBSET Services
  BY DEF Candidates, TypeOK
<1> QED
  BY <1>1, Sizes, FS_EmptySet

\* A region that has Services gets at least one, and never more than it has.
LEMMA QuotaInReach ==
  ASSUME TypeOK, NEW entry \in Entries, NEW r \in Regions
  PROVE  /\ Quota(entry, r) \in Nat
         /\ Quota(entry, r) <= Cardinality(Candidates(r))
         /\ Quota(entry, r) = 0 <=> Candidates(r) = {}
BY CandidatesFinite DEF Quota, Smaller, Entries

\* The worker can always elect, and finds a Service where there is one.
LEMMA ElectionsHeld ==
  ASSUME TypeOK, NEW nl \in NodeLists
  PROVE  /\ Elections(nl) # {}
         /\ \A E \in Elections(nl) : E = {} <=> \A r \in Named(nl) : Candidates(r) = {}
<1>1. \A r \in Named(nl) : r \in Regions /\ nl[r] \in Entries
  BY DEF Named, NodeLists
<1>2. Elections(nl) # {}
  <2> DEFINE Choices(r) == {T \in SUBSET Candidates(r) : Cardinality(T) = Quota(nl[r], r)}
             f == [r \in Named(nl) |-> CHOOSE T : T \in Choices(r)]
  <2>1. \A r \in Named(nl) : f[r] \in Choices(r)
    <3> SUFFICES ASSUME NEW r \in Named(nl) PROVE \E T : T \in Choices(r)
      OBVIOUS
    <3> QED
      BY <1>1, CandidatesFinite, QuotaInReach, SubsetOfSize
  <2>2. DOMAIN f = Named(nl) /\ f = [r \in Named(nl) |-> f[r]]
    OBVIOUS
  <2> HIDE DEF f
  <2>3. \A r \in Named(nl) : /\ f[r] \subseteq Candidates(r) /\ f[r] \subseteq svcs
                             /\ Cardinality(f[r]) = Quota(nl[r], r)
    <3> SUFFICES ASSUME NEW r \in Named(nl)
                 PROVE  /\ f[r] \subseteq Candidates(r) /\ f[r] \subseteq svcs
                        /\ Cardinality(f[r]) = Quota(nl[r], r)
      OBVIOUS
    <3>1. f[r] \in SUBSET Candidates(r) /\ Cardinality(f[r]) = Quota(nl[r], r)
      BY <2>1
    <3> QED
      BY <1>1, <3>1, CandidatesFinite
  <2>4. f \in [Named(nl) -> SUBSET svcs]
    BY <2>2, <2>3
  <2>5. UNION {f[r] : r \in Named(nl)} \in Elections(nl)
    BY <2>4, <2>3 DEF Elections
  <2> QED
    BY <2>5
<1>3. ASSUME NEW E \in Elections(nl)
      PROVE  E = {} <=> \A r \in Named(nl) : Candidates(r) = {}
  <2>1. PICK f \in [Named(nl) -> SUBSET svcs] :
          /\ \A r \in Named(nl) : /\ f[r] \subseteq Candidates(r)
                                 /\ Cardinality(f[r]) = Quota(nl[r], r)
          /\ E = UNION {f[r] : r \in Named(nl)}
    BY <1>3 DEF Elections
  <2>2. \A r \in Named(nl) : f[r] = {} <=> Candidates(r) = {}
    <3> SUFFICES ASSUME NEW r \in Named(nl), Candidates(r) # {} PROVE f[r] # {}
      BY <2>1
    <3>1. Quota(nl[r], r) # 0
      BY <1>1, QuotaInReach
    <3> QED
      BY <2>1, <3>1, FS_EmptySet
  <2> QED
    BY <2>1, <2>2
<1> QED
  BY <1>2, <1>3

\* Whatever the nodeList and the Services are, the worker never stands still at
\* the election, and reports NoNodeElected only when there was no Service to
\* elect.
THEOREM Found == Spec => []NodesAreFound
<1>1. TypeOK => NodesAreFound
  <2> SUFFICES ASSUME TypeOK, pc = "elect"
               PROVE  /\ Elections(obj.nodeList) # {}
                      /\ \A E \in Elections(obj.nodeList) :
                           E = {} <=> \A r \in Named(obj.nodeList) : Candidates(r) = {}
    BY DEF NodesAreFound
  <2>1. obj.nodeList \in NodeLists
    BY Busy DEF Objects
  <2> QED
    BY <2>1, ElectionsHeld
<1> QED
  BY TypeCorrect, <1>1, PTL
=============================================================================
