-------------------------- MODULE OperatorTransfer --------------------------
(***************************************************************************)
(* What is proved of each controller alone holds of the two in one         *)
(* process: the theorems of V2rayUserProofs, V2rayUserBounds,              *)
(* V2rayClientProofs and V2rayClientBounds, carried over.                  *)
(*                                                                         *)
(* OperatorProofs shows that the manager implements each controller's      *)
(* specification, as U and C instantiate it. UB and CB instantiate the     *)
(* modules that hold the theorems, in the same way; what they inherit      *)
(* from the controllers' modules says the same as in U and C, which is     *)
(* seen when it is expanded to the manager's variables.                    *)
(***************************************************************************)
EXTENDS OperatorProofs

UB == INSTANCE V2rayUserBounds WITH
       Names <- Users, OwnerMay <- UserMay, Kinds <- UserKinds,
       api <- userApi, cache <- userCache, synced <- userSynced,
       queue <- userQueue, pc <- userPc, cur <- userCur, obj <- userObj,
       fresh <- userFresh, faults <- userFaults, edits <- userEdits,
       todo <- userTodo, done <- userDone, inbounds <- Inbounds

CB == INSTANCE V2rayClientBounds WITH
       Names <- Clients, OwnerMay <- ClientMay, Kinds <- ClientKinds,
       Reachable <- Grpc,
       api <- clientApi, cache <- clientCache, synced <- clientSynced,
       queue <- clientQueue, pc <- clientPc, cur <- clientCur, obj <- clientObj,
       fresh <- clientFresh, faults <- clientFaults, edits <- clientEdits,
       todo <- clientTodo, calls <- clientCalls

-----------------------------------------------------------------------------
(* The two instances of each controller say the same.                       *)

LEMMA SameUserSpec == U!Spec <=> UB!Spec
BY DEF
   U!Spec, UB!Spec, U!Init, UB!Init, U!Next, UB!Next, U!vars, UB!vars, U!NewObject,
   UB!NewObject, U!Worker, UB!Worker, U!Deadline, UB!Deadline, U!Crash, UB!Crash,
   U!PanicElsewhere, UB!PanicElsewhere, U!Start, UB!Start, U!CacheSync,
   UB!CacheSync, U!Resync, UB!Resync, U!Create, UB!Create, U!Edit, UB!Edit,
   U!Delete, UB!Delete, U!RestartServer, UB!RestartServer, U!ComeUp, UB!ComeUp,
   U!RetireService, UB!RetireService, U!ServiceAppears, UB!ServiceAppears,
   U!InboundAppears, UB!InboundAppears, U!worker, UB!worker, U!world, UB!world,
   U!InitStatus, UB!InitStatus, U!RefetchInit, UB!RefetchInit, U!SaveSpec,
   UB!SaveSpec, U!RefetchSpec, UB!RefetchSpec, U!Elect, UB!Elect, U!ElectFails,
   UB!ElectFails, U!NoNode, UB!NoNode, U!AddUser, UB!AddUser, U!AddUserFails,
   UB!AddUserFails, U!Rollback, UB!Rollback, U!SaveNodes, UB!SaveNodes, U!AddFailed,
   UB!AddFailed, U!AddFinalizer, UB!AddFinalizer, U!Available, UB!Available,
   U!Degrade, UB!Degrade, U!RefetchFinal, UB!RefetchFinal, U!MarkDegraded,
   UB!MarkDegraded, U!RemoveFinalizer, UB!RemoveFinalizer, U!RemoveUser,
   UB!RemoveUser, U!RemoveUserFails, UB!RemoveUserFails, U!Restore, UB!Restore,
   U!RestoreDone, UB!RestoreDone, U!Misfortune, UB!Misfortune, U!ProcessEnds,
   UB!ProcessEnds, U!HasConditions, UB!HasConditions, U!calls, UB!calls, U!Informed,
   UB!Informed, U!Requeued, UB!Requeued, U!Exists, UB!Exists, U!OwnerStores,
   UB!OwnerStores, U!Forget, UB!Forget, U!Write, UB!Write, U!Refetch, UB!Refetch,
   U!Elections, UB!Elections, U!Return, UB!Return, U!WriteAndReturn,
   UB!WriteAndReturn, U!Dialled, UB!Dialled, U!Runs, UB!Runs, U!Register,
   UB!Register, U!Unregister, UB!Unregister, U!Rebuilt, UB!Rebuilt, U!Accepted,
   UB!Accepted, U!Continue, UB!Continue, U!AfterAdding, UB!AfterAdding, U!Refused,
   UB!Refused, U!Listed, UB!Listed, U!Restart, UB!Restart, U!hand, UB!hand,
   U!objects, UB!objects, U!OwnerPuts, UB!OwnerPuts, U!Named, UB!Named,
   U!Candidates, UB!Candidates, U!Quota, UB!Quota, U!Leave, UB!Leave, U!Put, UB!Put,
   U!Stored, UB!Stored, U!Smaller, UB!Smaller, U!Cardinality, UB!Cardinality

LEMMA SameClientSpec == C!Spec <=> CB!Spec
BY DEF
   C!Spec, CB!Spec, C!Init, CB!Init, C!Next, CB!Next, C!vars, CB!vars, C!NewObject,
   CB!NewObject, C!Worker, CB!Worker, C!Crash, CB!Crash, C!Start, CB!Start,
   C!CacheSync, CB!CacheSync, C!Resync, CB!Resync, C!Create, CB!Create, C!Configure,
   CB!Configure, C!Delete, CB!Delete, C!RestartServer, CB!RestartServer, C!ComeUp,
   CB!ComeUp, C!RetireService, CB!RetireService, C!ServiceAppears,
   CB!ServiceAppears, C!objects, CB!objects, C!hand, CB!hand, C!loop, CB!loop,
   C!world, CB!world, C!Working, CB!Working, C!Panic, CB!Panic, C!Misfortune,
   CB!Misfortune, C!ProcessEnds, CB!ProcessEnds, C!HasConditions, CB!HasConditions,
   C!Informed, CB!Informed, C!Requeued, CB!Requeued, C!Exists, CB!Exists,
   C!OwnerStores, CB!OwnerStores, C!Forget, CB!Forget, C!InitStatus, CB!InitStatus,
   C!Invalid, CB!Invalid, C!Elect, CB!Elect, C!ElectFails, CB!ElectFails, C!Dial,
   CB!Dial, C!AddHandler, CB!AddHandler, C!AddHandlerFails, CB!AddHandlerFails,
   C!Reread, CB!Reread, C!InitAgain, CB!InitAgain, C!RefetchInit, CB!RefetchInit,
   C!AddFinalizer, CB!AddFinalizer, C!Degrade, CB!Degrade, C!RefetchFinal,
   CB!RefetchFinal, C!MarkDegraded, CB!MarkDegraded, C!RemoveFinalizer,
   CB!RemoveFinalizer, C!Available, CB!Available, C!Restart, CB!Restart,
   C!OwnerPuts, CB!OwnerPuts, C!Write, CB!Write, C!Return, CB!Return, C!Elections,
   CB!Elections, C!CallsTo, CB!CallsTo, C!Taken, CB!Taken, C!Continue, CB!Continue,
   C!AfterStatus, CB!AfterStatus, C!Refetch, CB!Refetch, C!WriteAndReturn,
   CB!WriteAndReturn, C!Put, CB!Put, C!Stored, CB!Stored, C!Accepted, CB!Accepted,
   C!Refused, CB!Refused, C!Leave, CB!Leave, C!Candidates, CB!Candidates, C!Smaller,
   CB!Smaller, C!Cardinality, CB!Cardinality

-----------------------------------------------------------------------------
(* What the theorems assume of the constants.                               *)

\* What the user controller's theorems assume of the constants.
LEMMA UserConstants ==
  /\ None \notin Users
  /\ MaxFaults \in Nat /\ MaxEdits \in Nat
  /\ Label \in [Services -> Regions]
  /\ Lower \in [Regions -> Regions]
  /\ Grpc \subseteq Services
  /\ InboundOf \in [Emails -> Tags] /\ Static \subseteq Services \X Tags
  /\ DOMAIN Specs = Users /\ \A u \in Users : \A spec \in Specs[u] : spec \in UB!Wanted
  /\ InitialServices \subseteq Services
  /\ UB!IsFiniteSet(Services)
  /\ NoId \notin Ids /\ NoEntry \notin UB!Entries /\ Gone \notin UB!Objects
BY NamesAssumption, BoundsAssumption, RegionsAssumption, ServicesAssumption,
   TagsAssumption, SpecsAssumption, MarkersAssumption
   DEF IsFiniteSet, UB!IsFiniteSet, U!Wanted, UB!Wanted, U!NodeLists, UB!NodeLists,
       U!Entries, UB!Entries, U!Objects, UB!Objects, U!Avail, UB!Avail, U!Degraded,
       UB!Degraded

\* What the client controller's theorems assume.
LEMMA ClientConstants ==
  /\ None \notin Clients
  /\ MaxFaults \in Nat /\ MaxEdits \in Nat
  /\ Label \in [Services -> Regions]
  /\ \A c \in Configs : CB!IsConfig(c)
  /\ CB!IsFiniteSet(Services) /\ InitialServices \subseteq Services /\ Grpc \subseteq Services
  /\ Unbuildable \subseteq Tags
  /\ Gone \notin CB!Objects
BY NamesAssumption, BoundsAssumption, RegionsAssumption, ServicesAssumption,
   TagsAssumption, ConfigsAssumption, MarkersAssumption
   DEF IsFiniteSet, CB!IsFiniteSet, C!IsConfig, CB!IsConfig, C!Objects, CB!Objects,
       C!Avail, CB!Avail, C!Degraded, CB!Degraded

\* The manager implements each controller as the theorems know it.
LEMMA UserImplements == Spec => UB!Spec
BY UserUndisturbed, SameUserSpec DEF UserControllerUndisturbed

LEMMA ClientImplements == Spec => CB!Spec
BY ClientUndisturbed, SameClientSpec DEF ClientControllerUndisturbed

LEMMA SameUserTypes == U!TypeOK <=> UB!TypeOK
BY DEF
   U!TypeOK, UB!TypeOK, U!Objects, UB!Objects, U!Steps, UB!Steps, U!NodeLists,
   UB!NodeLists, U!Avail, UB!Avail, U!Degraded, UB!Degraded, U!Entries, UB!Entries

LEMMA SameUserGuards == U!AvailableIsGuarded <=> UB!AvailableIsGuarded
BY DEF
   U!AvailableIsGuarded, UB!AvailableIsGuarded, U!Exists, UB!Exists

LEMMA SameUserNodes == U!NodesAreFound <=> UB!NodesAreFound
BY DEF
   U!NodesAreFound, UB!NodesAreFound, U!Elections, UB!Elections, U!Named, UB!Named,
   U!Candidates, UB!Candidates, U!Quota, UB!Quota, U!Smaller, UB!Smaller,
   U!Cardinality, UB!Cardinality

LEMMA SameUserServed == U!AvailableIsServed <=> UB!AvailableIsServed
BY DEF
   U!AvailableIsServed, UB!AvailableIsServed, U!Exists, UB!Exists, U!Settled,
   UB!Settled, U!Listed, UB!Listed, U!Named, UB!Named

LEMMA SameUserCredentials == U!CredentialsMatch <=> UB!CredentialsMatch
BY DEF
   U!CredentialsMatch, UB!CredentialsMatch, U!Exists, UB!Exists

LEMMA SameUserIds == U!IdNeverReplaced <=> UB!IdNeverReplaced
BY DEF
   U!IdNeverReplaced, UB!IdNeverReplaced, U!Exists, UB!Exists, U!vars, UB!vars,
   U!worker, UB!worker, U!world, UB!world

LEMMA SameUserBound == U!ReconciliationIsBounded <=> UB!ReconciliationIsBounded
BY DEF
   U!ReconciliationIsBounded, UB!ReconciliationIsBounded, U!StepsLeft, UB!StepsLeft,
   U!Worker, UB!Worker, U!vars, UB!vars, U!InitStatus, UB!InitStatus, U!RefetchInit,
   UB!RefetchInit, U!SaveSpec, UB!SaveSpec, U!RefetchSpec, UB!RefetchSpec, U!Elect,
   UB!Elect, U!ElectFails, UB!ElectFails, U!NoNode, UB!NoNode, U!AddUser,
   UB!AddUser, U!AddUserFails, UB!AddUserFails, U!Rollback, UB!Rollback,
   U!SaveNodes, UB!SaveNodes, U!AddFailed, UB!AddFailed, U!AddFinalizer,
   UB!AddFinalizer, U!Available, UB!Available, U!Degrade, UB!Degrade,
   U!RefetchFinal, UB!RefetchFinal, U!MarkDegraded, UB!MarkDegraded,
   U!RemoveFinalizer, UB!RemoveFinalizer, U!RemoveUser, UB!RemoveUser,
   U!RemoveUserFails, UB!RemoveUserFails, U!Restore, UB!Restore, U!RestoreDone,
   UB!RestoreDone, U!worker, UB!worker, U!world, UB!world, U!Write, UB!Write,
   U!Refetch, UB!Refetch, U!Elections, UB!Elections, U!Misfortune, UB!Misfortune,
   U!Return, UB!Return, U!WriteAndReturn, UB!WriteAndReturn, U!Dialled, UB!Dialled,
   U!Runs, UB!Runs, U!Register, UB!Register, U!Unregister, UB!Unregister, U!Rebuilt,
   UB!Rebuilt, U!Accepted, UB!Accepted, U!Continue, UB!Continue, U!AfterAdding,
   UB!AfterAdding, U!calls, UB!calls, U!Refused, UB!Refused, U!Listed, UB!Listed,
   U!Named, UB!Named, U!Candidates, UB!Candidates, U!Quota, UB!Quota, U!Leave,
   UB!Leave, U!Put, UB!Put, U!Smaller, UB!Smaller, U!Stored, UB!Stored,
   U!Cardinality, UB!Cardinality

LEMMA SameUserRemoval == U!RemovalIsClean <=> UB!RemovalIsClean
BY DEF
   U!RemovalIsClean, UB!RemovalIsClean, U!Exists, UB!Exists, U!Listed, UB!Listed,
   U!vars, UB!vars, U!Named, UB!Named, U!worker, UB!worker, U!world, UB!world

LEMMA SameUserLife == U!ImplementsLifecycle <=> UB!ImplementsLifecycle
BY DEF
   U!ImplementsLifecycle, UB!ImplementsLifecycle, U!Phase, UB!Phase, U!Reported,
   UB!Reported, U!L!Spec, UB!L!Spec, U!L!Init, UB!L!Init, U!L!Next, UB!L!Next,
   U!L!states, UB!L!states, U!L!Create, UB!L!Create, U!L!Discard, UB!L!Discard,
   U!L!Guard, UB!L!Guard, U!L!Doom, UB!L!Doom, U!L!Note, UB!L!Note, U!L!Renew,
   UB!L!Renew, U!L!Release, UB!L!Release, U!L!Report, UB!L!Report, U!L!Withdraw,
   UB!L!Withdraw, U!L!Moves, UB!L!Moves

LEMMA SameClientTypes == C!TypeOK <=> CB!TypeOK
BY DEF
   C!TypeOK, CB!TypeOK, C!Objects, CB!Objects, C!Steps, CB!Steps, C!Calls, CB!Calls,
   C!Avail, CB!Avail, C!Degraded, CB!Degraded

LEMMA SameClientGuards == C!AvailableIsGuarded <=> CB!AvailableIsGuarded
BY DEF
   C!AvailableIsGuarded, CB!AvailableIsGuarded, C!Exists, CB!Exists

LEMMA SameClientApplied == C!AvailableIsApplied <=> CB!AvailableIsApplied
BY DEF
   C!AvailableIsApplied, CB!AvailableIsApplied, C!Exists, CB!Exists, C!Elections,
   CB!Elections, C!Due, CB!Due, C!Candidates, CB!Candidates, C!Smaller, CB!Smaller,
   C!Cardinality, CB!Cardinality

LEMMA SameClientExclusive == C!HandlersAreExclusive <=> CB!HandlersAreExclusive
BY DEF
   C!HandlersAreExclusive, CB!HandlersAreExclusive, C!Exists, CB!Exists, C!Needed,
   CB!Needed, C!Calls, CB!Calls, C!Elections, CB!Elections, C!Due, CB!Due,
   C!Candidates, CB!Candidates, C!Smaller, CB!Smaller, C!Cardinality, CB!Cardinality

LEMMA SameClientBound == C!ReconciliationIsBounded <=> CB!ReconciliationIsBounded
BY DEF
   C!ReconciliationIsBounded, CB!ReconciliationIsBounded, C!StepsLeft, CB!StepsLeft,
   C!Worker, CB!Worker, C!vars, CB!vars, C!Working, CB!Working, C!Panic, CB!Panic,
   C!objects, CB!objects, C!hand, CB!hand, C!loop, CB!loop, C!world, CB!world,
   C!InitStatus, CB!InitStatus, C!Invalid, CB!Invalid, C!Elect, CB!Elect,
   C!ElectFails, CB!ElectFails, C!Dial, CB!Dial, C!AddHandler, CB!AddHandler,
   C!AddHandlerFails, CB!AddHandlerFails, C!Reread, CB!Reread, C!InitAgain,
   CB!InitAgain, C!RefetchInit, CB!RefetchInit, C!AddFinalizer, CB!AddFinalizer,
   C!Degrade, CB!Degrade, C!RefetchFinal, CB!RefetchFinal, C!MarkDegraded,
   CB!MarkDegraded, C!RemoveFinalizer, CB!RemoveFinalizer, C!Available,
   CB!Available, C!ProcessEnds, CB!ProcessEnds, C!Write, CB!Write, C!Return,
   CB!Return, C!Elections, CB!Elections, C!Misfortune, CB!Misfortune, C!CallsTo,
   CB!CallsTo, C!Taken, CB!Taken, C!Continue, CB!Continue, C!AfterStatus,
   CB!AfterStatus, C!Refetch, CB!Refetch, C!WriteAndReturn, CB!WriteAndReturn,
   C!Restart, CB!Restart, C!Exists, CB!Exists, C!Accepted, CB!Accepted, C!Refused,
   CB!Refused, C!Leave, CB!Leave, C!Candidates, CB!Candidates, C!Smaller,
   CB!Smaller, C!HasConditions, CB!HasConditions, C!Put, CB!Put, C!Stored,
   CB!Stored, C!Cardinality, CB!Cardinality

LEMMA SameClientLife == C!ImplementsLifecycle <=> CB!ImplementsLifecycle
BY DEF
   C!ImplementsLifecycle, CB!ImplementsLifecycle, C!Phase, CB!Phase, C!Reported,
   CB!Reported, C!L!Spec, CB!L!Spec, C!L!Init, CB!L!Init, C!L!Next, CB!L!Next,
   C!L!states, CB!L!states, C!L!Create, CB!L!Create, C!L!Discard, CB!L!Discard,
   C!L!Guard, CB!L!Guard, C!L!Doom, CB!L!Doom, C!L!Note, CB!L!Note, C!L!Renew,
   CB!L!Renew, C!L!Release, CB!L!Release, C!L!Report, CB!L!Report, C!L!Withdraw,
   CB!L!Withdraw, C!L!Moves, CB!L!Moves

-----------------------------------------------------------------------------
(* Users.                                                                   *)

\* What holds of the user controller whatever happens, in the manager: its
\* objects have their types, ids are not replaced, what is available has its
\* finalizer, objects live and go as module Lifecycle says, elections find the
\* Services there are, and reconciliations are bounded.
THEOREM UsersKeepPromises ==
  Spec => /\ []U!TypeOK /\ []U!AvailableIsGuarded /\ []U!NodesAreFound
          /\ U!IdNeverReplaced /\ U!ReconciliationIsBounded /\ U!ImplementsLifecycle
<1>1. UB!Spec => []UB!TypeOK
  BY UserConstants, UB!TypeCorrect, PTL DEF UB!TypeCorrect
<1>2. UB!Spec => []UB!AvailableIsGuarded
  BY UserConstants, UB!Guarded, PTL DEF UB!Guarded
<1>3. UB!Spec => []UB!NodesAreFound
  BY UserConstants, UB!Found, PTL DEF UB!Found
<1>4. UB!Spec => UB!IdNeverReplaced
  BY UserConstants, UB!IdsStay, PTL DEF UB!IdsStay
<1>5. UB!Spec => UB!ReconciliationIsBounded
  BY UserConstants, UB!Bounded, PTL DEF UB!Bounded
<1>6. UB!Spec => UB!ImplementsLifecycle
  BY UserConstants, UB!Implements, PTL DEF UB!Implements
<1> QED
  BY UserImplements, SameUserTypes, SameUserGuards, SameUserNodes, SameUserIds,
     SameUserBound, SameUserLife, <1>1, <1>2, <1>3, <1>4, <1>5, <1>6, PTL

\* An available user can be used: when all its events are reconciled and as long
\* as no server forgets, its nodeList names servers, and each of them runs the
\* user's inbound, whichever controller or file it came from, and knows the user
\* in it by the id that the object has.
AvailableIsConnected ==
  \A u \in Users : U!Exists(u) /\ U!Settled(u) /\ userApi[u].avail = "True" =>
    /\ U!Listed(userApi[u]) # {}
    /\ \A s \in U!Listed(userApi[u]) :
         /\ U!Runs(s, userApi[u].email)
         /\ reg[s][userApi[u].email] = userApi[u].id

THEOREM ConnectedWhenAvailable ==
  ASSUME U!Private,
         UserKinds \cap {"restart", "retire"} = {},
         UserMay \cap {"create", "id"} = {}
  PROVE  Spec => []AvailableIsConnected
<1>1. UB!Private
  BY DEF U!Private, UB!Private
<1>2. UB!Lasting /\ UB!Steady
  BY DEF UB!Lasting, UB!Steady
<1>3. UB!Spec => []UB!AvailableIsServed
  BY <1>1, <1>2, UserConstants, UB!ServedWhenAvailable, PTL DEF UB!ServedWhenAvailable
<1>4. UB!Spec => []UB!CredentialsMatch
  BY <1>1, <1>2, UserConstants, UB!OneId, PTL DEF UB!OneId
<1>5. U!TypeOK /\ RegistrationsHaveInbounds /\ U!AvailableIsServed /\ U!CredentialsMatch
        => AvailableIsConnected
  <2> SUFFICES ASSUME U!TypeOK, RegistrationsHaveInbounds, U!AvailableIsServed,
                      U!CredentialsMatch, NEW u \in Users,
                      U!Exists(u), U!Settled(u), userApi[u].avail = "True"
               PROVE  /\ U!Listed(userApi[u]) # {}
                      /\ \A s \in U!Listed(userApi[u]) :
                           /\ U!Runs(s, userApi[u].email)
                           /\ reg[s][userApi[u].email] = userApi[u].id
    BY DEF AvailableIsConnected
  <2>1. U!Listed(userApi[u]) \subseteq Services /\ userApi[u].email \in Emails
    <3>1. userApi[u] \in U!Objects
      BY DEF U!TypeOK, U!Exists
    <3>2. /\ userApi[u].email \in Emails
          /\ userApi[u].nodeList \in [Regions -> U!Entries \cup {NoEntry}]
      BY <3>1 DEF U!Objects, U!NodeLists
    <3>3. \A r \in U!Named(userApi[u].nodeList) :
            userApi[u].nodeList[r].info \subseteq Services
      BY <3>2 DEF U!Named, U!Entries
    <3> QED
      BY <3>2, <3>3 DEF U!Listed
  <2> QED
    BY <2>1 DEF RegistrationsHaveInbounds, U!AvailableIsServed, U!CredentialsMatch
<1> QED
  BY <1>3, <1>4, <1>5, UserImplements, UsersKeepPromises, SameUserServed,
     SameUserCredentials, InboundsFirst, PTL

\* When owners edit no emails and name no servers themselves, a user that goes
\* is known to none of the servers its nodeList names, wherever the manager or
\* a server was interrupted.
THEOREM UsersGoCleanly ==
  ASSUME "email" \notin UserMay,
         "nodes" \in UserMay =>
           \A u \in Users : \A spec \in Specs[u] : U!Listed(spec) = {}
  PROVE  Spec => U!RemovalIsClean
<1>1. UB!Unlisted
  BY DEF UB!Unlisted, U!Listed, UB!Listed, U!Named, UB!Named
<1>2. UB!Spec => UB!RemovalIsClean
  BY <1>1, UserConstants, UB!Clean, PTL DEF UB!Clean
<1> QED
  BY <1>2, UserImplements, SameUserRemoval, PTL

-----------------------------------------------------------------------------
(* Clients.                                                                 *)

\* What holds of the client controller whatever happens, in the manager.
THEOREM ClientsKeepPromises ==
  Spec => /\ []C!TypeOK /\ []C!AvailableIsGuarded
          /\ C!ReconciliationIsBounded /\ C!ImplementsLifecycle
<1>1. CB!Spec => []CB!TypeOK
  BY ClientConstants, CB!TypeCorrect, PTL DEF CB!TypeCorrect
<1>2. CB!Spec => []CB!AvailableIsGuarded
  BY ClientConstants, CB!Guarded, PTL DEF CB!Guarded
<1>3. CB!Spec => CB!ReconciliationIsBounded
  BY ClientConstants, CB!Bounded, PTL DEF CB!Bounded
<1>4. CB!Spec => CB!ImplementsLifecycle
  BY ClientConstants, CB!Implements, PTL DEF CB!Implements
<1> QED
  BY ClientImplements, SameClientTypes, SameClientGuards, SameClientBound,
     SameClientLife, <1>1, <1>2, <1>3, <1>4, PTL

\* As long as owners only delete, servers forget nothing and Services can be
\* listed, available clients have on the servers all that they ask for, and no
\* two of them ask for the same; no user's registration changes that.
THEOREM ClientsAreApplied ==
  ASSUME ClientMay \subseteq {"delete"},
         ClientKinds \cap {"list", "restart", "retire", "appear"} = {}
  PROVE  Spec => [](C!AvailableIsApplied /\ C!HandlersAreExclusive)
<1>1. CB!Settled
  BY DEF CB!Settled
<1>2. CB!Spec => []CB!AvailableIsApplied
  BY <1>1, ClientConstants, CB!AppliedWhenAvailable, PTL DEF CB!AppliedWhenAvailable
<1>3. CB!Spec => []CB!HandlersAreExclusive
  BY <1>1, ClientConstants, CB!Exclusive, PTL DEF CB!Exclusive
<1> QED
  BY <1>2, <1>3, ClientImplements, SameClientApplied, SameClientExclusive, PTL
=============================================================================
