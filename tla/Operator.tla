------------------------------ MODULE Operator ------------------------------
(***************************************************************************)
(* The V2rayUser and the V2rayClient controller in the one process of the  *)
(* manager (cmd/main.go), over the same v2ray servers: a V2rayClient's     *)
(* reconciliation adds the inbound that a V2rayUser is registered with; a  *)
(* server that restarts forgets both; a crash of the process, or a panic   *)
(* of one controller, ends the reconciliations of both.                    *)
(*                                                                         *)
(* The controllers are modules V2rayUser and V2rayClient, each with its    *)
(* own objects, cache, queue and worker. What V2rayUser calls inbounds are *)
(* the inbounds among V2rayClient's handlers, and the static ones.         *)
(* Services neither appear nor retire here; the two modules have that.     *)
(***************************************************************************)
EXTENDS Integers, FiniteSets, Sequences

CONSTANTS
  Users,      \* names of V2rayUser objects
  Clients,    \* names of V2rayClient objects
  UserMay, ClientMay,     \* what the owners of each kind do
  UserKinds, ClientKinds, \* the misfortunes of each controller
  MaxFaults, MaxEdits,    \* bounds on both, for each controller
  Specs,      \* the specs the owners of users may write
  Configs,    \* the specs the owners of clients may write
  Services, Regions, Tags, Label, Grpc, InitialServices,
  Ids, Emails, InboundOf, Static, Lower, Unbuildable,
  NoTag, NoId, NoEntry, NoAffinity, Gone, None

VARIABLES
  userApi, userCache, userSynced, userQueue, userPc, userCur, userObj,
  userFresh, userTodo, userDone, expired, userFaults, userEdits,
  clientApi, clientCache, clientSynced, clientQueue, clientPc, clientCur,
  clientObj, clientFresh, clientTodo, clientCalls, clientFaults, clientEdits,
  reg, handlers, svcs, up

userVars ==
  <<userApi, userCache, userSynced, userQueue, userPc, userCur, userObj,
    userFresh, userTodo, userDone, expired, userFaults, userEdits>>
clientVars ==
  <<clientApi, clientCache, clientSynced, clientQueue, clientPc, clientCur,
    clientObj, clientFresh, clientTodo, clientCalls, clientFaults, clientEdits>>
servers == <<reg, handlers, svcs, up>>
vars == <<userVars, clientVars, servers>>

\* What the servers run, seen by the controller that registers users: it finds
\* an inbound by its tag.
Tagged   == {h \in handlers : h.kind = "in" /\ h.tag # NoTag}
Inbounds == Static \cup {<<h.svc, h.tag>> : h \in Tagged}

U == INSTANCE V2rayUserProps WITH
       Names <- Users, OwnerMay <- UserMay, Kinds <- UserKinds,
       api <- userApi, cache <- userCache, synced <- userSynced,
       queue <- userQueue, pc <- userPc, cur <- userCur, obj <- userObj,
       fresh <- userFresh, faults <- userFaults, edits <- userEdits,
       todo <- userTodo, done <- userDone, inbounds <- Inbounds

C == INSTANCE V2rayClientProps WITH
       Names <- Clients, OwnerMay <- ClientMay, Kinds <- ClientKinds,
       Reachable <- Grpc,
       api <- clientApi, cache <- clientCache, synced <- clientSynced,
       queue <- clientQueue, pc <- clientPc, cur <- clientCur, obj <- clientObj,
       fresh <- clientFresh, faults <- clientFaults, edits <- clientEdits,
       todo <- clientTodo, calls <- clientCalls

\* A config file's inbounds are not those that objects ask for: a server would
\* refuse these.
ASSUME StaticAssumption ==
  \A i \in Static, c \in Configs : \A k \in DOMAIN c.ins : c.ins[k] # i[2]

ASSUME ConfigsAssumption == \A c \in Configs : C!IsConfig(c)

\* What each of the modules assumes of its constants.
ASSUME NamesAssumption  == None \notin Users /\ None \notin Clients
ASSUME BoundsAssumption == MaxFaults \in Nat /\ MaxEdits \in Nat
ASSUME RegionsAssumption ==
  Label \in [Services -> Regions] /\ Lower \in [Regions -> Regions]
ASSUME ServicesAssumption ==
  IsFiniteSet(Services) /\ InitialServices \subseteq Services /\ Grpc \subseteq Services
ASSUME TagsAssumption ==
  /\ InboundOf \in [Emails -> Tags] /\ Static \subseteq Services \X Tags
  /\ Unbuildable \subseteq Tags
ASSUME SpecsAssumption ==
  DOMAIN Specs = Users /\ \A u \in Users : \A spec \in Specs[u] : spec \in U!Wanted
ASSUME MarkersAssumption ==
  /\ NoId \notin Ids /\ NoEntry \notin U!Entries
  /\ Gone \notin U!Objects /\ Gone \notin C!Objects

Init == C!Init /\ U!Init

-----------------------------------------------------------------------------
(* The controllers, each on its own.                                        *)

UserAlone   == UNCHANGED <<clientVars, handlers>>
ClientAlone == UNCHANGED <<userVars, reg>>

UserWorker == UserAlone /\ U!Worker
UserStart(u) == UserAlone /\ U!Start(u)
UserSync(u)  == UserAlone /\ U!CacheSync(u)
UserResync(u) == UserAlone /\ U!Resync(u)
UserSurroundings ==
  /\ UserAlone
  /\ \/ U!Deadline
     \/ \E u \in Users : U!Create(u) \/ U!Edit(u) \/ U!Delete(u)

ClientStart(n) == ClientAlone /\ C!Start(n)
ClientSync(n)  == ClientAlone /\ C!CacheSync(n)
ClientResync(n) == ClientAlone /\ C!Resync(n)
ClientSurroundings ==
  /\ ClientAlone
  /\ \E n \in Clients : C!Create(n) \/ C!Configure(n) \/ C!Delete(n)

-----------------------------------------------------------------------------
(* What concerns both.                                                      *)

\* A panic in one controller's worker ends the other's too.
Panic == C!Panic /\ U!PanicElsewhere

ClientWorker == Panic \/ (ClientAlone /\ C!Working)

Crash == C!Crash /\ U!Crash

\* A server that restarts forgets its inbounds with the users in them.
RestartServer(s) == C!RestartServer(s) /\ U!RestartServer(s)

ComeUp(s) == C!ComeUp(s) /\ U!ComeUp(s)

Next ==
  \/ UserWorker \/ UserSurroundings
  \/ \E u \in Users : UserStart(u) \/ UserSync(u) \/ UserResync(u)
  \/ ClientWorker \/ ClientSurroundings
  \/ \E n \in Clients : ClientStart(n) \/ ClientSync(n) \/ ClientResync(n)
  \/ Crash
  \/ \E s \in Services : RestartServer(s) \/ ComeUp(s)

Spec == Init /\ [][Next]_vars

\* As in the two modules: workers go on while they can, queues serve every name
\* in turn, watch events arrive, resyncs of users recur, servers come up.
Fairness ==
  /\ WF_vars(UserWorker) /\ WF_vars(ClientWorker)
  /\ \A u \in Users : /\ SF_vars(UserStart(u)) /\ WF_vars(UserSync(u))
                      /\ WF_vars(UserResync(u))
  /\ \A n \in Clients : SF_vars(ClientStart(n)) /\ WF_vars(ClientSync(n))
  /\ \A s \in Services : WF_vars(ComeUp(s))

FairSpec == Spec /\ Fairness
=============================================================================
