----------------------------- MODULE V2rayUser -----------------------------
(***************************************************************************)
(* The V2rayUser controller (internal/controller/v2rayuser_controller.go): *)
(* one worker that takes the name of a V2rayUser object from its queue,    *)
(* reads the object from the informer's cache, registers the user on the   *)
(* v2ray servers elected from the object's nodeList by gRPC, records the   *)
(* servers in the object, and removes the registrations again before it    *)
(* lets a deleted object go.                                               *)
(*                                                                         *)
(* Around the worker run the API server and the cache of module Kube, the  *)
(* object's owner (creates, edits, deletes), the v2ray servers (start,     *)
(* stop, lose their memory) and the faults of the kinds in Kinds.          *)
(***************************************************************************)
EXTENDS Kube

CONSTANTS
  Services,   \* names of v2ray Services, each in front of one server
  Regions,    \* keys of a nodeList and values of the region label
  Ids,        \* user ids (uuids)
  Emails,     \* what a server files a user under: (inboundTag, email)
  NoId,       \* the empty id
  NoEntry,    \* the absence of a region from a nodeList
  Label,      \* the region label of every Service
  Lower,      \* strings.ToLower on regions
  Grpc,       \* the Services with a port named "grpc"
  Tags,       \* tags of inbounds
  InboundOf,  \* the tag of the inbound a server files a user under
  Static,     \* the inbounds the servers' config files have: <<service, tag>>
  Specs,      \* the specs the owner of an object may write
  InitialServices \* the Services that exist at the start

\* Owners may "create", "id", "email", "nodes", "delete"; the misfortunes are
\* "api", "list", "rpc", "deadline", "crash", "panic", "restart", "retire" and
\* "appear".
\* Other inbounds than the static ones come by gRPC: see InboundAppears.

Entries   == [size : Nat, info : SUBSET Services]
NodeLists == [Regions -> Entries \cup {NoEntry}]
Wanted    == [id : Ids \cup {NoId}, email : Emails, nodeList : NodeLists]

Avail    == {"none", "Unknown", "NoNodeElected", "V2raySvcAddFailed", "True"}
Degraded == {"none", "Unknown", "True"}
Objects  == [id : Ids \cup {NoId}, email : Emails, nodeList : NodeLists,
             fin : BOOLEAN, deleting : BOOLEAN,
             avail : Avail, degraded : Degraded]

ASSUME LabelAssumption == Label \in [Services -> Regions]
ASSUME LowerAssumption == Lower \in [Regions -> Regions]
ASSUME GrpcAssumption  == Grpc \subseteq Services
ASSUME InboundAssumption ==
  InboundOf \in [Emails -> Tags] /\ Static \subseteq Services \X Tags
ASSUME SpecsAssumption ==
  /\ DOMAIN Specs = Names
  /\ \A u \in Names : \A spec \in Specs[u] : spec \in Wanted
ASSUME ServicesAssumption == InitialServices \subseteq Services
ASSUME FiniteAssumption == IsFiniteSet(Services)
ASSUME MarkersAssumption ==
  /\ NoId \notin Ids
  /\ NoEntry \notin Entries
  /\ Gone \notin Objects

VARIABLES
  todo,     \* Services the loop of gRPC calls has still to visit
  done,     \* Services in successedSvcList
  expired,  \* whether the ten seconds of addUserToV2raySvcList are over
  reg,      \* reg[s][e]: the id server s has registered for e, or NoId
  inbounds, \* the inbounds the servers run
  svcs,     \* the Services that exist
  up        \* the Services whose server answers

worker == <<pc, cur, obj, fresh, todo, done, expired>>
calls  == <<todo, done, expired>>
world  == <<reg, inbounds, svcs, up>>
vars   == <<api, cache, synced, queue, worker, world, faults, edits>>

Steps == {"idle", "initStatus", "refetchInit", "saveSpec", "refetchSpec",
          "elect", "noNode", "add", "rollback", "addFinalizer", "degrading",
          "finalize", "restore", "degraded", "removeFinalizer", "available"}

TypeOK ==
  /\ api \in [Names -> Objects \cup {Gone}]
  /\ cache \in [Names -> Objects \cup {Gone}]
  /\ synced \subseteq Names
  /\ queue \subseteq Names
  /\ pc \in Steps
  /\ cur \in Names \cup {None}
  /\ obj \in Objects \cup {Gone}
  /\ pc = "idle" <=> cur = None
  /\ pc = "idle" <=> obj = Gone
  /\ fresh \in BOOLEAN
  /\ todo \subseteq Services
  /\ done \subseteq Services
  /\ expired \in BOOLEAN
  /\ reg \in [Services -> [Emails -> Ids \cup {NoId}]]
  /\ inbounds \subseteq Services \X Tags
  /\ svcs \subseteq Services
  /\ up \subseteq svcs
  /\ faults \in 0 .. MaxFaults
  /\ edits \in 0 .. MaxEdits

Named(nl) == {r \in Regions : nl[r] # NoEntry}

\* The Services an object's nodeList.info names.
Listed(o) == UNION {o.nodeList[r].info : r \in Named(o.nodeList)}

NewObject(spec) ==
  [id |-> spec.id, email |-> spec.email, nodeList |-> spec.nodeList,
   fin |-> FALSE, deleting |-> FALSE, avail |-> "none", degraded |-> "none"]

Init ==
  /\ \E spec \in [Names -> UNION {Specs[u] : u \in Names}] :
       /\ \A u \in Names : spec[u] \in Specs[u]
       /\ api = [u \in Names |-> NewObject(spec[u])]
  /\ cache = api
  /\ synced = Names
  /\ queue = Names
  /\ pc = "idle" /\ cur = None /\ obj = Gone /\ fresh = FALSE
  /\ todo = {} /\ done = {} /\ expired = FALSE
  /\ reg = [s \in Services |-> [e \in Emails |-> NoId]]
  /\ inbounds = Static
  /\ svcs = InitialServices
  /\ up = InitialServices
  /\ faults = 0 /\ edits = 0

-----------------------------------------------------------------------------
(* The worker.                                                              *)

\* Reconcile returns; "again" holds the names that go back to the queue.
Return(again) ==
  /\ Leave(again)
  /\ todo' = {} /\ done' = {} /\ expired' = FALSE

\* A write with "return err" on failure that goes on at next.
Write(here, o, next) ==
  /\ pc = here
  /\ \/ Accepted(o) /\ Continue(next, o, TRUE) /\ UNCHANGED calls
     \/ Refused(o) /\ Return({cur})
  /\ UNCHANGED <<cache, world, edits>>

\* The last write of a reconciliation.
WriteAndReturn(here, o) ==
  /\ pc = here
  /\ \/ Accepted(o) /\ Return({})
     \/ Refused(o) /\ Return({cur})
  /\ UNCHANGED <<cache, world, edits>>

\* Mutant of Refetch: the NotFound error is ignored.
RefetchUnchecked(next) ==
  /\ Continue(next, cache[cur], cur \in synced) /\ UNCHANGED calls
  /\ UNCHANGED <<api, cache, synced, world, faults, edits>>

\* r.Get into the worker's copy: from the cache, however old it is.
Refetch(next) ==
  /\ IF cache[cur] = Gone
     THEN Return({cur})
     ELSE Continue(next, cache[cur], cur \in synced) /\ UNCHANGED calls
  /\ UNCHANGED <<api, cache, synced, world, faults, edits>>

\* Mutant of Start: an object that is available needs nothing.
StartUnlessAvailable(u) ==
  /\ pc = "idle" /\ u \in queue
  /\ queue' = queue \ {u}
  /\ IF cache[u] = Gone \/ (cache[u].avail = "True" /\ ~cache[u].deleting)
     THEN UNCHANGED <<pc, cur, obj, fresh>>
     ELSE /\ pc' = IF HasConditions(cache[u]) THEN "saveSpec" ELSE "initStatus"
          /\ cur' = u /\ obj' = cache[u] /\ fresh' = (u \in synced)
  /\ UNCHANGED <<api, cache, synced, calls, world, faults, edits>>

\* Mutant of Start: the status becomes Unknown at every reconciliation.
StartAfresh(u) ==
  /\ pc = "idle" /\ u \in queue
  /\ queue' = queue \ {u}
  /\ IF cache[u] = Gone
     THEN UNCHANGED <<pc, cur, obj, fresh>>
     ELSE /\ pc' = "initStatus"
          /\ cur' = u /\ obj' = cache[u] /\ fresh' = (u \in synced)
  /\ UNCHANGED <<api, cache, synced, calls, world, faults, edits>>

\* The worker takes u; an object that is not found ends the matter.
Start(u) ==
  /\ pc = "idle" /\ u \in queue
  /\ queue' = queue \ {u}
  /\ IF cache[u] = Gone
     THEN UNCHANGED <<pc, cur, obj, fresh>>
     ELSE /\ pc' = IF HasConditions(cache[u]) THEN "saveSpec" ELSE "initStatus"
          /\ cur' = u /\ obj' = cache[u] /\ fresh' = (u \in synced)
  /\ UNCHANGED <<api, cache, synced, calls, world, faults, edits>>

InitStatus  == Write("initStatus", [obj EXCEPT !.avail = "Unknown"], "refetchInit")
RefetchInit == pc = "refetchInit" /\ Refetch("saveSpec")

\* Mutant of SaveSpec: a drawn id is used before it is stored.
SaveSpecLater ==
  pc = "saveSpec" /\ \E id \in IF obj.id = NoId THEN Ids ELSE {obj.id} :
    /\ Continue("elect", [obj EXCEPT !.id = id], fresh) /\ UNCHANGED calls
    /\ UNCHANGED <<api, synced, faults, cache, world, edits>>

\* An empty id is drawn; the Update is made whether or not one was.
SaveSpec ==
  pc = "saveSpec" /\ \E id \in IF obj.id = NoId THEN Ids ELSE {obj.id} :
    Write("saveSpec", [obj EXCEPT !.id = id], "refetchSpec")
RefetchSpec == pc = "refetchSpec" /\ Refetch("elect")

Smaller(a, b) == IF a > b THEN b ELSE a
Candidates(r) == {s \in svcs : Label[s] = Lower[r]}

\* Mutant of Quota: an entry asks for as many Services as its size says.
QuotaAsSized(entry, r) == Smaller(Cardinality(Candidates(r)), entry.size)

Quota(entry, r) ==
  Smaller(Cardinality(Candidates(r)), IF entry.size = 0 THEN 1 ELSE entry.size)

\* electServicesFromAffinity: for each region the first Services of its list,
\* which the cache returns in any order.
Elections(nl) ==
  {UNION {first[r] : r \in Named(nl)} :
     first \in {f \in [Named(nl) -> SUBSET svcs] :
                  \A r \in Named(nl) : /\ f[r] \subseteq Candidates(r)
                                       /\ Cardinality(f[r]) = Quota(nl[r], r)}}

Elect ==
  /\ pc = "elect"
  /\ \E E \in Elections(obj.nodeList) :
       /\ pc' = IF E = {} THEN "noNode" ELSE "add"
       /\ todo' = E /\ done' = {}
  /\ UNCHANGED <<api, cache, synced, queue, cur, obj, fresh, expired,
                 world, faults, edits>>

\* The Services of a region cannot be listed.
ElectFails ==
  /\ pc = "elect"
  /\ Misfortune("list")
  /\ Return({cur})
  /\ UNCHANGED <<api, cache, synced, world, edits>>

\* No Service at all: noted in the status, and nothing is retried.
NoNode == WriteAndReturn("noNode", [obj EXCEPT !.avail = "NoNodeElected"])

-----------------------------------------------------------------------------
(* addUserToV2raySvcList.                                                   *)

\* The server keeps the id it has: "already exists" counts as success.
Register(s, e, id) ==
  reg' = [reg EXCEPT ![s][e] = IF @ = NoId THEN id ELSE @]
Unregister(s, e) == reg' = [reg EXCEPT ![s][e] = NoId]

\* The server runs the inbound that e names.
Runs(s, e) == <<s, InboundOf[e]>> \in inbounds

\* The dial has no deadline: every call waits until the server answers.
Dialled(s) == s \in Grpc /\ s \in up

AddUser(s) ==
  /\ pc = "add" /\ s \in todo
  /\ Dialled(s) /\ ~expired /\ obj.id # NoId /\ Runs(s, obj.email)
  /\ Register(s, obj.email, obj.id)
  /\ todo' = todo \ {s}
  /\ done' = done \cup {s}
  /\ UNCHANGED <<api, cache, synced, queue, pc, cur, obj, fresh, expired,
                 inbounds, svcs, up, faults, edits>>

\* The call, or a lookup of the server's deployment, pod or node after it,
\* returns an error; s has not been appended to successedSvcList.
AddUserFails(s) ==
  /\ pc = "add" /\ s \in todo
  /\ \/ s \notin Grpc /\ UNCHANGED <<reg, faults>>
     \/ /\ Dialled(s) /\ (expired \/ obj.id = NoId \/ ~Runs(s, obj.email))
        /\ UNCHANGED <<reg, faults>>
     \/ Dialled(s) /\ Misfortune("rpc") /\ UNCHANGED reg
     \/ /\ Dialled(s) /\ ~expired /\ obj.id # NoId /\ Runs(s, obj.email)
        /\ Misfortune("rpc") /\ Register(s, obj.email, obj.id)
  /\ pc' = "rollback" /\ todo' = {}
  /\ UNCHANGED <<api, cache, synced, queue, cur, obj, fresh, done, expired,
                 inbounds, svcs, up, edits>>

\* The ten seconds that adding and rolling back share are over.
Deadline ==
  /\ pc \in {"add", "rollback"} /\ ~expired
  /\ Misfortune("deadline")
  /\ expired' = TRUE
  /\ UNCHANGED <<api, cache, synced, queue, pc, cur, obj, fresh, todo, done,
                 world, edits>>

\* The nodeList that replaces the owner's: entries with info and no size.
Rebuilt(served) ==
  [r \in Regions |->
     LET here == {s \in served : Label[s] = r}
     IN  IF here = {} THEN NoEntry ELSE [size |-> 0, info |-> here]]

\* Mutants of AfterAdding: no finalizer is added; a deletion is not noticed.
AfterAddingUnguarded(o) == IF o.deleting THEN "degrading" ELSE "available"
AfterAddingBlind(o) == IF o.fin THEN "available" ELSE "addFinalizer"

AfterAdding(o) ==
  CASE ~o.fin              -> "addFinalizer"
    [] o.fin /\ o.deleting -> "degrading"
    [] OTHER               -> "available"

SaveNodes ==
  /\ pc = "add" /\ todo = {}
  /\ LET o == [obj EXCEPT !.nodeList = Rebuilt(done)]
     IN  \/ /\ ~expired /\ Accepted(o)
            /\ Continue(AfterAdding(o), o, TRUE)
            /\ done' = {} /\ UNCHANGED <<todo, expired>>
         \/ /\ expired /\ UNCHANGED <<api, synced, faults>>
            /\ Continue("rollback", obj, fresh) /\ UNCHANGED calls
         \/ /\ ~expired /\ Refused(o)
            /\ Continue("rollback", obj, fresh /\ api' = api)
            /\ UNCHANGED calls
  /\ UNCHANGED <<cache, world, edits>>

\* Mutant of Rollback: a Service stays on the list until its call succeeds.
RollbackInsisting(s) ==
  /\ pc = "rollback" /\ s \in done /\ Dialled(s)
  /\ \/ ~expired /\ Unregister(s, obj.email) /\ done' = done \ {s} /\ UNCHANGED faults
     \/ Misfortune("rpc") /\ UNCHANGED <<reg, done>>
  /\ UNCHANGED <<api, cache, synced, queue, pc, cur, obj, fresh, todo, expired,
                 inbounds, svcs, up, edits>>

\* The deferred function: one attempt per Service, errors are logged.
Rollback(s) ==
  /\ pc = "rollback" /\ s \in done /\ Dialled(s)
  /\ \/ ~expired /\ Unregister(s, obj.email) /\ UNCHANGED faults
     \/ expired /\ UNCHANGED <<reg, faults>>
     \/ Misfortune("rpc") /\ UNCHANGED reg
  /\ done' = done \ {s}
  /\ UNCHANGED <<api, cache, synced, queue, pc, cur, obj, fresh, todo, expired,
                 inbounds, svcs, up, edits>>

\* Mutant of AddFailed: the failure is logged and not put in the status.
AddFailedSilently ==
  /\ pc = "rollback" /\ done = {}
  /\ Return({})
  /\ UNCHANGED <<api, cache, synced, world, faults, edits>>

AddFailed ==
  /\ done = {}
  /\ WriteAndReturn("rollback", [obj EXCEPT !.avail = "V2raySvcAddFailed"])

-----------------------------------------------------------------------------
(* The finalizer, and the end of Reconcile.                                 *)

AddFinalizer ==
  Write("addFinalizer", [obj EXCEPT !.fin = TRUE],
        IF obj.deleting THEN "degrading" ELSE "available")

Available == WriteAndReturn("available", [obj EXCEPT !.avail = "True"])

\* The first status of a finalization; doFinalizerOperations then visits every
\* Service the nodeList names.
Degrade ==
  LET o == [obj EXCEPT !.degraded = "Unknown"]
  IN  /\ pc = "degrading"
      /\ \/ /\ Accepted(o) /\ Continue("finalize", o, TRUE)
            /\ todo' = Listed(o) /\ done' = {} /\ UNCHANGED expired
         \/ Refused(o) /\ Return({cur})
      /\ UNCHANGED <<cache, world, edits>>

RemoveUser(s) ==
  /\ pc = "finalize" /\ s \in todo
  /\ s \in svcs /\ Dialled(s) /\ reg[s][obj.email] # NoId
  /\ Unregister(s, obj.email)
  /\ todo' = todo \ {s}
  /\ done' = done \cup {s}
  /\ UNCHANGED <<api, cache, synced, queue, pc, cur, obj, fresh, expired,
                 inbounds, svcs, up, faults, edits>>

\* Mutant of RemoveUserFails: the error is logged and the loop goes on.
RemoveUserFailsSilently(s) ==
  /\ pc = "finalize" /\ s \in todo
  /\ \/ (s \notin svcs \/ s \notin Grpc) /\ UNCHANGED faults
     \/ Dialled(s) /\ reg[s][obj.email] = NoId /\ UNCHANGED faults
     \/ Dialled(s) /\ Misfortune("rpc")
  /\ todo' = todo \ {s}
  /\ UNCHANGED <<api, cache, synced, queue, pc, cur, obj, fresh, done, expired,
                 world, edits>>

\* The Service or its port is missing, the server does not know the user, or
\* the call fails, before or after it has taken effect.
RemoveUserFails(s) ==
  /\ pc = "finalize" /\ s \in todo
  /\ \/ (s \notin svcs \/ s \notin Grpc) /\ UNCHANGED <<reg, faults>>
     \/ Dialled(s) /\ reg[s][obj.email] = NoId /\ UNCHANGED <<reg, faults>>
     \/ Dialled(s) /\ Misfortune("rpc") /\ UNCHANGED reg
     \/ Dialled(s) /\ Misfortune("rpc") /\ Unregister(s, obj.email)
  /\ pc' = "restore" /\ todo' = {}
  /\ UNCHANGED <<api, cache, synced, queue, cur, obj, fresh, done, expired,
                 inbounds, svcs, up, edits>>

\* The deferred function of the finalizer registers the user again.
Restore(s) ==
  /\ pc = "restore" /\ s \in done /\ Dialled(s)
  /\ \/ Runs(s, obj.email) /\ Register(s, obj.email, obj.id) /\ UNCHANGED faults
     \/ ~Runs(s, obj.email) /\ UNCHANGED <<reg, faults>>
     \/ Misfortune("rpc") /\ UNCHANGED reg
  /\ done' = done \ {s}
  /\ UNCHANGED <<api, cache, synced, queue, pc, cur, obj, fresh, todo, expired,
                 inbounds, svcs, up, edits>>

RestoreDone ==
  /\ pc = "restore" /\ done = {}
  /\ Return({cur})
  /\ UNCHANGED <<api, cache, synced, world, faults, edits>>

\* Mutant of RefetchFinal: the end of the finalization is not noted.
RefetchFinalUnmarked == pc = "finalize" /\ todo = {} /\ Refetch("removeFinalizer")

RefetchFinal == pc = "finalize" /\ todo = {} /\ Refetch("degraded")

MarkDegraded ==
  Write("degraded", [obj EXCEPT !.degraded = "True"], "removeFinalizer")

RemoveFinalizer == WriteAndReturn("removeFinalizer", [obj EXCEPT !.fin = FALSE])

Worker ==
  \/ InitStatus \/ RefetchInit \/ SaveSpec \/ RefetchSpec
  \/ Elect \/ ElectFails \/ NoNode
  \/ \E s \in Services : AddUser(s) \/ AddUserFails(s) \/ Rollback(s)
  \/ SaveNodes \/ AddFailed
  \/ AddFinalizer \/ Available
  \/ Degrade \/ RefetchFinal \/ MarkDegraded \/ RemoveFinalizer
  \/ \E s \in Services : RemoveUser(s) \/ RemoveUserFails(s) \/ Restore(s)
  \/ RestoreDone

-----------------------------------------------------------------------------
(* What surrounds the controller.                                           *)

OwnerStores(u, act, o) == OwnerPuts(u, act, o) /\ UNCHANGED <<calls, world>>

Create(u) ==
  /\ ~Exists(u)
  /\ \E spec \in Specs[u] : OwnerStores(u, "create", NewObject(spec))

Edit(u) ==
  /\ Exists(u)
  /\ \E spec \in Specs[u] :
       \/ OwnerStores(u, "id", [api[u] EXCEPT !.id = spec.id])
       \/ OwnerStores(u, "email", [api[u] EXCEPT !.email = spec.email])
       \/ OwnerStores(u, "nodes", [api[u] EXCEPT !.nodeList = spec.nodeList])

Delete(u) ==
  /\ Exists(u) /\ ~api[u].deleting
  /\ OwnerStores(u, "delete", [api[u] EXCEPT !.deleting = TRUE])

CacheSync(u) == Informed(u) /\ UNCHANGED <<calls, world>>
Resync(u)    == Requeued(u) /\ UNCHANGED <<calls, world>>

\* The manager's process ends, and with it whatever Reconcile was doing.
ProcessEnds ==
  /\ Restart({u \in Names : Exists(u)})
  /\ todo' = {} /\ done' = {} /\ expired' = FALSE
  /\ UNCHANGED world
Crash == Misfortune("crash") /\ ProcessEnds

\* Another controller of the same process panics, however often.
PanicElsewhere == "panic" \in Kinds /\ ProcessEnds /\ UNCHANGED faults

\* What a server has been told by gRPC is in its memory only.
Forget(s) ==
  /\ reg' = [reg EXCEPT ![s] = [e \in Emails |-> NoId]]
  /\ inbounds' = {i \in inbounds : i[1] # s} \cup {i \in Static : i[1] = s}

\* A V2rayClient's reconciliation, or somebody else, adds an inbound.
InboundAppears(s, t) ==
  /\ s \in up /\ <<s, t>> \notin inbounds
  /\ inbounds' = inbounds \cup {<<s, t>>}
  /\ UNCHANGED <<api, cache, synced, queue, worker, reg, svcs, up, faults, edits>>

\* A server restarts.
RestartServer(s) ==
  /\ s \in up
  /\ Misfortune("restart")
  /\ up' = up \ {s} /\ Forget(s)
  /\ UNCHANGED <<api, cache, synced, queue, worker, svcs, edits>>

ComeUp(s) ==
  /\ s \in svcs \ up
  /\ up' = up \cup {s}
  /\ UNCHANGED <<api, cache, synced, queue, worker, reg, inbounds, svcs, faults, edits>>

RetireService(s) ==
  /\ s \in svcs
  /\ Misfortune("retire")
  /\ svcs' = svcs \ {s} /\ up' = up \ {s} /\ Forget(s)
  /\ UNCHANGED <<api, cache, synced, queue, worker, edits>>

ServiceAppears(s) ==
  /\ s \notin svcs
  /\ Misfortune("appear")
  /\ svcs' = svcs \cup {s}
  /\ UNCHANGED <<api, cache, synced, queue, worker, reg, inbounds, up, edits>>

Next ==
  \/ Worker \/ Deadline \/ Crash \/ PanicElsewhere
  \/ \E u \in Names : \/ Start(u) \/ CacheSync(u) \/ Resync(u)
                      \/ Create(u) \/ Edit(u) \/ Delete(u)
  \/ \E s \in Services : \/ RestartServer(s) \/ ComeUp(s)
                         \/ RetireService(s) \/ ServiceAppears(s)
                         \/ \E t \in Tags : InboundAppears(s, t)

Spec == Init /\ [][Next]_vars

\* The worker never rests while it can go on, the queue serves every name in
\* turn, watch events arrive, resyncs recur and servers come up. Misfortunes
\* and owners' steps are never forced.
Fairness ==
  /\ WF_vars(Worker)
  /\ \A u \in Names : SF_vars(Start(u)) /\ WF_vars(CacheSync(u)) /\ WF_vars(Resync(u))
  /\ \A s \in Services : WF_vars(ComeUp(s))

FairSpec == Spec /\ Fairness
=============================================================================
