---------------------------- MODULE V2rayClient ----------------------------
(***************************************************************************)
(* The V2rayClient controller (internal/controller/                        *)
(* v2rayclient_controller.go): one worker that adds the inbounds and       *)
(* outbounds of a V2rayClient object to the v2ray servers elected from the *)
(* object's affinity, one gRPC call for each, before it looks at the       *)
(* object's finalizer and deletion timestamp.                              *)
(*                                                                         *)
(* Around it are module Kube and the servers, which start, stop and lose   *)
(* their memory.                                                           *)
(***************************************************************************)
EXTENDS Kube, Sequences

CONSTANTS
  Services,   \* names of v2ray Services, each in front of one server
  Regions,    \* values of the region label
  Tags,       \* tags of inbounds and outbounds
  NoTag,      \* the tag of those that have none, if it is among Tags
  Label,      \* the region label of every Service
  Reachable,  \* the Services with a cluster IP and a port named "grpc"
  Unbuildable,\* the tags of handlers that parse but do not build
  Configs,    \* the specs the owners of objects may write
  NoAffinity, \* the absence of an affinity
  InitialServices \* the Services that exist at the start

\* Owners may "create", "config", "delete"; the misfortunes are "api", "list",
\* "rpc", "crash", "restart", "retire", "appear".

Calls == [svc : Services, kind : {"in", "out"}, tag : Tags]

\* A spec: whether v2ray parses its config, the tags of its inbounds and
\* outbounds, and how many servers of each region its affinity asks for.
IsConfig(c) ==
  /\ DOMAIN c = {"valid", "ins", "outs", "nums"}
  /\ c.valid \in BOOLEAN
  /\ c.ins \in Seq(Tags) /\ c.outs \in Seq(Tags)
  /\ c.nums \in [Regions -> Nat] \cup {NoAffinity}

Avail    == {"none", "Unknown", "True"}
Degraded == {"none", "Unknown", "True"}
Objects  == [spec : Configs, fin : BOOLEAN, deleting : BOOLEAN,
             avail : Avail, degraded : Degraded]

ASSUME LabelAssumption == Label \in [Services -> Regions]
ASSUME ConfigsAssumption == \A c \in Configs : IsConfig(c)
ASSUME ServicesAssumption ==
  /\ IsFiniteSet(Services)
  /\ InitialServices \subseteq Services /\ Reachable \subseteq Services
ASSUME UnbuildableAssumption == Unbuildable \subseteq Tags
ASSUME MarkersAssumption == Gone \notin Objects

VARIABLES
  todo,     \* Services the loop over the elected ones has still to visit
  calls,    \* the calls still to be made to the Service being visited
  handlers, \* the inbounds and outbounds the servers run
  svcs,     \* the Services that exist
  up        \* the Services whose server answers

loop  == <<todo, calls>>
world == <<handlers, svcs, up>>
vars  == <<objects, queue, hand, loop, world, faults, edits>>

Steps == {"idle", "initStatus", "validate", "apply", "initAgain", "refetchInit",
          "addFinalizer", "degrading", "refetchFinal", "degraded",
          "removeFinalizer", "available"}

TypeOK ==
  /\ api \in [Names -> Objects \cup {Gone}]
  /\ cache \in [Names -> Objects \cup {Gone}]
  /\ synced \subseteq Names
  /\ queue \subseteq Names
  /\ pc \in Steps
  /\ cur \in Names \cup {None}
  /\ obj \in Objects \cup {Gone}
  /\ pc = "idle" <=> cur = None
  /\ pc = "idle" <=> obj = Gone
  /\ fresh \in BOOLEAN
  /\ todo \subseteq Services
  /\ calls \in Seq(Calls)
  /\ handlers \subseteq Calls
  /\ svcs \subseteq Services
  /\ up \subseteq svcs
  /\ faults \in 0 .. MaxFaults
  /\ edits \in 0 .. MaxEdits

NewObject(c) == [spec |-> c, fin |-> FALSE, deleting |-> FALSE,
                 avail |-> "none", degraded |-> "none"]

Init ==
  /\ \E c \in [Names -> Configs] : api = [n \in Names |-> NewObject(c[n])]
  /\ cache = api /\ synced = Names
  /\ queue = Names
  /\ pc = "idle" /\ cur = None /\ obj = Gone /\ fresh = FALSE
  /\ todo = {} /\ calls = <<>>
  /\ handlers = {}
  /\ svcs = InitialServices /\ up = InitialServices
  /\ faults = 0 /\ edits = 0

-----------------------------------------------------------------------------
(* The worker.                                                              *)

Return(again) == Leave(again) /\ todo' = {} /\ calls' = <<>>

\* A write with "return err" on failure that goes on at next.
Write(here, o, next) ==
  /\ pc = here
  /\ \/ Accepted(o) /\ Continue(next, o, TRUE) /\ UNCHANGED loop
     \/ Refused(o) /\ Return({cur})
  /\ UNCHANGED <<cache, world, edits>>

\* The last write of a reconciliation.
WriteAndReturn(here, o) ==
  /\ pc = here
  /\ \/ Accepted(o) /\ Return({})
     \/ Refused(o) /\ Return({cur})
  /\ UNCHANGED <<cache, world, edits>>

\* r.Get into the worker's copy: from the cache, however old it is.
Refetch(next) ==
  /\ IF cache[cur] = Gone
     THEN Return({cur})
     ELSE Continue(next, cache[cur], cur \in synced) /\ UNCHANGED loop
  /\ UNCHANGED <<objects, world, faults, edits>>

\* The worker takes n; an object that is not found ends the matter.
Start(n) ==
  /\ pc = "idle" /\ n \in queue
  /\ queue' = queue \ {n}
  /\ IF cache[n] = Gone
     THEN UNCHANGED hand
     ELSE /\ pc' = IF HasConditions(cache[n]) THEN "validate" ELSE "initStatus"
          /\ cur' = n /\ obj' = cache[n] /\ fresh' = (n \in synced)
  /\ UNCHANGED <<objects, loop, world, faults, edits>>

InitStatus == Write("initStatus", [obj EXCEPT !.avail = "Unknown"], "validate")

\* A config that v2ray does not parse ends the matter: the condition set for
\* it is only in the worker's copy, and nothing is retried.
Invalid ==
  /\ pc = "validate" /\ ~obj.spec.valid
  /\ Return({})
  /\ UNCHANGED <<objects, world, faults, edits>>

Candidates(r) == {s \in svcs : Label[s] = r}
Smaller(a, b) == IF a > b THEN b ELSE a

\* ElectServicesFromAffinity: in the order of the list, which the cache returns
\* in any order, the first Services of each region, up to its number.
Elections(nums) ==
  {E \in SUBSET svcs :
     \A r \in Regions : Cardinality(E \cap Candidates(r))
                          = Smaller(Cardinality(Candidates(r)), nums[r])}

\* SvcListToV2flyConfig leaves out, without an error, elected Services that
\* have no address or port. An error of the election itself is overwritten.
Elect ==
  /\ pc = "validate" /\ obj.spec.valid /\ obj.spec.nums # NoAffinity
  /\ \/ \E E \in Elections(obj.spec.nums) : todo' = E \cap Reachable /\ UNCHANGED faults
     \/ Misfortune("list") /\ todo' = {}
  /\ pc' = "apply"
  /\ UNCHANGED <<objects, queue, cur, obj, fresh, calls, world, edits>>

\* The first list of Services, whose result nobody uses, fails.
ElectFails ==
  /\ pc = "validate" /\ obj.spec.valid
  /\ Misfortune("list")
  /\ Return({cur})
  /\ UNCHANGED <<objects, world, edits>>

\* The manager's process ends, and with it whatever Reconcile was doing.
ProcessEnds ==
  /\ Restart({n \in Names : Exists(n)})
  /\ todo' = {} /\ calls' = <<>>
  /\ UNCHANGED world

\* Without an affinity its regions are read through a nil pointer: the panic
\* ends the manager's process, and another starts.
Panic ==
  /\ pc = "validate" /\ obj.spec.valid /\ obj.spec.nums = NoAffinity
  /\ ProcessEnds /\ UNCHANGED faults

\* What applyV2rayClientConfig sends to s: its inbounds, then its outbounds.
CallsTo(s, c) ==
  [i \in DOMAIN c.ins  |-> [svc |-> s, kind |-> "in",  tag |-> c.ins[i]]] \o
  [i \in DOMAIN c.outs |-> [svc |-> s, kind |-> "out", tag |-> c.outs[i]]]

\* The dial has no deadline: it waits until the server answers.
Dial(s) ==
  /\ pc = "apply" /\ calls = <<>> /\ s \in todo /\ s \in up
  /\ calls' = CallsTo(s, obj.spec)
  /\ todo' = todo \ {s}
  /\ UNCHANGED <<objects, queue, hand, world, faults, edits>>

\* Mutant of Taken: a handler that is there already is no error.
TakenNever(c) == FALSE

\* A server refuses a tag that it has already; what has no tag it may run twice.
\* (handlers does not count the copies.)
Taken(c) == c \in handlers /\ c.tag # NoTag

\* One iteration of the loop of AddInbound or AddOutbound.
AddHandler ==
  /\ pc = "apply" /\ calls # <<>>
  /\ LET c == Head(calls)
     IN  /\ c.svc \in up /\ c.tag \notin Unbuildable /\ ~Taken(c)
         /\ handlers' = handlers \cup {c}
  /\ calls' = Tail(calls)
  /\ UNCHANGED <<objects, queue, hand, todo, svcs, up, faults, edits>>

\* Mutants of AddHandlerFails: the call is repeated; the error is logged.
AddHandlerRepeats ==
  /\ pc = "apply" /\ calls # <<>>
  /\ Misfortune("rpc")
  /\ UNCHANGED <<objects, queue, hand, loop, world, edits>>
AddHandlerFailsSilently ==
  /\ pc = "apply" /\ calls # <<>>
  /\ LET c == Head(calls)
     IN  \/ /\ c.svc \notin up \/ c.tag \in Unbuildable \/ c \in handlers
            /\ UNCHANGED faults
         \/ Misfortune("rpc")
  /\ calls' = Tail(calls)
  /\ UNCHANGED <<objects, queue, hand, todo, world, edits>>

\* Mutant of AddHandlerFails: a handler that is in the way is removed, so that
\* the retry can add it.
AddHandlerFailsRemoving ==
  /\ pc = "apply" /\ calls # <<>>
  /\ LET c == Head(calls)
     IN  \/ /\ c.svc \notin up \/ c.tag \in Unbuildable \/ Taken(c)
            /\ handlers' = IF c.svc \in up THEN handlers \ {c} ELSE handlers
            /\ UNCHANGED faults
         \/ Misfortune("rpc") /\ UNCHANGED handlers
  /\ Return({cur})
  /\ UNCHANGED <<objects, svcs, up, edits>>

\* The first failure ends the reconciliation; what has been added stays. A copy
\* of what has no tag may be refused too, when its port is in use.
AddHandlerFails ==
  /\ pc = "apply" /\ calls # <<>>
  /\ LET c == Head(calls)
     IN  \/ /\ c.svc \notin up \/ c.tag \in Unbuildable \/ c \in handlers
            /\ UNCHANGED <<handlers, faults>>
         \/ Misfortune("rpc") /\ UNCHANGED handlers
         \/ /\ c.svc \in up /\ c.tag \notin Unbuildable /\ ~Taken(c)
            /\ Misfortune("rpc") /\ handlers' = handlers \cup {c}
  /\ Return({cur})
  /\ UNCHANGED <<objects, svcs, up, edits>>

\* Mutants of AfterStatus: no finalizer is added; a deletion is not noticed.
AfterStatusUnguarded(o) ==
  CASE ~HasConditions(o) -> "initAgain"
    [] HasConditions(o) /\ o.deleting -> "degrading"
    [] OTHER -> "available"
AfterStatusBlind(o) ==
  CASE ~HasConditions(o) -> "initAgain"
    [] HasConditions(o) /\ ~o.fin -> "addFinalizer"
    [] OTHER -> "available"

AfterStatus(o) ==
  CASE ~HasConditions(o) -> "initAgain"
    [] HasConditions(o) /\ ~o.fin -> "addFinalizer"
    [] HasConditions(o) /\ o.fin /\ o.deleting -> "degrading"
    [] OTHER -> "available"

\* Mutant of Reread: the NotFound error is ignored.
RereadUnchecked ==
  /\ pc = "apply" /\ todo = {} /\ calls = <<>>
  /\ Continue("available", cache[cur], cur \in synced)
  /\ UNCHANGED <<objects, loop, world, faults, edits>>

\* Everything is applied: the object is read again, into a second copy that
\* replaces the first. Here an object that is not found ends the matter.
Reread ==
  /\ pc = "apply" /\ todo = {} /\ calls = <<>>
  /\ IF cache[cur] = Gone
     THEN Return({})
     ELSE Continue(AfterStatus(cache[cur]), cache[cur], cur \in synced) /\ UNCHANGED loop
  /\ UNCHANGED <<objects, world, faults, edits>>

\* The copy read again has no conditions yet.
InitAgain == Write("initAgain", [obj EXCEPT !.avail = "Unknown"], "refetchInit")
RefetchInit ==
  /\ pc = "refetchInit"
  /\ Refetch(CASE ~cache[cur].fin -> "addFinalizer"
               [] cache[cur].fin /\ cache[cur].deleting -> "degrading"
               [] OTHER -> "available")

AddFinalizer ==
  Write("addFinalizer", [obj EXCEPT !.fin = TRUE],
        IF obj.deleting THEN "degrading" ELSE "available")

\* The finalizer has no operation of its own.
Degrade      == Write("degrading", [obj EXCEPT !.degraded = "Unknown"], "refetchFinal")
\* Mutant of RefetchFinal: the end of the finalization is not noted.
RefetchFinalUnmarked == pc = "refetchFinal" /\ Refetch("removeFinalizer")
RefetchFinal == pc = "refetchFinal" /\ Refetch("degraded")
MarkDegraded == Write("degraded", [obj EXCEPT !.degraded = "True"], "removeFinalizer")
RemoveFinalizer == WriteAndReturn("removeFinalizer", [obj EXCEPT !.fin = FALSE])

Available == WriteAndReturn("available", [obj EXCEPT !.avail = "True"])

\* Every step of the worker but the panic.
Working ==
  \/ InitStatus \/ Invalid \/ Elect \/ ElectFails
  \/ \E s \in Services : Dial(s)
  \/ AddHandler \/ AddHandlerFails
  \/ Reread \/ InitAgain \/ RefetchInit \/ AddFinalizer
  \/ Degrade \/ RefetchFinal \/ MarkDegraded \/ RemoveFinalizer \/ Available

Worker == Working \/ Panic

-----------------------------------------------------------------------------
(* What surrounds the controller.                                           *)

OwnerStores(n, act, o) == OwnerPuts(n, act, o) /\ UNCHANGED <<loop, world>>

Create(n) ==
  /\ ~Exists(n)
  /\ \E c \in Configs : OwnerStores(n, "create", NewObject(c))
Configure(n) ==
  /\ Exists(n)
  /\ \E c \in Configs : OwnerStores(n, "config", [api[n] EXCEPT !.spec = c])
Delete(n) ==
  /\ Exists(n) /\ ~api[n].deleting
  /\ OwnerStores(n, "delete", [api[n] EXCEPT !.deleting = TRUE])

CacheSync(n) == Informed(n) /\ UNCHANGED <<loop, world>>
Resync(n)    == Requeued(n) /\ UNCHANGED <<loop, world>>
Crash == Misfortune("crash") /\ ProcessEnds

Forget(s) == handlers' = {c \in handlers : c.svc # s}

\* A server restarts: what has been added by gRPC is in its memory only.
RestartServer(s) ==
  /\ s \in up /\ Misfortune("restart")
  /\ up' = up \ {s} /\ Forget(s)
  /\ UNCHANGED <<objects, queue, hand, loop, svcs, edits>>
ComeUp(s) ==
  /\ s \in svcs \ up
  /\ up' = up \cup {s}
  /\ UNCHANGED <<objects, queue, hand, loop, handlers, svcs, faults, edits>>
RetireService(s) ==
  /\ s \in svcs /\ Misfortune("retire")
  /\ svcs' = svcs \ {s} /\ up' = up \ {s} /\ Forget(s)
  /\ UNCHANGED <<objects, queue, hand, loop, edits>>
ServiceAppears(s) ==
  /\ s \notin svcs /\ Misfortune("appear")
  /\ svcs' = svcs \cup {s}
  /\ UNCHANGED <<objects, queue, hand, loop, handlers, up, edits>>

Next ==
  \/ Worker \/ Crash
  \/ \E n \in Names : \/ Start(n) \/ CacheSync(n) \/ Resync(n)
                      \/ Create(n) \/ Configure(n) \/ Delete(n)
  \/ \E s \in Services : \/ RestartServer(s) \/ ComeUp(s)
                         \/ RetireService(s) \/ ServiceAppears(s)

Spec == Init /\ [][Next]_vars

\* The worker goes on while it can, the queue serves every name in turn, watch
\* events arrive and servers come up. Nothing else is forced.
Fairness ==
  /\ WF_vars(Worker)
  /\ \A n \in Names : SF_vars(Start(n)) /\ WF_vars(CacheSync(n))
  /\ \A s \in Services : WF_vars(ComeUp(s))

FairSpec == Spec /\ Fairness
=============================================================================
