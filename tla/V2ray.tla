------------------------------- MODULE V2ray -------------------------------
(***************************************************************************)
(* The V2ray controller (internal/controller/v2ray_controller.go): one     *)
(* worker that keeps, for every V2ray object, a Deployment of the object's *)
(* name with as many replicas as the object's size says.                   *)
(*                                                                         *)
(* Around it are module Kube and the Deployments, which the worker reads   *)
(* from a second cache that lags independently of the first.               *)
(* Deployments carry an owner reference: the garbage collector takes those *)
(* whose owner is gone, and their events queue the owner's name.           *)
(***************************************************************************)
EXTENDS Kube

CONSTANTS
  Sizes,      \* the sizes owners write; 0 is a size left out
  Images      \* what V2RAY_IMAGE may be in a manager's process

\* Owners may "create", "size", "delete", and "scale" or "remove" a Deployment;
\* the misfortunes are "api", "crash" and "rollout".

Uids     == 0 .. MaxEdits
Avail    == {"none", "Unknown", "NotCreated", "Resizing", "True"}
Degraded == {"none", "Unknown", "True"}
Objects  == [uid : Uids, size : Sizes, fin : BOOLEAN, deleting : BOOLEAN,
             avail : Avail, degraded : Degraded]
Deployments == [owner : Uids, replicas : Sizes]

ASSUME SizesAssumption == Sizes \subseteq Nat
ASSUME ImageAssumption == Images \subseteq {"missing", "untagged", "tagged"}
ASSUME MarkersAssumption ==
  Gone \notin Objects /\ Gone \notin Deployments

VARIABLES
  dep,       \* the Deployment of every name, as the API server stores it
  depCache,  \* the Deployment of every name, as the cache has it
  depSynced, \* the names whose cached Deployment is the latest version
  image      \* what V2RAY_IMAGE is in the manager's process

deployments == <<dep, depCache, depSynced, image>>
vars == <<objects, deployments, queue, hand, faults, edits>>

Steps == {"idle", "initStatus", "refetchInit", "addFinalizer", "degrading",
          "refetchFinal", "degraded", "removeFinalizer", "deployment",
          "imageMissing", "refetchResize", "resizing", "available"}

TypeOK ==
  /\ api \in [Names -> Objects \cup {Gone}]
  /\ cache \in [Names -> Objects \cup {Gone}]
  /\ synced \subseteq Names
  /\ dep \in [Names -> Deployments \cup {Gone}]
  /\ depCache \in [Names -> Deployments \cup {Gone}]
  /\ depSynced \subseteq Names
  /\ image \in Images
  /\ queue \subseteq Names
  /\ pc \in Steps
  /\ cur \in Names \cup {None}
  /\ obj \in Objects \cup {Gone}
  /\ pc = "idle" <=> cur = None
  /\ pc = "idle" <=> obj = Gone
  /\ fresh \in BOOLEAN
  /\ faults \in 0 .. MaxFaults
  /\ edits \in 0 .. MaxEdits

Owned(v) == Exists(v) /\ dep[v] # Gone /\ dep[v].owner = api[v].uid

NewObject(uid, size) ==
  [uid |-> uid, size |-> size, fin |-> FALSE, deleting |-> FALSE,
   avail |-> "none", degraded |-> "none"]

Init ==
  /\ \E size \in [Names -> Sizes] : api = [v \in Names |-> NewObject(0, size[v])]
  /\ cache = api /\ synced = Names
  /\ dep = [v \in Names |-> Gone]
  /\ depCache = dep /\ depSynced = Names
  /\ image \in Images
  /\ queue = Names
  /\ pc = "idle" /\ cur = None /\ obj = Gone /\ fresh = FALSE
  /\ faults = 0 /\ edits = 0

-----------------------------------------------------------------------------
(* Deployments and the garbage collector.                                   *)

PutDeployment(v, d) ==
  /\ dep' = [dep EXCEPT ![v] = d]
  /\ depSynced' = depSynced \ {v}

Collectable(v) == dep[v] # Gone /\ ~Owned(v)

\* The owner that a Deployment refers to is gone, though another object may
\* have its name by now.
GarbageCollect(v) ==
  /\ Collectable(v)
  /\ PutDeployment(v, Gone)
  /\ UNCHANGED <<objects, depCache, image, queue, hand, faults, edits>>

-----------------------------------------------------------------------------
(* The worker.                                                              *)

\* A write with "return err" on failure that goes on at next.
Write(here, o, next) ==
  /\ pc = here
  /\ \/ Accepted(o) /\ Continue(next, o, TRUE)
     \/ Refused(o) /\ Leave({cur})
  /\ UNCHANGED <<cache, deployments, edits>>

\* The last write of a reconciliation that returns res when it succeeds.
WriteAndLeave(here, o, res) ==
  /\ pc = here
  /\ \/ Accepted(o) /\ Leave(res)
     \/ Refused(o) /\ Leave({cur})
  /\ UNCHANGED <<cache, deployments, edits>>

\* r.Get into the worker's copy: from the cache, however old it is.
Refetch(here, next) ==
  /\ pc = here
  /\ IF cache[cur] = Gone
     THEN Leave({cur})
     ELSE Continue(next, cache[cur], cur \in synced)
  /\ UNCHANGED <<objects, deployments, faults, edits>>

\* Mutant of AfterStatus: a deleted object is treated like any other.
AfterStatusBlind(o) == IF o.fin THEN "deployment" ELSE "addFinalizer"
\* Mutant of AfterStatus: no finalizer is added.
AfterStatusUnguarded(o) == IF o.deleting THEN "degrading" ELSE "deployment"

AfterStatus(o) ==
  CASE ~o.fin              -> "addFinalizer"
    [] o.fin /\ o.deleting -> "degrading"
    [] OTHER               -> "deployment"

\* Mutant of Start: the status becomes Unknown at every reconciliation.
StartAfresh(v) ==
  /\ pc = "idle" /\ v \in queue
  /\ queue' = queue \ {v}
  /\ IF cache[v] = Gone
     THEN UNCHANGED hand
     ELSE pc' = "initStatus" /\ cur' = v /\ obj' = cache[v] /\ fresh' = (v \in synced)
  /\ UNCHANGED <<objects, deployments, faults, edits>>

\* The worker takes v; an object that is not found ends the matter.
Start(v) ==
  /\ pc = "idle" /\ v \in queue
  /\ queue' = queue \ {v}
  /\ IF cache[v] = Gone
     THEN UNCHANGED hand
     ELSE /\ pc' = IF HasConditions(cache[v])
                   THEN AfterStatus(cache[v]) ELSE "initStatus"
          /\ cur' = v /\ obj' = cache[v] /\ fresh' = (v \in synced)
  /\ UNCHANGED <<objects, deployments, faults, edits>>

InitStatus  == Write("initStatus", [obj EXCEPT !.avail = "Unknown"], "refetchInit")

\* Mutant of RefetchInit: the NotFound error is ignored.
RefetchInitUnchecked ==
  /\ pc = "refetchInit"
  /\ Continue(IF cache[cur] = Gone THEN "addFinalizer" ELSE AfterStatus(cache[cur]),
              cache[cur], cur \in synced)
  /\ UNCHANGED <<objects, deployments, faults, edits>>
RefetchInit == Refetch("refetchInit", AfterStatus(cache[cur]))

AddFinalizer ==
  Write("addFinalizer", [obj EXCEPT !.fin = TRUE],
        IF obj.deleting THEN "degrading" ELSE "deployment")

\* The finalizer's own operation is an event, nothing that changes state.
Degrade      == Write("degrading", [obj EXCEPT !.degraded = "Unknown"], "refetchFinal")
\* Mutant of RefetchFinal: the end of the finalization is not noted.
RefetchFinalUnmarked == Refetch("refetchFinal", "removeFinalizer")
RefetchFinal == Refetch("refetchFinal", "degraded")
MarkDegraded == Write("degraded", [obj EXCEPT !.degraded = "True"], "removeFinalizer")
RemoveFinalizer == WriteAndLeave("removeFinalizer", [obj EXCEPT !.fin = FALSE], {})

DeploymentFor(o) == [owner |-> o.uid, replicas |-> o.size]

\* No Deployment in the cache: Create, which fails when one exists after all.
\* Both outcomes queue the object again, the first after a minute.
CreateDeployment ==
  /\ pc = "deployment" /\ depCache[cur] = Gone /\ image = "tagged"
  /\ \/ /\ dep[cur] = Gone
        /\ PutDeployment(cur, DeploymentFor(obj))
        /\ UNCHANGED faults \/ Misfortune("api")
     \/ dep[cur] # Gone /\ UNCHANGED <<dep, depSynced, faults>>
     \/ Misfortune("api") /\ UNCHANGED <<dep, depSynced>>
  /\ Leave({cur})
  /\ UNCHANGED <<objects, depCache, image, edits>>

\* The manager's process ends, and with it whatever Reconcile was doing.
ProcessEnds ==
  /\ Restart({v \in Names : Exists(v) \/ dep[v] # Gone})
  /\ depCache' = dep /\ depSynced' = Names
  /\ UNCHANGED dep

\* labelsForV2ray takes what follows the image's ':', if there is one: without
\* a tag the index is out of range, and the panic ends the process.
Panic ==
  /\ pc = "deployment" /\ depCache[cur] = Gone /\ image = "untagged"
  /\ ProcessEnds /\ UNCHANGED <<image, faults>>

\* deploymentForV2ray needs the image; without it there is only a status, and
\* the error makes the queue try again.
NoImage ==
  /\ pc = "deployment" /\ depCache[cur] = Gone /\ image = "missing"
  /\ Continue("imageMissing", obj, fresh)
  /\ UNCHANGED <<objects, deployments, faults, edits>>
\* Mutant of NotCreated: the error is only logged.
NotCreatedSilently ==
  /\ pc = "imageMissing" /\ Leave({cur})
  /\ UNCHANGED <<objects, deployments, faults, edits>>
NotCreated ==
  WriteAndLeave("imageMissing", [obj EXCEPT !.avail = "NotCreated"], {cur})

\* Mutant of WrongSize: a Deployment may only be too small.
WrongSizeIfSmaller(d, o) == o.size # 0 /\ d.replicas < o.size
WrongSize(d, o) == o.size # 0 /\ d.replicas # o.size

\* The cached Deployment is updated: a conflict when it is not the latest.
Resize ==
  /\ pc = "deployment" /\ depCache[cur] # Gone /\ WrongSize(depCache[cur], obj)
  /\ LET d == [depCache[cur] EXCEPT !.replicas = obj.size]
     IN  \/ /\ cur \in depSynced
            /\ PutDeployment(cur, d) /\ UNCHANGED faults
            /\ Leave({cur})
         \/ /\ \/ cur \notin depSynced /\ UNCHANGED <<dep, depSynced, faults>>
               \/ Misfortune("api") /\ UNCHANGED <<dep, depSynced>>
               \/ cur \in depSynced /\ Misfortune("api") /\ PutDeployment(cur, d)
            /\ Continue("refetchResize", obj, fresh)
  /\ UNCHANGED <<objects, depCache, image, edits>>
RefetchResize == Refetch("refetchResize", "resizing")
ResizeFailed  == WriteAndLeave("resizing", [obj EXCEPT !.avail = "Resizing"], {cur})

RightSize ==
  /\ pc = "deployment" /\ depCache[cur] # Gone /\ ~WrongSize(depCache[cur], obj)
  /\ Continue("available", obj, fresh)
  /\ UNCHANGED <<objects, deployments, faults, edits>>

Available == WriteAndLeave("available", [obj EXCEPT !.avail = "True"], {})

\* Every step of the worker but the panic.
Working ==
  \/ InitStatus \/ RefetchInit \/ AddFinalizer
  \/ Degrade \/ RefetchFinal \/ MarkDegraded \/ RemoveFinalizer
  \/ CreateDeployment \/ NoImage \/ NotCreated
  \/ Resize \/ RefetchResize \/ ResizeFailed \/ RightSize \/ Available

Worker == Working \/ Panic

-----------------------------------------------------------------------------
(* What surrounds the controller.                                           *)

OwnerStores(v, act, o) == OwnerPuts(v, act, o) /\ UNCHANGED deployments

\* A new object has a uid no object had.
Create(v) ==
  /\ ~Exists(v)
  /\ \E size \in Sizes : OwnerStores(v, "create", NewObject(edits + 1, size))

SetSize(v) ==
  /\ Exists(v)
  /\ \E size \in Sizes : OwnerStores(v, "size", [api[v] EXCEPT !.size = size])

Delete(v) ==
  /\ Exists(v) /\ ~api[v].deleting
  /\ OwnerStores(v, "delete", [api[v] EXCEPT !.deleting = TRUE])

\* Somebody scales or removes a Deployment.
Act(act) == act \in OwnerMay /\ edits < MaxEdits /\ edits' = edits + 1
Scale(v) ==
  /\ dep[v] # Gone /\ Act("scale")
  /\ \E n \in Sizes : PutDeployment(v, [dep[v] EXCEPT !.replicas = n])
  /\ UNCHANGED <<objects, depCache, image, queue, hand, faults>>
Remove(v) ==
  /\ dep[v] # Gone /\ Act("remove")
  /\ PutDeployment(v, Gone)
  /\ UNCHANGED <<objects, depCache, image, queue, hand, faults>>

\* The Deployment's status changes, and its version with it.
Rollout(v) ==
  /\ dep[v] # Gone /\ Misfortune("rollout")
  /\ PutDeployment(v, dep[v])
  /\ UNCHANGED <<objects, depCache, image, queue, hand, edits>>

CacheSync(v) == Informed(v) /\ UNCHANGED deployments
Resync(v)    == Requeued(v) /\ UNCHANGED deployments

\* Mutant of Queued: Deployments are not watched.
QueuedByObjectsOnly(v) == queue
Queued(v) == queue \cup {v}

\* A watch event: the cache catches up and the Deployment's owner is queued.
DeploymentSync(v) ==
  /\ v \notin depSynced
  /\ depCache' = [depCache EXCEPT ![v] = dep[v]]
  /\ depSynced' = depSynced \cup {v}
  /\ queue' = Queued(v)
  /\ UNCHANGED <<objects, dep, image, hand, faults, edits>>

\* The next process may be given an image, or none.
Crash ==
  /\ Misfortune("crash") /\ ProcessEnds
  /\ image' \in Images

Next ==
  \/ Worker \/ Crash
  \/ \E v \in Names :
       \/ Start(v) \/ CacheSync(v) \/ DeploymentSync(v) \/ Resync(v)
       \/ GarbageCollect(v) \/ Rollout(v)
       \/ Create(v) \/ SetSize(v) \/ Delete(v) \/ Scale(v) \/ Remove(v)

Spec == Init /\ [][Next]_vars

\* The worker goes on while it can, the queue serves every name in turn, watch
\* events arrive and the collector collects. Nothing else is forced: not even
\* the periodic resync.
Fairness ==
  /\ WF_vars(Worker)
  /\ \A v \in Names : /\ SF_vars(Start(v)) /\ WF_vars(CacheSync(v))
                       /\ WF_vars(DeploymentSync(v)) /\ WF_vars(GarbageCollect(v))

FairSpec == Spec /\ Fairness
=============================================================================
