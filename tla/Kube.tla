-------------------------------- MODULE Kube --------------------------------
(***************************************************************************)
(* What a controller of this operator works in: the API server that stores *)
(* the objects of its kind (optimistic concurrency: a write needs the      *)
(* latest version), the informer's cache that lags it, the work queue, and *)
(* the one worker that takes a name from the queue, reads the object from  *)
(* the cache and writes its copy back.                                     *)
(*                                                                         *)
(* The modules of the three controllers extend this one and give Objects   *)
(* their fields; here an object is a record that has at least              *)
(*   fin       whether the controller's finalizer is on it                 *)
(*   deleting  whether it has a deletion timestamp                         *)
(*   avail, degraded   its conditions, "none" when absent                  *)
(***************************************************************************)
EXTENDS Integers, FiniteSets

CONSTANTS
  Names,      \* names of objects of the controller's kind
  Gone,       \* the absence of an object
  None,       \* no object: the worker is idle
  OwnerMay,   \* what owners of objects do
  Kinds,      \* the misfortunes that happen: see Misfortune
  MaxFaults,  \* bound on the number of misfortunes
  MaxEdits    \* bound on the number of owners' steps

ASSUME NoneAssumption   == None \notin Names
ASSUME BoundsAssumption == MaxFaults \in Nat /\ MaxEdits \in Nat

VARIABLES
  api,      \* the object of every name, as the API server stores it
  cache,    \* the object of every name, as the informer's cache has it
  synced,   \* the names whose cached object is the latest version
  queue,    \* the names in the controller's work queue
  pc,       \* where the worker is in Reconcile
  cur,      \* the name the worker reconciles
  obj,      \* the worker's copy of the object
  fresh,    \* whether that copy carries the latest resourceVersion
  faults,   \* misfortunes so far
  edits     \* owners' steps so far

objects == <<api, cache, synced>>
hand    == <<pc, cur, obj, fresh>>

Exists(n) == api[n] # Gone
HasConditions(o) == o.avail # "none" \/ o.degraded # "none"

\* A misfortune of kind k happens in this step.
Misfortune(k) ==
  /\ k \in Kinds
  /\ faults < MaxFaults
  /\ faults' = faults + 1

-----------------------------------------------------------------------------
(* The API server.                                                          *)

\* A deleted object without finalizers is not stored: it vanishes.
Stored(o) == IF o.deleting /\ ~o.fin THEN Gone ELSE o

\* A write that changes nothing leaves the version, and so the cache, as is.
Put(n, o) ==
  /\ api' = [api EXCEPT ![n] = Stored(o)]
  /\ synced' = IF Stored(o) = api[n] THEN synced ELSE synced \ {n}

\* Mutant of Accepted: writes are not conditional on the version.
AcceptedUnversioned(o) == Put(cur, o) /\ UNCHANGED faults

\* The worker's Update or Status().Update of its copy, now o, succeeds.
Accepted(o) == fresh /\ Put(cur, o) /\ UNCHANGED faults

\* It returns an error: the copy's version is not the latest, or the call
\* fails, before or after the server has applied it.
Refused(o) ==
  \/ ~fresh /\ UNCHANGED <<api, synced, faults>>
  \/ Misfortune("api") /\ UNCHANGED <<api, synced>>
  \/ fresh /\ Misfortune("api") /\ Put(cur, o)

\* An owner's write: the worker's copy of that object is old from now on.
OwnerPuts(n, act, o) ==
  /\ act \in OwnerMay /\ edits < MaxEdits
  /\ edits' = edits + 1
  /\ Put(n, o)
  /\ fresh' = (fresh /\ (cur # n \/ Stored(o) = api[n]))
  /\ UNCHANGED <<cache, queue, pc, cur, obj, faults>>

-----------------------------------------------------------------------------
(* The worker.                                                              *)

Continue(next, o, f) ==
  /\ pc' = next /\ obj' = o /\ fresh' = f
  /\ UNCHANGED <<cur, queue>>

\* Reconcile returns; "again" holds the names that go back to the queue.
Leave(again) ==
  /\ pc' = "idle" /\ cur' = None /\ obj' = Gone /\ fresh' = FALSE
  /\ queue' = queue \cup again

-----------------------------------------------------------------------------
(* The cache and the queue.                                                 *)

\* A watch event: the cache catches up and the object is queued.
Informed(n) ==
  /\ n \notin synced
  /\ cache' = [cache EXCEPT ![n] = api[n]]
  /\ synced' = synced \cup {n}
  /\ queue' = queue \cup {n}
  /\ UNCHANGED <<api, hand, faults, edits>>

\* The informer's periodic resync.
Requeued(n) ==
  /\ n \notin queue /\ cache[n] # Gone
  /\ queue' = queue \cup {n}
  /\ UNCHANGED <<objects, hand, faults, edits>>

\* The manager's process ends and another starts, with a new cache and the
\* names in q queued.
Restart(q) ==
  /\ pc' = "idle" /\ cur' = None /\ obj' = Gone /\ fresh' = FALSE
  /\ cache' = api /\ synced' = Names
  /\ queue' = q
  /\ UNCHANGED <<api, edits>>
=============================================================================
