------------------------------ MODULE KubeProps ------------------------------
(***************************************************************************)
(* What every controller promises about the objects of its kind: they live *)
(* and go as module Lifecycle says. The abstract state is read off the     *)
(* stored objects; the worker, its copies, the cache and the queue are     *)
(* what the abstract specification does not see.                           *)
(***************************************************************************)
EXTENDS Kube

\* Where the stored object o is in its life.
Phase(o) ==
  CASE o = Gone -> "absent"
    [] o # Gone /\ ~o.fin -> "unguarded"
    [] o # Gone /\ o.fin /\ ~o.deleting -> "guarded"
    [] o # Gone /\ o.fin /\ o.deleting /\ o.degraded # "True" -> "doomed"
    [] o # Gone /\ o.fin /\ o.deleting /\ o.degraded = "True" -> "noted"

Reported(o) == o # Gone /\ o.avail = "True"

L == INSTANCE Lifecycle WITH
       phase    <- [n \in Names |-> Phase(api[n])],
       reported <- [n \in Names |-> Reported(api[n])]

\* Whatever the caches lag, the API server refuses and the processes crash, the
\* objects live and go as the abstract life cycle says: no object is reported
\* available before it is guarded or after its deletion, and no guarded object
\* goes before the end of its finalization has been noted.
ImplementsLifecycle == L!Spec
=============================================================================
