----------------------------- MODULE V2rayProps -----------------------------
(***************************************************************************)
(* What the V2ray controller promises.                                     *)
(***************************************************************************)
EXTENDS V2ray, KubeProps

\* Nothing is under way for v: all events of v and its Deployment have been
\* reconciled.
Settled(v) == cur # v /\ v \notin queue /\ v \in synced /\ v \in depSynced

\* A Deployment whose owner exists has an owner with a finalizer: the
\* controller never creates a Deployment for an object that could still go
\* without its knowledge.
DeployedIsGuarded == \A v \in Names : Owned(v) => api[v].fin

\* Once all events are reconciled, an available object that is not being
\* deleted has a Deployment, with as many replicas as its size says, whoever
\* scaled or removed the Deployment in between.
AvailableIsDeployed ==
  \A v \in Names :
    Exists(v) /\ Settled(v) /\ api[v].avail = "True" /\ ~api[v].deleting =>
      /\ dep[v] # Gone
      /\ api[v].size # 0 => dep[v].replicas = api[v].size

\* An object that is deleted goes away.
DeletionCompletes ==
  \A v \in Names : (Exists(v) /\ api[v].deleting) ~> ~Exists(v)

\* In the end, if the manager has an image with a tag, every object that is left is
\* available and owns a Deployment of its size; and every other Deployment has
\* been collected.
Converges ==
  <>[](\A v \in Names :
         /\ ~Exists(v) => dep[v] = Gone
         /\ Exists(v) /\ image = "tagged" =>
              /\ api[v].avail = "True" /\ Owned(v)
              /\ api[v].size # 0 => dep[v].replicas = api[v].size)

\* Without an image, every object that is left without a Deployment says so in
\* the end.
MissingImageIsReported ==
  <>[](\A v \in Names :
         Exists(v) /\ image = "missing" /\ dep[v] = Gone => api[v].avail = "NotCreated")

\* ... and the controller stops writing.
Quiesces == <>[](\A v \in Names : v \in synced /\ v \in depSynced)
=============================================================================
