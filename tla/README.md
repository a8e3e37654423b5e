# v2ray-operator: TLA+ models, checks and proofs

The operator (Go, kubebuilder) runs three controllers over three custom resources and talks to
v2ray servers by gRPC. This directory holds models of the three controllers and of what surrounds
them, a composition of two of them over the servers they share, an abstract life cycle that all three
implement, the TLC instances that check these, and TLAPS proofs about each
controller and about the composition.
Paths such as `internal/controller/...` are relative to the repository.

## The system

| component | state it keeps | operations | what makes it hard |
|---|---|---|---|
| V2rayUser controller (`internal/controller/v2rayuser_controller.go`) | the object (id, email, nodeList, conditions, finalizer), the registrations of its user in the memory of v2ray servers | Reconcile, `addUserToV2raySvcList`, `electServicesFromAffinity`, `doFinalizerOperationsForV2rayUser` | registers on several servers with a rollback and a shared deadline, reads from a lagging cache between writes, must unregister before the object goes |
| V2ray controller (`v2ray_controller.go`) | the object, a Deployment it owns | Reconcile, `deploymentForV2ray` | two caches that lag independently, drift of the Deployment, garbage collection by owner |
| V2rayClient controller (`v2rayclient_controller.go`) | the object, inbounds and outbounds in the memory of v2ray servers | Reconcile, `ElectServicesFromAffinity`, `SvcListToV2flyConfig`, `applyV2rayClientConfig` | repeats calls that are not idempotent before it looks at anything else |
| v2ray gRPC client (`internal/managers/v2fly/apis.go`) | a connection | `AlterInbound`, `AddInbound`, `AddOutbound`; others that no controller calls | answers that are lost, "already exists" taken for success, a dial without a deadline |
| instance configuration (`structs.go`) | none | parse a spec into a v2ray config | |
| subscription links (`utils.go`, `structs.go`) | none | pure conversions, called by tests only | |
| manager (`cmd/main.go`) | one worker, one queue per controller, shared caches | start, crash, restart | leader election is off unless asked for |
| environment helpers, generated deep copies, manifests | none | | not modelled |

The controllers do not call each other and share no object. They interact through the servers (a
V2rayClient adds the inbound that a V2rayUser is registered with), through the Services that stand
for servers, and through the one process: a panic of one ends all three. All state that matters is
outside the process, in the API server and in the servers' memory. The queue and the caches are
rebuilt after a restart.

What makes each of them correct, in words:

- V2rayUser: an id once given stays; a server never knows a user under another id than the object's;
  an available object is on every server it names; a failed addition leaves nothing behind; no
  object goes while a server it names knows its user; the controller comes to rest.
- V2ray: an object that is available has a Deployment of its size; no Deployment is created for
  an object that could go without finalization; drift is repaired; orphans go.
- V2rayClient: available means that every inbound and outbound runs; two objects do not claim the
  same one; a deleted object goes, and takes its handlers with it.
- All three: an object lives and goes as `Lifecycle` says. It is reported available only after it
  has its finalizer, and it goes only after the end of its finalization has been noted.
- Together: neither controller does anything the other one's correctness rules out; a user whose
  inbound a V2rayClient supplies is served in the end, whatever comes first and whatever restarts.

Several of these are false of the code; see *Findings*.

## Modules

| module | content |
|---|---|
| `Kube` | what all three controllers work in: API server with optimistic concurrency, informer cache, queue, the worker's copy of the object, failures and restarts |
| `V2rayUser`, `V2ray`, `V2rayClient` | one controller each, with the part of the world it acts on; they extend `Kube` |
| `Lifecycle` | the abstract specification: the phases of an object with a finalizer, and when it may be reported |
| `KubeProps` | how a stored object maps to a phase of `Lifecycle`, and `ImplementsLifecycle` |
| `V2rayUserProps`, `V2rayProps`, `V2rayClientProps` | what each controller promises, apart from how it works; they extend `KubeProps` |
| `Operator`, `OperatorProps` | the V2rayUser and the V2rayClient controller in one process over the same servers, and what they promise together |
| `MCV2rayUser`, `MCV2ray`, `MCV2rayClient`, `MCOperator` | values of the constants for TLC |
| `KubeProofs` | which changes of one stored object are steps of `Lifecycle` |
| `V2rayUserProofs`, `V2rayProofs`, `V2rayClientProofs` | theorems about each controller, proved for every value of the constants |
| `V2rayUserBounds`, `V2rayClientBounds` | more theorems about two of them: how long a reconciliation is at most, and what an election finds |
| `OperatorProofs` | theorems about the composition, proved for every value of the constants |
| `OperatorTransfer` | the theorems about the two controllers, carried over to the composition |

A definition that starts "Mutant of" is not part of a model. It is the plausible bug that shows
that a property can fail: put in the place of the definition it names, it breaks that property.

### State and code

`api[n]` is the object as the API server stores it, `cache[n]` as the informer has it, and
`synced` holds the names for which both are the same version. `pc`, `cur`, `obj` describe the one
worker (controller-runtime's default of `MaxConcurrentReconciles`): where it is in Reconcile, for
which name, and the local variable (`v2rayuser`, `v2ray`, `v2rayClient`). `fresh` says whether
that copy carries the latest resourceVersion. A resourceVersion is used by the code only to be
compared with the latest one, so this one bit stands for it.

- A write (`Accepted`, `Refused`) succeeds if the copy is fresh. It fails with a conflict if it is
  not, or with another error before or after the server has applied it. A write that changes
  nothing gets no new version, as in Kubernetes.
- An object with a deletion timestamp and no finalizer is removed by the write that makes it so
  (`Stored`).
- `r.Get` reads the cache (`Refetch`). The NotFound it may return is an error everywhere but at the
  start of Reconcile and in V2rayClient's second read.
- `Leave(again)` is a return: with an error the name goes back to the queue, and so it does for V2ray after
  `RequeueAfter`; otherwise it waits for an event. Back-off times are not modelled.
- One step of the model is one write, one read, or one gRPC call, with the code up to the next. What
  lies between two of them touches only local variables, so that no other actor can tell.

The cache catches up with the newest version in one step (`Informed`). A real cache may pass
through versions in between. A worker that reads one of those has a copy that is not the
latest, whose content is that of some earlier version, and that is also what it gets from a cache
in this model that has not caught up since that version. What is lost is a cache that advances
*during* one reconciliation and still stays behind; in the model it stays behind and then catches
up entirely, and an owner who writes again makes it lag again.

Details by module:

- **V2rayUser.** `todo` and `done` are the rest of the loop's Service list and `successedSvcList`
  (the loop's order is any order, since a cached list has none). `expired` is the ten-second context
  that adding and rolling back share. `reg[s][e]` is what server `s` has registered for the pair
  of inbound tag and email: `Register` keeps an id that is there, as `AlterInbound` takes "already
  exists" for success. `Dialled` has no deadline, as `grpc.WithBlock` is used with a background
  context: with a server that is down the worker waits. The lookups of deployment, pod and node
  that follow a registration may fail, which is one way of `AddUserFails`. The saved nodeList
  (`Rebuilt`) has entries for the labels of the Services, without the sizes of the spec, as in
  the code. A nodeList that is edited replaces the saved one. Each Service stands for one server.
  `inbounds` are the inbounds the servers run: those of their config files (`Static`) and those that
  somebody adds (`InboundAppears`). A server refuses to register or remove a user in an inbound it does
  not run (`Runs`), and a restart takes it back to the static ones. The V2rayUser controller
  creates no inbound.
- **V2ray.** The pod template is reduced to owner and replicas: nothing else of it is compared or
  changed after creation. Deployments have a cache of their own and queue their owner by name
  (`Owns`). `GarbageCollect` takes Deployments whose owner's uid is gone. `image` is what
  `V2RAY_IMAGE` is in the manager's process: missing, which is reported in the status (`NoImage`), without a tag, at which
  `labelsForV2ray` panics and the process ends (`Panic`), or tagged; a restart may change it. Foreign Deployments with an object's name are left
  out.
- **V2rayClient.** A spec is reduced to: does v2ray parse it, which tags has it in which order, how
  many servers of each region. `calls` is the rest of the inner loops for the Service being visited.
  `Panic` is the nil `affinity` being dereferenced; the process ends. Errors of the election are
  overwritten in the code (lines 125-127), so a failed list counts as an empty one (`Elect`).
  A server refuses a tag that it has (`Taken`). It keeps handlers without a tag, which the CRD allows (`NoTag`),
  apart and takes another copy of one; a copy of an inbound fails all the same when its port is in use, so that
  such a call may succeed or be refused (`AddHandler`, `AddHandlerFails`). `handlers` is a set: it tells that such a
  handler runs, not in how many copies. A V2rayUser cannot name an inbound without a tag (`Tagged`).

### Refinement

`Lifecycle` has one phase per object: absent, unguarded (no finalizer yet), guarded, doomed
(deleted, being finalized), noted (the end of the finalization is in its status); and whether it is
reported available. `KubeProps` reads both off the stored objects (`Phase`, `Reported`); cache, queue
and worker are what the abstract specification does not see, so that most steps of a controller are
stutters of `Lifecycle`. `ImplementsLifecycle` is `INSTANCE Lifecycle WITH ...!Spec`. The deletion
timestamp of an object in phase "unguarded" never is stored: the API server removes it at once
(`Discard`). `Renew` is there because a finalization that failed after its end was noted starts
over, with `Degraded` Unknown.

### Composition

`Operator` instantiates `V2rayUserProps` and `V2rayClientProps`, each with its own objects, caches, queue
and worker, and joins them where the code does:

- The inbounds that V2rayUser sees are the static ones and the inbounds among V2rayClient's
  handlers (`Inbounds`), so that an `AddHandler` of one module is an `InboundAppears` of the other.
- A server that restarts (`RestartServer`) loses its handlers and its users in one step, and comes up
  for both.
- The manager is one process (`cmd/main.go`): a crash ends both reconciliations, and so does the
  panic of the V2rayClient controller (`Panic`), which the other module has as `PanicElsewhere`.

The V2ray controller shares nothing with these two but the process: its Deployments are not behind
the Services that the others elect (no code in the repository creates those Services). For it, a panic of
another controller is a `Crash`. Services are fixed in `Operator`; the two modules have them come and go.

`UserControllerUndisturbed` says that every behaviour of `Operator`, seen with the user controller's
variables, is one of `V2rayUser`'s `Spec`. So what is proved of that module alone holds of it
in the composition (`OperatorTransfer`).

### External parts

kube-apiserver, informers, garbage collector, owners with kubectl and v2ray's own behaviour are not
in this repository. They are modelled from how the code uses them, and the rows in `PROJECT.json` say so.
v2ray keeps users and handlers added by gRPC in memory only, answers "already exists" to a second
registration or handler, and refuses to remove an unknown user.

## What is checked

Every run bounds two counters: `MaxFaults` misfortunes (of the `Kinds` listed) and `MaxEdits`
steps of owners (of those in `OwnerMay`). Nothing else is unbounded. `CHECK_DEADLOCK FALSE` is set
throughout: when every object is gone, or the owners are done and the queue is empty, the system
rests.

| run | bounds | question |
|---|---|---|
| `user_lifecycle` | 1 user, 2 servers, 2 ids, 3 faults, 2 edits | under failing and lost calls, conflicts, an expired deadline and panics elsewhere: is what is reported available served, under one id, is what is removed removed cleanly, does every step bring the end of a reconciliation nearer, and does the object live as `Lifecycle` says? |
| `user_churn` | 1 user, 2 Services (one without a grpc port), no static inbound, 2 spellings of a region, 2 emails, 2 faults, 2 edits | do the id, the finalizer and the life cycle survive every edit, recreation, missing inbounds, failing lists, restarting, retiring and appearing servers, and does an election find the Services there are? |
| `user_liveness` | 2 users, 1 server, 1 fault, 1 edit, fair | do reconciliations end, deletions complete and the controller come to rest with served users, also after a server restart? |
| `v2ray_lifecycle` | 1 object, sizes 0-2, an image, one without a tag or none, 1 fault, 3 edits, fair | is drift repaired, is nothing adopted or lost on recreation, is finalization as `Lifecycle` says, does it all come to rest without the resync? |
| `client_pair` | 2 objects, 2 servers, 1 fault, 1 edit, fair | do two objects that want the same tagged inbound exclude each other (one has an outbound without a tag, too), is nothing reported before it runs, and does every step bring the end of a reconciliation nearer? |
| `client_churn` | 1 object, 2 Services (one unreachable), 2 faults, 2 edits | do the finalizer and the life cycle hold up, for unparsable, unbuildable and missing parts of a spec too? |
| `operator` | 1 user, 1 client, 1 server, per controller 1 fault and 1 edit, any number of panics, fair | does each controller go on as its own module says, and is the user served, and removed, in the end, when the inbound comes late, the server restarts and the client breaks the process until it is repaired? |

In `operator` the client's spec at first lacks an affinity, so that it ends the process until its owner
edits it. That is the hardest start: a client that is right from the start is where the edit leads.

Why these bounds are enough: a controller has one worker, so hazards come from one reconciliation
meeting one foreign write, one fault and one older copy. Two servers make the partial
failures, two users the sharing of the worker, two ids a wrong id, three edits a
recreation followed by an edit. Two faults are needed for a failure inside a rollback or
a crash after a lost answer; the runs that look at rollbacks have three.

`RemovalIsClean` is checked where owners do not edit the email: after such an edit
the object names servers that know the user under the old one, and the code does not look for
that. `AvailableIsServed`, `AvailableIsDeployed` speak of *settled* objects, whose events have all been
reconciled: before, status and world differ legitimately.

`ReconciliationIsBounded` is the safety half of `WorkerReturns`. `StepsLeft` counts what a reconciliation has
still before it: the writes and reads from where it is, and the rest of its loops. Every step of the worker
makes it smaller, whatever fails, and no step of anybody else makes it larger. So a reconciliation can only
last for ever by waiting for a server that does not answer, which is what the fairness is about. A Service
counts once, as in the model (see *Not modelled* for lists that have one twice).

`NodesAreFound` is about the sizes that the saved nodeList has lost: an entry without one still asks for one Service.

### Fairness

- `WF(Worker)`: a goroutine goes on while it can. It does not promise that a server answers.
- `SF(Start(n))`: the queue is first in, first out, so that a name in it is taken although other
  names (or the same, with an error) come back again and again.
- `WF(CacheSync)`, `WF(DeploymentSync)`, `WF(GarbageCollect)`: watches are re-established, the collector runs.
- `WF(ComeUp)`: a server that restarts comes back. One that is retired does not, and the runs for liveness
  do not retire servers.
- `WF(Resync)` for V2rayUser only: controller-runtime's ten-hour resync is the only thing that notices a
  restarted server. V2ray converges without it.
- `Operator` has the same, for each controller. Its two liveness properties assume (`Supplied`) that the client
  is there, is not being deleted and has an affinity from some time on.
- Faults and owners' steps are never forced.

### Findings

Each of these runs must end in a counterexample; it contradicts the comment or doc that the finding
in `PROJECT.json` quotes.

| run | what the code does |
|---|---|
| `user_forgotten_server` | saving the nodeList drops its sizes; the next reconciliation elects one server and forgets the others, which keep the user when the object goes |
| `user_half_rollback` | a server whose registration took effect but whose answer, or a later lookup, failed is not rolled back |
| `user_restless` | with more candidates than asked for, the choice varies from one reconciliation to the next and each stored choice triggers another |
| `client_stuck_deletion` | adding the inbounds again fails before the deletion is looked at, for ever |
| `operator_panic` | a V2rayClient without `affinity`, such as the sample's, ends the manager at every reconciliation; a V2rayUser may never be reconciled to the end |

Met while modelling, visible in the models, without a run of their own:

- the finalizer is added after the registrations; an object deleted in between goes and leaves them (`AddFinalizer`, `OwnerPuts`);
- a spec of a V2rayClient that is edited between the copy that is applied and the one that is
  reported is reported available without having been applied (`Start`, `Reread`);
- a conflicting write of the nodeList rolls back registrations that were there before (`SaveNodes`, `Rollback`);
- an edited id never reaches a server that has the old one (`Register`);
- an object whose last Service is retired is never finalized (`NoNode` comes before the deletion check);
- the re-fetch "so that we have the latest state" replaces the latest version by the cache's (`Refetch`);
- V2rayClient's second read may see an object without conditions and so fail after the handlers are added (`Reread`, `InitAgain`);
- the condition of an unparsable V2rayClient is never written (`Invalid`);
- an image without a tag ends the manager at the first reconciliation that creates a Deployment (V2ray's `Panic`);
- a size left out is not applied to an existing Deployment (`WrongSize`);
- a V2rayClient's finalizer removes no handler (`Degrade` to `RemoveFinalizer`);
- `SubscriptionLink` in the status, which the repository's README describes, is never set;
- the README speaks of node affinity, but that part of `deploymentForV2ray` is commented out;
- the test of the V2rayUser controller expects a Deployment, which that controller never creates.

## What is proved

Assumed are only the properties of constants that the modules state, and what a theorem's own ASSUME says.

### The life cycle

`KubeProofs` says which change of one stored object (`Fate`) is a step of `Lifecycle` or none
(`FateIsAStep`), and that a step that stores nothing is none (`NothingHappens`). Each controller's module
then shows, with its inductive invariant, that each write it makes and each owner's step is such
a change: theorem `Implements`, `Spec => ImplementsLifecycle`, in all three modules. What the
invariant is needed for are the writes from copies: that a copy the API server accepts has its
finalizer when it is reported, and has `Degraded` set to True when the finalizer is taken off.

### V2rayUser

`V2rayUserProofs` proves for every set of names, Services, ids, emails, specs and every bound:

| theorem | statement |
|---|---|
| `TypeCorrect` | `Spec => []TypeOK` |
| `CopiesCoherent` | a fresh copy *is* the stored object, a synced cache entry too, and a stored object that is being deleted has its finalizer |
| `IdsStay` | `Spec => IdNeverReplaced` |
| `Guarded` | `Spec => []AvailableIsGuarded` |
| `Implements` | `Spec => ImplementsLifecycle` |
| `ServedWhenAvailable` | `Private` and `Lasting` give `Spec => []AvailableIsServed` |
| `OneId` | `Private` and `Steady` give `Spec => []CredentialsMatch` |
| `GivenIds` | `Private` and `Given` give `Spec => []CredentialsMatch` |
| `Clean` | `Unlisted` gives `Spec => RemovalIsClean` |
| `Bounded` (in `V2rayUserBounds`) | `Spec => ReconciliationIsBounded`, and `StepsLeft` is at most 11 and 3 for every Service |
| `Found` (in `V2rayUserBounds`) | `Spec => []NodesAreFound` |

The argument. `Coherent` is inductive over `TypeOK` and is what makes optimistic concurrency
useful: whatever old copy the worker has read, a write of it is refused unless the copy is the
stored object. So the worker's successful writes are steps from the current object, and `IdsStay`
follows: an id is drawn only when the current object has none. `Guards` strengthens
`AvailableIsGuarded` by what the worker knows at the steps before it reports (its copy has the
finalizer) and while it finalizes (the object is there, is being deleted and has its finalizer;
without this the removal of the finalizer could hit a recreated object). `Registrations`
strengthens `AvailableIsServed` by the loop's invariant (every server in `successedSvcList` knows
the user) and by the nodeList that is about to be stored. `EmailsOwned` says that every copy has
an email its owner may write, so that with `Private` no other user's step touches it.
`Credentials` strengthens `CredentialsMatch` by the copies, and from the object's present email to every email its
owner may write: the worker's and the cache's copies lack an id or have the stored object's, so that none can bring
a server an id that is not stored; what keeps it is that a stored id is never drawn again (`IdsStay`). `IdsGiven` is
the invariant for owners who choose the ids: every copy and every registration has the one id of its owner,
so that recreating the object does no harm. `Cleaning` is the invariant of the finalizer's loop: of the servers
that the stored object names, those that know its user are among the ones still to be visited, also after a
failed visit (which ends the reconciliation, and the next starts over with all of them).

`Bounded` follows action by action from the types: each loop takes a Service off a finite set, and each branch
goes on at a step whose count is lower. `Found` needs that a finite set has a subset of every size up to its own
(`SubsetOfSize` in `KubeProofs`), which the library does not state.

The assumptions: those in the modules about the constants; for `ServedWhenAvailable` also `Private` (two objects never use the same inbound tag
and email, which nothing in the code enforces) and `Lasting` (servers neither restart nor retire;
without it the statement is false, as the user stays unknown until the resync). `CredentialsMatch` is false without an
assumption about ids, since a server keeps the id it was told first: `OneId` takes `Steady` (owners do
not create objects anew or edit ids; they may edit emails), `GivenIds` takes `Given` (owners do as they like, but all the specs of an
object have the same id, and none leaves it empty). `Clean` needs `Unlisted`:
owners do not edit emails, and a nodeList they write over the saved one names no servers (a server that an owner adds to the
list while the finalizer runs is not visited).

### V2ray

`V2rayProofs` proves for every set of names, sizes and images and every bound:

| theorem | statement |
|---|---|
| `TypeCorrect` | `Spec => []TypeOK` |
| `Guarded` | `Spec => []DeployedIsGuarded` |
| `Implements` | `Spec => ImplementsLifecycle` |
| `Deployed` | `Spec => []AvailableIsDeployed` |

The argument. The worker creates a Deployment from its own copy of the object, which may be old,
without asking the API server whether the object still has the finalizer that the copy shows. That
it has is not visible in the state of that step alone, and so `DeployedIsGuarded` is not inductive.
`IInv` adds: `Coherent` (a copy known to be the latest version *is* the object or the Deployment, and
a deleted object that is there has a finalizer); `Dated` (every uid in an object, copy or Deployment
is that of an earlier owner's step, so that a recreated object's uid is new and no old
copy or Deployment can be taken for one of its own); `Kept` (an object whose uid a copy has, and
that had the finalizer in the copy, still has it); and `Guards` (what the worker knows: its copy has the finalizer
when it turns to the Deployment, and the object is there and being deleted while it finalizes).
That an object goes only after the note that its finalization is complete is part of `Implements`: only a write
without finalizer of a deleted object makes it go, the worker makes that write in `RemoveFinalizer` only, it is
accepted only of the latest version, and by `Guards` that version has `Degraded` set to True.

`Deployed` is about two old copies at once. `Deploys` adds to `AvailableIsDeployed` that when the worker
is about to report, its object's Deployment is as the copy says or an event of the Deployment is
under way. The report is accepted only of the latest version, so that the copy's size is the stored one.
`Stays` says what every other step does for an object: nothing, or something whose event has
still to come or to be reconciled, and then the property asks nothing of it yet.

### V2rayClient

`V2rayClientProofs` proves for every set of names, Services, tags and configs and every bound:

| theorem | statement |
|---|---|
| `TypeCorrect` | `Spec => []TypeOK` |
| `Guarded` | `Spec => []AvailableIsGuarded` |
| `Implements` | `Spec => ImplementsLifecycle` |
| `AppliedWhenAvailable` | `Settled` gives `Spec => []AvailableIsApplied` |
| `Exclusive` | `Settled` gives `Spec => []HandlersAreExclusive` |
| `Bounded` (in `V2rayClientBounds`) | `Spec => ReconciliationIsBounded`, and `StepsLeft` is 10 and a visit for every Service when a reconciliation starts at `initStatus` |

The first three rest on `IInv`: `Coherent` as above, `Sound` (a stored object that is being deleted or
reported available has its finalizer, and none is `Degraded` before its deletion) and `Guards`. The last two need `Promises`. `AllServed` is the invariant of
the two nested loops: of what the elected servers are due, each handler runs or is still `Pending`
(its server is to be visited, or its call is to be made), so that at the end all of them run.
`AllExclusive` adds why two objects exclude each other: a handler that an available object needs and the
object in hand needs too is pending as long as the loops run, because it cannot be added (the
server has it), so the loops can only end in a refusal. `SpecsAgree` ties the second copy to the first.

`Settled` says that owners do no more than delete, and that lists do not fail and Services and servers' memory
stay. Each part is needed: an edit between the two copies, a failed list (which the code
takes for an empty one), a restart or another Service each make an available object one whose handlers
do not all run.

`Bounded` needs one fact beyond the types, `CallsInLoop`: there are calls in hand only in the loop over the elected
servers, so that a visit starts with as many calls as its spec has handlers. A visit is a dial and those calls.

### The composition

`OperatorProofs` proves for every set of users, clients, servers, tags and configs and every bound:

| theorem | statement |
|---|---|
| `ClientUndisturbed` | `Spec => ClientControllerUndisturbed` |
| `UserUndisturbed` | `Spec => UserControllerUndisturbed` |

The first two say that the composition implements each module's own specification under the mapping that
`Operator` states. A step of one controller is a stutter for the other, but for what they share: crashes,
panics and restarts, which are steps of both, and the handler that the client's worker adds, which must be
an `InboundAppears` for the user controller (an inbound that was not there, on a server that is up, with one of
the tags) or nothing (an outbound, or an inbound that is in the config file). That a handler has such a server and
tag is what `ClientTyped` is for: the calls in hand are built from a copy of an object, whose spec an owner
was allowed to write.

`OperatorTransfer` carries the theorems about the two controllers over:

| theorem | statement |
|---|---|
| `UsersKeepPromises` | `Spec` implies, of the users, types, `AvailableIsGuarded`, `NodesAreFound`, `IdNeverReplaced`, `ReconciliationIsBounded` and `ImplementsLifecycle` |
| `ConnectedWhenAvailable` | with private emails, no server that forgets, and owners who neither recreate users nor edit ids: `Spec => []AvailableIsConnected` |
| `UsersGoCleanly` | under `Clean`'s assumptions: `Spec => U!RemovalIsClean` |
| `ClientsKeepPromises` | `Spec` implies, of the clients, types, `AvailableIsGuarded`, `ReconciliationIsBounded` and `ImplementsLifecycle` |
| `ClientsAreApplied` | under the assumptions of `AppliedWhenAvailable`: `AvailableIsApplied` and `HandlersAreExclusive` |

`UB` and `CB` are the modules that hold the theorems, instantiated as `U` and `C` are. An instance of a module and
an instance of one that extends it define everything twice; that the two say the same is proved by expanding both to
the manager's variables (`SameUserSpec` and the like). The constants' assumptions of the two modules hold by those
that `Operator` states, which TLC evaluates in its runs. `AvailableIsConnected` is what a user notices and what no
module can say alone: each server that an available user names runs the user's inbound, wherever that comes from,
and knows the user there by the id that the object has. It takes `ServedWhenAvailable` and `OneId`
from one module, and from the composition the lemma `InboundsFirst`: v2ray registers no user in an inbound that it
does not run, and forgets both together.

### Only model-checked

All liveness, and the runs that expect a violation: fairness and ENABLED are outside the prover's reach. Every
invariant and every action property that the passing runs check is also a theorem. Of liveness, the theorems
`Bounded` prove the part that is about the code (a reconciliation cannot go round); that servers answer and
workers run is the part that is assumed as fairness, and the conclusion is checked (`WorkerReturns`).

## Not modelled

- Two managers at once (leader election off and several replicas), and more than one server behind a Service.
- Calls that a server applies after the client has given up on them and gone on.
- gRPC connections that are never closed; nothing reads their number.
- Two keys of a nodeList that are spellings of one region: the code elects from that region twice,
  and the same Service may be on the list twice. A second registration is no error and changes nothing, so
  that the set of Services in `Elections` stands for such a list, but the two choices are made independently
  in the code as they are here.
- Inbound tags of users other than those the CRD's enum allows.
- The number of copies that a server runs of a handler without a tag: `Taken` refuses only tags, and every
  reconciliation may add another copy.
- `RemoveInbound`, `RemoveOutbound`, `AlterOutbound` and the statistics calls of `apis.go`: no controller
  calls them, so no state of the operator depends on what they do.
- `internal/managers/utils.go`: reads of the environment and an unused interface.
- Finalizers of other controllers, which forbid adding one to an object that is being deleted.
- Subscription links: conversions without state that only tests call, whose content is layout (base64 and JSON).
- Labels and pod templates, events, logs, metrics, flags.

## Plan

1. `Kube`, `V2rayUser` with its properties, instances and proofs. Done.
2. `V2ray`, `V2rayClient` with theirs. Done.
3. `Lifecycle`, which the three controllers implement under a refinement mapping, as a property of
   the existing runs and as a theorem of each. Done.
4. Proofs: type correctness, the finalizer and the life cycle of all three, served and applied when
   available; the two modules undisturbed in the composition, with their theorems carried over to it; ids that agree
   and removals that are clean; bounds on reconciliations, and elections that find what there is. Done.
5. `Operator`, the composition of V2rayClient's inbounds with V2rayUser's registrations on the same servers,
   in one process. Done.
6. Calls that take effect after the caller has given up, as a fault of the gRPC client. Left: so far no
   property of the code survives or refutes them that the lost answers do not already concern.
