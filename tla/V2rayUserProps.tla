--------------------------- MODULE V2rayUserProps ---------------------------
(***************************************************************************)
(* What the V2rayUser controller promises.                                 *)
(***************************************************************************)
EXTENDS V2rayUser, KubeProps

\* Nothing is under way for u: every event of u has been reconciled.
Settled(u) == cur # u /\ u \notin queue /\ u \in synced

\* Objects do not share what the servers file users under.
Private ==
  \A u, v \in Names : u # v =>
    \A a \in Specs[u], b \in Specs[v] : a.email # b.email

\* An id, once stored, is replaced only by an owner's edit: however old the
\* copies the worker reads, it never draws a second id for an object.
IdNeverReplaced ==
  [][\A u \in Names :
       (Exists(u) /\ api[u].id # NoId /\ Exists(u)' /\ api'[u].id # api[u].id)
         => edits' # edits]_vars

\* An object that was reported available has its finalizer, so deleting it
\* cannot bypass the removal of its registrations.
AvailableIsGuarded ==
  \A u \in Names : Exists(u) /\ api[u].avail = "True" => api[u].fin

\* Once all events of an available object are reconciled, its nodeList names
\* at least one server, and every server it names knows the user.
AvailableIsServed ==
  \A u \in Names :
    Exists(u) /\ Settled(u) /\ api[u].avail = "True" =>
      /\ Listed(api[u]) # {}
      /\ \A s \in Listed(api[u]) : reg[s][api[u].email] # NoId

\* An election always has an outcome, and it is empty only when no region that
\* the nodeList names has a Service: an entry that has lost its size, as every
\* entry has that the controller stored, still asks for one.
NodesAreFound ==
  pc = "elect" =>
    /\ Elections(obj.nodeList) # {}
    /\ \A E \in Elections(obj.nodeList) :
         E = {} <=> \A r \in Named(obj.nodeList) : Candidates(r) = {}

\* A server that knows an object's user knows it under the object's id.
CredentialsMatch ==
  \A u \in Names, s \in Services :
    Exists(u) /\ reg[s][api[u].email] # NoId => reg[s][api[u].email] = api[u].id

\* When an object with a finalizer goes, no server its nodeList names still
\* knows its user.
RemovalIsClean ==
  [][\A u \in Names :
       Exists(u) /\ api[u].fin /\ ~Exists(u)' =>
         \A s \in Listed(api[u]) : reg[s][api[u].email] = NoId]_vars

\* ... and neither does any other server.
RemovalIsComplete ==
  [][\A u \in Names :
       Exists(u) /\ api[u].fin /\ ~Exists(u)' =>
         \A s \in Services : reg[s][api[u].email] = NoId]_vars

\* An object whose servers could not all be added is on none of them: the
\* failed addition has been rolled back.
FailureIsRolledBack ==
  \A u \in Names :
    Exists(u) /\ Settled(u) /\ api[u].avail = "V2raySvcAddFailed" =>
      \A s \in Services : reg[s][api[u].email] = NoId

\* The most steps that the worker has still to make before Reconcile returns:
\* one for every write and read, one for every call of a loop.
StepsLeft ==
  LET n == Cardinality(Services)
  IN  CASE pc = "idle" -> 0
        [] pc \in {"noNode", "available", "removeFinalizer"} -> 1
        [] pc = "degraded" -> 2
        [] pc \in {"rollback", "restore"} -> 1 + Cardinality(done)
        [] pc = "finalize" -> 3 + n + Cardinality(todo)
        [] pc = "degrading" -> 4 + 2 * n
        [] pc = "addFinalizer" -> 5 + 2 * n
        [] pc = "add" -> 6 + 2 * n + Cardinality(todo)
        [] pc = "elect" -> 7 + 3 * n
        [] pc = "refetchSpec" -> 8 + 3 * n
        [] pc = "saveSpec" -> 9 + 3 * n
        [] pc = "refetchInit" -> 10 + 3 * n
        [] pc = "initStatus" -> 11 + 3 * n

\* No loop of Reconcile goes round without getting shorter, whatever is
\* refused, lost or late, and nobody else makes it longer: a reconciliation
\* makes at most 11 steps and 3 for every Service.
ReconciliationIsBounded ==
  [][pc # "idle" => /\ StepsLeft' <= StepsLeft
                    /\ Worker => StepsLeft' < StepsLeft]_vars

\* A reconciliation ends, whatever the servers and the API server answer.
WorkerReturns == pc # "idle" ~> pc = "idle"

\* An object that is deleted goes away.
DeletionCompletes ==
  \A u \in Names : (Exists(u) /\ api[u].deleting) ~> ~Exists(u)

\* In the end every object that is left is available and every server its
\* nodeList names knows its user, although servers may have restarted.
Converges ==
  <>[](\A u \in Names : Exists(u) =>
         /\ api[u].avail = "True" /\ Listed(api[u]) # {}
         /\ \A s \in Listed(api[u]) : reg[s][api[u].email] # NoId)

\* ... and the controller stops writing.
Quiesces == <>[](\A u \in Names : u \in synced)
=============================================================================
