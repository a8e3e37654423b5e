-------------------------- MODULE V2rayClientProps --------------------------
(***************************************************************************)
(* What the V2rayClient controller promises.                               *)
(***************************************************************************)
EXTENDS V2rayClient, KubeProps

\* What the servers in E are to run for the spec c.
Due(E, c) ==
  {[svc |-> s, kind |-> "in", tag |-> c.ins[i]] : s \in E \cap Reachable, i \in DOMAIN c.ins}
  \cup
  {[svc |-> s, kind |-> "out", tag |-> c.outs[i]] : s \in E \cap Reachable, i \in DOMAIN c.outs}

\* The tagged handlers that c needs whichever servers are elected.
Needed(c) == {h \in Calls : h.tag # NoTag /\ \A E \in Elections(c.nums) : h \in Due(E, c)}

\* An object that was reported available has its finalizer.
AvailableIsGuarded ==
  \A n \in Names : Exists(n) /\ api[n].avail = "True" => api[n].fin

\* An object is reported available only when the servers of one election run
\* all its inbounds and outbounds, however many attempts failed half-way.
AvailableIsApplied ==
  \A n \in Names : Exists(n) /\ api[n].avail = "True" =>
    \E E \in Elections(api[n].spec.nums) : Due(E, api[n].spec) \subseteq handlers

\* Two available objects never need the same tagged inbound or outbound of a
\* server: the second of them is refused.
HandlersAreExclusive ==
  \A n, m \in Names :
    (n # m /\ Exists(n) /\ Exists(m) /\ api[n].avail = "True" /\ api[m].avail = "True")
      => Needed(api[n].spec) \cap Needed(api[m].spec) = {}

\* The most steps that the worker has still to make before Reconcile returns,
\* which depend on the handlers that its copy of the object asks for.
StepsLeft ==
  LET visit == 1 + Len(obj.spec.ins) + Len(obj.spec.outs)
  IN  CASE pc = "idle" -> 0
        [] pc \in {"available", "removeFinalizer"} -> 1
        [] pc = "degraded" -> 2
        [] pc = "refetchFinal" -> 3
        [] pc = "degrading" -> 4
        [] pc = "addFinalizer" -> 5
        [] pc = "refetchInit" -> 6
        [] pc = "initAgain" -> 7
        [] pc = "apply" -> 8 + Len(calls) + Cardinality(todo) * visit
        [] pc = "validate" -> 9 + Cardinality(Services) * visit
        [] pc = "initStatus" -> 10 + Cardinality(Services) * visit

\* No loop of Reconcile goes round without getting shorter, whatever is
\* refused or lost, and nobody else makes it longer: a reconciliation makes at
\* most 10 steps and, for every Service, a dial and a call for every handler.
ReconciliationIsBounded ==
  [][pc # "idle" => /\ StepsLeft' <= StepsLeft
                    /\ Worker => StepsLeft' < StepsLeft]_vars

\* A reconciliation ends, whatever the servers answer.
WorkerReturns == pc # "idle" ~> pc = "idle"

\* An object that is deleted goes away.
DeletionCompletes ==
  \A n \in Names : (Exists(n) /\ api[n].deleting) ~> ~Exists(n)

\* n needs no handler of any server.
Bare(n) == Exists(n) /\ api[n].spec.valid /\ api[n].spec.ins = <<>> /\ api[n].spec.outs = <<>>

\* ... at least when it needs no handler, whatever the other objects occupy.
BareDeletionCompletes ==
  \A n \in Names : (Bare(n) /\ api[n].deleting) ~> ~Exists(n)
=============================================================================
