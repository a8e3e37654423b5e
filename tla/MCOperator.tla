----------------------------- MODULE MCOperator -----------------------------
(***************************************************************************)
(* Instances of Operator for TLC.                                          *)
(***************************************************************************)
EXTENDS OperatorProps

CONSTANTS u1, n1, s1, asia, i1, e1, t1, t2

OneRegion == [s \in Services |-> asia]
AsWritten == [r \in Regions |-> r]
OneTag    == [e \in Emails |-> t1]

Asked == [r \in Regions |-> [size |-> 1, info |-> {}]]
OneUser == [u \in Users |-> {[id |-> NoId, email |-> e1, nodeList |-> Asked]}]

Config(ins) ==
  [valid |-> TRUE, ins |-> ins, outs |-> <<>>, nums |-> [r \in Regions |-> 1]]

\* The client adds the users' inbound, unless it lacks an affinity.
Supplier == {Config(<<t1>>), [Config(<<t1>>) EXCEPT !.nums = NoAffinity]}

\* As in config/samples: the client has neither inbounds nor an affinity. The
\* users' inbound is in the servers' config files.
Sample    == {[Config(<<>>) EXCEPT !.nums = NoAffinity]}

\* At first the client makes its controller panic; its owner may repair it.
RepairInit == Init /\ \A n \in Clients : clientApi[n].spec.nums = NoAffinity
RepairSpec == RepairInit /\ [][Next]_vars /\ Fairness

AllStatic == Services \X {t1}
NoStatic  == {}
=============================================================================
