--------------------------- MODULE MCV2rayClient ---------------------------
(***************************************************************************)
(* Instances of V2rayClient for TLC.                                       *)
(***************************************************************************)
EXTENDS V2rayClientProps

CONSTANTS n1, n2, s1, s2, asia, t1, t2

OneRegion == [s \in Services |-> asia]

Config(ins, outs, n) ==
  [valid |-> TRUE, ins |-> ins, outs |-> outs, nums |-> [r \in Regions |-> n]]
Broken == [Config(<<>>, <<>>, 1) EXCEPT !.valid = FALSE]

OneInbound == {Config(<<t1>>, <<>>, 1)}
\* The outbound has no tag.
Shared     == {Config(<<t1>>, <<NoTag>>, 2), Config(<<>>, <<>>, 1)}
Churned    == {Config(<<t1>>, <<t2>>, 2), Config(<<>>, <<>>, 1), Broken,
               [Config(<<t1>>, <<>>, 1) EXCEPT !.nums = NoAffinity]}
=============================================================================
