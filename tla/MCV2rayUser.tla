---------------------------- MODULE MCV2rayUser ----------------------------
(***************************************************************************)
(* Instances of V2rayUser for TLC.                                         *)
(***************************************************************************)
EXTENDS V2rayUserProps

CONSTANTS u1, u2, s1, s2, asia, Asia, i1, i2, e1, e2, t1

\* Every Service in one region, whose key the owner writes as the label is.
OneRegion == [s \in Services |-> asia]
OneTag == [e \in Emails |-> t1]
\* Every server's config file has the inbounds, or none of them has.
AllStatic == Services \X Tags
NoneStatic == {}
AsWritten == [r \in Regions |-> r]

Asked(size) == [r \in Regions |-> [size |-> size, info |-> {}]]
Spec1(id, email, size) == [id |-> id, email |-> email, nodeList |-> Asked(size)]

\* The key Asia is the label asia in capitals.
ToLower == [r \in Regions |-> asia]
Keyed(r, size) ==
  [k \in Regions |-> IF k = r THEN [size |-> size, info |-> {}] ELSE NoEntry]

\* An owner who changes id, email and the spelling of the region.
Mixed ==
  [u \in Names |-> {[id |-> NoId, email |-> e1, nodeList |-> Asked(1)],
                    [id |-> i2, email |-> e2, nodeList |-> Keyed(Asia, 2)]}]

OneEach == [u \in Names |-> {Spec1(NoId, IF u = u1 THEN e1 ELSE e2, 1)}]
TwoServers == [u \in Names |-> {Spec1(NoId, e1, 2)}]
OneUserSizes == [u \in Names |-> {Spec1(NoId, e1, 1), Spec1(i2, e1, 2)}]
=============================================================================
