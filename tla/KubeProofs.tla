----------------------------- MODULE KubeProofs -----------------------------
(***************************************************************************)
(* What the three controllers' proofs share: which changes of one stored   *)
(* object are steps of the abstract life cycle, and that a number of       *)
(* Services can be chosen from those there are.                            *)
(***************************************************************************)
EXTENDS KubeProps, FiniteSetTheorems, TLAPS

\* The life cycle lets an object that is a become b, in one step or none.
Fate(a, b) ==
  \/ Phase(b) = Phase(a) /\ (Reported(b) <=> Reported(a))
  \/ Phase(b) = Phase(a) /\ ~Reported(b)
  \/ Phase(b) = Phase(a) /\ Phase(a) = "guarded" /\ Reported(b)
  \/ /\ Reported(b) <=> Reported(a)
     /\ \/ Phase(a) = "absent"    /\ Phase(b) = "unguarded"
        \/ Phase(a) = "unguarded" /\ Phase(b) \in {"absent", "guarded"}
        \/ Phase(a) = "guarded"   /\ Phase(b) = "doomed"
        \/ Phase(a) = "doomed"    /\ Phase(b) = "noted"
        \/ Phase(a) = "noted"     /\ Phase(b) = "doomed"
  \/ Phase(a) = "noted" /\ Phase(b) = "absent" /\ ~Reported(b)

\* A change of one object to which the life cycle agrees is a step of it, or
\* none that it sees.
LEMMA FateIsAStep ==
  ASSUME NEW n \in Names, NEW b, DOMAIN api = Names,
         api' = [api EXCEPT ![n] = b], Fate(api[n], b)
  PROVE  [L!Next]_(L!states)
<1> DEFINE phase == [m \in Names |-> Phase(api[m])]
           reported == [m \in Names |-> Reported(api[m])]
<1>1. api'[n] = b /\ \A m \in Names \ {n} : api'[m] = api[m]
  OBVIOUS
<1>2. phase' = [phase EXCEPT ![n] = Phase(b)]
  BY <1>1
<1>3. reported' = [reported EXCEPT ![n] = Reported(b)]
  BY <1>1
<1>4. phase[n] = Phase(api[n]) /\ reported[n] = Reported(api[n])
  OBVIOUS
<1>5. Reported(b) \in BOOLEAN /\ Reported(api[n]) \in BOOLEAN
  BY DEF Reported
<1>6. (Reported(b) <=> Reported(api[n])) => reported' = reported
  BY <1>3, <1>4, <1>5
<1>7. Phase(b) = Phase(api[n]) => phase' = phase
  BY <1>2, <1>4
<1> HIDE DEF phase, reported
<1> QED
  BY <1>2, <1>3, <1>4, <1>5, <1>6, <1>7
     DEF Fate, L!Next, L!states, L!Create, L!Discard, L!Guard, L!Doom, L!Note,
         L!Renew, L!Release, L!Report, L!Withdraw, L!Moves, phase, reported

\* What changes no stored object is none of the life cycle's business.
LEMMA NothingHappens ==
  ASSUME UNCHANGED api
  PROVE  [L!Next]_(L!states)
BY DEF L!states
\* A finite set has subsets of every size up to its own.
LEMMA SubsetOfSize ==
  ASSUME NEW S, IsFiniteSet(S), NEW k \in Nat, k <= Cardinality(S)
  PROVE  \E T \in SUBSET S : Cardinality(T) = k
<1> DEFINE n == Cardinality(S)
<1>1. n \in Nat /\ ExistsBijection(1 .. n, S)
  BY FS_CardinalityType
<1> HIDE DEF n
<1>2. PICK f : f \in Bijection(1 .. n, S)
  BY <1>1 DEF ExistsBijection
<1> DEFINE T == {f[i] : i \in 1 .. k}
           g == [i \in 1 .. k |-> f[i]]
<1>3. k <= n
  BY DEF n
<1>4. 1 .. k \subseteq 1 .. n
  BY <1>1, <1>3
<1>5. T \in SUBSET S /\ g \in Bijection(1 .. k, T)
  <2>1. /\ f \in [1 .. n -> S]
        /\ \A i, j \in 1 .. n : f[i] = f[j] => i = j
    BY <1>2 DEF Bijection, Injection, IsInjective
  <2>2. T \in SUBSET S /\ g \in [1 .. k -> T]
    BY <1>4, <2>1
  <2>3. \A i, j \in 1 .. k : g[i] = g[j] => i = j
    BY <1>4, <2>1
  <2>4. \A x \in T : \E i \in 1 .. k : g[i] = x
    OBVIOUS
  <2> QED
    BY <2>2, <2>3, <2>4 DEF Bijection, Injection, Surjection, IsInjective
<1>6. IsFiniteSet(1 .. k) /\ Cardinality(1 .. k) = k
  BY FS_Interval
<1>7. Cardinality(T) = k
  BY <1>5, <1>6, FS_Bijection DEF ExistsBijection
<1> QED
  BY <1>5, <1>7
=============================================================================
