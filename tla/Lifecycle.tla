------------------------------ MODULE Lifecycle ------------------------------
(***************************************************************************)
(* What the three controllers have in common, seen from outside: how an    *)
(* object of a kind with a finalizer lives and goes, and when it may be    *)
(* reported available. An object is guarded before it is reported; a       *)
(* guarded object that is deleted stays until the end of its finalization  *)
(* has been noted in its status, and only then is released.                *)
(*                                                                         *)
(* Modules V2rayUserProps, V2rayProps and V2rayClientProps show that the   *)
(* controllers implement this, with caches, conflicts, lost answers and    *)
(* crashes in between.                                                     *)
(***************************************************************************)
CONSTANT Names

VARIABLES
  phase,    \* where every object is in its life
  reported  \* whether its status says that it is available

states == <<phase, reported>>

Phases == {"absent", "unguarded", "guarded", "doomed", "noted"}

LifecycleTypeOK ==
  /\ phase \in [Names -> Phases]
  /\ reported \in [Names -> BOOLEAN]

Init ==
  /\ phase = [n \in Names |-> "unguarded"]
  /\ reported = [n \in Names |-> FALSE]

\* n goes from one phase to another; what its status says does not change.
Moves(n, from, to) ==
  /\ phase[n] = from
  /\ phase' = [phase EXCEPT ![n] = to]
  /\ UNCHANGED reported

\* The owner creates an object, or deletes one that has no finalizer yet.
Create(n)  == Moves(n, "absent", "unguarded")
Discard(n) == Moves(n, "unguarded", "absent")

\* The controller puts its finalizer on the object.
Guard(n) == Moves(n, "unguarded", "guarded")

\* The owner deletes a guarded object.
Doom(n) == Moves(n, "guarded", "doomed")

\* The controller notes the end of a finalization, or begins another one.
Note(n)  == Moves(n, "doomed", "noted")
Renew(n) == Moves(n, "noted", "doomed")

\* The finalizer is taken off, and the object is gone.
Release(n) ==
  /\ phase[n] = "noted"
  /\ phase' = [phase EXCEPT ![n] = "absent"]
  /\ reported' = [reported EXCEPT ![n] = FALSE]

\* Only an object with a finalizer that is not being deleted is reported.
Report(n) ==
  /\ phase[n] = "guarded"
  /\ reported' = [reported EXCEPT ![n] = TRUE]
  /\ UNCHANGED phase

\* The status says something else again.
Withdraw(n) ==
  /\ reported' = [reported EXCEPT ![n] = FALSE]
  /\ UNCHANGED phase

Next == \E n \in Names :
  \/ Create(n) \/ Discard(n) \/ Guard(n) \/ Doom(n)
  \/ Note(n) \/ Renew(n) \/ Release(n)
  \/ Report(n) \/ Withdraw(n)

Spec == Init /\ [][Next]_states
=============================================================================
