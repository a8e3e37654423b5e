---------------------------- MODULE OperatorProps ----------------------------
(***************************************************************************)
(* What the controllers promise together.                                  *)
(***************************************************************************)
EXTENDS Operator

\* Each controller goes on as its own module says, whatever the other one
\* does: to V2rayUser the other is a source of inbounds, to V2rayClient the
\* other is nothing at all. So what holds of a module alone holds here.
UserControllerUndisturbed   == U!Spec
ClientControllerUndisturbed == C!Spec

\* From some time on every client is there, is not being deleted, and does not
\* make its controller panic.
Supplied ==
  <>[](\A n \in Clients : /\ clientApi[n] # Gone /\ ~clientApi[n].deleting
                         /\ clientApi[n].spec.nums # NoAffinity)

\* In the end every user is available and known to the servers its object
\* names, although the inbound may come after the user, a server that restarts
\* forgets both, and a client that ends the process may be repaired late.
UsersAreServed == Supplied => U!Converges

\* A user that is deleted goes, although the server may have lost the inbound
\* that the user must be removed from.
UserDeletionCompletes == Supplied => U!DeletionCompletes

\* ... whether or not a client ends the process again and again.
UsersAreServedRegardless == U!Converges
=============================================================================
