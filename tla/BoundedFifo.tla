---------------------------- MODULE BoundedFifo ----------------------------
(***************************************************************************)
(* What a set of bounded queues promises: what a queue has accepted comes   *)
(* out of that queue once and in order, no more than limit of it is ever on *)
(* its way, and no queue knows of the others.                               *)
(***************************************************************************)
EXTENDS Naturals, Sequences

CONSTANTS Queues, Items

VARIABLES
  limit,     (* queue -> how many of its items may be on their way         *)
  accepted,  (* queue -> what was put into it                              *)
  out        (* queue -> what has come out of it                           *)

vars == <<limit, accepted, out>>

Init ==
  /\ limit \in [Queues -> Nat]
  /\ accepted = [q \in Queues |-> <<>>]
  /\ out = [q \in Queues |-> <<>>]

Put(q, x) ==
  /\ Len(accepted[q]) < Len(out[q]) + limit[q]
  /\ accepted' = [accepted EXCEPT ![q] = Append(@, x)]
  /\ UNCHANGED <<limit, out>>

Take(q) ==
  /\ Len(out[q]) < Len(accepted[q])
  /\ out' = [out EXCEPT ![q] = Append(@, accepted[q][Len(@) + 1])]
  /\ UNCHANGED <<limit, accepted>>

Next == \E q \in Queues : Take(q) \/ \E x \in Items : Put(q, x)

Spec == Init /\ [][Next]_vars
=============================================================================
