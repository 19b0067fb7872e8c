--------------------------- MODULE OpenOrderSlots ---------------------------
(***************************************************************************)
(* What the open-order limit promises, without the machinery: each symbol   *)
(* has MaxOpen slots.  An order takes a slot when it is sent, holds it for  *)
(* as long as it may still trade, and never takes one again.  "单 symbol    *)
(* 最大未完成订单数" (docs/coinbase-hft-architecture.md:630) is the promise.  *)
(***************************************************************************)
EXTENDS Naturals, FiniteSets

CONSTANTS Symbols, MaxOpen, Orders

VARIABLES
  holding,  (* symbol -> the orders that hold one of its slots             *)
  used      (* orders that have taken a slot at some time                  *)

vars == <<holding, used>>

Init == holding = [s \in Symbols |-> {}] /\ used = {}

Take(s, i) ==
  /\ i \notin used
  /\ Cardinality(holding[s]) < MaxOpen
  /\ holding' = [holding EXCEPT ![s] = @ \cup {i}]
  /\ used'    = used \cup {i}

Release(s, i) ==
  /\ i \in holding[s]
  /\ holding' = [holding EXCEPT ![s] = @ \ {i}]
  /\ UNCHANGED used

Next == \E s \in Symbols, i \in Orders : Take(s, i) \/ Release(s, i)

Spec == Init /\ [][Next]_vars
=============================================================================
