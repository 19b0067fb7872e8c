------------------------------- MODULE Rings -------------------------------
(***************************************************************************)
(* The bounded rings of src/ring.rs and the topology src/app.rs builds of   *)
(* them: for each configured product a command ring, an order event ring    *)
(* and an account event ring, each with a producer and a consumer that      *)
(* different threads may hold (rtrb is external: a push and a pop are taken *)
(* as atomic), and CommandRings, the rings of all symbols behind one owner. *)
(* The live pipeline uses unbounded channels instead.                       *)
(***************************************************************************)
EXTENDS Naturals, Sequences, FiniteSetsExt

CONSTANTS
  RingSymbols,   (* symbol ids a caller may name                           *)
  RingProducts,  (* those of the configured products                       *)
  RingItems,     (* commands and events                                    *)
  Capacities,    (* capacities a configuration may give                    *)
  MaxPushed      (* bound: items the rings accept together                 *)

ASSUME RingAssumption ==
  /\ RingProducts \subseteq RingSymbols
  /\ Capacities \subseteq Nat

TopologyKinds == {"command", "orderEvent", "accountEvent"}
Kinds         == TopologyKinds \cup {"commandRings"}
RingIds       == Kinds \X RingSymbols

VARIABLES
  capacity,   (* ring.cmd_capacity, ..., and the argument of               *)
              (* CommandRings::new                                         *)
  queue,      (* the contents of each ring                                 *)
  accepted,   (* history: what each ring has accepted                      *)
  popped      (* history: what was popped of each ring                     *)

ringVars == <<capacity, queue, accepted, popped>>

NoItems == [q \in RingIds |-> <<>>]

RingInit ==
  /\ capacity \in [Kinds -> Capacities]
  /\ queue = NoItems /\ accepted = NoItems /\ popped = NoItems

(* The constructors refuse a capacity of zero, and from_config gives up the *)
(* whole topology for one.  A symbol that is not configured has no ring:    *)
(* producer_mut and consumer_mut answer InvalidSymbol.                      *)
Exists(q) ==
  /\ q[2] \in RingProducts
  /\ \A k \in (IF q[1] \in TopologyKinds THEN TopologyKinds ELSE {q[1]}) : capacity[k] # 0

AcceptedInAll == MapThenSumSet(LAMBDA r : Len(accepted[r]), RingIds)

(* Variant: room is looked for before the ring is full                      *)
PushLate(q, x) ==
  /\ Exists(q)
  /\ Len(queue[q]) <= capacity[q[1]]
  /\ AcceptedInAll < MaxPushed
  /\ queue'    = [queue EXCEPT ![q] = Append(@, x)]
  /\ accepted' = [accepted EXCEPT ![q] = Append(@, x)]
  /\ UNCHANGED <<capacity, popped>>

(* push; a full ring answers Full and drops the item, a cancel like any     *)
(* other                                                                    *)
Push(q, x) ==
  /\ Exists(q)
  /\ Len(queue[q]) < capacity[q[1]]
  /\ AcceptedInAll < MaxPushed
  /\ queue'    = [queue EXCEPT ![q] = Append(@, x)]
  /\ accepted' = [accepted EXCEPT ![q] = Append(@, x)]
  /\ UNCHANGED <<capacity, popped>>

(* pop; an empty ring answers None                                          *)
Pop(q) ==
  /\ Exists(q)
  /\ queue[q] # <<>>
  /\ queue'  = [queue EXCEPT ![q] = Tail(@)]
  /\ popped' = [popped EXCEPT ![q] = Append(@, Head(queue[q]))]
  /\ UNCHANGED <<capacity, accepted>>

RingNext == \E q \in RingIds : Pop(q) \/ \E x \in RingItems : Push(q, x)

RingSpec == RingInit /\ [][RingNext]_ringVars

---------------------------------------------------------------------------
(* Properties.                                                              *)

(* tests/ring_spsc_tests.rs, for any pushes and pops of any threads: every  *)
(* ring is a bounded FIFO of its own - what it accepts comes out of it once *)
(* and in order, and never is more of it on its way than its capacity.      *)
Fifo == INSTANCE BoundedFifo WITH
          Queues <- RingIds, Items <- RingItems,
          limit  <- [q \in RingIds |-> capacity[q[1]]], out <- popped
RingsAreFifos == Fifo!Spec

(* Without its first Len(s) items, all is t                                 *)
LeftOf(all, s, t) ==
  /\ Len(all) = Len(s) + Len(t)
  /\ \A k \in 1..Len(t) : t[k] = all[Len(s) + k]

(* The invariant behind it: what a ring holds are the items it accepted     *)
(* after those it let out                                                   *)
RingInv ==
  /\ capacity \in [Kinds -> Nat]
  /\ queue \in [RingIds -> Seq(RingItems)]
  /\ accepted \in [RingIds -> Seq(RingItems)]
  /\ popped \in [RingIds -> Seq(RingItems)]
  /\ \A q \in RingIds : LeftOf(accepted[q], popped[q], queue[q])
=============================================================================
