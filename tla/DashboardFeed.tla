---------------------------- MODULE DashboardFeed ----------------------------
(***************************************************************************)
(* DashboardFeed of src/dashboard_feed.rs: the latest top of every book,    *)
(* rings of the latest trades, orders and fills, and a ring of numbered     *)
(* events; every call holds its mutex throughout.  A client that takes a    *)
(* snapshot and then follows the events is external.  What an event says is *)
(* left out: its number stands for it.                                      *)
(***************************************************************************)
EXTENDS Naturals, Sequences, SequencesExt, FiniteSetsExt

CONSTANTS
  Symbols,
  Cap,           (* cap, at least 1                                        *)
  EventFactor,   (* the event ring holds EventFactor * cap, 4 in the code, *)
  EventMin,      (* but at least EventMin, 16 in the code                  *)
  MaxPublished   (* bound: events published                                *)

ASSUME FeedAssumption ==
  /\ Cap \in Nat \ {0} /\ EventFactor \in Nat \ {0} /\ EventMin \in Nat
  /\ MaxPublished \in Nat

VARIABLES
  nextSeq,     (* next_seq                                                 *)
  shown,       (* l1, trades, orders and fills                             *)
  events,      (* the ring of numbered events                              *)
  view,        (* external: what the client shows                          *)
  after,       (* external: the number of the last event it has seen       *)
  hole         (* external: it has seen a hole in the numbers since its    *)
               (* snapshot                                                 *)

feedVars   == <<nextSeq, shown, events>>
clientVars == <<view, after, hole>>

EventCap == IF EventFactor * Cap > EventMin THEN EventFactor * Cap ELSE EventMin

RingKinds == {"trade", "order", "fill"}
Payloads  == [kind : {"l1"}, symbol : Symbols] \cup [kind : RingKinds]

Empty == [l1 |-> [s \in Symbols |-> 0], trade |-> <<>>, order |-> <<>>, fill |-> <<>>]

FeedInit ==
  /\ nextSeq = 1 /\ shown = Empty /\ events = <<>>
  /\ view = Empty /\ after = 0 /\ hole = FALSE

(* Variant: the ring drops its oldest entry one too early                   *)
PushRingShort(ring, cap, x) ==
  IF Len(ring) + 1 >= cap THEN Append(Tail(ring), x) ELSE Append(ring, x)

(* push_ring                                                                *)
PushRing(ring, cap, x) ==
  IF Len(ring) >= cap THEN Append(Tail(ring), x) ELSE Append(ring, x)

(* What publishing p as event n does to what is shown                       *)
Show(v, p, n) ==
  IF p.kind = "l1" THEN [v EXCEPT !.l1[p.symbol] = n]
  ELSE [v EXCEPT ![p.kind] = PushRing(@, Cap, n)]

(* Variant: the event is numbered after the counter has moved               *)
PublishLate ==
  /\ nextSeq <= MaxPublished
  /\ \E p \in Payloads :
       /\ shown'  = Show(shown, p, nextSeq)
       /\ events' = PushRing(events, EventCap, [seq |-> nextSeq + 1, event |-> p])
  /\ nextSeq' = nextSeq + 1
  /\ UNCHANGED clientVars

(* publish_market, publish_exchange and push_event                          *)
Publish ==
  /\ nextSeq <= MaxPublished
  /\ \E p \in Payloads :
       /\ shown'  = Show(shown, p, nextSeq)
       /\ events' = PushRing(events, EventCap, [seq |-> nextSeq, event |-> p])
  /\ nextSeq' = nextSeq + 1
  /\ UNCHANGED clientVars

(* The client takes a snapshot, whose next_seq is the first number it has   *)
(* not covered                                                              *)
Snapshot ==
  /\ view' = shown /\ after' = nextSeq - 1 /\ hole' = FALSE
  /\ UNCHANGED feedVars

(* events_after: where in the ring the events are that it returns, in the   *)
(* ring's order                                                             *)
EventsAfter(n) == {k \in 1..Len(events) : events[k].seq > n}

(* The client asks for the events after the last one it has seen, and shows *)
(* them                                                                     *)
Poll ==
  LET new == EventsAfter(after) IN
  /\ new # {}
  /\ view'  = FoldLeft(LAMBDA v, e : IF e.seq > after THEN Show(v, e.event, e.seq) ELSE v,
                       view, events)
  /\ after' = events[Max(new)].seq
  /\ hole'  = (hole \/ events[Min(new)].seq # after + 1)
  /\ UNCHANGED feedVars

FeedNext == Publish \/ Snapshot \/ Poll

FeedSpec == FeedInit /\ [][FeedNext]_<<feedVars, clientVars>>

---------------------------------------------------------------------------
(* Properties.                                                              *)

(* A client that starts from a snapshot and has seen no hole in the numbers *)
(* of the events it got has missed nothing: once it has seen the last event *)
(* it shows what a new snapshot would, although the rings it fills are not  *)
(* those of the feed.                                                       *)
FollowingIsSeeing == ~ hole /\ after = nextSeq - 1 => view = shown

(* A client has a hole only if it was late: as long as no more events than  *)
(* the ring holds came between two of its requests, it gets all of them,    *)
(* each once and in their order.                                            *)
HolesOnlyWhenLate ==
  nextSeq - 1 - after <= EventCap =>
    LET new == EventsAfter(after) IN
    /\ {events[k].seq : k \in new} = (after + 1)..(nextSeq - 1)
    /\ \A j, k \in new : j < k => events[j].seq < events[k].seq
=============================================================================
