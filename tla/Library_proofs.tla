---------------------------- MODULE Library_proofs ----------------------------
(***************************************************************************)
(* Theorems about the parts the live threads do not run, for every value of *)
(* the constants: FixSession acts on its peer's first frames and answers    *)
(* each request once, a client that follows the dashboard's feed without a  *)
(* hole has missed nothing, the rings are bounded FIFOs, and RuntimePipeline*)
(* hands every strategy its events and leaves none of its commands behind.  *)
(***************************************************************************)
EXTENDS Library, SequenceTheorems, WellFoundedInduction, TLAPS

---------------------------------------------------------------------------
(* FixSession.                                                              *)

(* What ActsOnPrefix needs to be inductive: the history is a sequence.      *)
PrefixInv == ActsOnPrefix /\ handled \in Seq(Nat)

LEMMA ActingExtendsPrefix ==
  ASSUME PrefixInv, NEW k \in Nat, Expected(k),
         nextTargetSeqNum' = nextTargetSeqNum + 1, handled' = Append(handled, k)
  PROVE  PrefixInv'
<1>1. handled \in Seq(Nat) /\ Len(handled) \in Nat /\ k = Len(handled) + 1
  BY DEF PrefixInv, ActsOnPrefix, Expected
<1>2. /\ handled' \in Seq(Nat) /\ Len(handled') = Len(handled) + 1
      /\ \A j \in 1..Len(handled') : handled'[j] = IF j = Len(handled) + 1 THEN k ELSE handled[j]
  BY <1>1
<1>3. \A j \in 1..Len(handled) : handled[j] = j
  BY DEF PrefixInv, ActsOnPrefix
<1>4. \A j \in 1..Len(handled') : handled'[j] = j
  BY <1>1, <1>2, <1>3
<1>5. handled' = [j \in 1..Len(handled') |-> j]
  <2>1. handled' \in [1..Len(handled') -> Nat]
    BY <1>2, LenProperties
  <2>2. QED BY <1>4, <2>1
<1>6. nextTargetSeqNum' = Len(handled') + 1
  BY <1>1, <1>2 DEF PrefixInv, ActsOnPrefix
<1>7. QED BY <1>2, <1>5, <1>6 DEF PrefixInv, ActsOnPrefix

LEMMA PrefixStep == PrefixInv /\ [FixNext]_fixVars => PrefixInv'
<1> SUFFICES ASSUME PrefixInv, [FixNext]_fixVars PROVE PrefixInv'
  OBVIOUS
<1>1. CASE UNCHANGED <<nextTargetSeqNum, handled>>
  BY <1>1 DEF PrefixInv, ActsOnPrefix
<1>2. CASE OnInbound
  <2>1. PICK k \in 1..Len(peerSent) : Expected(k) /\ (AnswerTestRequest(k) \/ TakeOther(k))
    BY <1>2 DEF OnInbound
  <2>2. nextTargetSeqNum' = nextTargetSeqNum + 1 /\ handled' = Append(handled, k)
    BY <2>1 DEF AnswerTestRequest, TakeOther
  <2>3. QED BY <2>1, <2>2, ActingExtendsPrefix
<1>3. QED BY <1>1, <1>2 DEF FixNext, fixVars, BuildLogon, BuildHeartbeat, PeerSends

(* on_inbound of src/fix/session.rs, under any delivery of frames: those    *)
(* acted on are the peer's first, each once and in order.                   *)
THEOREM FixActsOnPrefix == FixSpec => []ActsOnPrefix
<1>1. FixInit => PrefixInv
  BY DEF FixInit, PrefixInv, ActsOnPrefix
<1>2. PrefixInv => ActsOnPrefix
  BY DEF PrefixInv
<1>3. QED BY <1>1, <1>2, PrefixStep, PTL DEF FixSpec

(* The heartbeats that answer, among the messages built                     *)
Answers(o) == {k \in 1..Len(o) : o[k].request # NoRequest}

Message == [what : {"Logon", "Heartbeat"}, seq : Nat, request : Nat]

(* What AnswersOnce needs: the frames acted on are numbered as they came    *)
AnswersInv ==
  /\ PrefixInv
  /\ Len(handled) <= Len(peerSent)
  /\ peerSent \in Seq(FrameTypes)
  /\ out \in Seq(Message) /\ nextSenderSeqNum = Len(out) + 1
  /\ \A k \in 1..Len(out) : out[k].seq = k
  /\ \A j, k \in Answers(out) : j < k => out[j].request < out[k].request
  /\ {out[k].request : k \in Answers(out)} =
       {n \in 1..Len(handled) : peerSent[n] = "TestRequest"}

LEMMA AnswersInvMeans == AnswersInv => AnswersOnce
<1> SUFFICES ASSUME AnswersInv PROVE AnswersOnce
  OBVIOUS
<1>1. Len(handled) \in Nat /\ \A k \in 1..Len(handled) : handled[k] = k
  BY DEF AnswersInv, PrefixInv, ActsOnPrefix
<1>2. {handled[k] : k \in {j \in 1..Len(handled) : peerSent[handled[j]] = "TestRequest"}} =
        {n \in 1..Len(handled) : peerSent[n] = "TestRequest"}
  BY <1>1
<1>3. QED BY <1>2, Zenon DEF AnswersInv, AnswersOnce, Answers

(* A message built that answers nothing, or a request no message has        *)
(* answered and later than those                                            *)
LEMMA BuildAnswers ==
  ASSUME AnswersInv, NEW what \in {"Logon", "Heartbeat"}, NEW request \in Nat,
         request # NoRequest => \A k \in Answers(out) : out[k].request < request,
         Build(what, request)
  PROVE  /\ out' \in Seq(Message) /\ nextSenderSeqNum' = Len(out') + 1
         /\ \A k \in 1..Len(out') : out'[k].seq = k
         /\ \A j, k \in Answers(out') : j < k => out'[j].request < out'[k].request
         /\ {out'[k].request : k \in Answers(out')} =
              {out[k].request : k \in Answers(out)} \cup ({request} \ {NoRequest})
<1>1. Len(out) \in Nat /\ out \in Seq(Message) /\ nextSenderSeqNum = Len(out) + 1
  BY DEF AnswersInv
<1> DEFINE m == [what |-> what, seq |-> nextSenderSeqNum, request |-> request]
<1>2. out' = Append(out, m) /\ m \in Message /\ m.seq = Len(out) + 1 /\ m.request = request
      /\ nextSenderSeqNum' = Len(out) + 2
  BY <1>1 DEF Build, Message
<1> HIDE DEF m
<1>3. /\ out' \in Seq(Message) /\ Len(out') = Len(out) + 1
      /\ \A k \in 1..Len(out) : out'[k] = out[k]
      /\ out'[Len(out) + 1] = m
  BY <1>1, <1>2
<1>4. /\ Answers(out) \subseteq 1..Len(out)
      /\ \A k \in 1..Len(out) : k \in Answers(out) <=> k \in Answers(out')
      /\ Len(out) + 1 \in Answers(out') <=> request # NoRequest
      /\ Answers(out') \subseteq Answers(out) \cup {Len(out) + 1}
      /\ Answers(out) \subseteq Answers(out')
  BY <1>1, <1>2, <1>3 DEF Answers
<1>5. \A k \in 1..Len(out') : out'[k].seq = k
  BY <1>1, <1>2, <1>3 DEF AnswersInv
<1>6. \A j, k \in Answers(out') : j < k => out'[j].request < out'[k].request
  BY <1>1, <1>2, <1>3, <1>4 DEF AnswersInv
<1>7. {out'[k].request : k \in Answers(out')} =
        {out[k].request : k \in Answers(out)} \cup ({request} \ {NoRequest})
  BY <1>1, <1>2, <1>3, <1>4
<1>8. nextSenderSeqNum' = Len(out') + 1
  BY <1>1, <1>2, <1>3
<1>9. QED BY <1>3, <1>5, <1>6, <1>7, <1>8

LEMMA AnswersStep == AnswersInv /\ [FixNext]_fixVars => AnswersInv'
<1> SUFFICES ASSUME AnswersInv, [FixNext]_fixVars PROVE AnswersInv'
  OBVIOUS
<1>1. PrefixInv'
  BY PrefixStep DEF AnswersInv
<1>2. /\ Len(handled) \in Nat /\ \A k \in 1..Len(handled) : handled[k] = k
      /\ nextTargetSeqNum = Len(handled) + 1 /\ Len(peerSent) \in Nat
      /\ handled \in Seq(Nat)
  BY DEF AnswersInv, PrefixInv, ActsOnPrefix
<1>3. CASE BuildLogon \/ BuildHeartbeat
  <2>1. PICK what \in {"Logon", "Heartbeat"} : Build(what, NoRequest)
    BY <1>3 DEF BuildLogon, BuildHeartbeat
  <2>2. UNCHANGED <<peerSent, handled>>
    BY <1>3 DEF BuildLogon, BuildHeartbeat
  <2>3. NoRequest \in Nat
    BY DEF NoRequest
  <2>4. /\ out' \in Seq(Message) /\ nextSenderSeqNum' = Len(out') + 1
        /\ \A k \in 1..Len(out') : out'[k].seq = k
        /\ \A j, k \in Answers(out') : j < k => out'[j].request < out'[k].request
        /\ {out'[k].request : k \in Answers(out')} = {out[k].request : k \in Answers(out)}
    BY <2>1, <2>3, BuildAnswers
  <2>5. QED BY <1>1, <2>2, <2>4 DEF AnswersInv
<1>4. CASE OnInbound
  <2>1. PICK k \in 1..Len(peerSent) : Expected(k) /\ (AnswerTestRequest(k) \/ TakeOther(k))
    BY <1>4 DEF OnInbound
  <2>2. /\ k = Len(handled) + 1 /\ handled' = Append(handled, k) /\ peerSent' = peerSent
        /\ k \in Nat \ {0}
    BY <1>2, <1>4, <2>1 DEF OnInbound, Expected, AnswerTestRequest, TakeOther
  <2>3. Len(handled') = Len(handled) + 1 /\ Len(handled') <= Len(peerSent')
    BY <1>2, <2>1, <2>2
  <2>4. CASE AnswerTestRequest(k)
    <3>1. peerSent[k] = "TestRequest" /\ Build("Heartbeat", k) /\ k # NoRequest
      BY <2>2, <2>4 DEF AnswerTestRequest, NoRequest
    <3>2. \A j \in Answers(out) : out[j].request < k
      <4>1. \A j \in Answers(out) : out[j].request \in 1..Len(handled)
        BY DEF AnswersInv
      <4>2. QED BY <1>2, <2>2, <4>1
    <3>3. /\ out' \in Seq(Message) /\ nextSenderSeqNum' = Len(out') + 1
          /\ \A j \in 1..Len(out') : out'[j].seq = j
          /\ \A i, j \in Answers(out') : i < j => out'[i].request < out'[j].request
          /\ {out'[j].request : j \in Answers(out')} = {out[j].request : j \in Answers(out)} \cup {k}
      BY <2>2, <3>1, <3>2, BuildAnswers
    <3>4. {n \in 1..Len(handled') : peerSent'[n] = "TestRequest"} =
            {n \in 1..Len(handled) : peerSent[n] = "TestRequest"} \cup {k}
      BY <1>2, <2>2, <2>3, <3>1
    <3>5. QED BY <1>1, <2>2, <2>3, <3>3, <3>4 DEF AnswersInv
  <2>5. CASE TakeOther(k)
    <3>1. peerSent[k] # "TestRequest" /\ UNCHANGED <<out, nextSenderSeqNum>>
      BY <2>5 DEF TakeOther
    <3>2. {n \in 1..Len(handled') : peerSent'[n] = "TestRequest"} =
            {n \in 1..Len(handled) : peerSent[n] = "TestRequest"}
      BY <1>2, <2>2, <2>3, <3>1
    <3>3. QED BY <1>1, <2>2, <2>3, <3>1, <3>2 DEF AnswersInv
  <2>6. QED BY <2>1, <2>4, <2>5
<1>5. CASE PeerSends
  <2>1. PICK t \in FrameTypes : peerSent' = Append(peerSent, t)
    BY <1>5 DEF PeerSends
  <2>2. UNCHANGED <<out, nextSenderSeqNum, handled>>
    BY <1>5 DEF PeerSends
  <2>3. peerSent' \in Seq(FrameTypes) /\ Len(peerSent') = Len(peerSent) + 1
        /\ \A n \in 1..Len(peerSent) : peerSent'[n] = peerSent[n]
    BY <2>1 DEF AnswersInv
  <2>4. {n \in 1..Len(handled') : peerSent'[n] = "TestRequest"} =
          {n \in 1..Len(handled) : peerSent[n] = "TestRequest"}
    <3>1. Len(handled) <= Len(peerSent)
      BY DEF AnswersInv
    <3>2. \A n \in 1..Len(handled) : peerSent'[n] = peerSent[n]
      BY <1>2, <2>3, <3>1
    <3>3. QED BY <2>2, <3>2
  <2>5. Len(handled') <= Len(peerSent')
    BY <1>2, <2>2, <2>3 DEF AnswersInv
  <2>6. QED BY <1>1, <2>2, <2>3, <2>4, <2>5 DEF AnswersInv
<1>6. CASE UNCHANGED fixVars
  BY <1>1, <1>6 DEF AnswersInv, fixVars
<1>7. QED BY <1>3, <1>4, <1>5, <1>6 DEF FixNext

(* on_inbound, build_logon and build_heartbeat of src/fix/session.rs, under *)
(* any delivery of frames: every test request acted on is answered once, in *)
(* order, and all messages built share one numbering.                       *)
THEOREM FixAnswersOnce == FixSpec => []AnswersOnce
<1>1. FixInit => AnswersInv
  BY DEF FixInit, AnswersInv, PrefixInv, ActsOnPrefix, Answers
<1>2. QED BY <1>1, AnswersStep, AnswersInvMeans, PTL DEF FixSpec

---------------------------------------------------------------------------
(* DashboardFeed: the ring of numbered events.                              *)

Numbered == [seq : Nat, event : Payloads]

(* The ring holds the last events published, as many as it can              *)
RingInOrder ==
  /\ nextSeq \in Nat \ {0}
  /\ events \in Seq(Numbered)
  /\ Len(events) < nextSeq /\ Len(events) <= EventCap
  /\ Len(events) = nextSeq - 1 \/ Len(events) = EventCap
  /\ \A k \in 1..Len(events) : events[k].seq = (nextSeq - 1 - Len(events)) + k
  /\ after \in 0..(nextSeq - 1)

LEMMA EventCapIsPositive == EventCap \in Nat \ {0}
<1>1. /\ Cap \in Nat \ {0} /\ EventFactor \in Nat \ {0} /\ EventMin \in Nat
  BY FeedAssumption
<1>2. EventFactor * Cap \in Nat \ {0}
  BY <1>1
<1>3. QED BY <1>1, <1>2 DEF EventCap

LEMMA InOrderMeansNoHole == RingInOrder => HolesOnlyWhenLate
<1> SUFFICES ASSUME RingInOrder, nextSeq - 1 - after <= EventCap
             PROVE  /\ {events[k].seq : k \in EventsAfter(after)} = (after + 1)..(nextSeq - 1)
                    /\ \A j, k \in EventsAfter(after) : j < k => events[j].seq < events[k].seq
  BY DEF HolesOnlyWhenLate
<1>1. /\ nextSeq \in Nat \ {0} /\ Len(events) \in Nat /\ Len(events) < nextSeq
      /\ Len(events) = nextSeq - 1 \/ Len(events) = EventCap
      /\ \A k \in 1..Len(events) : events[k].seq = (nextSeq - 1 - Len(events)) + k
      /\ after \in 0..(nextSeq - 1)
      /\ EventCap \in Nat
  BY EventCapIsPositive DEF RingInOrder
<1>2. ASSUME NEW m \in (after + 1)..(nextSeq - 1)
      PROVE  \E k \in EventsAfter(after) : events[k].seq = m
  <2>1. nextSeq - 1 - Len(events) <= after
    BY <1>1
  <2>2. m \in Nat /\ m > nextSeq - 1 - Len(events) /\ m <= nextSeq - 1
    BY <1>1, <2>1
  <2>3. m - (nextSeq - 1 - Len(events)) \in 1..Len(events)
    BY <1>1, <2>2
  <2>4. PICK k \in 1..Len(events) : k = m - (nextSeq - 1 - Len(events))
    BY <2>3
  <2>5. (nextSeq - 1 - Len(events)) + k = m
    BY <1>1, <2>2, <2>4
  <2>6. events[k].seq = m
    BY <1>1, <2>5
  <2>7. QED BY <1>1, <2>2, <2>6 DEF EventsAfter
<1>3. ASSUME NEW k \in EventsAfter(after) PROVE events[k].seq \in (after + 1)..(nextSeq - 1)
  <2>1. k \in 1..Len(events) /\ events[k].seq > after
    BY DEF EventsAfter
  <2>2. QED BY <1>1, <2>1
<1>4. \A j, k \in EventsAfter(after) : j < k => events[j].seq < events[k].seq
  BY <1>1 DEF EventsAfter
<1>5. QED BY <1>2, <1>3, <1>4

LEMMA RingGrows ==
  ASSUME NEW S, NEW ring \in Seq(S), NEW c \in Nat, NEW x \in S, Len(ring) < c,
         NEW r, r = PushRing(ring, c, x)
  PROVE  /\ r \in Seq(S) /\ Len(r) = Len(ring) + 1 /\ r[Len(ring) + 1] = x
         /\ \A k \in 1..Len(ring) : r[k] = ring[k]
<1>1. r = Append(ring, x)
  BY DEF PushRing
<1>2. QED BY <1>1

(* r is ring without its first and with x behind its last entry             *)
Shifted(r, ring, x) ==
  /\ Len(r) = Len(ring) /\ r[Len(ring)] = x
  /\ \A k \in 1..(Len(ring) - 1) : r[k] = ring[k + 1]

LEMMA RingDrops ==
  ASSUME NEW S, NEW ring \in Seq(S), NEW c \in Nat, NEW x \in S, Len(ring) >= c, Len(ring) > 0,
         NEW r, r = PushRing(ring, c, x)
  PROVE  r \in Seq(S) /\ Shifted(r, ring, x)
<1>1. r = Append(Tail(ring), x)
  BY DEF PushRing
<1>2. ring # <<>>
  OBVIOUS
<1>3. /\ Tail(ring) \in Seq(S) /\ Len(Tail(ring)) = Len(ring) - 1
      /\ \A k \in 1..Len(Tail(ring)) : Tail(ring)[k] = ring[k + 1]
  BY <1>2, HeadTailProperties
<1> DEFINE t == Tail(ring)
<1>4. r = Append(t, x) /\ t \in Seq(S) /\ Len(t) = Len(ring) - 1
      /\ \A k \in 1..Len(t) : t[k] = ring[k + 1]
  BY <1>1, <1>3
<1> HIDE DEF t
<1>5. r \in Seq(S) /\ Len(r) = Len(t) + 1 /\ r[Len(t) + 1] = x /\ \A k \in 1..Len(t) : r[k] = t[k]
  BY <1>4
<1>6. Len(t) + 1 = Len(ring)
  BY <1>4
<1>7. QED BY <1>4, <1>5, <1>6 DEF Shifted

LEMMA RingInOrderInit == FeedInit => RingInOrder
BY EventCapIsPositive DEF FeedInit, RingInOrder

LEMMA RingInOrderPublish == ASSUME RingInOrder, Publish PROVE RingInOrder'
<1>1. /\ nextSeq \in Nat \ {0} /\ Len(events) \in Nat /\ Len(events) < nextSeq
      /\ events \in Seq(Numbered) /\ Len(events) <= EventCap
      /\ Len(events) = nextSeq - 1 \/ Len(events) = EventCap
      /\ \A k \in 1..Len(events) : events[k].seq = (nextSeq - 1 - Len(events)) + k
      /\ after \in 0..(nextSeq - 1)
      /\ EventCap \in Nat \ {0}
  BY EventCapIsPositive DEF RingInOrder
<1>2. nextSeq' = nextSeq + 1 /\ after' = after
  BY DEF Publish, clientVars
<1>3. PICK x \in Numbered : x.seq = nextSeq /\ events' = PushRing(events, EventCap, x)
  <2>1. PICK p \in Payloads : events' = PushRing(events, EventCap, [seq |-> nextSeq, event |-> p])
    BY DEF Publish
  <2>2. [seq |-> nextSeq, event |-> p] \in Numbered
    BY <1>1 DEF Numbered
  <2>3. QED BY <2>1, <2>2
<1> DEFINE base == nextSeq - 1 - Len(events)
<1>4. CASE Len(events) < EventCap
  <2>1. /\ events' \in Seq(Numbered) /\ Len(events') = Len(events) + 1
        /\ events'[Len(events) + 1] = x
        /\ \A k \in 1..Len(events) : events'[k] = events[k]
    <3>1. /\ events \in Seq(Numbered) /\ EventCap \in Nat /\ x \in Numbered
          /\ events' = PushRing(events, EventCap, x)
      BY <1>1, <1>3
    <3>2. QED BY <1>4, <3>1, RingGrows, SMT
  <2>2. nextSeq' - 1 - Len(events') = base
    BY <1>1, <1>2, <2>1
  <2>3. \A k \in 1..Len(events) : events'[k].seq = base + k
    BY <1>1, <2>1
  <2>4. events'[Len(events) + 1].seq = base + (Len(events) + 1)
    BY <1>1, <1>3, <2>1
  <2>5. \A k \in 1..Len(events') : events'[k].seq = (nextSeq' - 1 - Len(events')) + k
    <3>1. \A k \in 1..Len(events') : k \in 1..Len(events) \/ k = Len(events) + 1
      BY <1>1, <2>1
    <3>2. QED BY <2>2, <2>3, <2>4, <3>1
  <2>6. /\ Len(events') < nextSeq' /\ Len(events') <= EventCap
        /\ Len(events') = nextSeq' - 1
    BY <1>1, <1>2, <1>4, <2>1
  <2>7. QED BY <1>1, <1>2, <2>1, <2>5, <2>6 DEF RingInOrder
<1>5. CASE Len(events) = EventCap
  <2>1. /\ events' \in Seq(Numbered) /\ Len(events') = Len(events)
        /\ events'[Len(events)] = x
        /\ \A k \in 1..(Len(events) - 1) : events'[k] = events[k + 1]
    <3>1. /\ events \in Seq(Numbered) /\ EventCap \in Nat /\ x \in Numbered
          /\ events' = PushRing(events, EventCap, x)
          /\ Len(events) >= EventCap /\ Len(events) > 0
      BY <1>1, <1>3, <1>5
    <3>2. events' \in Seq(Numbered) /\ Shifted(events', events, x)
      BY <3>1, RingDrops, SMT
    <3>3. QED BY <3>2 DEF Shifted
  <2>2. nextSeq' - 1 - Len(events') = base + 1
    BY <1>1, <1>2, <2>1
  <2>3. ASSUME NEW k \in 1..(Len(events) - 1)
        PROVE  events'[k].seq = (base + 1) + k
    <3>1. events'[k] = events[k + 1] /\ k + 1 \in 1..Len(events)
      BY <1>1, <2>1
    <3>2. QED BY <1>1, <3>1
  <2>4. events'[Len(events)].seq = (base + 1) + Len(events)
    BY <1>1, <1>3, <2>1
  <2>5. \A k \in 1..Len(events') : events'[k].seq = (nextSeq' - 1 - Len(events')) + k
    BY <1>1, <2>1, <2>2, <2>3, <2>4
  <2>6. Len(events') < nextSeq' /\ Len(events') = EventCap
    BY <1>1, <1>2, <1>5, <2>1
  <2>7. QED BY <1>1, <1>2, <2>1, <2>5, <2>6 DEF RingInOrder
<1>6. QED BY <1>1, <1>4, <1>5

(* What is after the last event the client has seen reaches to the last     *)
(* event published                                                          *)
LEMMA NewReachesEnd ==
  ASSUME RingInOrder, EventsAfter(after) # {}
  PROVE  /\ Len(events) \in Nat \ {0} /\ Max(EventsAfter(after)) = Len(events)
         /\ events[Len(events)].seq = nextSeq - 1 /\ after < nextSeq - 1
<1>1. /\ nextSeq \in Nat \ {0} /\ Len(events) \in Nat
      /\ \A k \in 1..Len(events) : events[k].seq = (nextSeq - 1 - Len(events)) + k
      /\ after \in 0..(nextSeq - 1)
  BY DEF RingInOrder
<1>2. PICK k \in 1..Len(events) : events[k].seq > after
  BY DEF EventsAfter
<1>3. /\ Len(events) \in 1..Len(events) /\ events[Len(events)].seq = nextSeq - 1
      /\ after < nextSeq - 1
  BY <1>1, <1>2
<1>4. /\ Len(events) \in EventsAfter(after)
      /\ \A x \in EventsAfter(after) : x \in Nat /\ Len(events) >= x
  BY <1>1, <1>3 DEF EventsAfter
<1>5. Max(EventsAfter(after)) = Len(events)
  <2>1. \A x \in EventsAfter(after) :
          (\A y \in EventsAfter(after) : x >= y) => x = Len(events)
    BY <1>1, <1>4
  <2>2. QED BY <1>4, <2>1 DEF Max
<1>6. QED BY <1>1, <1>3, <1>5

LEMMA RingInOrderClient == ASSUME RingInOrder, Snapshot \/ Poll PROVE RingInOrder'
<1>1. UNCHANGED <<nextSeq, events>>
  BY DEF Snapshot, Poll, feedVars
<1>2. after' \in 0..(nextSeq - 1)
  <2>1. CASE Snapshot
    BY <2>1 DEF Snapshot, RingInOrder
  <2>2. CASE Poll
    <3>1. EventsAfter(after) # {} /\ after' = events[Max(EventsAfter(after))].seq
      BY <2>2 DEF Poll
    <3>2. after' = nextSeq - 1
      BY <3>1, NewReachesEnd
    <3>3. QED BY <3>2 DEF RingInOrder
  <2>3. QED BY <2>1, <2>2
<1>3. QED BY <1>1, <1>2 DEF RingInOrder

LEMMA RingInOrderStep == RingInOrder /\ [FeedNext]_<<feedVars, clientVars>> => RingInOrder'
<1> SUFFICES ASSUME RingInOrder, [FeedNext]_<<feedVars, clientVars>> PROVE RingInOrder'
  OBVIOUS
<1>1. CASE UNCHANGED <<feedVars, clientVars>>
  BY <1>1 DEF feedVars, clientVars, RingInOrder
<1>2. QED BY <1>1, RingInOrderPublish, RingInOrderClient DEF FeedNext

(* push_event and events_after of src/dashboard_feed.rs: a client that was  *)
(* not late gets every event after the last one it has seen, in order.      *)
THEOREM FeedHolesOnlyWhenLate == FeedSpec => []HolesOnlyWhenLate
BY RingInOrderInit, RingInOrderStep, InOrderMeansNoHole, PTL DEF FeedSpec

---------------------------------------------------------------------------
(* DashboardFeed: what a client shows that follows the events.              *)

(* What showing one event more does, if it is after the a-th                *)
ShowAfter(v, a, e) == IF e.seq > a THEN Show(v, e.event, e.seq) ELSE v

ShowAll(v, a, es) ==
  FoldLeft(LAMBDA w, e : IF e.seq > a THEN Show(w, e.event, e.seq) ELSE w, v, es)

(* The function by which FoldLeft is defined, on the sets of positions      *)
Folding(it, v, a, es, S) ==
  it = [s \in SUBSET S |-> IF s = {} THEN v ELSE ShowAfter(it[s \ {Max(s)}], a, es[Max(s)])]

LEMMA LeastNatural ==
  ASSUME NEW S \in SUBSET Nat, S # {}
  PROVE  \E n \in S : \A m \in S : n <= m
<1>1. IsWellFoundedOn(OpToRel(<, Nat), Nat)
  BY NatLessThanWellFounded
<1>2. PICK n \in S : \A m \in S : ~ (<<m, n>> \in OpToRel(<, Nat))
  BY <1>1, WFMin, Zenon
<1>3. \A m \in S : ~ (m < n)
  BY <1>2 DEF OpToRel
<1>4. QED BY <1>3

LEMMA GreatestIs ==
  ASSUME NEW n \in Nat, NEW s \in SUBSET (1..n), n \in s
  PROVE  Max(s) = n
<1>1. \A x \in s : x \in Nat /\ x <= n
  OBVIOUS
<1>2. \A x \in s : (\A y \in s : x >= y) => x = n
  BY <1>1
<1>3. QED BY <1>1, <1>2 DEF Max

LEMMA FoldingNext ==
  ASSUME NEW v, NEW a, NEW es, NEW n \in Nat \ {0}, NEW g, Folding(g, v, a, es, 1..(n - 1))
  PROVE  \E it : Folding(it, v, a, es, 1..n)
<1> DEFINE it == [s \in SUBSET (1..n) |->
                    IF n \in s THEN ShowAfter(g[s \ {n}], a, es[n]) ELSE g[s]]
<1>1. \A s \in SUBSET (1..n) : n \notin s => s \in SUBSET (1..(n - 1))
  OBVIOUS
<1>2. ASSUME NEW s \in SUBSET (1..n)
      PROVE  it[s] = IF s = {} THEN v ELSE ShowAfter(it[s \ {Max(s)}], a, es[Max(s)])
  <2>1. CASE s = {}
    <3>1. it[s] = g[s] /\ s \in SUBSET (1..(n - 1))
      BY <2>1
    <3>2. QED BY <2>1, <3>1 DEF Folding
  <2>2. CASE n \in s
    <3>1. Max(s) = n
      BY <2>2, GreatestIs
    <3>2. s \ {n} \in SUBSET (1..n) /\ n \notin s \ {n}
      OBVIOUS
    <3>3. it[s \ {n}] = g[s \ {n}]
      BY <3>2
    <3>4. it[s] = ShowAfter(g[s \ {n}], a, es[n])
      BY <2>2
    <3>5. QED BY <2>2, <3>1, <3>3, <3>4
  <2>3. CASE s # {} /\ n \notin s
    <3>1. it[s] = g[s] /\ s \in SUBSET (1..(n - 1))
      BY <1>1, <2>3
    <3>2. g[s] = ShowAfter(g[s \ {Max(s)}], a, es[Max(s)])
      BY <2>3, <3>1 DEF Folding
    <3>3. s \ {Max(s)} \in SUBSET (1..n) /\ n \notin s \ {Max(s)}
      BY <2>3
    <3>4. it[s \ {Max(s)}] = g[s \ {Max(s)}]
      BY <3>3
    <3>5. QED BY <2>3, <3>1, <3>2, <3>4
  <2>4. QED BY <2>1, <2>2, <2>3
<1> HIDE DEF it
<1>3. it = [s \in SUBSET (1..n) |-> it[s]]
  BY DEF it
<1>4. Folding(it, v, a, es, 1..n)
  BY <1>2, <1>3 DEF Folding
<1>5. QED BY <1>4

LEMMA FoldingExists ==
  ASSUME NEW v, NEW a, NEW es, NEW n \in Nat
  PROVE  \E it : Folding(it, v, a, es, 1..n)
<1> DEFINE Bad == {m \in Nat : ~ \E it : Folding(it, v, a, es, 1..m)}
<1> SUFFICES ASSUME Bad # {} PROVE FALSE
  BY Zenon
<1>1. Bad \in SUBSET Nat
  OBVIOUS
<1>2. PICK m \in Bad : \A k \in Bad : m <= k
  BY <1>1, LeastNatural, Zenon
<1>3. m # 0
  <2> DEFINE it == [s \in SUBSET (1..0) |-> v]
  <2>1. \A s \in SUBSET (1..0) : s = {}
    OBVIOUS
  <2>2. it = [s \in SUBSET (1..0) |->
               IF s = {} THEN v ELSE ShowAfter(it[s \ {Max(s)}], a, es[Max(s)])]
    BY <2>1, Zenon
  <2>3. Folding(it, v, a, es, 1..0)
    BY <2>2, Zenon DEF Folding
  <2>4. 0 \notin Bad
    BY <2>3, Zenon
  <2>5. QED BY <2>4
<1>4. m \in Nat \ {0} /\ m - 1 \in Nat /\ ~ (m <= m - 1)
  BY <1>3
<1>5. m - 1 \notin Bad
  BY <1>2, <1>4
<1>6. PICK g : Folding(g, v, a, es, 1..(m - 1))
  BY <1>4, <1>5
<1>7. \E it : Folding(it, v, a, es, 1..m)
  BY <1>4, <1>6, FoldingNext
<1>8. QED BY <1>2, <1>7

LEMMA ShowAllSteps ==
  ASSUME NEW v, NEW a, NEW S, NEW es \in Seq(S)
  PROVE  \E f : /\ f[0] = v
                /\ \A k \in 1..Len(es) : f[k] = ShowAfter(f[k - 1], a, es[k])
                /\ f[Len(es)] = ShowAll(v, a, es)
<1>1. DOMAIN es = 1..Len(es) /\ Len(es) \in Nat
  OBVIOUS
<1> DEFINE it == CHOOSE it : Folding(it, v, a, es, 1..Len(es))
<1>2. Folding(it, v, a, es, 1..Len(es))
  BY <1>1, FoldingExists, Zenon
<1>3. ShowAll(v, a, es) = it[1..Len(es)]
  BY <1>1 DEF ShowAll, FoldLeft, MapThenFoldSet, Folding, ShowAfter
<1> HIDE DEF it
<1> DEFINE f == [k \in 0..Len(es) |-> it[1..k]]
<1>4. f[0] = v
  BY <1>1, <1>2 DEF Folding
<1>5. ASSUME NEW k \in 1..Len(es) PROVE f[k] = ShowAfter(f[k - 1], a, es[k])
  <2>1. 1..k \in SUBSET (1..Len(es)) /\ k \in 1..k /\ k \in Nat
    BY <1>1
  <2>2. Max(1..k) = k
    BY <2>1, GreatestIs
  <2>3. (1..k) \ {k} = 1..(k - 1) /\ 1..k # {}
    <3>1. \A j : j \in (1..k) \ {k} <=> j \in 1..(k - 1)
      BY <2>1
    <3>2. (1..k) \ {k} = 1..(k - 1)
      BY <3>1, Zenon
    <3>3. QED BY <2>1, <3>2
  <2>4. it[1..k] = ShowAfter(it[1..(k - 1)], a, es[k])
    BY <1>2, <2>1, <2>2, <2>3 DEF Folding
  <2>5. f[k] = it[1..k] /\ f[k - 1] = it[1..(k - 1)]
    BY <1>1
  <2>6. QED BY <2>4, <2>5
<1>6. f[Len(es)] = it[1..Len(es)]
  BY <1>1
<1>7. QED BY <1>3, <1>4, <1>5, <1>6

(* h tells for every number up to the last what was shown when the event    *)
(* with that number had been published                                      *)
Tells(h, last, what, es) ==
  /\ h[last] = what
  /\ \A k \in 1..Len(es) :
       h[es[k].seq] = Show(h[es[k].seq - 1], es[k].event, es[k].seq)

(* A client without a hole shows what the feed did at the last event it has *)
(* seen                                                                     *)
SeenInv ==
  /\ RingInOrder
  /\ \E h : Tells(h, nextSeq - 1, shown, events) /\ (hole \/ view = h[after])

LEMMA SeenInvMeans == SeenInv => FollowingIsSeeing
BY Zenon DEF SeenInv, Tells, FollowingIsSeeing

LEMMA SeenInvPublish == ASSUME SeenInv, Publish PROVE SeenInv'
<1>1. RingInOrder'
  BY RingInOrderPublish DEF SeenInv
<1>2. PICK h : Tells(h, nextSeq - 1, shown, events) /\ (hole \/ view = h[after])
  BY DEF SeenInv
<1>3. PICK p \in Payloads :
        /\ shown' = Show(shown, p, nextSeq)
        /\ events' = PushRing(events, EventCap, [seq |-> nextSeq, event |-> p])
  BY DEF Publish
<1>4. nextSeq' = nextSeq + 1 /\ after' = after /\ view' = view
  BY DEF Publish, clientVars
<1>5. hole' = hole
  BY Zenon DEF Publish, clientVars
<1>6. /\ nextSeq \in Nat \ {0} /\ Len(events) \in Nat /\ events \in Seq(Numbered)
      /\ Len(events) <= EventCap /\ EventCap \in Nat \ {0} /\ Len(events) < nextSeq
      /\ \A k \in 1..Len(events) : events[k].seq = (nextSeq - 1 - Len(events)) + k
      /\ after \in 0..(nextSeq - 1)
  BY EventCapIsPositive DEF SeenInv, RingInOrder
<1> DEFINE g == [n \in 0..nextSeq |-> IF n = nextSeq THEN shown' ELSE h[n]]
<1>7. g[nextSeq] = shown' /\ \A n \in 0..(nextSeq - 1) : g[n] = h[n]
  BY <1>6
<1> HIDE DEF g
<1> DEFINE Told(e) == g[e.seq] = Show(g[e.seq - 1], e.event, e.seq)
<1>8. ASSUME NEW k \in 1..Len(events) PROVE Told(events[k])
  <2>1. events[k].seq \in 0..(nextSeq - 1) /\ events[k].seq - 1 \in 0..(nextSeq - 1)
    BY <1>6
  <2>2. g[events[k].seq] = h[events[k].seq] /\ g[events[k].seq - 1] = h[events[k].seq - 1]
    BY <1>7, <2>1
  <2>3. QED BY <1>2, <2>2 DEF Tells
<1> DEFINE x == [seq |-> nextSeq, event |-> p]
<1>9. Told(x)
  <2>1. g[nextSeq - 1] = shown
    BY <1>2, <1>6, <1>7 DEF Tells
  <2>2. x.seq = nextSeq /\ x.event = p
    OBVIOUS
  <2>3. QED BY <1>3, <1>7, <2>1, <2>2
<1>10. x \in Numbered /\ events' = PushRing(events, EventCap, x)
  BY <1>3, <1>6 DEF Numbered
<1> HIDE DEF x, Told
<1>11. \A k \in 1..Len(events') : Told(events'[k])
  <2>1. CASE Len(events) < EventCap
    <3>1. /\ Len(events') = Len(events) + 1 /\ events'[Len(events) + 1] = x
          /\ \A k \in 1..Len(events) : events'[k] = events[k]
      <4>1. events \in Seq(Numbered) /\ EventCap \in Nat
        BY <1>6
      <4>2. QED BY <1>10, <2>1, <4>1, RingGrows, SMT
    <3>2. \A k \in 1..Len(events') : k \in 1..Len(events) \/ k = Len(events) + 1
      BY <1>6, <3>1
    <3>3. QED BY <1>8, <1>9, <3>1, <3>2
  <2>2. CASE Len(events) = EventCap
    <3>1. Shifted(events', events, x)
      <4>1. events \in Seq(Numbered) /\ EventCap \in Nat /\ Len(events) >= EventCap /\ Len(events) > 0
        BY <1>6, <2>2
      <4>2. QED BY <1>10, <4>1, RingDrops, SMT
    <3>2. ASSUME NEW k \in 1..Len(events') PROVE Told(events'[k])
      <4>1. k = Len(events) \/ (k \in 1..(Len(events) - 1) /\ k + 1 \in 1..Len(events))
        BY <1>6, <3>1 DEF Shifted
      <4>2. QED BY <1>8, <1>9, <3>1, <4>1 DEF Shifted
    <3>3. QED BY <3>2
  <2>3. QED BY <1>6, <2>1, <2>2
<1>12. Tells(g, nextSeq' - 1, shown', events')
  <2>1. nextSeq' - 1 = nextSeq
    BY <1>4, <1>6
  <2>2. QED BY <1>7, <1>11, <2>1 DEF Tells, Told
<1>13. hole' \/ view' = g[after']
  BY <1>2, <1>4, <1>5, <1>6, <1>7
<1>14. QED BY <1>1, <1>12, <1>13 DEF SeenInv

LEMMA SeenInvSnapshot == ASSUME SeenInv, Snapshot PROVE SeenInv'
<1>1. RingInOrder'
  BY RingInOrderClient DEF SeenInv
<1>2. PICK h : Tells(h, nextSeq - 1, shown, events)
  BY DEF SeenInv
<1>3. UNCHANGED <<nextSeq, shown, events>> /\ view' = shown /\ after' = nextSeq - 1
  BY DEF Snapshot, feedVars
<1>4. Tells(h, nextSeq' - 1, shown', events') /\ view' = h[after']
  BY <1>2, <1>3 DEF Tells
<1>5. QED BY <1>1, <1>4 DEF SeenInv

(* Without a hole, the events shown one by one take the client from what it *)
(* shows to what the feed shows                                             *)
LEMMA PollFollows ==
  ASSUME SeenInv, Poll, ~ hole'
  PROVE  view' = shown
<1>1. /\ nextSeq \in Nat \ {0} /\ Len(events) \in Nat /\ events \in Seq(Numbered)
      /\ \A k \in 1..Len(events) : events[k].seq = (nextSeq - 1 - Len(events)) + k
      /\ Len(events) < nextSeq /\ after \in 0..(nextSeq - 1)
  BY DEF SeenInv, RingInOrder
<1>2. EventsAfter(after) # {} /\ view' = ShowAll(view, after, events)
  BY DEF Poll, ShowAll
<1>3. ~ hole /\ events[Min(EventsAfter(after))].seq = after + 1
  BY Zenon DEF Poll
<1>4. PICK h : Tells(h, nextSeq - 1, shown, events) /\ view = h[after]
  BY <1>3, Zenon DEF SeenInv
<1> DEFINE base == nextSeq - 1 - Len(events)
<1>5. base \in Nat /\ base <= after
  <2>1. \E n \in EventsAfter(after) : \A m \in EventsAfter(after) : n <= m
    <3>1. EventsAfter(after) \in SUBSET Nat
      BY DEF EventsAfter
    <3>2. QED BY <1>2, <3>1, LeastNatural, Zenon
  <2>2. Min(EventsAfter(after)) \in EventsAfter(after)
    BY <2>1 DEF Min
  <2>3. PICK k \in 1..Len(events) : k = Min(EventsAfter(after))
    BY <2>2 DEF EventsAfter
  <2>4. base + k = after + 1
    BY <1>1, <1>3, <2>3
  <2>5. QED BY <1>1, <2>4
<1>6. PICK f : /\ f[0] = view
               /\ \A k \in 1..Len(events) : f[k] = ShowAfter(f[k - 1], after, events[k])
               /\ f[Len(events)] = ShowAll(view, after, events)
  BY <1>1, ShowAllSteps
<1>7. base + Len(events) = nextSeq - 1 /\ nextSeq - 1 > after
  BY <1>1, <1>2, NewReachesEnd DEF SeenInv
<1>8. \A k \in 1..Len(events) : events[k].seq = base + k
  BY <1>1
<1> HIDE DEF base
<1> DEFINE Follows(k) == f[k] = IF base + k > after THEN h[base + k] ELSE view
           Bad == {k \in 0..Len(events) : ~ Follows(k)}
<1>9. Bad = {}
  <2> SUFFICES ASSUME Bad # {} PROVE FALSE
    OBVIOUS
  <2>1. Bad \in SUBSET Nat
    BY <1>1
  <2>2. PICK k \in Bad : \A m \in Bad : k <= m
    BY <2>1, LeastNatural, Zenon
  <2>3. k # 0
    <3>1. Follows(0)
      BY <1>5, <1>6, <1>1
    <3>2. QED BY <2>2, <3>1
  <2>4. k \in 1..Len(events) /\ k - 1 \in 0..Len(events) /\ ~ (k <= k - 1)
    BY <1>1, <2>2, <2>3
  <2>5. Follows(k - 1)
    BY <2>2, <2>4
  <2>6. events[k].seq = base + k /\ f[k] = ShowAfter(f[k - 1], after, events[k])
    BY <1>6, <1>8, <2>4
  <2>7. CASE base + k > after
    <3>1. f[k - 1] = h[(base + k) - 1]
      <4>1. base + (k - 1) = (base + k) - 1
        BY <1>5, <2>4
      <4>2. CASE base + (k - 1) > after
        BY <2>5, <4>1, <4>2
      <4>3. CASE ~ (base + (k - 1) > after)
        <5>1. (base + k) - 1 = after
          BY <1>1, <1>5, <2>4, <2>7, <4>3
        <5>2. f[k - 1] = view
          BY <2>5, <4>3
        <5>3. QED BY <1>4, <5>1, <5>2
      <4>4. QED BY <4>2, <4>3
    <3>2. f[k] = Show(f[k - 1], events[k].event, base + k)
      BY <2>6, <2>7 DEF ShowAfter
    <3>3. h[base + k] = Show(h[(base + k) - 1], events[k].event, base + k)
      BY <1>4, <2>4, <2>6 DEF Tells
    <3>4. Follows(k)
      BY <2>7, <3>1, <3>2, <3>3
    <3>5. QED BY <2>2, <3>4
  <2>8. CASE ~ (base + k > after)
    <3>1. ~ (base + (k - 1) > after)
      BY <1>1, <1>5, <2>4, <2>8
    <3>2. f[k] = view
      BY <2>5, <2>6, <2>8, <3>1 DEF ShowAfter
    <3>3. Follows(k)
      BY <2>8, <3>2
    <3>4. QED BY <2>2, <3>3
  <2>9. QED BY <2>7, <2>8
<1>10. Follows(Len(events))
  BY <1>1, <1>9
<1>11. f[Len(events)] = h[nextSeq - 1]
  BY <1>7, <1>10
<1>12. QED BY <1>2, <1>4, <1>6, <1>11 DEF Tells

LEMMA SeenInvPoll == ASSUME SeenInv, Poll PROVE SeenInv'
<1>1. RingInOrder'
  BY RingInOrderClient DEF SeenInv
<1>2. PICK h : Tells(h, nextSeq - 1, shown, events)
  BY DEF SeenInv
<1>3. UNCHANGED <<nextSeq, shown, events>>
  BY DEF Poll, feedVars
<1>4. Tells(h, nextSeq' - 1, shown', events')
  BY <1>2, <1>3 DEF Tells
<1>5. after' = nextSeq - 1
  <2>1. EventsAfter(after) # {} /\ after' = events[Max(EventsAfter(after))].seq
    BY DEF Poll
  <2>2. QED BY <2>1, NewReachesEnd DEF SeenInv
<1>6. h[after'] = shown
  BY <1>2, <1>5 DEF Tells
<1>7. hole' \/ view' = h[after']
  BY <1>6, PollFollows, Zenon
<1>8. QED BY <1>1, <1>4, <1>7 DEF SeenInv

LEMMA SeenInvInit == FeedInit => SeenInv
<1> SUFFICES ASSUME FeedInit PROVE SeenInv
  OBVIOUS
<1>1. nextSeq = 1 /\ events = <<>> /\ view = shown /\ after = 0
  BY DEF FeedInit
<1> DEFINE h == [n \in {0} |-> shown]
<1>2. Tells(h, nextSeq - 1, shown, events) /\ view = h[after]
  BY <1>1 DEF Tells
<1>3. QED BY <1>2, RingInOrderInit DEF SeenInv

LEMMA SeenInvStep == SeenInv /\ [FeedNext]_<<feedVars, clientVars>> => SeenInv'
<1> SUFFICES ASSUME SeenInv, [FeedNext]_<<feedVars, clientVars>> PROVE SeenInv'
  OBVIOUS
<1>1. CASE UNCHANGED <<feedVars, clientVars>>
  <2>1. UNCHANGED <<nextSeq, shown, events, view, after>>
    BY <1>1 DEF feedVars, clientVars
  <2>2. hole' = hole
    BY <1>1, Zenon DEF feedVars, clientVars
  <2>3. RingInOrder'
    BY <2>1 DEF SeenInv, RingInOrder
  <2>4. PICK h : Tells(h, nextSeq - 1, shown, events) /\ (hole \/ view = h[after])
    BY DEF SeenInv
  <2>5. Tells(h, nextSeq' - 1, shown', events') /\ (hole' \/ view' = h[after'])
    BY <2>1, <2>2, <2>4
  <2>6. QED BY <2>3, <2>5 DEF SeenInv
<1>2. QED BY <1>1, SeenInvPublish, SeenInvSnapshot, SeenInvPoll DEF FeedNext

(* snapshot and events_after of src/dashboard_feed.rs, whatever is          *)
(* published between the requests: a client that has seen no hole since its *)
(* snapshot and has seen the last event shows what a new snapshot would.    *)
THEOREM FeedFollowingIsSeeing == FeedSpec => []FollowingIsSeeing
BY SeenInvInit, SeenInvStep, SeenInvMeans, PTL DEF FeedSpec

---------------------------------------------------------------------------
(* Rings.                                                                   *)

LEMMA RingInvInit == RingInit => RingInv
<1> SUFFICES ASSUME RingInit PROVE RingInv
  OBVIOUS
<1>1. <<>> \in Seq(RingItems) /\ Len(<<>>) = 0
  BY EmptySeq
<1>2. capacity \in [Kinds -> Nat]
  BY RingAssumption DEF RingInit
<1>3. QED BY <1>1, <1>2 DEF RingInit, RingInv, NoItems, LeftOf

LEMMA PushedLast ==
  ASSUME NEW S, NEW s \in Seq(S), NEW t \in Seq(S), NEW all \in Seq(S), NEW x \in S,
         LeftOf(all, s, t)
  PROVE  LeftOf(Append(all, x), s, Append(t, x))
  BY DEF LeftOf

LEMMA PoppedFirst ==
  ASSUME NEW S, NEW s \in Seq(S), NEW t \in Seq(S), NEW all \in Seq(S),
         LeftOf(all, s, t), t # <<>>
  PROVE  /\ LeftOf(all, Append(s, Head(t)), Tail(t))
         /\ Len(s) < Len(all) /\ Head(t) = all[Len(s) + 1]
<1>1. Head(t) \in S /\ Tail(t) \in Seq(S) /\ Len(t) \in Nat \ {0}
  OBVIOUS
<1>2. QED BY <1>1 DEF LeftOf

LEMMA RoomLeft ==
  ASSUME NEW S, NEW s \in Seq(S), NEW t \in Seq(S), NEW all \in Seq(S), NEW c \in Nat,
         LeftOf(all, s, t), Len(t) < c
  PROVE  Len(all) < Len(s) + c
  BY DEF LeftOf

(* A push leaves the rings of the others alone and adds the item behind     *)
(* what its ring holds.                                                     *)
LEMMA PushKeepsOrder ==
  ASSUME NEW q \in RingIds, NEW x \in RingItems, RingInv, Push(q, x)
  PROVE  RingInv'
<1>1. /\ queue' \in [RingIds -> Seq(RingItems)]
      /\ accepted' \in [RingIds -> Seq(RingItems)]
      /\ capacity' = capacity /\ popped' = popped
  BY DEF RingInv, Push
<1>2. ASSUME NEW r \in RingIds PROVE LeftOf(accepted'[r], popped'[r], queue'[r])
  <2>1. /\ popped[r] \in Seq(RingItems) /\ queue[r] \in Seq(RingItems)
        /\ accepted[r] \in Seq(RingItems) /\ LeftOf(accepted[r], popped[r], queue[r])
    BY DEF RingInv
  <2>2. CASE r # q
    BY <2>1, <2>2 DEF RingInv, Push
  <2>3. CASE r = q
    <3>1. queue'[r] = Append(queue[r], x) /\ accepted'[r] = Append(accepted[r], x) /\ popped'[r] = popped[r]
      BY <2>3 DEF RingInv, Push
    <3>2. QED BY <2>1, <3>1, PushedLast
  <2>4. QED BY <2>2, <2>3
<1>3. QED BY <1>1, <1>2 DEF RingInv

(* What a pop lets out is the item accepted next after those let out        *)
(* before.                                                                  *)
LEMMA PopTakesNext ==
  ASSUME NEW q \in RingIds, RingInv, Pop(q)
  PROVE  /\ RingInv'
         /\ Len(popped[q]) < Len(accepted[q])
         /\ Head(queue[q]) = accepted[q][Len(popped[q]) + 1]
<1>1. /\ popped[q] \in Seq(RingItems) /\ queue[q] \in Seq(RingItems) /\ queue[q] # <<>>
      /\ accepted[q] \in Seq(RingItems) /\ LeftOf(accepted[q], popped[q], queue[q])
  BY DEF RingInv, Pop
<1>2. /\ LeftOf(accepted[q], Append(popped[q], Head(queue[q])), Tail(queue[q]))
      /\ Len(popped[q]) < Len(accepted[q]) /\ Head(queue[q]) = accepted[q][Len(popped[q]) + 1]
  BY <1>1, PoppedFirst
<1>3. Head(queue[q]) \in RingItems /\ Tail(queue[q]) \in Seq(RingItems)
  BY <1>1
<1>4. /\ queue' \in [RingIds -> Seq(RingItems)]
      /\ popped' \in [RingIds -> Seq(RingItems)]
      /\ capacity' = capacity /\ accepted' = accepted
  BY <1>1, <1>3 DEF RingInv, Pop
<1>5. ASSUME NEW r \in RingIds PROVE LeftOf(accepted'[r], popped'[r], queue'[r])
  <2>1. CASE r # q
    BY <2>1 DEF RingInv, Pop
  <2>2. CASE r = q
    <3>1. queue'[q] = Tail(queue[q]) /\ popped'[q] = Append(popped[q], Head(queue[q])) /\ accepted' = accepted
      BY DEF RingInv, Pop
    <3>2. QED BY <1>2, <2>2, <3>1
  <2>3. QED BY <2>1, <2>2
<1>6. RingInv'
  BY <1>4, <1>5 DEF RingInv
<1>7. QED BY <1>2, <1>6

LEMMA RingInvStep == RingInv /\ [RingNext]_ringVars => RingInv'
<1> SUFFICES ASSUME RingInv, [RingNext]_ringVars PROVE RingInv'
  OBVIOUS
<1>1. CASE UNCHANGED ringVars
  BY <1>1 DEF RingInv, ringVars
<1>2. ASSUME NEW q \in RingIds, NEW x \in RingItems, Push(q, x) PROVE RingInv'
  BY <1>2, PushKeepsOrder
<1>3. ASSUME NEW q \in RingIds, Pop(q) PROVE RingInv'
  BY <1>3, PopTakesNext
<1>4. QED BY <1>1, <1>2, <1>3 DEF RingNext

(* A push finds room in the abstract queue, a pop finds its next item.      *)
LEMMA RingStepIsFifoStep == RingInv /\ [RingNext]_ringVars => [Fifo!Next]_(Fifo!vars)
<1> SUFFICES ASSUME RingInv, [RingNext]_ringVars PROVE [Fifo!Next]_(Fifo!vars)
  OBVIOUS
<1>1. CASE UNCHANGED ringVars
  BY <1>1 DEF ringVars, Fifo!vars
<1>2. ASSUME NEW q \in RingIds, NEW x \in RingItems, Push(q, x) PROVE Fifo!Put(q, x)
  <2>1. /\ popped[q] \in Seq(RingItems) /\ queue[q] \in Seq(RingItems)
        /\ accepted[q] \in Seq(RingItems) /\ LeftOf(accepted[q], popped[q], queue[q])
        /\ capacity[q[1]] \in Nat
    BY DEF RingInv, RingIds
  <2>2. Len(queue[q]) < capacity[q[1]]
    BY <1>2 DEF Push
  <2>3. Len(accepted[q]) < Len(popped[q]) + capacity[q[1]]
    BY <2>1, <2>2, RoomLeft
  <2>4. QED BY <1>2, <2>3 DEF Push, Fifo!Put
<1>3. ASSUME NEW q \in RingIds, Pop(q) PROVE Fifo!Take(q)
  <2>1. Len(popped[q]) < Len(accepted[q]) /\ Head(queue[q]) = accepted[q][Len(popped[q]) + 1]
    BY <1>3, PopTakesNext
  <2>2. popped' = [popped EXCEPT ![q] = Append(@, accepted[q][Len(@) + 1])]
    BY <1>3, <2>1 DEF Pop
  <2>3. QED BY <1>3, <2>1, <2>2 DEF Pop, Fifo!Take
<1>4. QED BY <1>1, <1>2, <1>3 DEF RingNext, Fifo!Next

(* src/ring.rs, with the constructors of src/app.rs: what a ring accepts    *)
(* comes out of it once and in order, and never is more of it on its way    *)
(* than its capacity, whatever the other rings do.                          *)
THEOREM RingsImplementFifos == RingSpec => RingsAreFifos
<1>1. RingInit => Fifo!Init
  <2>1. ASSUME RingInit PROVE [q \in RingIds |-> capacity[q[1]]] \in [RingIds -> Nat]
    BY <2>1, RingAssumption DEF RingInit, RingIds
  <2>2. QED BY <2>1 DEF RingInit, NoItems, Fifo!Init
<1>2. QED BY <1>1, RingInvInit, RingInvStep, RingStepIsFifoStep, PTL
        DEF RingSpec, RingsAreFifos, Fifo!Spec

---------------------------------------------------------------------------
(* RuntimePipeline.                                                         *)

(* Only other threads send commands between two calls, and a call returns   *)
(* when it has drained the channel                                          *)
CommandsInv == at = "idle" => commandQueue \in Seq({Outside})

LEMMA CommandsStep == CommandsInv /\ [PipeNext]_pipeVars => CommandsInv'
<1> SUFFICES ASSUME CommandsInv, [PipeNext]_pipeVars PROVE CommandsInv'
  OBVIOUS
<1>1. CASE UNCHANGED <<commandQueue, at>>
  BY <1>1 DEF CommandsInv
<1>2. CASE OutsideCommand
  BY <1>2 DEF OutsideCommand, CommandsInv
<1>3. CASE DrainCommandsEnd
  BY <1>3 DEF DrainCommandsEnd, CommandsInv
<1>4. CASE at' # "idle"
  BY <1>4 DEF CommandsInv
<1>5. QED
  BY <1>1, <1>2, <1>3, <1>4
  DEF PipeNext, pipeVars, CallMarket, MarketNext, MarketEnd, CallExchange, SendNext, SendEnd,
      DrainEvent, DrainEventsEnd, DrainCommand, OutsideEvent

(* on_market_events and on_exchange_events of src/runtime.rs: whatever      *)
(* other threads send and whichever strategies answer, for any number of    *)
(* them, no answer waits between two calls.                                 *)
THEOREM PipelineNoAnswerWaits == PipeSpec => []NoAnswerWaits
<1>1. PipeInit => CommandsInv
  BY DEF PipeInit, CommandsInv
<1>2. CommandsInv => NoAnswerWaits
  BY DEF CommandsInv, NoAnswerWaits
<1>3. QED BY <1>1, <1>2, CommandsStep, PTL DEF PipeSpec

(* What a strategy was called with: the exchange events by their position   *)
(* in the channel                                                           *)
Entries == Nat \cup {Market}

Shown(x) == {k \in 1..Len(x) : x[k] # Market}

(* x shows strategy i what is addressed to it of the first n events of all  *)
Addressed(x, all, n, i) ==
  /\ \A j, k \in Shown(x) : j < k => x[j] < x[k]
  /\ {x[k] : k \in Shown(x)} = {m \in 1..n : all[m] \in {i, Balance}}

Taken == Len(sent) - Len(eventQueue)

(* What SeenIsAddressed needs: where a call stands, and that the events it  *)
(* was given are among those sent                                           *)
PipeInv ==
  /\ sent \in Seq(ExchangeEvents) /\ eventQueue \in Seq(Nat)
  /\ batch \in Seq(ExchangeEvents)
  /\ seen \in [EngineIds -> Seq(Entries)]
  /\ Taken \in Nat
  /\ \A k \in 1..Len(eventQueue) : eventQueue[k] = Taken + k
  /\ \A i \in EngineIds : Addressed(seen[i], sent, Taken, i)
  /\ due \in 0..Len(sent)
  /\ at \notin {"sending", "events"} => Taken >= due

LEMMA PipeInvMeans == PipeInv => SeenIsAddressed
<1> SUFFICES ASSUME PipeInv PROVE SeenIsAddressed
  OBVIOUS
<1>1. eventQueue = [k \in 1..Len(eventQueue) |-> Taken + k]
  <2>1. eventQueue = [k \in 1..Len(eventQueue) |-> eventQueue[k]]
    BY DEF PipeInv
  <2>2. QED BY <2>1 DEF PipeInv
<1>2. at = "idle" => Taken >= due
  BY DEF PipeInv
<1>3. QED BY <1>1, <1>2, Zenon DEF PipeInv, SeenIsAddressed, Taken, Addressed, Shown

LEMMA MarketIsNoNumber == Market \notin Nat
BY PipelineAssumption

LEMMA AddressedMarket ==
  ASSUME NEW x \in Seq(Entries), NEW all, NEW n \in Nat, NEW i, Addressed(x, all, n, i)
  PROVE  Addressed(Append(x, Market), all, n, i)
<1> DEFINE y == Append(x, Market)
<1>1. /\ Len(x) \in Nat /\ Len(y) = Len(x) + 1 /\ y[Len(x) + 1] = Market
      /\ \A k \in 1..Len(x) : y[k] = x[k]
  BY DEF Entries
<1> HIDE DEF y
<1>2. Shown(y) = Shown(x) /\ \A k \in Shown(x) : y[k] = x[k]
  BY <1>1 DEF Shown
<1>3. {y[k] : k \in Shown(y)} = {x[k] : k \in Shown(x)}
  BY <1>2
<1>4. \A j, k \in Shown(y) : j < k => y[j] < y[k]
  BY <1>2 DEF Addressed
<1>5. Addressed(y, all, n, i)
  BY <1>3, <1>4, Zenon DEF Addressed
<1>6. QED BY <1>5 DEF y

LEMMA AddressedEvent ==
  ASSUME NEW x \in Seq(Entries), NEW all, NEW n \in Nat, NEW i, Addressed(x, all, n, i),
         all[n + 1] \in {i, Balance}
  PROVE  Addressed(Append(x, n + 1), all, n + 1, i)
<1> DEFINE y == Append(x, n + 1)
<1>1. /\ Len(x) \in Nat /\ Len(y) = Len(x) + 1 /\ y[Len(x) + 1] = n + 1
      /\ \A k \in 1..Len(x) : y[k] = x[k]
  BY DEF Entries
<1> HIDE DEF y
<1>2. n + 1 # Market
  BY MarketIsNoNumber
<1>3. /\ Shown(y) = Shown(x) \cup {Len(x) + 1} /\ \A k \in Shown(x) : y[k] = x[k]
      /\ Shown(x) \subseteq 1..Len(x)
  BY <1>1, <1>2 DEF Shown
<1>4. \A k \in Shown(x) : x[k] \in 1..n
  BY DEF Addressed
<1>5. \A j, k \in Shown(y) : j < k => y[j] < y[k]
  BY <1>1, <1>3, <1>4 DEF Addressed
<1>6. {y[k] : k \in Shown(y)} = {x[k] : k \in Shown(x)} \cup {n + 1}
  BY <1>1, <1>3
<1>7. {m \in 1..(n + 1) : all[m] \in {i, Balance}} =
        {m \in 1..n : all[m] \in {i, Balance}} \cup {n + 1}
  OBVIOUS
<1>8. {y[k] : k \in Shown(y)} = {m \in 1..(n + 1) : all[m] \in {i, Balance}}
  BY <1>6, <1>7 DEF Addressed
<1>9. Addressed(y, all, n + 1, i)
  BY <1>5, <1>8, Zenon DEF Addressed
<1>10. QED BY <1>9 DEF y

LEMMA NotAddressed ==
  ASSUME NEW x, NEW all, NEW n \in Nat, NEW i, Addressed(x, all, n, i),
         all[n + 1] \notin {i, Balance}
  PROVE  Addressed(x, all, n + 1, i)
<1>1. {m \in 1..(n + 1) : all[m] \in {i, Balance}} = {m \in 1..n : all[m] \in {i, Balance}}
  OBVIOUS
<1>2. QED BY <1>1, Zenon DEF Addressed

LEMMA AddressedOfMore ==
  ASSUME NEW x, NEW all \in Seq(ExchangeEvents), NEW e \in ExchangeEvents, NEW n \in 0..Len(all),
         NEW i, Addressed(x, all, n, i)
  PROVE  Addressed(x, Append(all, e), n, i)
<1>1. \A m \in 1..n : Append(all, e)[m] = all[m]
  OBVIOUS
<1>2. {m \in 1..n : Append(all, e)[m] \in {i, Balance}} = {m \in 1..n : all[m] \in {i, Balance}}
  BY <1>1
<1>3. QED BY <1>2, Zenon DEF Addressed

(* The engine an event is handed to calls its strategy with it, if the      *)
(* event is of its symbol or a balance                                      *)
LEMMA HandedIsAddressed ==
  ASSUME NEW e \in ExchangeEvents, NEW i \in EngineIds
  PROVE  i \in Route(e) /\ Takes(i, e) <=> e \in {i, Balance}
<1>1. i \in Nat /\ Session # i /\ Session # Balance
  BY PipelineAssumption DEF EngineIds
<1>2. QED BY <1>1 DEF Route, Takes, NoSymbolEvents

LEMMA PipeInvInit == PipeInit => PipeInv
<1> SUFFICES ASSUME PipeInit PROVE PipeInv
  OBVIOUS
<1>1. /\ sent = <<>> /\ eventQueue = <<>> /\ batch = <<>> /\ due = 0
      /\ seen = [i \in EngineIds |-> <<>>] /\ at = "idle"
  BY DEF PipeInit
<1>2. Taken = 0
  BY <1>1 DEF Taken
<1>3. \A i \in EngineIds : Addressed(seen[i], sent, Taken, i)
  BY <1>1, <1>2 DEF Addressed, Shown
<1>4. QED BY <1>1, <1>2, <1>3 DEF PipeInv

(* A send leaves what was taken from the channel as it is                   *)
LEMMA PipeInvSend ==
  ASSUME PipeInv, NEW e \in ExchangeEvents, Send(e), seen' = seen,
         batch' \in Seq(ExchangeEvents),
         \/ due' = due /\ at' = at
         \/ due' = Len(sent') /\ at' = "sending"
  PROVE  PipeInv'
<1>1. /\ sent \in Seq(ExchangeEvents) /\ eventQueue \in Seq(Nat)
      /\ Len(sent) \in Nat /\ Len(eventQueue) \in Nat /\ Taken \in Nat /\ due \in 0..Len(sent)
      /\ Len(sent) = Taken + Len(eventQueue)
  BY DEF PipeInv, Taken
<1>2. /\ sent' = Append(sent, e) /\ eventQueue' = Append(eventQueue, Len(sent) + 1)
      /\ sent' \in Seq(ExchangeEvents) /\ eventQueue' \in Seq(Nat)
      /\ Len(sent') = Len(sent) + 1 /\ Len(eventQueue') = Len(eventQueue) + 1
      /\ \A k \in 1..Len(eventQueue) : eventQueue'[k] = eventQueue[k]
      /\ eventQueue'[Len(eventQueue) + 1] = Len(sent) + 1
  BY <1>1 DEF Send
<1>3. Taken' = Taken
  BY <1>1, <1>2 DEF Taken
<1>4. \A k \in 1..Len(eventQueue') : eventQueue'[k] = Taken' + k
  BY <1>1, <1>2, <1>3 DEF PipeInv
<1>5. \A i \in EngineIds : Addressed(seen'[i], sent', Taken', i)
  <2>1. Taken \in 0..Len(sent)
    BY <1>1
  <2>2. QED BY <1>1, <1>2, <1>3, <2>1, AddressedOfMore DEF PipeInv
<1>6. due' \in 0..Len(sent') /\ (at' \notin {"sending", "events"} => Taken' >= due')
  BY <1>1, <1>2, <1>3 DEF PipeInv
<1>7. seen' \in [EngineIds -> Seq(Entries)]
  BY DEF PipeInv
<1>8. QED BY <1>1, <1>2, <1>3, <1>4, <1>5, <1>6, <1>7 DEF PipeInv

LEMMA PipeInvMarketNext == ASSUME PipeInv, MarketNext PROVE PipeInv'
<1>1. /\ batch \in Seq(ExchangeEvents) /\ batch # <<>> /\ batch' = Tail(batch)
      /\ UNCHANGED <<at, eventQueue, sent, due>> /\ Taken' = Taken
      /\ seen \in [EngineIds -> Seq(Entries)] /\ Taken \in Nat
  BY DEF PipeInv, MarketNext, Taken
<1>2. PICK reached \in SUBSET EngineIds :
        seen' = [i \in EngineIds |-> IF i \in reached THEN Append(seen[i], Market) ELSE seen[i]]
  <2>1. Hand(Head(batch), Market)
    BY DEF MarketNext
  <2>2. {i \in Route(Head(batch)) : Takes(i, Head(batch))} \subseteq EngineIds
    BY DEF Route
  <2>3. QED BY <2>1, <2>2 DEF Hand
<1>3. batch' \in Seq(ExchangeEvents)
  BY <1>1
<1>4. seen' \in [EngineIds -> Seq(Entries)]
  BY <1>1, <1>2 DEF Entries
<1>5. ASSUME NEW i \in EngineIds PROVE Addressed(seen'[i], sent', Taken', i)
  <2>1. seen[i] \in Seq(Entries) /\ Addressed(seen[i], sent, Taken, i)
    BY <1>1 DEF PipeInv
  <2>2. Addressed(Append(seen[i], Market), sent, Taken, i)
    BY <1>1, <2>1, AddressedMarket
  <2>3. seen'[i] = Append(seen[i], Market) \/ seen'[i] = seen[i]
    BY <1>2
  <2>4. QED BY <1>1, <2>1, <2>2, <2>3
<1>6. QED BY <1>1, <1>3, <1>4, <1>5 DEF PipeInv

LEMMA PipeInvDrainEvent == ASSUME PipeInv, DrainEvent PROVE PipeInv'
<1>1. /\ eventQueue \in Seq(Nat) /\ eventQueue # <<>> /\ eventQueue' = Tail(eventQueue)
      /\ Len(eventQueue) \in Nat \ {0} /\ sent \in Seq(ExchangeEvents) /\ Len(sent) \in Nat
      /\ UNCHANGED <<at, batch, sent, due>> /\ at = "events"
      /\ seen \in [EngineIds -> Seq(Entries)] /\ Taken \in Nat
      /\ Len(sent) = Taken + Len(eventQueue)
  BY DEF PipeInv, DrainEvent, Taken
<1>2. /\ eventQueue' \in Seq(Nat) /\ Len(eventQueue') = Len(eventQueue) - 1
      /\ \A k \in 1..Len(eventQueue') : eventQueue'[k] = eventQueue[k + 1]
      /\ Head(eventQueue) = eventQueue[1]
  BY <1>1
<1>3. Taken' = Taken + 1 /\ Taken' \in Nat
  BY <1>1, <1>2 DEF Taken
<1>4. Head(eventQueue) = Taken + 1 /\ \A k \in 1..Len(eventQueue') : eventQueue'[k] = Taken' + k
  <2>1. \A k \in 1..Len(eventQueue) : eventQueue[k] = Taken + k
    BY DEF PipeInv
  <2>2. QED BY <1>1, <1>2, <1>3, <2>1
<1>5. PICK n \in 1..Len(sent) : n = Taken + 1
  BY <1>1
<1>6. sent[n] \in ExchangeEvents /\ Hand(sent[n], n)
  BY <1>1, <1>4, <1>5 DEF DrainEvent
<1> DEFINE reached == {i \in Route(sent[n]) : Takes(i, sent[n])}
<1>7. seen' = [i \in EngineIds |-> IF i \in reached THEN Append(seen[i], n) ELSE seen[i]]
  BY <1>6 DEF Hand
<1>8. \A i \in EngineIds : i \in reached <=> sent[n] \in {i, Balance}
  BY <1>6, HandedIsAddressed
<1> HIDE DEF reached
<1>9. seen' \in [EngineIds -> Seq(Entries)]
  <2>1. n \in Entries
    BY <1>1, <1>5 DEF Entries
  <2>2. \A i \in EngineIds : Append(seen[i], n) \in Seq(Entries)
    BY <1>1, <2>1
  <2>3. QED BY <1>1, <1>7, <2>2
<1>10. ASSUME NEW i \in EngineIds PROVE Addressed(seen'[i], sent', Taken', i)
  <2>1. seen[i] \in Seq(Entries) /\ Addressed(seen[i], sent, Taken, i)
    BY <1>1 DEF PipeInv
  <2>2. CASE sent[n] \in {i, Balance}
    <3>1. seen'[i] = Append(seen[i], Taken + 1)
      BY <1>5, <1>7, <1>8, <2>2
    <3>2. sent[Taken + 1] \in {i, Balance}
      BY <1>5, <2>2
    <3>3. Addressed(Append(seen[i], Taken + 1), sent, Taken + 1, i)
      BY <1>1, <2>1, <3>2, AddressedEvent
    <3>4. QED BY <1>1, <1>3, <3>1, <3>3
  <2>3. CASE sent[n] \notin {i, Balance}
    <3>1. seen'[i] = seen[i]
      BY <1>7, <1>8, <2>3
    <3>2. sent[Taken + 1] \notin {i, Balance}
      BY <1>5, <2>3
    <3>3. Addressed(seen[i], sent, Taken + 1, i)
      BY <1>1, <2>1, <3>2, NotAddressed
    <3>4. QED BY <1>1, <1>3, <3>1, <3>3
  <2>4. QED BY <2>2, <2>3
<1>11. QED BY <1>1, <1>2, <1>3, <1>4, <1>9, <1>10 DEF PipeInv

LEMMA PipeInvStep == PipeInv /\ [PipeNext]_pipeVars => PipeInv'
<1> SUFFICES ASSUME PipeInv, [PipeNext]_pipeVars PROVE PipeInv'
  OBVIOUS
<1>1. CASE CallMarket \/ CallExchange
  <2>1. batch' \in Seq(ExchangeEvents)
    BY <1>1 DEF CallMarket, CallExchange, BoundedSeq, SeqOf, ExchangeEvents
  <2>2. UNCHANGED <<sent, eventQueue, seen, due>> /\ Taken' = Taken /\ at = "idle"
    BY <1>1 DEF CallMarket, CallExchange, Taken
  <2>3. QED BY <2>1, <2>2 DEF PipeInv
<1>2. CASE MarketNext
  BY <1>2, PipeInvMarketNext
<1>3. CASE SendNext
  <2>1. /\ batch \in Seq(ExchangeEvents) /\ batch # <<>> /\ batch' = Tail(batch)
        /\ Send(Head(batch)) /\ due' = Len(sent') /\ at' = "sending" /\ seen' = seen
    BY <1>3 DEF SendNext, PipeInv
  <2>2. Head(batch) \in ExchangeEvents /\ batch' \in Seq(ExchangeEvents)
    BY <2>1
  <2>3. QED BY <2>1, <2>2, PipeInvSend
<1>4. CASE OutsideEvent
  <2>1. PICK e \in ExchangeEvents : Send(e)
    BY <1>4 DEF OutsideEvent
  <2>2. batch' \in Seq(ExchangeEvents) /\ due' = due /\ at' = at /\ seen' = seen
    BY <1>4 DEF OutsideEvent, PipeInv
  <2>3. QED BY <2>1, <2>2, PipeInvSend
<1>5. CASE DrainEvent
  BY <1>5, PipeInvDrainEvent
<1>6. CASE DrainEventsEnd
  <2>1. UNCHANGED <<sent, eventQueue, seen, due, batch>> /\ Taken' = Taken /\ eventQueue = <<>>
    BY <1>6 DEF DrainEventsEnd, Taken
  <2>2. Taken >= due
    BY <2>1 DEF PipeInv, Taken
  <2>3. QED BY <2>1, <2>2 DEF PipeInv
<1>7. CASE UNCHANGED <<sent, eventQueue, seen, due, batch>>
           /\ (at' = at \/ at' \in {"sending", "events"} \/ at \notin {"sending", "events"})
  <2>1. Taken' = Taken
    BY <1>7 DEF Taken
  <2>2. QED BY <1>7, <2>1 DEF PipeInv
<1>8. QED
  BY <1>1, <1>2, <1>3, <1>4, <1>5, <1>6, <1>7
  DEF PipeNext, pipeVars, MarketEnd, SendEnd, DrainCommand, DrainCommandsEnd, OutsideCommand

(* on_market_events and on_exchange_events of src/runtime.rs, whatever      *)
(* other threads send: each strategy is called with the events of its       *)
(* symbol and all balances, each once and in the order of the channel, and  *)
(* with those of a call before the call returns.                            *)
THEOREM PipelineSeenIsAddressed == PipeSpec => []SeenIsAddressed
<1>1. QED BY PipeInvInit, PipeInvStep, PipeInvMeans, PTL DEF PipeSpec

---------------------------------------------------------------------------
(* A behaviour of the library is one of each of its parts: it takes the     *)
(* steps of one and leaves the others alone.                                *)
THEOREM LibraryRunsItsParts == LibrarySpec => FixSpec /\ FeedSpec /\ RingSpec /\ PipeSpec
<1>1. LibraryInit => FixInit /\ FeedInit /\ RingInit /\ PipeInit
  BY DEF LibraryInit
<1>2. [LibraryNext]_libraryVars => [FixNext]_fixVars
  BY DEF LibraryNext, libraryVars
<1>3. [LibraryNext]_libraryVars => [RingNext]_ringVars
  BY DEF LibraryNext, libraryVars
<1>4. [LibraryNext]_libraryVars => [PipeNext]_pipeVars
  BY DEF LibraryNext, libraryVars
<1>5. [LibraryNext]_libraryVars => [FeedNext]_<<feedVars, clientVars>>
  BY DEF LibraryNext, libraryVars
<1>6. QED BY <1>1, <1>2, <1>3, <1>4, <1>5, PTL DEF LibrarySpec, FixSpec, FeedSpec, RingSpec, PipeSpec
===============================================================================
