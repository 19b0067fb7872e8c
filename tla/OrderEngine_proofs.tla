------------------------- MODULE OrderEngine_proofs -------------------------
(***************************************************************************)
(* Theorems about OrderEngine, for every set of symbols and exec ids, every *)
(* limit, every number of client order ids and every report.                *)
(***************************************************************************)
EXTENDS OrderEngine, FiniteSetTheorems, TLAPS

(* An ascending enumeration of a set of client order ids is a sequence of   *)
(* its elements.                                                            *)
LEMMA AscendingIsSeq ==
  ASSUME NEW S \in SUBSET ClientIds, NEW ids \in Ascending(S)
  PROVE  ids \in Seq(S)
<1>1. IsFiniteSet(ClientIds)
  BY FS_Interval, EngineAssumption DEF ClientIds
<1>2. Cardinality(S) \in Nat
  BY <1>1, FS_Subset, FS_CardinalityType
<1>3. QED BY <1>2 DEF Ascending

(* It leaves none out.                                                      *)
LEMMA AscendingIsAll ==
  ASSUME NEW S \in SUBSET ClientIds, NEW ids \in Ascending(S), NEW i \in S
  PROVE  \E k \in 1..Len(ids) : ids[k] = i
<1> DEFINE n == Cardinality(S)
<1>1. IsFiniteSet(ClientIds)
  BY FS_Interval, EngineAssumption DEF ClientIds
<1>2. IsFiniteSet(S) /\ n \in Nat
  BY <1>1, FS_Subset, FS_CardinalityType
<1>3. ids \in [1..n -> S] /\ \A a, b \in 1..n : a < b => ids[a] < ids[b]
  BY DEF Ascending
<1> HIDE DEF n
<1>4. ids \in Injection(1..n, S)
  <2>1. ASSUME NEW a \in 1..n, NEW b \in 1..n, a < b PROVE ids[a] # ids[b]
    <3>1. ids[a] \in Int /\ ids[b] \in Int
      <4>1. ids[a] \in S /\ ids[b] \in S
        BY <1>3
      <4>2. \A x \in ClientIds : x \in Int
        BY EngineAssumption DEF ClientIds
      <4>3. QED BY <4>1, <4>2, Zenon
    <3>2. ids[a] < ids[b]
      BY <1>3, <2>1
    <3>3. QED BY <3>1, <3>2
  <2>2. ASSUME NEW a \in 1..n, NEW b \in 1..n, a # b PROVE ids[a] # ids[b]
    BY <1>2, <2>1, <2>2
  <2>3. QED BY <1>3, <2>2 DEF Injection, IsInjective
<1>5. Cardinality(1..n) = n
  BY <1>2, FS_Interval
<1>6. ids \in Surjection(1..n, S)
  BY <1>2, <1>4, <1>5, FS_Injection DEF n
<1>7. Len(ids) = n
  BY <1>2, <1>3
<1>8. QED BY <1>6, <1>7 DEF Surjection

(* on_cancel_order and on_cancel_all are encode_cancel for a sequence of    *)
(* orders whose ids the engine knows.                                       *)
LEMMA CancelsAreBatches ==
  ASSUME NEW s \in Symbols,
         CancelAll(s) \/ \E i \in ClientIds : CancelOrder(s, i)
  PROVE  \E ids \in Seq(Known) : EncodeCancels(ids, s)
<1>1. CASE CancelAll(s)
  <2>1. Active(s) \subseteq Known
    BY EngineAssumption DEF Active, Known
  <2>2. PICK ids \in Ascending(Active(s)) : EncodeCancels(ids, s)
    BY <1>1 DEF CancelAll
  <2>3. ids \in Seq(Active(s))
    BY AscendingIsSeq DEF Active
  <2>4. ids \in Seq(Known)
    BY <2>1, <2>3
  <2>5. QED BY <2>2, <2>4
<1>2. CASE \E i \in ClientIds : CancelOrder(s, i)
  <2>1. PICK i \in Known : EncodeCancels(<<i>>, s)
    BY <1>2 DEF CancelOrder
  <2>2. <<i>> \in Seq(Known)
    OBVIOUS
  <2>3. QED BY <2>1, <2>2
<1>3. QED BY <1>1, <1>2

(* What encode_cancel does to the wire: it grows by one cancel request for  *)
(* each order, numbered on from the engine's two counters.                  *)
LEMMA CancelBatchOnWire ==
  ASSUME EngineTypeOK, NEW s \in Symbols, NEW ids \in Seq(Known),
         EncodeCancels(ids, s)
  PROVE  /\ wire' \in Seq(Messages)
         /\ Len(ids) \in Nat
         /\ Len(wire') = Len(wire) + Len(ids)
         /\ \A k \in 1..Len(wire) : wire'[k] = wire[k]
         /\ \A k \in 1..Len(ids) : /\ wire'[Len(wire) + k] = CancelMsg(k, ids[k], s)
                                   /\ ids[k] \in Known
         /\ nextClientId + Len(ids) <= MaxClientId + 1
         /\ nextClientId' = nextClientId + Len(ids)
         /\ nextSeqNum' = nextSeqNum + Len(ids)
<1> DEFINE batch == [k \in 1..Len(ids) |-> CancelMsg(k, ids[k], s)]
<1>1. /\ Len(ids) \in Nat
      /\ \A k \in 1..Len(ids) : ids[k] \in Known /\ ids[k] \in ClientIds
      /\ nextClientId + Len(ids) <= MaxClientId + 1
      /\ nextClientId' = nextClientId + Len(ids)
      /\ nextSeqNum' = nextSeqNum + Len(ids)
      /\ wire' = wire \o batch
  BY DEF EncodeCancels, Known
<1>2. ASSUME NEW k \in 1..Len(ids)
      PROVE  CancelMsg(k, ids[k], s) \in Messages
  <2>1. nextSeqNum + k - 1 \in Nat /\ nextClientId + k - 1 \in ClientIds
    BY <1>1, EngineAssumption DEF EngineTypeOK, ClientIds
  <2>2. QED BY <1>1, <2>1 DEF CancelMsg, Messages
<1>3. batch \in Seq(Messages) /\ Len(batch) = Len(ids)
  BY <1>1, <1>2
<1>4. wire \in Seq(Messages) /\ Len(wire) \in Nat
  BY DEF EngineTypeOK
<1>5. /\ wire \o batch \in Seq(Messages)
      /\ Len(wire \o batch) = Len(wire) + Len(batch)
      /\ \A k \in 1..Len(wire) : (wire \o batch)[k] = wire[k]
  BY <1>3, <1>4
<1>6. ASSUME NEW k \in 1..Len(ids)
      PROVE  (wire \o batch)[Len(wire) + k] = CancelMsg(k, ids[k], s)
  BY <1>1, <1>3, <1>4
<1>7. QED BY <1>1, <1>3, <1>5, <1>6
-----------------------------------------------------------------------------

LEMMA EngineInitType == EngineInit => EngineTypeOK
BY EngineAssumption DEF EngineInit, EngineTypeOK

LEMMA EngineStepType == EngineTypeOK /\ [EngineNext]_engineVars => EngineTypeOK'
<1> SUFFICES ASSUME EngineTypeOK, [EngineNext]_engineVars PROVE EngineTypeOK'
  OBVIOUS
<1>1. ASSUME NEW s \in Symbols, NewOrder(s) PROVE EngineTypeOK'
  <2>1. NewMsg(s) \in Messages
    BY <1>1 DEF NewMsg, Messages, NewOrder, EngineTypeOK
  <2>2. wire' \in Seq(Messages)
    BY <1>1, <2>1 DEF NewOrder, EngineTypeOK
  <2>3. nextClientId' \in 1..(MaxClientId + 1)
    BY <1>1, EngineAssumption DEF NewOrder, EngineTypeOK, ClientIds
  <2>4. QED
    BY <1>1, <2>2, <2>3, EngineAssumption
       DEF NewOrder, EngineTypeOK, Statuses, OpenLike
<1>2. ASSUME NEW s \in Symbols, NEW ids \in Seq(Known), EncodeCancels(ids, s)
      PROVE  EngineTypeOK'
  <2>1. wire' \in Seq(Messages) /\ nextSeqNum' \in Nat
    BY <1>2, CancelBatchOnWire DEF EngineTypeOK
  <2>2. nextClientId' \in 1..(MaxClientId + 1)
    BY <1>2, CancelBatchOnWire, EngineAssumption DEF EngineTypeOK
  <2>3. latestStatus' \in [ClientIds -> Statuses \cup {None}]
    BY <1>2 DEF EncodeCancels, EngineTypeOK, Statuses, OpenLike
  <2>4. QED BY <1>2, <2>1, <2>2, <2>3 DEF EncodeCancels, EngineTypeOK
<1>3. ASSUME NEW r \in Reports, OnExecutionReport(r) PROVE EngineTypeOK'
  <2>1. r.id \in ClientIds /\ r.symbol \in Symbols /\ r.status \in Statuses
        /\ r.exec \in ExecIds
    BY DEF Reports
  <2>2. openCounts' \in [Symbols -> Nat]
    BY <1>3, <2>1 DEF OnExecutionReport, ApplyOrderEvent, EngineTypeOK
  <2>3. QED
    BY <1>3, <2>1, <2>2 DEF OnExecutionReport, ApplyOrderEvent, EngineTypeOK
<1>4. CASE UNCHANGED engineVars
  BY <1>4 DEF engineVars, managerVars, EngineTypeOK
<1>5. QED BY <1>1, <1>2, <1>3, <1>4, CancelsAreBatches DEF EngineNext

(* The engine's state keeps its types under every command and every report. *)
THEOREM EngineTypeCorrect == EngineSpec => []EngineTypeOK
BY EngineInitType, EngineStepType, PTL DEF EngineSpec
-----------------------------------------------------------------------------

(* No step raises the counter past the limit.                              *)
LEMMA CountWithinLimitStep ==
  EngineTypeOK /\ CountWithinLimit /\ [EngineNext]_engineVars => CountWithinLimit'
<1> SUFFICES ASSUME EngineTypeOK, CountWithinLimit, [EngineNext]_engineVars
             PROVE  CountWithinLimit'
  OBVIOUS
<1>1. ASSUME NEW s \in Symbols, NewOrder(s) PROVE CountWithinLimit'
  BY <1>1, EngineAssumption DEF NewOrder, HasRoom, CountWithinLimit, EngineTypeOK
<1>2. ASSUME NEW s \in Symbols, NEW ids \in Seq(Known), EncodeCancels(ids, s)
      PROVE  CountWithinLimit'
  BY <1>2 DEF EncodeCancels, CountWithinLimit
<1>3. ASSUME NEW r \in Reports, OnExecutionReport(r) PROVE CountWithinLimit'
  <2>1. \A s \in Symbols : openCounts[s] \in Nat /\ openCounts[s] <= MaxOpen
    BY DEF EngineTypeOK, CountWithinLimit
  <2>2. \A s \in Symbols : openCounts'[s] <= openCounts[s]
    BY <1>3, <2>1 DEF OnExecutionReport, ApplyOrderEvent, EngineTypeOK
  <2>3. \A s \in Symbols : openCounts'[s] \in Nat
    BY <1>3, <2>1 DEF OnExecutionReport, ApplyOrderEvent, EngineTypeOK
  <2>4. QED BY <2>1, <2>2, <2>3, EngineAssumption DEF CountWithinLimit
<1>4. CASE UNCHANGED engineVars
  BY <1>4 DEF engineVars, managerVars, CountWithinLimit
<1>5. QED BY <1>1, <1>2, <1>3, <1>4, CancelsAreBatches DEF EngineNext

(* The open order counter never exceeds the limit, whatever the exchange    *)
(* reports: submit_new_order is the only step that raises it, and tests it. *)
THEOREM EngineCountWithinLimit == EngineSpec => []CountWithinLimit
<1>1. EngineInit => CountWithinLimit
  BY EngineAssumption DEF EngineInit, CountWithinLimit
<1>2. EngineTypeOK /\ CountWithinLimit /\ [EngineNext]_engineVars => CountWithinLimit'
  BY CountWithinLimitStep
<1>3. QED BY <1>1, <1>2, EngineTypeCorrect, PTL DEF EngineSpec

(* The engine numbers what it sends consecutively from FirstSeqNum.         *)
THEOREM EngineConsecutiveSeqNums == EngineSpec => []ConsecutiveSeqNums
<1>1. EngineInit => ConsecutiveSeqNums
  BY EngineAssumption DEF EngineInit, ConsecutiveSeqNums
<1>2. EngineTypeOK /\ ConsecutiveSeqNums /\ [EngineNext]_engineVars
        => ConsecutiveSeqNums'
  <2> SUFFICES ASSUME EngineTypeOK, ConsecutiveSeqNums, [EngineNext]_engineVars
               PROVE  ConsecutiveSeqNums'
    OBVIOUS
  <2>0. wire \in Seq(Messages) /\ Len(wire) \in Nat /\ nextSeqNum \in Nat
    BY DEF EngineTypeOK
  <2>1. ASSUME NEW s \in Symbols, NewOrder(s) PROVE ConsecutiveSeqNums'
    <3>1. /\ Len(wire') = Len(wire) + 1
          /\ \A k \in 1..Len(wire) : wire'[k] = wire[k]
          /\ wire'[Len(wire) + 1] = NewMsg(s)
      BY <2>0, <2>1 DEF NewOrder
    <3>2. NewMsg(s).seq = FirstSeqNum + Len(wire)
      BY DEF NewMsg, ConsecutiveSeqNums
    <3>3. nextSeqNum' = FirstSeqNum + Len(wire')
      BY <2>0, <2>1, <3>1, EngineAssumption DEF NewOrder, ConsecutiveSeqNums
    <3>4. ASSUME NEW k \in 1..Len(wire')
          PROVE  wire'[k].seq = FirstSeqNum + k - 1
      <4>1. CASE k \in 1..Len(wire)
        BY <3>1, <4>1 DEF ConsecutiveSeqNums
      <4>2. CASE k = Len(wire) + 1
        BY <2>0, <3>1, <3>2, <4>2, EngineAssumption
      <4>3. QED BY <2>0, <3>1, <4>1, <4>2
    <3>5. QED BY <3>3, <3>4 DEF ConsecutiveSeqNums
  <2>2. ASSUME NEW s \in Symbols, NEW ids \in Seq(Known), EncodeCancels(ids, s)
        PROVE  ConsecutiveSeqNums'
    <3>1. /\ Len(ids) \in Nat
          /\ Len(wire') = Len(wire) + Len(ids)
          /\ \A k \in 1..Len(wire) : wire'[k] = wire[k]
          /\ \A k \in 1..Len(ids) : wire'[Len(wire) + k] = CancelMsg(k, ids[k], s)
          /\ nextSeqNum' = nextSeqNum + Len(ids)
      BY <2>2, CancelBatchOnWire
    <3>2. nextSeqNum' = FirstSeqNum + Len(wire')
      BY <2>0, <3>1, EngineAssumption DEF ConsecutiveSeqNums
    <3>3. ASSUME NEW k \in 1..Len(wire')
          PROVE  wire'[k].seq = FirstSeqNum + k - 1
      <4>1. CASE k \in 1..Len(wire)
        BY <3>1, <4>1 DEF ConsecutiveSeqNums
      <4>2. CASE k \notin 1..Len(wire)
        <5>1. PICK j \in 1..Len(ids) : k = Len(wire) + j
          <6>1. k - Len(wire) \in 1..Len(ids)
            BY <2>0, <3>1, <4>2
          <6>2. k = Len(wire) + (k - Len(wire))
            BY <2>0
          <6>3. QED BY <6>1, <6>2
        <5>2. wire'[Len(wire) + j].seq = nextSeqNum + j - 1
          <6>1. wire'[Len(wire) + j] = CancelMsg(j, ids[j], s)
            BY <3>1
          <6>2. QED BY <6>1 DEF CancelMsg
        <5>3. QED
          BY <2>0, <5>1, <5>2, EngineAssumption DEF ConsecutiveSeqNums
      <4>3. QED BY <4>1, <4>2
    <3>4. QED BY <3>2, <3>3 DEF ConsecutiveSeqNums
  <2>3. ASSUME NEW r \in Reports, OnExecutionReport(r) PROVE ConsecutiveSeqNums'
    BY <2>3 DEF OnExecutionReport, ApplyOrderEvent, ConsecutiveSeqNums
  <2>4. CASE UNCHANGED engineVars
    BY <2>4 DEF engineVars, ConsecutiveSeqNums
  <2>5. QED BY <2>1, <2>2, <2>3, <2>4, CancelsAreBatches DEF EngineNext
<1>3. QED BY <1>1, <1>2, EngineTypeCorrect, PTL DEF EngineSpec

(* Every step adds messages under ids not yet used.                        *)
LEMMA FreshClientIdsStep ==
  EngineTypeOK /\ FreshClientIds /\ [EngineNext]_engineVars => FreshClientIds'
<1> SUFFICES ASSUME EngineTypeOK, FreshClientIds, [EngineNext]_engineVars
             PROVE  FreshClientIds'
  OBVIOUS
<1>0. /\ wire \in Seq(Messages)
      /\ Len(wire) \in Nat
      /\ nextClientId \in Nat
      /\ \A k \in 1..Len(wire) : wire[k] \in Messages /\ wire[k].id \in Nat
  <2>1. \A k \in 1..Len(wire) : wire[k] \in Messages
    BY DEF EngineTypeOK
  <2>2. \A m \in Messages : m.id \in Nat
    BY EngineAssumption DEF Messages, ClientIds
  <2>3. QED BY <2>1, <2>2 DEF EngineTypeOK
(* A batch of messages at the end of the wire, with ids from nextClientId *)
(* upwards, keeps the invariant.                                          *)
<1>1. ASSUME NEW n \in Nat,
             Len(wire') = Len(wire) + n,
             nextClientId' = nextClientId + n,
             \A k \in 1..Len(wire) : wire'[k] = wire[k],
             \A j \in 1..n : /\ wire'[Len(wire) + j].id = nextClientId + j - 1
                             /\ wire'[Len(wire) + j].kind = "Cancel"
                                  => wire'[Len(wire) + j].orig \in Known',
             Known \subseteq Known'
      PROVE  FreshClientIds'
  <2>1. ASSUME NEW k \in 1..Len(wire)
        PROVE  /\ wire'[k].id < nextClientId'
               /\ \A j \in 1..(k - 1) : wire'[j].id < wire'[k].id
               /\ wire'[k].kind = "Cancel" => wire'[k].orig \in Known'
    <3>1. \A j \in 1..(k - 1) : j \in 1..Len(wire)
      BY <1>0
    <3>2. /\ wire'[k] = wire[k]
          /\ \A j \in 1..(k - 1) : wire'[j] = wire[j]
      BY <1>1, <3>1
    <3>3. /\ wire[k].id < nextClientId
          /\ \A j \in 1..(k - 1) : wire[j].id < wire[k].id
          /\ wire[k].kind = "Cancel" => wire[k].orig \in Known
      BY DEF FreshClientIds
    <3>4. wire'[k].id < nextClientId'
      BY <1>0, <1>1, <3>2, <3>3
    <3>5. QED BY <1>1, <3>2, <3>3, <3>4
  <2>2. ASSUME NEW i \in 1..n, NEW k \in 1..Len(wire'), k = Len(wire) + i
        PROVE  /\ wire'[k].id < nextClientId'
               /\ \A j \in 1..(k - 1) : wire'[j].id < wire'[k].id
               /\ wire'[k].kind = "Cancel" => wire'[k].orig \in Known'
    <3>1. /\ wire'[k].id = nextClientId + i - 1
          /\ wire'[k].kind = "Cancel" => wire'[k].orig \in Known'
      BY <1>1, <2>2
    <3>2. ASSUME NEW j \in 1..(k - 1)
          PROVE  wire'[j].id < wire'[k].id
      <4>1. CASE j \in 1..Len(wire)
        <5>1. wire'[j].id < nextClientId /\ wire'[j].id \in Nat
          BY <1>0, <1>1, <4>1 DEF FreshClientIds
        <5>2. QED BY <1>0, <3>1, <5>1
      <4>2. CASE j \notin 1..Len(wire)
        <5>1. j - Len(wire) \in 1..n /\ j - Len(wire) < i
          BY <1>0, <2>2, <4>2
        <5>2. j = Len(wire) + (j - Len(wire))
          BY <1>0
        <5>3. wire'[j].id = nextClientId + (j - Len(wire)) - 1
          BY <1>1, <5>1, <5>2
        <5>4. QED BY <1>0, <3>1, <5>1, <5>3
      <4>3. QED BY <4>1, <4>2
    <3>3. wire'[k].id < nextClientId'
      BY <1>0, <1>1, <3>1
    <3>4. QED BY <3>1, <3>2, <3>3
  <2>3. ASSUME NEW k \in 1..Len(wire')
        PROVE  k \in 1..Len(wire) \/ \E i \in 1..n : k = Len(wire) + i
    <3>1. CASE k \notin 1..Len(wire)
      <4>1. k - Len(wire) \in 1..n /\ k = Len(wire) + (k - Len(wire))
        BY <1>0, <1>1, <3>1
      <4>2. QED BY <4>1
    <3>2. QED BY <3>1
  <2>4. ASSUME NEW k \in 1..Len(wire')
        PROVE  /\ wire'[k].id < nextClientId'
               /\ \A j \in 1..(k - 1) : wire'[j].id < wire'[k].id
               /\ wire'[k].kind = "Cancel" => wire'[k].orig \in Known'
    <3>1. CASE k \in 1..Len(wire)
      BY <2>1, <3>1
    <3>2. CASE \E i \in 1..n : k = Len(wire) + i
      <4>1. PICK i \in 1..n : k = Len(wire) + i
        BY <3>2
      <4>2. QED BY <2>2, <4>1
    <3>3. QED BY <2>3, <3>1, <3>2
  <2>5. QED BY <2>4 DEF FreshClientIds
<1>2. ASSUME NEW s \in Symbols, NewOrder(s) PROVE FreshClientIds'
  <2>1. /\ Len(wire') = Len(wire) + 1
        /\ nextClientId' = nextClientId + 1
        /\ \A k \in 1..Len(wire) : wire'[k] = wire[k]
        /\ wire'[Len(wire) + 1] = NewMsg(s)
    BY <1>0, <1>2 DEF NewOrder
  <2>2. Known \subseteq Known'
    BY <1>2, EngineAssumption DEF NewOrder, Known, EngineTypeOK
  <2>3. wire'[Len(wire) + 1].id = nextClientId /\ wire'[Len(wire) + 1].kind = "New"
    BY <2>1 DEF NewMsg
  <2>4. ASSUME NEW n \in Nat, n = 1 PROVE FreshClientIds'
    <3>1. Len(wire') = Len(wire) + n /\ nextClientId' = nextClientId + n
      BY <2>1, <2>4
    <3>2. ASSUME NEW j \in 1..n
          PROVE  /\ wire'[Len(wire) + j].id = nextClientId + j - 1
                 /\ wire'[Len(wire) + j].kind = "Cancel"
                      => wire'[Len(wire) + j].orig \in Known'
      <4>1. j = 1
        BY <2>4
      <4>2. QED BY <1>0, <2>3, <4>1
    <3>3. QED BY <1>1, <2>1, <2>2, <3>1, <3>2
  <2>5. 1 \in Nat
    OBVIOUS
  <2>6. QED BY <2>4, <2>5, Zenon
<1>3. ASSUME NEW s \in Symbols, NEW ids \in Seq(Known), EncodeCancels(ids, s)
      PROVE  FreshClientIds'
  <2>1. /\ Len(ids) \in Nat
        /\ Len(wire') = Len(wire) + Len(ids)
        /\ \A k \in 1..Len(wire) : wire'[k] = wire[k]
        /\ \A k \in 1..Len(ids) : /\ wire'[Len(wire) + k] = CancelMsg(k, ids[k], s)
                                  /\ ids[k] \in Known
        /\ nextClientId' = nextClientId + Len(ids)
    BY <1>3, CancelBatchOnWire
  <2>2. Known' = Known
    BY <1>3 DEF EncodeCancels, Known
  <2>3. ASSUME NEW j \in 1..Len(ids)
        PROVE  /\ wire'[Len(wire) + j].id = nextClientId + j - 1
               /\ wire'[Len(wire) + j].orig \in Known'
    <3>1. wire'[Len(wire) + j] = CancelMsg(j, ids[j], s)
      BY <2>1
    <3>2. QED BY <2>1, <2>2, <3>1 DEF CancelMsg
  <2>4. QED BY <1>1, <2>1, <2>2, <2>3
<1>4. ASSUME NEW r \in Reports, OnExecutionReport(r) PROVE FreshClientIds'
  <2>1. Known \subseteq Known'
    BY <1>4, EngineAssumption
       DEF OnExecutionReport, ApplyOrderEvent, Known, Reports, EngineTypeOK
  <2>2. wire' = wire /\ nextClientId' = nextClientId
    BY <1>4 DEF OnExecutionReport, ApplyOrderEvent
  <2>3. QED BY <2>1, <2>2 DEF FreshClientIds
<1>5. CASE UNCHANGED engineVars
  BY <1>5 DEF engineVars, managerVars, FreshClientIds, Known
<1>6. QED BY <1>2, <1>3, <1>4, <1>5, CancelsAreBatches DEF EngineNext

(* No ClOrdID is ever used twice, and a cancel names an order the engine    *)
(* knows: ids are handed out in ascending order and never forgotten.        *)
THEOREM EngineFreshClientIds == EngineSpec => []FreshClientIds
<1>1. EngineInit => FreshClientIds
  BY DEF EngineInit, FreshClientIds
<1>2. EngineTypeOK /\ FreshClientIds /\ [EngineNext]_engineVars => FreshClientIds'
  BY FreshClientIdsStep
<1>3. QED BY <1>1, <1>2, EngineTypeCorrect, PTL DEF EngineSpec
=============================================================================
