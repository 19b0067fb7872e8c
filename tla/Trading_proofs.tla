--------------------------- MODULE Trading_proofs ---------------------------
(***************************************************************************)
(* The order flow, and the order flow in its two surroundings: the live     *)
(* pipeline of one symbol, with the maker that commands it and the channels *)
(* between them, and the crashes of the process.  Both surroundings take    *)
(* the steps of the flow and no others with the orders of a running         *)
(* process, and rest on its invariant.                                      *)
(***************************************************************************)
EXTENDS OrderRestart, LiveTrading, OrderEngine_proofs, Strategy_proofs, SequenceTheorems

---------------------------------------------------------------------------
(* The order engine together with the exchange: the number of orders that   *)
(* can trade is bounded, and a CancelAll reaches all of them.               *)

(* A step of the exchange reports on one order it was sent and has not      *)
(* ended, under a new ExecID; a final report ends the order.                *)
LEMMA ExchangeReports ==
  ASSUME FlowTypeOK, Exchange
  PROVE  \E s \in Symbols, r \in Reports :
           /\ r.id \in Sent(s) /\ r.symbol = s
           /\ FreshExec(r.exec)
           /\ reported' = reported \cup {r}
           /\ exch[r.id] # "done"
           /\ exch' \in [ClientIds -> {"none", "live", "done"}]
           /\ \A i \in ClientIds : i # r.id => exch'[i] = exch[i]
           /\ r.status \in Terminal => exch'[r.id] = "done"
           /\ UNCHANGED engineVars
<1>1. PICK m \in Requests, e \in ExecIds :
        /\ m.kind = "New"
        /\ FreshExec(e)
        /\ \/ Accept(m.id, m.symbol, e)
           \/ Refuse(m.id, m.symbol, e)
           \/ Amend(m.id, m.symbol, e)
           \/ Fill(m.id, m.symbol, e)
           \/ Expire(m.id, m.symbol, e)
           \/ CancelLive(m.id, m.symbol, e)
  BY DEF Exchange
<1>2. m \in Messages
  BY DEF Requests, FlowTypeOK, EngineTypeOK
<1>3. m.id \in ClientIds /\ m.symbol \in Symbols /\ m.id \in Sent(m.symbol)
  BY <1>1, <1>2 DEF Messages, Sent
<1> DEFINE rep(status) == [id |-> m.id, symbol |-> m.symbol, status |-> status, exec |-> e]
<1>4. PICK status \in Statuses :
        /\ reported' = reported \cup {rep(status)}
        /\ exch[m.id] # "done"
        /\ exch' \in [ClientIds -> {"none", "live", "done"}]
        /\ \A i \in ClientIds : i # m.id => exch'[i] = exch[i]
        /\ status \in Terminal => exch'[m.id] = "done"
  <2> USE <1>3 DEF FlowTypeOK, Report, Statuses, OpenLike, Terminal
  <2>1. CASE Accept(m.id, m.symbol, e)
    BY <2>1 DEF Accept
  <2>2. CASE Refuse(m.id, m.symbol, e)
    BY <2>2 DEF Refuse
  <2>3. CASE Amend(m.id, m.symbol, e)
    BY <2>3 DEF Amend
  <2>4. CASE Fill(m.id, m.symbol, e)
    BY <2>4 DEF Fill
  <2>5. CASE Expire(m.id, m.symbol, e)
    BY <2>5 DEF Expire
  <2>6. CASE CancelLive(m.id, m.symbol, e)
    BY <2>6 DEF CancelLive
  <2>7. QED BY <1>1, <2>1, <2>2, <2>3, <2>4, <2>5, <2>6
<1>5. rep(status) \in Reports
  BY <1>3 DEF Reports
<1>6. UNCHANGED engineVars
  BY DEF Exchange
<1>7. QED BY <1>1, <1>3, <1>4, <1>5, <1>6

LEMMA FlowInitType == FlowInit => FlowTypeOK
BY EngineInitType DEF FlowInit, FlowTypeOK

(* The exchange changes none of the engine's state: composing the engine    *)
(* with it keeps every theorem of OrderEngine_proofs.                       *)
LEMMA FlowStepIsEngineStep ==
  FlowTypeOK /\ [FlowNext]_flowVars => [EngineNext]_engineVars /\ FlowTypeOK'
<1> SUFFICES ASSUME FlowTypeOK, [FlowNext]_flowVars
             PROVE  [EngineNext]_engineVars /\ FlowTypeOK'
  OBVIOUS
<1>1. CASE Command
  <2>1. EngineNext
    BY <1>1 DEF Command, EngineNext
  <2>2. EngineTypeOK'
    BY <2>1, EngineStepType DEF FlowTypeOK
  <2>3. QED BY <1>1, <2>1, <2>2 DEF Command, FlowTypeOK
<1>2. CASE Exchange
  <2>1. UNCHANGED engineVars
    BY <1>2 DEF Exchange
  <2>2. EngineTypeOK'
    BY <2>1, EngineStepType DEF FlowTypeOK
  <2>3. exch' \in [ClientIds -> {"none", "live", "done"}] /\ reported' \subseteq Reports
    BY <1>2, ExchangeReports DEF FlowTypeOK
  <2>4. QED BY <2>1, <2>2, <2>3 DEF FlowTypeOK
<1>3. CASE Deliver
  <2>1. PICK r \in reported : OnExecutionReport(r)
    BY <1>3 DEF Deliver
  <2>2. r \in Reports
    BY DEF FlowTypeOK
  <2>3. EngineNext
    BY <2>1, <2>2 DEF EngineNext
  <2>4. EngineTypeOK'
    BY <2>3, EngineStepType DEF FlowTypeOK
  <2>5. QED BY <1>3, <2>3, <2>4 DEF Deliver, FlowTypeOK
<1>4. CASE UNCHANGED flowVars
  <2>1. UNCHANGED engineVars
    BY <1>4 DEF flowVars
  <2>2. EngineTypeOK'
    BY <2>1, EngineStepType DEF FlowTypeOK
  <2>3. QED BY <1>4, <2>1, <2>2 DEF flowVars, FlowTypeOK
<1>5. QED BY <1>1, <1>2, <1>3, <1>4 DEF FlowNext

(* The engine and the exchange keep their types.                            *)
THEOREM FlowTypeCorrect == FlowSpec => []FlowTypeOK
BY FlowInitType, FlowStepIsEngineStep, PTL DEF FlowSpec

(* The engine inside the composition is the engine of OrderEngine.          *)
THEOREM FlowImplementsEngine == FlowSpec => EngineSpec
<1>1. FlowInit => EngineInit
  BY DEF FlowInit
<1>2. QED BY <1>1, FlowStepIsEngineStep, FlowTypeCorrect, PTL DEF FlowSpec, EngineSpec
-----------------------------------------------------------------------------
(* The set of sent orders and its counting.                                 *)

(* The orders whose slot may not have been given back                       *)
Holding(s) == {i \in Sent(s) : ~ Freed(i) \/ Misread(i)}

LEMMA OrdersFinite ==
  ASSUME NEW s
  PROVE  /\ IsFiniteSet(Outstanding(s)) /\ Cardinality(Outstanding(s)) \in Nat
         /\ IsFiniteSet(Holding(s)) /\ Cardinality(Holding(s)) \in Nat
<1>1. IsFiniteSet(ClientIds)
  BY FS_Interval, EngineAssumption DEF ClientIds
<1>2. Outstanding(s) \subseteq ClientIds /\ Holding(s) \subseteq ClientIds
  BY DEF Outstanding, Holding, Sent
<1>3. QED BY <1>1, <1>2, FS_Subset, FS_CardinalityType

(* A new order joins the sent orders of its symbol, under an id no message  *)
(* carries yet.                                                             *)
LEMMA SentByNewOrder ==
  ASSUME EngineTypeOK, FreshClientIds, NEW s \in Symbols, NewOrder(s)
  PROVE  /\ nextClientId \in ClientIds
         /\ \A t \in Symbols : nextClientId \notin Sent(t)
         /\ \A t \in Symbols : Sent(t)' = IF t = s THEN Sent(t) \cup {nextClientId}
                                                   ELSE Sent(t)
<1>1. /\ wire \in Seq(Messages)
      /\ wire' = Append(wire, NewMsg(s))
      /\ nextClientId \in ClientIds
  BY DEF EngineTypeOK, NewOrder
<1>2. Requests' = Requests \cup {NewMsg(s)}
  BY <1>1 DEF Requests
<1>3. \A t \in Symbols : nextClientId \notin Sent(t)
  <2>1. \A m \in Requests : m.id < nextClientId
    BY DEF Requests, FreshClientIds
  <2>2. \A m \in Requests : m.id # nextClientId
    BY <1>1, <2>1, EngineAssumption DEF ClientIds, EngineTypeOK
  <2>3. QED BY <2>2 DEF Sent
<1>4. NewMsg(s).kind = "New" /\ NewMsg(s).id = nextClientId /\ NewMsg(s).symbol = s
  BY DEF NewMsg
<1>5. QED BY <1>1, <1>2, <1>3, <1>4 DEF Sent

(* Cancel requests send no order, and one is sent for each order given.     *)
LEMMA SentByCancels ==
  ASSUME EngineTypeOK, NEW s \in Symbols, NEW ids \in Seq(Known), EncodeCancels(ids, s)
  PROVE  /\ \A t \in Symbols : Sent(t)' = Sent(t)
         /\ Requests \subseteq Requests'
         /\ \A k \in 1..Len(ids) : CancelMsg(k, ids[k], s) \in Requests'
<1>1. /\ wire \in Seq(Messages) /\ wire' \in Seq(Messages)
      /\ Len(wire) \in Nat
      /\ Len(ids) \in Nat
      /\ Len(wire') = Len(wire) + Len(ids)
      /\ \A k \in 1..Len(wire) : wire'[k] = wire[k]
      /\ \A k \in 1..Len(ids) : wire'[Len(wire) + k] = CancelMsg(k, ids[k], s)
  <2>1. wire \in Seq(Messages) /\ Len(wire) \in Nat
    BY DEF EngineTypeOK
  <2>2. /\ wire' \in Seq(Messages)
        /\ Len(ids) \in Nat
        /\ Len(wire') = Len(wire) + Len(ids)
        /\ \A k \in 1..Len(wire) : wire'[k] = wire[k]
        /\ \A k \in 1..Len(ids) : /\ wire'[Len(wire) + k] = CancelMsg(k, ids[k], s)
                                  /\ ids[k] \in Known
    BY CancelBatchOnWire, Zenon
  <2>3. QED BY <2>1, <2>2, Zenon
<1>2. Requests \subseteq Requests'
  BY <1>1 DEF Requests
<1>3. ASSUME NEW m \in Requests', m.kind = "New" PROVE m \in Requests
  <2>1. PICK k \in 1..Len(wire') : m = wire'[k]
    BY DEF Requests
  <2>2. CASE k \in 1..Len(wire)
    BY <1>1, <2>1, <2>2 DEF Requests
  <2>3. CASE k \notin 1..Len(wire)
    <3>1. k - Len(wire) \in 1..Len(ids) /\ k = Len(wire) + (k - Len(wire))
      BY <1>1, <2>3
    <3>2. m = CancelMsg(k - Len(wire), ids[k - Len(wire)], s)
      BY <1>1, <2>1, <3>1
    <3>3. QED BY <1>3, <3>2 DEF CancelMsg
  <2>4. QED BY <2>2, <2>3
<1>4. ASSUME NEW k \in 1..Len(ids) PROVE CancelMsg(k, ids[k], s) \in Requests'
  <2>1. Len(wire) + k \in 1..Len(wire')
    BY <1>1
  <2>2. QED BY <1>1, <2>1, Zenon DEF Requests
<1>5. \A t \in Symbols : Sent(t)' = Sent(t)
  BY <1>2, <1>3 DEF Sent
<1>6. QED BY <1>2, <1>4, <1>5
-----------------------------------------------------------------------------
(* The parts of the invariant, one step of the system at a time.            *)

LEMMA FlowInvInit == FlowInit => FlowInv
<1> SUFFICES ASSUME FlowInit PROVE FlowInv
  OBVIOUS
<1>1. FlowTypeOK
  BY FlowInitType
<1>2. \A s \in Symbols : Sent(s) = {}
  BY DEF FlowInit, EngineInit, Sent, Requests
<1>3. \A s \in Symbols : Holding(s) = {}
  BY <1>2 DEF Holding
<1>4. CountIsExact
  <2>0. \A s \in Symbols : Outstanding(s) = {}
    BY <1>2 DEF Outstanding
  <2>1. \A s \in Symbols : /\ Cardinality(Holding(s)) = 0
                            /\ Cardinality(Outstanding(s)) = 0
                            /\ openCounts[s] = 0
    BY <1>3, <2>0, FS_EmptySet DEF FlowInit, EngineInit
  <2>2. QED BY <2>1 DEF CountIsExact, Holding
<1>5. FreshClientIds /\ CountWithinLimit
  BY EngineAssumption DEF FlowInit, EngineInit, FreshClientIds, CountWithinLimit
<1>6. QED
  BY <1>1, <1>2, <1>4, <1>5
     DEF FlowInv, FlowInit, EngineInit, ReportsOfSentOrders, OneReportPerExec,
         OneFinalReport, SeenWasReported, TablesOfSentOrders

(* Sending an order.                                                        *)
LEMMA FlowInvNewOrder ==
  ASSUME FlowInv, NEW s \in Symbols, NewOrder(s), UNCHANGED <<exch, reported>>
  PROVE  /\ ReportsOfSentOrders' /\ OneReportPerExec' /\ OneFinalReport'
         /\ SeenWasReported' /\ TablesOfSentOrders' /\ CountIsExact'
         /\ ~ Freed(nextClientId)
         /\ \A t \in Symbols : Outstanding(t)' =
              IF t = s THEN Outstanding(t) \cup {nextClientId} ELSE Outstanding(t)
<1> USE DEF FlowInv
<1>0. EngineTypeOK
  BY DEF FlowTypeOK
<1>1. /\ nextClientId \in ClientIds
      /\ \A t \in Symbols : nextClientId \notin Sent(t)
      /\ \A t \in Symbols : Sent(t)' = IF t = s THEN Sent(t) \cup {nextClientId}
                                                ELSE Sent(t)
  BY <1>0, SentByNewOrder
<1>2. seenExecIds' = seenExecIds /\ reported' = reported /\ exch' = exch
  BY DEF NewOrder
<1>3. \A i \in ClientIds : (Freed(i)' <=> Freed(i)) /\ (Misread(i)' <=> Misread(i))
  BY <1>2 DEF Freed, Misread
<1>4. ~ Freed(nextClientId)
  <2>1. \A r \in reported : r.symbol \in Symbols
    BY DEF FlowTypeOK, Reports
  <2>2. QED BY <1>1, <2>1 DEF Freed, ReportsOfSentOrders
<1>5. \A t \in Symbols : Outstanding(t)' =
        IF t = s THEN Outstanding(t) \cup {nextClientId} ELSE Outstanding(t)
  <2>1. \A t \in Symbols : Sent(t) \subseteq ClientIds
    BY DEF Sent
  <2>2. QED BY <1>1, <1>3, <1>4, <2>1 DEF Outstanding
<1>6. ReportsOfSentOrders'
  <2>1. \A r \in reported : r.symbol \in Symbols
    BY DEF FlowTypeOK, Reports
  <2>2. QED BY <1>1, <1>2, <2>1 DEF ReportsOfSentOrders
<1>7. OneReportPerExec' /\ OneFinalReport' /\ SeenWasReported'
  BY <1>2 DEF OneReportPerExec, OneFinalReport, SeenWasReported
<1>8. TablesOfSentOrders'
  <2> SUFFICES ASSUME NEW t \in Symbols, NEW i \in Sent(t)'
               PROVE  /\ symbolOf'[i] = t
                      /\ t \in Products
                      /\ ~ Freed(i)' => latestStatus'[i] \in OpenLike \cup {"Unknown"}
                      /\ latestStatus'[i] = "Unknown" => Misread(i)'
    BY DEF TablesOfSentOrders
  <2>1. CASE i = nextClientId
    BY <1>0, <1>1, <2>1 DEF NewOrder, EngineTypeOK, OpenLike
  <2>2. CASE i # nextClientId
    <3>1. i \in Sent(t) /\ i \in ClientIds
      BY <1>1, <2>2 DEF Sent
    <3>2. symbolOf'[i] = symbolOf[i] /\ latestStatus'[i] = latestStatus[i]
      BY <1>0, <2>2, <3>1 DEF NewOrder, EngineTypeOK
    <3>3. QED BY <1>3, <3>1, <3>2 DEF TablesOfSentOrders
  <2>3. QED BY <2>1, <2>2
<1>9. CountIsExact'
  <2> SUFFICES ASSUME NEW t \in Symbols
               PROVE  /\ openCounts'[t] >= Cardinality(Outstanding(t)')
                      /\ openCounts'[t] <= Cardinality(Holding(t)')
    BY DEF CountIsExact, Holding
  <2>1. /\ openCounts[t] >= Cardinality(Outstanding(t))
        /\ openCounts[t] <= Cardinality(Holding(t))
        /\ openCounts[t] \in Nat
    BY <1>0 DEF CountIsExact, Holding, EngineTypeOK
  <2>2. /\ IsFiniteSet(Holding(t)) /\ Cardinality(Holding(t)) \in Nat
        /\ IsFiniteSet(Outstanding(t)) /\ Cardinality(Outstanding(t)) \in Nat
    BY OrdersFinite
  <2>3. Holding(t)' = IF t = s THEN Holding(t) \cup {nextClientId} ELSE Holding(t)
    <3>1. Sent(t) \subseteq ClientIds
      BY DEF Sent
    <3>2. QED BY <1>1, <1>3, <1>4, <3>1 DEF Holding
  <2>4. CASE t = s
    <3>1. nextClientId \notin Holding(t) /\ nextClientId \notin Outstanding(t)
      BY <1>1 DEF Holding, Outstanding
    <3>2. /\ Cardinality(Holding(t)') = Cardinality(Holding(t)) + 1
          /\ Cardinality(Outstanding(t)') = Cardinality(Outstanding(t)) + 1
      BY <1>5, <2>2, <2>3, <2>4, <3>1, FS_AddElement
    <3>3. openCounts'[t] = openCounts[t] + 1
      BY <1>0, <2>4 DEF NewOrder, EngineTypeOK
    <3>4. QED BY <2>1, <2>2, <3>2, <3>3
  <2>5. CASE t # s
    <3>1. Holding(t)' = Holding(t) /\ Outstanding(t)' = Outstanding(t)
      BY <1>5, <2>3, <2>5
    <3>2. openCounts'[t] = openCounts[t]
      BY <1>0, <2>5 DEF NewOrder, EngineTypeOK
    <3>3. QED BY <2>1, <3>1, <3>2
  <2>6. QED BY <2>4, <2>5
<1>10. QED BY <1>4, <1>5, <1>6, <1>7, <1>8, <1>9

(* Sending cancel requests.                                                 *)
LEMMA FlowInvCancels ==
  ASSUME FlowInv, NEW s \in Symbols, NEW ids \in Seq(Known), EncodeCancels(ids, s),
         UNCHANGED <<exch, reported>>
  PROVE  /\ ReportsOfSentOrders' /\ OneReportPerExec' /\ OneFinalReport'
         /\ SeenWasReported' /\ TablesOfSentOrders' /\ CountIsExact'
         /\ \A t \in Symbols : Outstanding(t)' = Outstanding(t)
         /\ \A t \in Symbols : Sent(t)' = Sent(t)
<1> USE DEF FlowInv
<1>0. EngineTypeOK
  BY DEF FlowTypeOK
<1>1. \A t \in Symbols : Sent(t)' = Sent(t)
  BY <1>0, SentByCancels
<1>2. /\ seenExecIds' = seenExecIds /\ reported' = reported /\ exch' = exch
      /\ symbolOf' = symbolOf /\ openCounts' = openCounts
  BY DEF EncodeCancels
<1>3. \A i : (Freed(i)' <=> Freed(i)) /\ (Misread(i)' <=> Misread(i))
  BY <1>2 DEF Freed, Misread
<1>4. \A t \in Symbols : Outstanding(t)' = Outstanding(t)
  <2>1. \A t \in Symbols : Sent(t) \subseteq ClientIds
    BY DEF Sent
  <2>2. QED BY <1>1, <1>3, <2>1 DEF Outstanding
<1>5. ReportsOfSentOrders'
  <2>1. \A r \in reported : r.symbol \in Symbols
    BY DEF FlowTypeOK, Reports
  <2>2. QED BY <1>1, <1>2, <2>1 DEF ReportsOfSentOrders
<1>6. OneReportPerExec' /\ OneFinalReport' /\ SeenWasReported'
  BY <1>2 DEF OneReportPerExec, OneFinalReport, SeenWasReported
<1>7. TablesOfSentOrders'
  <2> SUFFICES ASSUME NEW t \in Symbols, NEW i \in Sent(t)
               PROVE  /\ symbolOf'[i] = t
                      /\ t \in Products
                      /\ ~ Freed(i)' => latestStatus'[i] \in OpenLike \cup {"Unknown"}
                      /\ latestStatus'[i] = "Unknown" => Misread(i)'
    BY <1>1 DEF TablesOfSentOrders
  <2>1. i \in ClientIds
    BY DEF Sent
  <2>2. latestStatus'[i] = "PendingCancel" \/ latestStatus'[i] = latestStatus[i]
    BY <2>1 DEF EncodeCancels
  <2>3. QED BY <1>2, <1>3, <2>1, <2>2 DEF TablesOfSentOrders, OpenLike
<1>8. CountIsExact'
  <2>1. \A t \in Symbols : Holding(t)' = Holding(t)
    BY <1>1, <1>3 DEF Holding
  <2>2. QED BY <1>2, <1>4, <2>1 DEF CountIsExact, Holding
<1>9. QED BY <1>1, <1>4, <1>5, <1>6, <1>7, <1>8

(* A step of the exchange: its report is under an ExecID the engine has not *)
(* seen, so what the engine has applied stays as it is.                     *)
LEMMA FlowInvExchange ==
  ASSUME FlowInv, Exchange
  PROVE  /\ ReportsOfSentOrders' /\ OneReportPerExec' /\ OneFinalReport'
         /\ SeenWasReported' /\ TablesOfSentOrders' /\ CountIsExact'
         /\ \A t \in Symbols : Outstanding(t)' = Outstanding(t)
         /\ \A t \in Symbols : Sent(t)' = Sent(t)
<1> USE DEF FlowInv
<1>1. PICK r \in Reports :
        /\ r.id \in Sent(r.symbol)
        /\ FreshExec(r.exec)
        /\ reported' = reported \cup {r}
        /\ exch[r.id] # "done"
        /\ exch' \in [ClientIds -> {"none", "live", "done"}]
        /\ \A i \in ClientIds : i # r.id => exch'[i] = exch[i]
        /\ r.status \in Terminal => exch'[r.id] = "done"
        /\ UNCHANGED engineVars
  BY ExchangeReports
<1>2. /\ UNCHANGED <<seenExecIds, latestStatus, symbolOf, openCounts, wire>>
      /\ \A t : Sent(t)' = Sent(t)
  BY <1>1 DEF engineVars, managerVars, Sent, Requests
<1>3. r.exec \notin seenExecIds
  BY <1>1 DEF FreshExec, SeenWasReported
<1>4. \A i : (Freed(i)' <=> Freed(i)) /\ (Misread(i)' <=> Misread(i))
  BY <1>1, <1>2, <1>3 DEF Freed, Misread
<1>5. \A t \in Symbols : Outstanding(t)' = Outstanding(t)
  <2>1. \A t \in Symbols : Sent(t) \subseteq ClientIds
    BY DEF Sent
  <2>2. QED BY <1>2, <1>4, <2>1 DEF Outstanding
<1>6. ReportsOfSentOrders'
  BY <1>1, <1>2 DEF ReportsOfSentOrders
<1>7. OneReportPerExec'
  BY <1>1 DEF OneReportPerExec, FreshExec
<1>8. OneFinalReport'
  <2>1. \A q \in reported : q.id \in ClientIds
    BY DEF FlowTypeOK, Reports
  <2>2. \A q \in reported : q.status \in Terminal => q.id # r.id
    BY <1>1 DEF OneFinalReport
  <2>3. QED BY <1>1, <2>1, <2>2 DEF OneFinalReport
<1>9. SeenWasReported'
  BY <1>1, <1>2 DEF SeenWasReported
<1>10. TablesOfSentOrders'
  <2>1. \A t \in Symbols : Sent(t) \subseteq ClientIds
    BY DEF Sent
  <2>2. QED BY <1>2, <1>4, <2>1 DEF TablesOfSentOrders
<1>11. CountIsExact'
  <2>1. \A t \in Symbols : Holding(t)' = Holding(t)
    BY <1>2, <1>4 DEF Holding
  <2>2. QED BY <1>2, <1>5, <2>1 DEF CountIsExact, Holding
<1>12. QED BY <1>2, <1>5, <1>6, <1>7, <1>8, <1>9, <1>10, <1>11

(* Applying a report: a final one frees its order, any other frees none.    *)
LEMMA FlowInvDeliver ==
  ASSUME FlowInv, NEW r \in reported, OnExecutionReport(r), UNCHANGED <<exch, reported>>
  PROVE  /\ ReportsOfSentOrders' /\ OneReportPerExec' /\ OneFinalReport'
         /\ SeenWasReported' /\ TablesOfSentOrders' /\ CountIsExact'
         /\ \A t \in Symbols : Sent(t)' = Sent(t)
         /\ r.symbol \in Symbols
         /\ r.status \in Terminal => r.id \in Outstanding(r.symbol)
         /\ \A t \in Symbols : Outstanding(t)' =
              IF t = r.symbol /\ r.status \in Terminal THEN Outstanding(t) \ {r.id}
                                                    ELSE Outstanding(t)
<1> USE DEF FlowInv
<1>0. /\ EngineTypeOK
      /\ r.id \in ClientIds /\ r.symbol \in Symbols
      /\ r.status \in Statuses /\ r.exec \in ExecIds
  BY DEF FlowTypeOK, Reports
<1>1. /\ r.exec \notin seenExecIds
      /\ seenExecIds' = seenExecIds \cup {r.exec}
      /\ latestStatus' = [latestStatus EXCEPT ![r.id] = r.status]
      /\ symbolOf' = [symbolOf EXCEPT ![r.id] = r.symbol]
      /\ wire' = wire /\ reported' = reported /\ exch' = exch
      /\ openCounts' = IF r.status \in Terminal /\ latestStatus[r.id] \in OpenLike
                       THEN [openCounts EXCEPT ![r.symbol] = IF @ = 0 THEN 0 ELSE @ - 1]
                       ELSE openCounts
  BY DEF OnExecutionReport, FreshReport, ApplyOrderEvent
<1>2. /\ \A t : Sent(t)' = Sent(t)
      /\ \A t \in Symbols : Sent(t) \subseteq ClientIds
      /\ r.id \in Sent(r.symbol)
  BY <1>1 DEF Sent, Requests, ReportsOfSentOrders
<1>3. \A i \in ClientIds :
        /\ Freed(i)' <=> Freed(i) \/ (i = r.id /\ r.status \in Terminal)
        /\ Misread(i)' <=> Misread(i) \/ (i = r.id /\ r.status = "Unknown")
  BY <1>1 DEF Freed, Misread, OneReportPerExec
<1>4. r.status \in Terminal => ~ Freed(r.id)
  BY <1>1 DEF Freed, OneFinalReport
<1>5. \A t \in Symbols : r.id \in Sent(t) => t = r.symbol
  BY <1>0, <1>2 DEF TablesOfSentOrders
<1>6. \A t \in Symbols : Outstanding(t)' =
        IF t = r.symbol /\ r.status \in Terminal THEN Outstanding(t) \ {r.id}
                                              ELSE Outstanding(t)
  BY <1>2, <1>3, <1>5 DEF Outstanding
<1>7. r.status \in Terminal => r.id \in Outstanding(r.symbol)
  BY <1>2, <1>4 DEF Outstanding
<1>8. ReportsOfSentOrders' /\ OneReportPerExec' /\ OneFinalReport' /\ SeenWasReported'
  <2>1. SeenWasReported'
    BY <1>1 DEF SeenWasReported
  <2>2. QED
    BY <1>1, <1>2, <2>1 DEF ReportsOfSentOrders, OneReportPerExec, OneFinalReport
<1>9. TablesOfSentOrders'
  <2> SUFFICES ASSUME NEW t \in Symbols, NEW i \in Sent(t)
               PROVE  /\ symbolOf'[i] = t
                      /\ t \in Products
                      /\ ~ Freed(i)' => latestStatus'[i] \in OpenLike \cup {"Unknown"}
                      /\ latestStatus'[i] = "Unknown" => Misread(i)'
    BY <1>2 DEF TablesOfSentOrders
  <2>1. i \in ClientIds
    BY <1>2
  <2>2. CASE i = r.id
    <3>1. t = r.symbol
      BY <1>5, <2>2
    <3>2. r.status \notin Terminal => r.status \in OpenLike \cup {"Unknown"}
      BY <1>0 DEF Statuses
    <3>3. symbolOf'[i] = r.symbol /\ latestStatus'[i] = r.status
      BY <1>0, <1>1, <2>2 DEF EngineTypeOK
    <3>4. QED BY <1>3, <2>1, <2>2, <3>1, <3>2, <3>3 DEF TablesOfSentOrders
  <2>3. CASE i # r.id
    <3>1. symbolOf'[i] = symbolOf[i] /\ latestStatus'[i] = latestStatus[i]
      BY <1>0, <1>1, <2>1, <2>3 DEF EngineTypeOK
    <3>2. QED BY <1>3, <2>1, <2>3, <3>1 DEF TablesOfSentOrders
  <2>4. QED BY <2>2, <2>3
<1>10. CountIsExact'
  <2> SUFFICES ASSUME NEW t \in Symbols
               PROVE  /\ openCounts'[t] >= Cardinality(Outstanding(t)')
                      /\ openCounts'[t] <= Cardinality(Holding(t)')
    BY DEF CountIsExact, Holding
  <2>1. /\ openCounts[t] >= Cardinality(Outstanding(t))
        /\ openCounts[t] <= Cardinality(Holding(t))
        /\ openCounts[t] \in Nat
    BY <1>0 DEF CountIsExact, Holding, EngineTypeOK
  <2>2. /\ IsFiniteSet(Holding(t)) /\ Cardinality(Holding(t)) \in Nat
        /\ IsFiniteSet(Outstanding(t)) /\ Cardinality(Outstanding(t)) \in Nat
    BY OrdersFinite
  <2>3. /\ IsFiniteSet(Holding(t)') /\ Cardinality(Holding(t)') \in Nat
    <3>1. IsFiniteSet(ClientIds)
      BY FS_Interval, EngineAssumption DEF ClientIds
    <3>2. Holding(t)' \subseteq ClientIds
      BY <1>2 DEF Holding
    <3>3. QED BY <3>1, <3>2, FS_Subset, FS_CardinalityType
  <2>4. CASE t = r.symbol /\ r.status \in Terminal
    <3>1. r.id \in Outstanding(t) /\ ~ Freed(r.id)
      BY <1>4, <1>7, <2>4
    <3>2. Cardinality(Outstanding(t)') = Cardinality(Outstanding(t)) - 1
      BY <1>6, <2>2, <2>4, <3>1, FS_RemoveElement
    <3>3. r.id \in Holding(t) /\ Cardinality(Outstanding(t)) # 0
      BY <2>2, <3>1, FS_EmptySet DEF Holding, Outstanding
    <3>4. CASE latestStatus[r.id] \in OpenLike
      <4>1. openCounts'[t] = openCounts[t] - 1
        BY <1>0, <1>1, <2>1, <2>2, <2>4, <3>3, <3>4 DEF EngineTypeOK
      <4>2. Holding(t) \ {r.id} \subseteq Holding(t)'
        BY <1>2, <1>3 DEF Holding
      <4>3. /\ Cardinality(Holding(t) \ {r.id}) = Cardinality(Holding(t)) - 1
            /\ Cardinality(Holding(t) \ {r.id}) <= Cardinality(Holding(t)')
        BY <2>2, <2>3, <3>3, <4>2, FS_RemoveElement, FS_Subset
      <4>4. QED BY <2>1, <2>2, <2>3, <3>2, <4>1, <4>3
    <3>5. CASE latestStatus[r.id] \notin OpenLike
      <4>1. openCounts'[t] = openCounts[t]
        BY <1>1, <3>5
      <4>2. Misread(r.id)
        BY <1>2, <2>4, <3>1, <3>5 DEF TablesOfSentOrders
      <4>3. Holding(t) \subseteq Holding(t)'
        BY <1>2, <1>3, <4>2 DEF Holding
      <4>4. Cardinality(Holding(t)) <= Cardinality(Holding(t)')
        BY <2>3, <4>3, FS_Subset
      <4>5. QED BY <2>1, <2>2, <2>3, <3>2, <4>1, <4>4
    <3>6. QED BY <3>4, <3>5
  <2>5. CASE ~ (t = r.symbol /\ r.status \in Terminal)
    <3>1. Outstanding(t)' = Outstanding(t) /\ openCounts'[t] = openCounts[t]
      BY <1>0, <1>1, <1>6, <2>5 DEF EngineTypeOK
    <3>2. Holding(t) \subseteq Holding(t)'
      BY <1>2, <1>3, <1>5, <2>5 DEF Holding
    <3>3. Cardinality(Holding(t)) <= Cardinality(Holding(t)')
      BY <2>3, <3>2, FS_Subset
    <3>4. QED BY <2>1, <2>2, <2>3, <3>1, <3>3
  <2>6. QED BY <2>4, <2>5
<1>11. QED BY <1>0, <1>2, <1>6, <1>7, <1>8, <1>9, <1>10
-----------------------------------------------------------------------------
(* Together: the invariant is inductive.                                    *)
LEMMA FlowInvParts ==
  ASSUME FlowInv, [FlowNext]_flowVars
  PROVE  /\ ReportsOfSentOrders' /\ OneReportPerExec' /\ OneFinalReport'
         /\ SeenWasReported' /\ TablesOfSentOrders' /\ CountIsExact'
<1>1. CASE Command
  <2>1. UNCHANGED <<exch, reported>>
    BY <1>1 DEF Command
  <2>2. PICK s \in Symbols :
          NewOrder(s) \/ CancelAll(s) \/ \E i \in ClientIds : CancelOrder(s, i)
    BY <1>1 DEF Command
  <2>3. CASE NewOrder(s)
    BY <2>1, <2>3, FlowInvNewOrder
  <2>4. CASE CancelAll(s) \/ \E i \in ClientIds : CancelOrder(s, i)
    <3>1. PICK ids \in Seq(Known) : EncodeCancels(ids, s)
      BY <2>4, CancelsAreBatches
    <3>2. QED BY <2>1, <3>1, FlowInvCancels
  <2>5. QED BY <2>2, <2>3, <2>4
<1>2. CASE Exchange
  BY <1>2, FlowInvExchange
<1>3. CASE Deliver
  <2>1. PICK r \in reported : OnExecutionReport(r)
    BY <1>3 DEF Deliver
  <2>2. QED BY <1>3, <2>1, FlowInvDeliver DEF Deliver
<1>4. CASE UNCHANGED flowVars
  <2>1. /\ \A s : Sent(s)' = Sent(s)
        /\ \A i : Freed(i)' <=> Freed(i)
        /\ \A i : Misread(i)' <=> Misread(i)
    BY <1>4 DEF flowVars, engineVars, managerVars, Sent, Requests, Freed, Misread
  <2>2. \A s \in Symbols : Holding(s)' = Holding(s) /\ Outstanding(s)' = Outstanding(s)
    BY <2>1 DEF Holding, Outstanding
  <2>3. CountIsExact'
    BY <1>4, <2>2 DEF FlowInv, CountIsExact, Holding, flowVars, engineVars, managerVars
  <2>4. QED
    BY <1>4, <2>1, <2>3
       DEF flowVars, engineVars, managerVars, FlowInv, ReportsOfSentOrders,
           OneReportPerExec, OneFinalReport, SeenWasReported, TablesOfSentOrders
<1>5. QED BY <1>1, <1>2, <1>3, <1>4 DEF FlowNext

LEMMA FlowInvStep == FlowInv /\ [FlowNext]_flowVars => FlowInv'
<1> SUFFICES ASSUME FlowInv, [FlowNext]_flowVars PROVE FlowInv'
  OBVIOUS
<1>1. [EngineNext]_engineVars /\ FlowTypeOK'
  BY FlowStepIsEngineStep DEF FlowInv
<1>2. FreshClientIds' /\ CountWithinLimit'
  BY <1>1, FreshClientIdsStep, CountWithinLimitStep DEF FlowInv, FlowTypeOK
<1>3. QED BY <1>1, <1>2, FlowInvParts DEF FlowInv

(* Reports, seen exec ids, order tables and the counter agree, whatever is  *)
(* delayed, repeated or overtaken.                                          *)
THEOREM FlowInvariant == FlowSpec => []FlowInv
BY FlowInvInit, FlowInvStep, PTL DEF FlowSpec

(* The counter covers every order whose end the engine has not seen.        *)
LEMMA CountCoversOutstanding ==
  ASSUME FlowInv, NEW s \in Symbols
  PROVE  /\ Cardinality(Outstanding(s)) \in Nat
         /\ Cardinality(Outstanding(s)) <= openCounts[s]
BY OrdersFinite DEF FlowInv, CountIsExact, FlowTypeOK, EngineTypeOK

(* An order that can trade is one whose end the engine has not seen.        *)
LEMMA MayTradeIsOutstanding ==
  ASSUME FlowInv, NEW s \in Symbols
  PROVE  MayTrade(s) \subseteq Outstanding(s)
BY DEF FlowInv, OneFinalReport, MayTrade, Outstanding, Freed, Sent

LEMMA FlowInvLimitsExposure == FlowInv => ExposureLimit
<1> SUFFICES ASSUME FlowInv, NEW s \in Symbols
             PROVE  Cardinality(MayTrade(s)) <= MaxOpen
  BY DEF ExposureLimit
<1>1. IsFiniteSet(Outstanding(s)) /\ Cardinality(Outstanding(s)) \in Nat
  BY OrdersFinite
<1>2. /\ Cardinality(MayTrade(s)) <= Cardinality(Outstanding(s))
      /\ Cardinality(MayTrade(s)) \in Nat
  BY <1>1, MayTradeIsOutstanding, FS_Subset, FS_CardinalityType
<1>3. /\ Cardinality(Outstanding(s)) <= openCounts[s]
      /\ openCounts[s] <= MaxOpen
      /\ openCounts[s] \in Nat
  BY CountCoversOutstanding DEF FlowInv, CountWithinLimit, FlowTypeOK, EngineTypeOK
<1>4. QED BY <1>1, <1>2, <1>3, EngineAssumption

(* No symbol ever has more than MaxOpen orders that can trade.              *)
THEOREM FlowExposureLimit == FlowSpec => []ExposureLimit
BY FlowInvLimitsExposure, FlowInvariant, PTL

LEMMA FlowInvReachesLive == FlowInv => CancelAllReachesLive
<1> SUFFICES ASSUME FlowInv, NEW s \in Symbols, NEW i \in MayTrade(s)
             PROVE  i \in Active(s) \/ latestStatus[i] = "Unknown"
  BY DEF CancelAllReachesLive
<1>1. i \in Outstanding(s)
  BY MayTradeIsOutstanding
<1>2. QED
  BY <1>1 DEF FlowInv, TablesOfSentOrders, Outstanding, Active, Sent

(* A CancelAll sends a cancel request for every order that can trade, but   *)
(* those whose last applied status the engine could not read.               *)
THEOREM FlowCancelAllReachesLive == FlowSpec => []CancelAllReachesLive
BY FlowInvReachesLive, FlowInvariant, PTL

(* The engine's counter is the number of outstanding orders, or above it by *)
(* some of those a status was applied of that it could not read.            *)
THEOREM FlowCountIsExact == FlowSpec => []CountIsExact
BY FlowInvariant, PTL DEF FlowInv
-----------------------------------------------------------------------------
(* The engine and the exchange implement the open order slots: sending an   *)
(* order takes a slot, learning its end gives it back, nothing else counts. *)
THEOREM FlowImplementsSlots == FlowSpec => SlotsSpec
<1> DEFINE holding == [s \in Symbols |-> Outstanding(s)]
           used    == {i \in ClientIds : \E s \in Symbols : i \in Sent(s)}
<1>1. FlowInit => OpenSlots!Init
  <2> SUFFICES ASSUME FlowInit PROVE OpenSlots!Init
    OBVIOUS
  <2>1. \A s \in Symbols : Sent(s) = {}
    BY DEF FlowInit, EngineInit, Sent, Requests
  <2>2. \A s \in Symbols : Outstanding(s) = {}
    BY <2>1 DEF Outstanding
  <2>3. QED BY <2>1, <2>2 DEF OpenSlots!Init
<1>2. FlowInv /\ [FlowNext]_flowVars => [OpenSlots!Next]_OpenSlots!vars
  <2> SUFFICES ASSUME FlowInv, [FlowNext]_flowVars
               PROVE  OpenSlots!Next \/ (holding' = holding /\ used' = used)
    BY DEF OpenSlots!vars
  <2>0. (\A t \in Symbols : Outstanding(t)' = Outstanding(t) /\ Sent(t)' = Sent(t))
          => (holding' = holding /\ used' = used)
    OBVIOUS
  <2>1. ASSUME NEW s \in Symbols, NewOrder(s), UNCHANGED <<exch, reported>>
        PROVE  OpenSlots!Next
    <3>1. /\ nextClientId \in ClientIds
          /\ \A t \in Symbols : nextClientId \notin Sent(t)
          /\ \A t \in Symbols : Sent(t)' = IF t = s THEN Sent(t) \cup {nextClientId}
                                                    ELSE Sent(t)
      BY <2>1, SentByNewOrder DEF FlowInv, FlowTypeOK
    <3>2. \A t \in Symbols : Outstanding(t)' =
             IF t = s THEN Outstanding(t) \cup {nextClientId} ELSE Outstanding(t)
      BY <2>1, FlowInvNewOrder
    <3>3. Cardinality(holding[s]) < MaxOpen
      <4>1. openCounts[s] < MaxOpen /\ openCounts[s] \in Nat
        BY <2>1 DEF NewOrder, HasRoom, FlowInv, FlowTypeOK, EngineTypeOK
      <4>2. /\ Cardinality(Outstanding(s)) <= openCounts[s]
            /\ Cardinality(Outstanding(s)) \in Nat
        BY CountCoversOutstanding
      <4>3. QED BY <4>1, <4>2, EngineAssumption
    <3>4. holding' = [holding EXCEPT ![s] = @ \cup {nextClientId}]
      BY <3>2
    <3>5. nextClientId \notin used /\ used' = used \cup {nextClientId}
      BY <3>1
    <3>6. OpenSlots!Take(s, nextClientId)
      <4>1. OpenSlots!Cardinality(holding[s]) = Cardinality(holding[s])
        BY DEF OpenSlots!Cardinality, Cardinality
      <4>2. QED BY <3>3, <3>4, <3>5, <4>1 DEF OpenSlots!Take
    <3>7. QED BY <3>1, <3>6 DEF OpenSlots!Next
  <2>2. ASSUME NEW r \in reported, OnExecutionReport(r), UNCHANGED <<exch, reported>>
        PROVE  OpenSlots!Next \/ (holding' = holding /\ used' = used)
    <3>1. /\ \A t \in Symbols : Sent(t)' = Sent(t)
          /\ r.symbol \in Symbols
          /\ r.status \in Terminal => r.id \in Outstanding(r.symbol)
          /\ \A t \in Symbols : Outstanding(t)' =
               IF t = r.symbol /\ r.status \in Terminal THEN Outstanding(t) \ {r.id}
                                                     ELSE Outstanding(t)
      BY <2>2, FlowInvDeliver
    <3>2. CASE r.status \in Terminal
      <4>1. holding' = [holding EXCEPT ![r.symbol] = @ \ {r.id}] /\ used' = used
        BY <3>1, <3>2
      <4>2. r.id \in holding[r.symbol] /\ r.id \in ClientIds
        BY <3>1, <3>2 DEF Outstanding, Sent
      <4>3. OpenSlots!Release(r.symbol, r.id)
        BY <4>1, <4>2 DEF OpenSlots!Release
      <4>4. QED BY <3>1, <4>2, <4>3 DEF OpenSlots!Next
    <3>3. CASE r.status \notin Terminal
      BY <2>0, <3>1, <3>3
    <3>4. QED BY <3>2, <3>3
  <2>3. CASE Command
    <3>1. UNCHANGED <<exch, reported>>
      BY <2>3 DEF Command
    <3>2. PICK s \in Symbols :
            NewOrder(s) \/ CancelAll(s) \/ \E i \in ClientIds : CancelOrder(s, i)
      BY <2>3 DEF Command
    <3>3. CASE NewOrder(s)
      BY <2>1, <3>1, <3>3
    <3>4. CASE CancelAll(s) \/ \E i \in ClientIds : CancelOrder(s, i)
      <4>1. PICK ids \in Seq(Known) : EncodeCancels(ids, s)
        BY <3>4, CancelsAreBatches
      <4>2. QED BY <2>0, <3>1, <4>1, FlowInvCancels
    <3>5. QED BY <3>2, <3>3, <3>4
  <2>4. CASE Exchange
    BY <2>0, <2>4, FlowInvExchange
  <2>5. CASE Deliver
    <3>1. PICK r \in reported : OnExecutionReport(r)
      BY <2>5 DEF Deliver
    <3>2. QED BY <2>2, <2>5, <3>1 DEF Deliver
  <2>6. CASE UNCHANGED flowVars
    <3>1. \A s : Sent(s)' = Sent(s) /\ Outstanding(s)' = Outstanding(s)
      BY <2>6 DEF flowVars, engineVars, managerVars, Outstanding, Freed, Sent, Requests
    <3>2. QED BY <2>0, <3>1
  <2>7. QED BY <2>3, <2>4, <2>5, <2>6 DEF FlowNext
<1>3. QED BY <1>1, <1>2, FlowInvariant, PTL DEF FlowSpec, SlotsSpec, OpenSlots!Spec

---------------------------------------------------------------------------
(* The live pipeline of one symbol.  What its channels carry: the maker's   *)
(* commands one way, reports of the exchange and the engine's events the    *)
(* other.                                                                   *)

MakerCommands ==
  [kind : {"New"}, side : Sides, price : Int, id : Nat]
    \cup [kind : {"Cancel"}, target : Nat]
    \cup [kind : {"CancelAll"}]

Placed == [side : Sides, price : Int]

EngineEvents ==
  [type : {"Order"}, id : ClientIds, side : Sides, price : Int, status : Statuses]
    \cup [type : {"Fill"}, side : Sides]

ChannelsTypeOK ==
  /\ commands \in Seq(MakerCommands)
  /\ events \in Seq(EngineEvents)
  /\ reports \in Seq(reported)
  /\ order \in [ClientIds -> Placed \cup {None}]

(* What was sent is known by its side and price                             *)
SentIsPlaced == \A s \in Symbols : \A i \in Sent(s) : order[i] \in Placed

(* Every order that can trade has a cancel request on the wire, or a status *)
(* of it was applied that the engine cannot read                            *)
AllAskedToCancel == \A i \in MayTrade(Symbol) : AskedToCancel(i) \/ Misread(i)

NothingNewAfter(k) == \A j \in 1..Len(commands) : j > k => commands[j].kind # "New"

(* While the maker stands aside either the CancelAll is on its way and      *)
(* nothing new comes after it, or it has reached every order.               *)
Sweeping ==
  sweeping =>
    /\ phase = "Flat"
    /\ \/ \E k \in 1..Len(commands) : commands[k].kind = "CancelAll" /\ NothingNewAfter(k)
       \/ NothingNewAfter(0) /\ AllAskedToCancel

(* The maker hears of orders that were sent, and no others                  *)
EventsAreKnown ==
  \A k \in 1..Len(events) : events[k].type = "Order" => events[k].id \in Known
OpenedIsKnown  == \A slot \in Slots : opened[slot] # None => opened[slot] \in Known

(* An order it gave up for another one was asked to be cancelled, or the    *)
(* command to cancel it is on its way                                       *)
ReplacedIsAsked ==
  \A i \in replaced : i \in Known /\ (AskedToCancel(i) \/ Cancels(commands, i))

ReplacedInv == EventsAreKnown /\ OpenedIsKnown /\ ReplacedIsAsked

LiveInv ==
  /\ FlowInv
  /\ MakerInv
  /\ ChannelsTypeOK
  /\ SentIsPlaced
  /\ Sweeping
  /\ ReplacedInv

LEMMA LiveInvInit == LiveInit => LiveInv
<1> SUFFICES ASSUME LiveInit PROVE LiveInv
  OBVIOUS
<1>1. FlowInv /\ MakerInv
  BY FlowInvInit, MakerInvInit DEF LiveInit
<1>2. ReplacedInv
  BY DEF LiveInit, MakerInit, Nothing, ReplacedInv, EventsAreKnown, OpenedIsKnown,
         ReplacedIsAsked
<1>3. ChannelsTypeOK
  BY DEF LiveInit, ChannelsTypeOK
<1>4. SentIsPlaced
  BY DEF LiveInit, FlowInit, EngineInit, SentIsPlaced, Sent, Requests
<1>5. Sweeping
  BY DEF LiveInit, Sweeping
<1>6. QED BY <1>1, <1>2, <1>3, <1>4, <1>5 DEF LiveInv

(* A step that leaves engine, exchange and placed orders alone keeps what   *)
(* is known of them.                                                        *)
LEMMA FlowUntouched ==
  ASSUME LiveInv, UNCHANGED <<flowVars, order>>
  PROVE  FlowInv' /\ SentIsPlaced' /\ (AllAskedToCancel => AllAskedToCancel')
<1>1. FlowInv'
  BY FlowInvStep DEF LiveInv
<1>2. /\ \A s : Sent(s)' = Sent(s) /\ MayTrade(s)' = MayTrade(s)
      /\ \A i : (AskedToCancel(i)' <=> AskedToCancel(i)) /\ (Misread(i)' <=> Misread(i))
  BY DEF flowVars, engineVars, managerVars, Sent, MayTrade, Requests, AskedToCancel, Misread
<1>3. QED BY <1>1, <1>2 DEF SentIsPlaced, AllAskedToCancel, LiveInv

(* What is known of the maker's orders stays known when the engine forgets  *)
(* no order, and no request and no command to cancel is lost.               *)
LEMMA ReplacedKept ==
  ASSUME LiveInv, UNCHANGED <<opened, replaced>>, Known \subseteq Known',
         Requests \subseteq Requests', EventsAreKnown',
         \A i \in replaced : Cancels(commands, i) => AskedToCancel(i)' \/ Cancels(commands', i)
  PROVE  ReplacedInv'
<1>1. OpenedIsKnown'
  BY DEF LiveInv, ReplacedInv, OpenedIsKnown
<1>2. ReplacedIsAsked'
  <2> SUFFICES ASSUME NEW i \in replaced
               PROVE  i \in Known' /\ (AskedToCancel(i)' \/ Cancels(commands', i))
    BY DEF ReplacedIsAsked
  <2>1. i \in Known /\ (AskedToCancel(i) \/ Cancels(commands, i))
    BY DEF LiveInv, ReplacedInv, ReplacedIsAsked
  <2>2. AskedToCancel(i) => AskedToCancel(i)'
    BY DEF AskedToCancel
  <2>3. QED BY <2>1, <2>2
<1>3. QED BY <1>1, <1>2 DEF ReplacedInv

LEMMA MakerUntouched ==
  ASSUME MakerInv, UNCHANGED makerVars
  PROVE  MakerInv' /\ phase' = phase /\ opened' = opened
  BY MakerInvStutters DEF makerVars, historyVars

---------------------------------------------------------------------------
(* The strategy thread.                                                     *)

LEMMA SafeCommandsAreTyped ==
  ASSUME NEW b, NEW reach PROVE SafeCommands(b, reach) \subseteq MakerCommands
<1> SUFFICES ASSUME NEW c \in SafeCommands(b, reach) PROVE c \in MakerCommands
  OBVIOUS
<1>1. CASE c \in {New(side, price, id) : side \in Sides, price \in Int, id \in Nat}
  BY <1>1 DEF New, MakerCommands
<1>2. CASE c \in {Cancel(o) : o \in ActiveOrders}
  BY <1>2 DEF Cancel, MakerCommands, ActiveOrders
<1>3. CASE c = CancelEverything
  BY <1>3 DEF CancelEverything, MakerCommands
<1>4. QED BY <1>1, <1>2, <1>3 DEF SafeCommands

(* A call of the maker's engine and its sends                               *)
LEMMA CallSends ==
  ASSUME LiveInv, MakerCall, Send
  PROVE  /\ MakerInv'
         /\ emitted' \in Seq(MakerCommands)
         /\ commands' \in Seq(MakerCommands)
         /\ commands' = commands \o emitted'
<1>1. MakerInv' /\ emitted' \in Seq(SafeCommands(book', Reach'))
  BY MakerStep DEF LiveInv, StepOK
<1>2. SafeCommands(book', Reach') \subseteq MakerCommands
  BY SafeCommandsAreTyped
<1>3. emitted' \in Seq(MakerCommands)
  BY <1>1, <1>2
<1>4. QED BY <1>1, <1>3 DEF Send, LiveInv, ChannelsTypeOK

(* Market data and fills take no order up: what is opened after the call    *)
(* was opened before it, and what the call gives up was.                    *)
OnlyOpened ==
  /\ \A slot \in Slots : opened'[slot] \in {None, opened[slot]}
  /\ \A i \in givenUp' : i # None /\ \E slot \in Slots : opened[slot] = i

LEMMA GiveUpOpened == ASSUME NEW S \in SUBSET Slots, GiveUp(S) PROVE OnlyOpened
  BY DEF GiveUp, OnlyOpened

LEMMA BookTakesNothingUp ==
  ASSUME MakerInv, NEW u, OnL1(u)
  PROVE  OnlyOpened
<1>1. CASE StandAside
  BY <1>1 DEF StandAside, ForgetOpened, Nothing, OnlyOpened
<1>2. CASE QuoteTwoSides(book')
  BY <1>2 DEF QuoteTwoSides, GiveUpNothing, OnlyOpened
<1>3. CASE RequoteTwoSides(book')
  <2>1. PICK S \in SUBSET Sides : GiveUp({QuoteSlot(side) : side \in S})
    BY <1>3 DEF RequoteTwoSides
  <2>2. {QuoteSlot(side) : side \in S} \subseteq Slots
    BY DEF QuoteSlot, Slots, Sides
  <2>3. QED BY <2>1, <2>2, GiveUpOpened
<1>4. CASE \E side \in Sides : RequoteExit(book', side)
  <2>1. PICK S \in {{"exit"}, {}} : GiveUp(S)
    BY <1>4 DEF RequoteExit
  <2>2. S \subseteq Slots
    BY DEF Slots
  <2>3. QED BY <2>1, <2>2, GiveUpOpened
<1>5. QED BY <1>1, <1>2, <1>3, <1>4 DEF OnL1

LEMMA FillTakesNothingUp ==
  ASSUME MakerInv, NEW side \in Sides, OnFill(side)
  PROVE  OnlyOpened
<1>1. CASE QuoteFilled(side)
  <2>1. QuoteSlot(Opposite(side)) \in Slots
    BY DEF QuoteSlot, Opposite, Slots
  <2>2. QED BY <1>1, <2>1 DEF QuoteFilled, Nothing, OnlyOpened
<1>2. CASE ExitFilled(side)
  BY <1>2 DEF ExitFilled, ForgetOpened, Nothing, OnlyOpened
<1>3. CASE FillIgnored(side)
  BY <1>3 DEF FillIgnored, GiveUpNothing, OnlyOpened
<1>4. QED BY <1>1, <1>2, <1>3 DEF OnFill

(* The cancel of an order given up goes out with the call's commands.       *)
LEMMA CallReplaces ==
  ASSUME LiveInv, MakerCall, Send, UNCHANGED flowVars, EventsAreKnown',
         \A slot \in Slots : opened'[slot] # None => opened'[slot] \in Known,
         \A i \in givenUp' : i \in Known
  PROVE  ReplacedInv'
<1>1. /\ MakerInv' /\ emitted' \in Seq(MakerCommands) /\ commands' = commands \o emitted'
      /\ commands \in Seq(MakerCommands) /\ replaced' = replaced \cup givenUp'
  BY CallSends DEF Send, LiveInv, ChannelsTypeOK
<1>2. Known' = Known /\ \A i : AskedToCancel(i)' <=> AskedToCancel(i)
  BY DEF flowVars, engineVars, managerVars, Known, AskedToCancel, Requests
<1>3. OpenedIsKnown'
  BY <1>2 DEF OpenedIsKnown
<1>4. ASSUME NEW i \in replaced'
      PROVE  i \in Known' /\ (AskedToCancel(i)' \/ Cancels(commands', i))
  <2>1. CASE i \in givenUp'
    <3>1. Cancels(emitted', i)
      BY <1>1, <2>1 DEF MakerInv, GivenUpIsCancelled
    <3>2. Cancels(commands', i)
      BY <1>1, <3>1, PartsCancel
    <3>3. QED BY <1>2, <2>1, <3>2
  <2>2. CASE i \in replaced
    <3>1. i \in Known /\ (AskedToCancel(i) \/ Cancels(commands, i))
      BY <2>2 DEF LiveInv, ReplacedInv, ReplacedIsAsked
    <3>2. Cancels(commands, i) => Cancels(commands', i)
      BY <1>1, PartsCancel
    <3>3. QED BY <1>2, <3>1, <3>2
  <2>3. QED BY <1>1, <2>1, <2>2
<1>5. QED BY <1>3, <1>4 DEF ReplacedInv, ReplacedIsAsked

LEMMA MarketEventIsCall == MarketEvent => MakerCall
  BY DEF MarketEvent, MakerCall

LEMMA ExchangeEventIsCall == ASSUME LiveInv, ExchangeEvent PROVE MakerCall
<1> DEFINE e == Head(events)
<1>1. events # <<>> /\ IF e.type = "Fill" THEN OnFill(e.side) ELSE OnOrder(e.id, e.side, e.price, e.status)
  BY DEF ExchangeEvent
<1>2. e \in EngineEvents
  BY <1>1 DEF LiveInv, ChannelsTypeOK
<1>3. /\ e.side \in Sides
      /\ e.type # "Fill" => e.id \in Nat /\ e.price \in Int
  BY <1>2, EngineAssumption DEF EngineEvents, ClientIds
<1> HIDE DEF e
<1>4. QED BY <1>1, <1>3 DEF MakerCall

LEMMA LiveInvMarketEvent == ASSUME LiveInv, MarketEvent PROVE LiveInv'
<1>1. PICK bid \in Prices, ask \in Prices, seq \in 0..MaxSequence :
        OnL1([bid |-> bid, ask |-> ask, seq |-> seq])
  BY DEF MarketEvent
<1>2. MakerCall
  BY MarketEventIsCall
<1>3. Send /\ UNCHANGED <<flowVars, order, reports, events>> /\ sweeping' = (phase' = "Flat")
  BY DEF MarketEvent
<1>4. /\ MakerInv' /\ commands' \in Seq(MakerCommands)
      /\ commands' = commands \o emitted'
  BY <1>2, <1>3, CallSends
<1>5. FlowInv' /\ SentIsPlaced'
  BY <1>3, FlowUntouched
<1>6. ChannelsTypeOK'
  BY <1>3, <1>4 DEF LiveInv, ChannelsTypeOK, flowVars
<1>7. Sweeping'
  <2> SUFFICES ASSUME sweeping' PROVE /\ phase' = "Flat"
          /\ \E k \in 1..Len(commands') : commands'[k].kind = "CancelAll" /\ NothingNewAfter(k)'
    BY DEF Sweeping
  <2>1. phase' = "Flat"
    BY <1>3
  <2>2. emitted' = <<CancelEverything>>
    BY <1>1, <2>1 DEF OnL1, StandAside, QuoteTwoSides, RequoteTwoSides, RequoteExit, Exiting, Emit, Sides
  <2>3. CancelEverything \in MakerCommands /\ commands \in Seq(MakerCommands)
    BY DEF CancelEverything, MakerCommands, LiveInv, ChannelsTypeOK
  <2>4. /\ Len(commands') = Len(commands) + 1 /\ Len(commands) \in Nat
        /\ commands'[Len(commands) + 1] = CancelEverything
    BY <1>4, <2>2, <2>3
  <2>5. CancelEverything.kind = "CancelAll"
    BY DEF CancelEverything
  <2>6. PICK k : k = Len(commands')
    OBVIOUS
  <2>7. NothingNewAfter(k)'
    BY <2>4, <2>6 DEF NothingNewAfter
  <2>8. k \in 1..Len(commands') /\ commands'[k].kind = "CancelAll"
    BY <2>4, <2>5, <2>6
  <2>9. QED BY <2>1, <2>7, <2>8, Zenon
<1>8. ReplacedInv'
  <2>1. OnlyOpened
    BY <1>1, BookTakesNothingUp DEF LiveInv
  <2>2. \A slot \in Slots : opened[slot] # None => opened[slot] \in Known
    BY DEF LiveInv, ReplacedInv, OpenedIsKnown
  <2>3. EventsAreKnown'
    BY <1>3 DEF LiveInv, ReplacedInv, EventsAreKnown, Known, flowVars, engineVars, managerVars
  <2>4. \A slot \in Slots : opened'[slot] # None => opened'[slot] \in Known
    BY <2>1, <2>2 DEF OnlyOpened
  <2>5. \A i \in givenUp' : i \in Known
    BY <2>1, <2>2 DEF OnlyOpened
  <2>6. QED BY <1>2, <1>3, <2>3, <2>4, <2>5, CallReplaces
<1>9. QED BY <1>4, <1>5, <1>6, <1>7, <1>8 DEF LiveInv

LEMMA LiveInvExchangeEvent == ASSUME LiveInv, ExchangeEvent PROVE LiveInv'
<1> DEFINE e == Head(events)
<1>1. /\ events # <<>> /\ events' = Tail(events)
      /\ Send /\ UNCHANGED <<flowVars, order, reports, sweeping>>
      /\ IF e.type = "Fill" THEN OnFill(e.side) ELSE OnOrder(e.id, e.side, e.price, e.status)
  BY DEF ExchangeEvent
<1> HIDE DEF e
<1>2. events' \in Seq(EngineEvents)
  BY <1>1 DEF LiveInv, ChannelsTypeOK
<1>3. /\ MakerInv' /\ commands' \in Seq(MakerCommands)
      /\ commands' = commands \o emitted'
  BY <1>1, ExchangeEventIsCall, CallSends
<1>4. FlowInv' /\ SentIsPlaced' /\ (AllAskedToCancel => AllAskedToCancel')
  BY <1>1, FlowUntouched
<1>5. ChannelsTypeOK'
  BY <1>1, <1>2, <1>3 DEF LiveInv, ChannelsTypeOK, flowVars
<1>6. Sweeping'
  <2>1. ASSUME phase = "Flat" PROVE phase' = "Flat" /\ emitted' = <<>>
    BY <1>1, <2>1 DEF OnFill, QuoteFilled, ExitFilled, FillIgnored, OnOrder, Exiting, Emit
  <2>2. ASSUME phase = "Flat" PROVE commands' = commands
    BY <1>3, <2>1, <2>2 DEF LiveInv, ChannelsTypeOK
  <2>3. QED BY <1>1, <1>4, <2>1, <2>2 DEF LiveInv, Sweeping, NothingNewAfter
<1>7. ReplacedInv'
  <2>1. /\ events \in Seq(EngineEvents) /\ e \in EngineEvents /\ e = events[1]
        /\ Len(events) > 0
    BY <1>1 DEF LiveInv, ChannelsTypeOK, e
  <2>2. /\ \A slot \in Slots : opened[slot] # None => opened[slot] \in Known
        /\ e.type # "Fill" => e.id \in Known
        /\ EventsAreKnown
    BY <2>1 DEF LiveInv, ReplacedInv, OpenedIsKnown, EventsAreKnown, EngineEvents
  <2>3. Known' = Known
    BY <1>1 DEF Known, flowVars, engineVars, managerVars
  <2>4. EventsAreKnown'
    BY <1>1, <2>1, <2>2, <2>3 DEF EventsAreKnown
  <2>5. CASE e.type = "Fill"
    <3>1. OnlyOpened
      BY <1>1, <2>1, <2>5, FillTakesNothingUp DEF LiveInv, EngineEvents
    <3>2. QED BY <1>1, <2>2, <2>4, <3>1, ExchangeEventIsCall, CallReplaces DEF OnlyOpened
  <2>6. CASE e.type # "Fill"
    <3>1. OnOrder(e.id, e.side, e.price, e.status)
      BY <1>1, <2>6
    <3>2. givenUp' = {} /\ opened \in [Slots -> Nat \cup {None}]
      BY <3>1, TrackedTypes DEF OnOrder, LiveInv
    <3>3. \A slot \in Slots : opened'[slot] \in {opened[slot], e.id}
      BY <3>1, <3>2 DEF OnOrder
    <3>4. \A slot \in Slots : opened'[slot] # None => opened'[slot] \in Known
      BY <2>2, <2>6, <3>3
    <3>5. QED BY <1>1, <2>4, <3>2, <3>4, ExchangeEventIsCall, CallReplaces
  <2>7. QED BY <2>5, <2>6
<1>8. QED BY <1>3, <1>4, <1>5, <1>6, <1>7 DEF LiveInv

---------------------------------------------------------------------------
(* The order thread.                                                        *)

(* A command taken from the channel is a command of the engine, which it    *)
(* carries out or answers with nothing.                                     *)
LEMMA CommandTaken ==
  ASSUME LiveInv, TakeCommand, NEW c, c = Head(commands)
  PROVE  /\ c.kind \in {"New", "Cancel", "CancelAll"}
         /\ \/ c.kind = "New" /\ NewOrder(Symbol)
            \/ c.kind = "Cancel" /\ CancelOrder(Symbol, c.target) /\ c.target \in ClientIds
            \/ c.kind = "CancelAll" /\ CancelAll(Symbol)
            \/ /\ UNCHANGED engineVars
               /\ c.kind = "CancelAll" => Active(Symbol) = {}
               /\ c.kind = "Cancel" => c.target \notin Known
<1>1. commands # <<>> /\ OnCommand(AsCommand(c))
  BY DEF TakeCommand
<1>2. c \in MakerCommands
  BY <1>1 DEF LiveInv, ChannelsTypeOK
<1>3. CASE c.kind = "New"
  <2>1. AsCommand(c) = [kind |-> "New", symbol |-> Symbol, valid |-> TRUE]
    BY <1>3 DEF AsCommand
  <2>2. QED BY <1>1, <1>3, <2>1 DEF OnCommand
<1>4. CASE c.kind = "Cancel"
  <2>1. AsCommand(c) = [kind |-> "Cancel", symbol |-> Symbol, target |-> c.target]
    BY <1>4 DEF AsCommand
  <2>2. \/ CancelOrder(Symbol, c.target)
        \/ UNCHANGED engineVars /\ Refused(AsCommand(c))
    BY <1>1, <2>1 DEF OnCommand
  <2>3. Refused(AsCommand(c)) => c.target \notin Known
    BY <2>1, LiveAssumption DEF Refused
  <2>4. QED BY <1>4, <2>2, <2>3 DEF CancelOrder, Known
<1>5. CASE c.kind = "CancelAll"
  <2>1. AsCommand(c) = [kind |-> "CancelAll", symbol |-> Symbol]
    BY <1>5 DEF AsCommand
  <2>2. CancelAll(Symbol) \/ (Refused(AsCommand(c)) /\ UNCHANGED engineVars)
    BY <1>1, <2>1 DEF OnCommand
  <2>3. Refused(AsCommand(c)) => Active(Symbol) = {}
    BY <2>1, LiveAssumption DEF Refused
  <2>4. QED BY <1>5, <2>2, <2>3
<1>6. QED BY <1>2, <1>3, <1>4, <1>5 DEF MakerCommands

(* It is a step of the order flow                                           *)
LEMMA CommandIsFlowStep ==
  ASSUME LiveInv, TakeCommand
  PROVE  [FlowNext]_flowVars
<1>1. UNCHANGED <<exch, reported>>
  BY DEF TakeCommand
<1>2. Symbol \in Symbols
  BY LiveAssumption, EngineAssumption
<1>3. Command \/ UNCHANGED engineVars
  BY <1>1, <1>2, CommandTaken, Zenon DEF Command
<1>4. QED BY <1>1, <1>3 DEF FlowNext, flowVars

(* A report taken from the stream is one the exchange has sent              *)
LEMMA ReportIsFlowStep ==
  ASSUME LiveInv, TakeReport
  PROVE  Deliver
<1>1. reports # <<>> /\ OnExecutionReport(Head(reports)) /\ UNCHANGED <<exch, reported>>
  BY DEF TakeReport
<1>2. Head(reports) \in reported
  BY <1>1 DEF LiveInv, ChannelsTypeOK
<1>3. QED BY <1>1, <1>2 DEF Deliver

LEMMA LiveInvTakeReport == ASSUME LiveInv, TakeReport PROVE LiveInv'
<1> DEFINE r == Head(reports)
<1>1. /\ reports # <<>> /\ reports' = Tail(reports) /\ events' = events \o EventsOf(r)
      /\ OnExecutionReport(r)
      /\ UNCHANGED <<exch, reported, makerVars, commands, order, sweeping, replaced>>
  BY DEF TakeReport
<1>2. r \in reported /\ reports' \in Seq(reported)
  BY <1>1 DEF LiveInv, ChannelsTypeOK
<1>3. /\ r.id \in ClientIds /\ r.status \in Statuses /\ r.symbol \in Symbols
      /\ r.id \in Sent(r.symbol)
  BY <1>2 DEF LiveInv, FlowInv, FlowTypeOK, ReportsOfSentOrders, Reports
<1> HIDE DEF r
<1>4. order[r.id].side \in Sides /\ order[r.id].price \in Int
  BY <1>3 DEF LiveInv, SentIsPlaced, Placed
<1>5. EventsOf(r) \in Seq(EngineEvents)
  <2> DEFINE ev   == [type |-> "Order", id |-> r.id, side |-> order[r.id].side,
                      price |-> order[r.id].price, status |-> r.status]
             fill == [type |-> "Fill", side |-> order[r.id].side]
  <2>1. ev \in EngineEvents /\ fill \in EngineEvents
    BY <1>3, <1>4 DEF EngineEvents
  <2>2. EventsOf(r) = <<ev, fill>> \/ EventsOf(r) = <<ev>>
    BY DEF EventsOf
  <2> HIDE DEF ev, fill
  <2>3. QED BY <2>1, <2>2
<1>6. events' \in Seq(EngineEvents)
  BY <1>1, <1>5 DEF LiveInv, ChannelsTypeOK
<1>7. FlowInv'
  BY ReportIsFlowStep, FlowInvStep DEF LiveInv, FlowNext
<1>8. /\ wire' = wire
      /\ \A s : Sent(s)' = Sent(s) /\ MayTrade(s)' = MayTrade(s)
      /\ Requests' = Requests
      /\ \A i : Misread(i) => Misread(i)'
      /\ Known \subseteq Known' /\ r.id \in Known'
  <2>1. /\ wire' = wire /\ seenExecIds' = seenExecIds \cup {r.exec}
        /\ symbolOf' = [symbolOf EXCEPT ![r.id] = r.symbol]
    BY <1>1 DEF OnExecutionReport, ApplyOrderEvent
  <2>2. symbolOf \in [ClientIds -> Symbols \cup {None}] /\ None \notin Symbols
    BY EngineAssumption DEF LiveInv, FlowInv, FlowTypeOK, EngineTypeOK
  <2>3. Known \subseteq Known' /\ r.id \in Known'
    BY <1>3, <2>1, <2>2 DEF Known
  <2>4. QED BY <1>1, <2>1, <2>3 DEF Sent, MayTrade, Requests, Misread
<1>9. MakerInv' /\ phase' = phase /\ opened' = opened
  BY <1>1, MakerUntouched DEF LiveInv
<1>10. ChannelsTypeOK'
  BY <1>1, <1>2, <1>6 DEF LiveInv, ChannelsTypeOK
<1>11. SentIsPlaced'
  BY <1>1, <1>8 DEF LiveInv, SentIsPlaced
<1>12. Sweeping'
  BY <1>1, <1>8, <1>9 DEF LiveInv, Sweeping, NothingNewAfter, AllAskedToCancel, AskedToCancel
<1>13. EventsAreKnown'
  <2>1. /\ EventsOf(r) \in Seq(EngineEvents) /\ events \in Seq(EngineEvents)
        /\ \A k \in 1..Len(EventsOf(r)) : EventsOf(r)[k].type = "Order" => EventsOf(r)[k].id = r.id
    BY <1>5 DEF EventsOf, LiveInv, ChannelsTypeOK
  <2>2. \A k \in 1..Len(events') : \/ k \in 1..Len(events) /\ events'[k] = events[k]
                                 \/ \E j \in 1..Len(EventsOf(r)) : events'[k] = EventsOf(r)[j]
    BY <1>1, <2>1
  <2>3. QED BY <1>8, <2>1, <2>2 DEF LiveInv, ReplacedInv, EventsAreKnown
<1>14. ReplacedInv'
  BY <1>1, <1>8, <1>9, <1>13, ReplacedKept
<1>15. QED BY <1>7, <1>9, <1>10, <1>11, <1>12, <1>14 DEF LiveInv

---------------------------------------------------------------------------
(* The exchange.                                                            *)

LEMMA LiveInvExchangeStep == ASSUME LiveInv, ExchangeStep PROVE LiveInv'
<1> DEFINE new == CHOOSE r \in reported' : r \notin reported
<1>1. /\ Exchange
      /\ reports' = Append(reports, new)
      /\ UNCHANGED <<makerVars, commands, order, events, sweeping, replaced>>
  BY DEF ExchangeStep
<1>2. PICK s \in Symbols, r \in Reports :
        FreshExec(r.exec) /\ reported' = reported \cup {r}
  BY <1>1, ExchangeReports DEF LiveInv, FlowInv
<1>3. r \in reported' /\ r \notin reported
  BY <1>2 DEF FreshExec
<1>4. new \in reported'
  BY <1>3
<1> HIDE DEF new
<1>5. reports' \in Seq(reported')
  <2>1. reports \in Seq(reported')
    BY <1>2 DEF LiveInv, ChannelsTypeOK
  <2>2. QED BY <1>1, <1>4, <2>1
<1>6. FlowInv'
  BY <1>1, FlowInvStep DEF LiveInv, FlowNext
<1>7. /\ wire' = wire
      /\ \A i \in ClientIds : exch[i] = "done" => exch'[i] = "done"
  <2>1. UNCHANGED engineVars
    BY <1>1 DEF Exchange
  <2>2. exch \in [ClientIds -> {"none", "live", "done"}]
    BY DEF LiveInv, FlowInv, FlowTypeOK
  <2>3. QED
    BY <1>1, <2>1, <2>2
    DEF Exchange, Accept, Refuse, Amend, Fill, Expire, CancelLive, engineVars
<1>8. /\ Requests' = Requests
      /\ \A sym : Sent(sym)' = Sent(sym) /\ MayTrade(sym)' \subseteq MayTrade(sym)
      /\ \A i : Misread(i) => Misread(i)'
      /\ Known' = Known
  <2>1. UNCHANGED engineVars
    BY <1>1 DEF Exchange
  <2>2. QED BY <1>2, <1>7, <2>1 DEF Sent, MayTrade, Requests, Misread, Known, engineVars, managerVars
<1>9. MakerInv' /\ phase' = phase /\ opened' = opened
  BY <1>1, MakerUntouched DEF LiveInv
<1>10. ChannelsTypeOK'
  BY <1>1, <1>5 DEF LiveInv, ChannelsTypeOK
<1>11. SentIsPlaced'
  BY <1>1, <1>8 DEF LiveInv, SentIsPlaced
<1>12. Sweeping'
  BY <1>1, <1>8, <1>9 DEF LiveInv, Sweeping, NothingNewAfter, AllAskedToCancel, AskedToCancel
<1>13. ReplacedInv'
  <2>1. EventsAreKnown'
    BY <1>1, <1>8 DEF LiveInv, ReplacedInv, EventsAreKnown
  <2>2. QED BY <1>1, <1>8, <1>9, <2>1, ReplacedKept
<1>14. QED BY <1>6, <1>9, <1>10, <1>11, <1>12, <1>13 DEF LiveInv

---------------------------------------------------------------------------
(* Taking a command.                                                        *)

(* What is left of the channel: nothing new comes after the same command    *)
LEMMA NothingNewInTail ==
  ASSUME NEW cmds \in Seq(MakerCommands), cmds # <<>>, NEW k \in Nat, NEW j \in 1..Len(Tail(cmds)),
         \A i \in 1..Len(cmds) : i > k => cmds[i].kind # "New",
         j + 1 > k
  PROVE  Tail(cmds)[j].kind # "New"
  OBVIOUS

(* A CancelAll of the symbol sends a cancel request for every order that    *)
(* can trade and whose status the engine can read.                          *)
LEMMA CancelAllSweeps ==
  ASSUME LiveInv, UNCHANGED <<exch, reported>>,
         \/ CancelAll(Symbol)
         \/ UNCHANGED engineVars /\ Active(Symbol) = {}
  PROVE  AllAskedToCancel'
<1>1. Symbol \in Symbols
  BY LiveAssumption, EngineAssumption
<1>2. \A i \in MayTrade(Symbol) : i \in Active(Symbol) \/ Misread(i)
  <2>1. \A i \in MayTrade(Symbol) : i \in Active(Symbol) \/ latestStatus[i] = "Unknown"
    BY <1>1, FlowInvReachesLive DEF LiveInv, CancelAllReachesLive
  <2>2. \A i \in MayTrade(Symbol) : latestStatus[i] = "Unknown" => Misread(i)
    BY <1>1 DEF LiveInv, FlowInv, TablesOfSentOrders, MayTrade
  <2>3. QED BY <2>1, <2>2
<1>3. CASE CancelAll(Symbol)
  <2>1. PICK ids \in Ascending(Active(Symbol)) : EncodeCancels(ids, Symbol)
    BY <1>3 DEF CancelAll
  <2>2. Active(Symbol) \subseteq ClientIds /\ Active(Symbol) \subseteq Known
    BY <1>1, EngineAssumption DEF Active, Known
  <2>3. ids \in Seq(Known)
    <3>1. ids \in Seq(Active(Symbol))
      BY <2>1, <2>2, AscendingIsSeq
    <3>2. QED BY <2>2, <3>1
  <2>4. /\ \A t \in Symbols : Sent(t)' = Sent(t)
        /\ \A k \in 1..Len(ids) : CancelMsg(k, ids[k], Symbol) \in Requests'
    BY <1>1, <2>1, <2>3, SentByCancels DEF LiveInv, FlowInv, FlowTypeOK
  <2>5. MayTrade(Symbol)' = MayTrade(Symbol)
    BY <1>1, <2>4 DEF MayTrade
  <2>6. ASSUME NEW i \in Active(Symbol) PROVE AskedToCancel(i)'
    <3>1. PICK k \in 1..Len(ids) : ids[k] = i
      BY <2>1, <2>2, AscendingIsAll
    <3>2. CancelMsg(k, i, Symbol) \in Requests'
      BY <2>4, <3>1
    <3>3. CancelMsg(k, i, Symbol).kind = "Cancel" /\ CancelMsg(k, i, Symbol).orig = i
      BY DEF CancelMsg
    <3>4. QED BY <3>2, <3>3, Zenon DEF AskedToCancel
  <2>7. \A i : Misread(i) => Misread(i)'
    BY <2>1 DEF EncodeCancels, Misread
  <2>8. QED BY <1>2, <2>5, <2>6, <2>7 DEF AllAskedToCancel
<1>4. CASE UNCHANGED engineVars /\ Active(Symbol) = {}
  <2>1. Sent(Symbol)' = Sent(Symbol) /\ \A i : Misread(i)' <=> Misread(i)
    BY <1>4 DEF engineVars, managerVars, Sent, Requests, Misread
  <2>2. MayTrade(Symbol)' = MayTrade(Symbol)
    BY <2>1 DEF MayTrade
  <2>3. QED BY <1>2, <1>4, <2>1, <2>2 DEF AllAskedToCancel
<1>5. QED BY <1>3, <1>4

(* A command that places nothing leaves requests on the wire and orders as  *)
(* they are.                                                                *)
LEMMA CancelsPlaceNothing ==
  ASSUME LiveInv, TakeCommand, Head(commands).kind # "New"
  PROVE  /\ \A t \in Symbols : Sent(t)' = Sent(t)
         /\ Requests \subseteq Requests'
         /\ order' = order
<1>1. Symbol \in Symbols
  BY LiveAssumption, EngineAssumption
<1>2. order' = order
  BY DEF TakeCommand
<1>3. CASE UNCHANGED engineVars
  BY <1>2, <1>3 DEF engineVars, Sent, Requests
<1>4. CASE CancelAll(Symbol) \/ \E i \in ClientIds : CancelOrder(Symbol, i)
  <2>1. PICK ids \in Seq(Known) : EncodeCancels(ids, Symbol)
    BY <1>1, <1>4, CancelsAreBatches
  <2>2. QED BY <1>1, <1>2, <2>1, SentByCancels DEF LiveInv, FlowInv, FlowTypeOK
<1>5. QED
  <2>1. UNCHANGED engineVars \/ CancelAll(Symbol) \/ \E i \in ClientIds : CancelOrder(Symbol, i)
    BY CommandTaken, Zenon
  <2>2. QED BY <1>3, <1>4, <2>1

LEMMA LiveInvTakeCommand == ASSUME LiveInv, TakeCommand PROVE LiveInv'
<1> DEFINE c == Head(commands)
<1>1. /\ commands # <<>> /\ commands' = Tail(commands)
      /\ UNCHANGED <<exch, reported, makerVars, reports, events, sweeping, replaced>>
      /\ order' = IF c.kind = "New" /\ wire' # wire
                  THEN [order EXCEPT ![nextClientId] = [side |-> c.side, price |-> c.price]]
                  ELSE order
  BY DEF TakeCommand
<1>2. c \in MakerCommands /\ commands' \in Seq(MakerCommands) /\ commands \in Seq(MakerCommands)
  BY <1>1 DEF LiveInv, ChannelsTypeOK
<1>3. /\ Len(commands) \in Nat /\ Len(commands') = Len(commands) - 1
      /\ \A j \in 1..Len(commands') : commands'[j] = commands[j + 1]
      /\ c = commands[1]
  BY <1>1, <1>2
<1>4. \/ c.kind = "New" /\ NewOrder(Symbol)
      \/ c.kind = "Cancel" /\ CancelOrder(Symbol, c.target) /\ c.target \in ClientIds
      \/ c.kind = "CancelAll" /\ CancelAll(Symbol)
      \/ /\ UNCHANGED engineVars
         /\ c.kind = "CancelAll" => Active(Symbol) = {}
         /\ c.kind = "Cancel" => c.target \notin Known
  BY CommandTaken, Zenon
<1>5. Symbol \in Symbols
  BY LiveAssumption, EngineAssumption
<1>6. c.kind = "New" => [side |-> c.side, price |-> c.price] \in Placed
  BY <1>2 DEF MakerCommands, Placed
<1> HIDE DEF c
<1>7. FlowInv'
  BY CommandIsFlowStep, FlowInvStep DEF LiveInv
<1>8. MakerInv' /\ phase' = phase /\ opened' = opened
  BY <1>1, MakerUntouched DEF LiveInv
<1>9. order' \in [ClientIds -> Placed \cup {None}] /\ SentIsPlaced'
  <2>1. order \in [ClientIds -> Placed \cup {None}]
    BY DEF LiveInv, ChannelsTypeOK
  <2>2. CASE c.kind = "New" /\ NewOrder(Symbol)
    <3>1. /\ nextClientId \in ClientIds
          /\ \A t \in Symbols : Sent(t)' = IF t = Symbol THEN Sent(t) \cup {nextClientId} ELSE Sent(t)
      BY <1>5, <2>2, SentByNewOrder DEF LiveInv, FlowInv, FlowTypeOK
    <3>2. wire' # wire
      <4>1. wire \in Seq(Messages) /\ wire' = Append(wire, NewMsg(Symbol))
        BY <2>2 DEF NewOrder, LiveInv, FlowInv, FlowTypeOK, EngineTypeOK
      <4>2. Len(wire') = Len(wire) + 1 /\ Len(wire) \in Nat
        BY <4>1
      <4>3. QED BY <4>2
    <3>3. order' = [order EXCEPT ![nextClientId] = [side |-> c.side, price |-> c.price]]
      BY <1>1, <2>2, <3>2
    <3>4. \A i \in ClientIds : order'[i] = IF i = nextClientId THEN [side |-> c.side, price |-> c.price]
                                                              ELSE order[i]
      BY <2>1, <3>3
    <3>5. order' \in [ClientIds -> Placed \cup {None}]
      BY <1>6, <2>1, <2>2, <3>3
    <3>6. \A t \in Symbols : Sent(t) \subseteq ClientIds
      BY DEF Sent
    <3>7. SentIsPlaced'
      BY <1>6, <2>2, <3>1, <3>4, <3>6 DEF LiveInv, SentIsPlaced
    <3>8. QED BY <3>5, <3>7
  <2>3. CASE UNCHANGED engineVars
    <3>1. wire' = wire /\ \A t : Sent(t)' = Sent(t)
      BY <2>3 DEF engineVars, Sent, Requests
    <3>2. order' = order
      BY <1>1, <3>1
    <3>3. QED BY <2>1, <3>1, <3>2 DEF LiveInv, SentIsPlaced
  <2>4. CASE c.kind # "New"
    BY <2>1, <2>4, CancelsPlaceNothing DEF LiveInv, SentIsPlaced, c
  <2>5. QED BY <1>4, <2>2, <2>3, <2>4
<1>10. ChannelsTypeOK'
  BY <1>1, <1>2, <1>9 DEF LiveInv, ChannelsTypeOK
<1>11. seenExecIds' = seenExecIds /\ Known \subseteq Known'
  <2>1. CASE NewOrder(Symbol)
    <3>1. symbolOf \in [ClientIds -> Symbols \cup {None}] /\ None \notin Symbols
      BY EngineAssumption DEF LiveInv, FlowInv, FlowTypeOK, EngineTypeOK
    <3>2. QED BY <1>5, <2>1, <3>1 DEF NewOrder, Known
  <2>2. CASE CancelOrder(Symbol, c.target) \/ CancelAll(Symbol)
    BY <2>2 DEF CancelOrder, CancelAll, EncodeCancels, Known
  <2>3. CASE UNCHANGED engineVars
    BY <2>3 DEF engineVars, managerVars, Known
  <2>4. QED BY <1>4, <2>1, <2>2, <2>3
<1>12. Sweeping'
  <2> SUFFICES ASSUME sweeping
               PROVE  \/ \E k \in 1..Len(commands') : commands'[k].kind = "CancelAll" /\ NothingNewAfter(k)'
                      \/ NothingNewAfter(0)' /\ AllAskedToCancel'
    BY <1>1, <1>8 DEF LiveInv, Sweeping
  <2>1. CASE NothingNewAfter(0) /\ AllAskedToCancel
    <3>1. c.kind # "New"
      BY <1>1, <1>2, <1>3, <2>1 DEF NothingNewAfter
    <3>2. NothingNewAfter(0)'
      BY <1>3, <2>1 DEF NothingNewAfter
    <3>3. Requests \subseteq Requests' /\ MayTrade(Symbol)' = MayTrade(Symbol)
      BY <1>1, <1>5, <3>1, CancelsPlaceNothing DEF MayTrade, c
    <3>4. \A i : Misread(i) => Misread(i)'
      BY <1>1, <1>11 DEF Misread
    <3>5. QED BY <2>1, <3>2, <3>3, <3>4 DEF AllAskedToCancel, AskedToCancel
  <2>2. ASSUME NEW k \in 1..Len(commands), commands[k].kind = "CancelAll", NothingNewAfter(k), k # 1
        PROVE  \E l \in 1..Len(commands') : commands'[l].kind = "CancelAll" /\ NothingNewAfter(l)'
    <3>1. PICK l \in 1..Len(commands') : l = k - 1
      BY <1>3, <2>2
    <3>2. commands'[l].kind = "CancelAll"
      BY <1>3, <2>2, <3>1
    <3>3. ASSUME NEW j \in 1..Len(commands'), j > l PROVE commands'[j].kind # "New"
      <4>1. j + 1 \in 1..Len(commands) /\ j + 1 > k /\ commands'[j] = commands[j + 1]
        BY <1>3, <2>2, <3>1, <3>3
      <4>2. QED BY <2>2, <4>1 DEF NothingNewAfter
    <3>4. NothingNewAfter(l)'
      BY <3>3 DEF NothingNewAfter
    <3>5. QED BY <3>2, <3>4, Zenon
  <2>3. ASSUME commands[1].kind = "CancelAll", NothingNewAfter(1)
        PROVE  NothingNewAfter(0)' /\ AllAskedToCancel'
    <3>1. NothingNewAfter(0)'
      BY <1>3, <2>3 DEF NothingNewAfter
    <3>2. CancelAll(Symbol) \/ (UNCHANGED engineVars /\ Active(Symbol) = {})
      BY <1>3, <1>4, <2>3
    <3>3. QED BY <1>1, <3>1, <3>2, CancelAllSweeps
  <2>4. QED BY <2>1, <2>2, <2>3 DEF LiveInv, Sweeping
<1>13. ReplacedInv'
  <2>1. EventsAreKnown'
    BY <1>1, <1>11 DEF LiveInv, ReplacedInv, EventsAreKnown
  <2>2. Requests \subseteq Requests'
    <3>1. CASE NewOrder(Symbol)
      <4>1. wire \in Seq(Messages) /\ wire' = Append(wire, NewMsg(Symbol))
        BY <3>1 DEF NewOrder, LiveInv, FlowInv, FlowTypeOK, EngineTypeOK
      <4>2. QED BY <4>1 DEF Requests
    <3>2. CASE c.kind # "New"
      BY <3>2, CancelsPlaceNothing DEF c
    <3>3. CASE UNCHANGED engineVars
      BY <3>3 DEF engineVars, Requests
    <3>4. QED BY <1>4, <3>1, <3>2, <3>3
  <2>3. ASSUME NEW i \in replaced, Cancels(commands, i)
        PROVE  AskedToCancel(i)' \/ Cancels(commands', i)
    <3>1. PICK k \in 1..Len(commands) : commands[k].kind = "Cancel" /\ commands[k].target = i
      BY <2>3 DEF Cancels
    <3>2. i \in Known
      BY DEF LiveInv, ReplacedInv, ReplacedIsAsked
    <3>3. CASE k = 1
      <4>1. c.kind = "Cancel" /\ c.target = i
        BY <1>3, <3>1, <3>3
      <4>2. CancelOrder(Symbol, i)
        BY <1>4, <3>2, <4>1
      <4>3. <<i>> \in Seq(Known) /\ EncodeCancels(<<i>>, Symbol)
        BY <3>2, <4>2 DEF CancelOrder
      <4>4. 1 \in 1..Len(<<i>>) /\ <<i>>[1] = i
        OBVIOUS
      <4>5. CancelMsg(1, i, Symbol) \in Requests'
        BY <1>5, <4>3, <4>4, SentByCancels DEF LiveInv, FlowInv, FlowTypeOK
      <4>6. CancelMsg(1, i, Symbol).kind = "Cancel" /\ CancelMsg(1, i, Symbol).orig = i
        BY DEF CancelMsg
      <4>7. QED BY <4>5, <4>6, Zenon DEF AskedToCancel
    <3>4. CASE k # 1
      <4>1. k - 1 \in 1..Len(commands') /\ commands'[k - 1] = commands[k]
        BY <1>3, <3>1, <3>4
      <4>2. QED BY <3>1, <4>1, Zenon DEF Cancels
    <3>5. QED BY <3>3, <3>4
  <2>4. QED BY <1>1, <1>8, <1>11, <2>1, <2>2, <2>3, ReplacedKept
<1>14. QED BY <1>7, <1>8, <1>9, <1>10, <1>12, <1>13 DEF LiveInv

---------------------------------------------------------------------------
(* Together.                                                                *)

LEMMA LiveInvStep == LiveInv /\ [LiveNext]_liveVars => LiveInv'
<1> SUFFICES ASSUME LiveInv, [LiveNext]_liveVars PROVE LiveInv'
  OBVIOUS
<1>1. CASE UNCHANGED liveVars
  <2>1. UNCHANGED <<flowVars, order>> /\ UNCHANGED makerVars
        /\ UNCHANGED <<reported, commands, reports, events, sweeping, replaced>>
        /\ Known' = Known /\ Requests' = Requests
    BY <1>1 DEF liveVars, flowVars, engineVars, managerVars, Known, Requests
  <2>2. FlowInv' /\ SentIsPlaced' /\ (AllAskedToCancel => AllAskedToCancel')
    BY <2>1, FlowUntouched
  <2>3. MakerInv' /\ phase' = phase /\ opened' = opened
    BY <2>1, MakerUntouched DEF LiveInv
  <2>4. EventsAreKnown'
    BY <2>1 DEF LiveInv, ReplacedInv, EventsAreKnown
  <2>5. ReplacedInv'
    BY <2>1, <2>3, <2>4, ReplacedKept
  <2>6. QED BY <2>1, <2>2, <2>3, <2>5 DEF LiveInv, ChannelsTypeOK, Sweeping, NothingNewAfter
<1>2. QED
  BY <1>1, LiveInvMarketEvent, LiveInvExchangeEvent, LiveInvTakeCommand, LiveInvTakeReport,
     LiveInvExchangeStep DEF LiveNext

LEMMA LiveInvariant == LiveSpec => []LiveInv
BY LiveInvInit, LiveInvStep, PTL DEF LiveSpec

(* run_live_pipeline of src/runtime.rs: with the strategy and the channels  *)
(* around it, engine and exchange take the steps of the order flow and no   *)
(* others, so what is proved of the order flow holds in the pipeline.       *)
THEOREM LiveImplementsFlow == LiveSpec => FlowSpec
<1>1. LiveInit => FlowInit
  BY DEF LiveInit
<1>2. LiveInv /\ [LiveNext]_liveVars => [FlowNext]_flowVars
  <2> SUFFICES ASSUME LiveInv, LiveNext PROVE [FlowNext]_flowVars
    BY DEF liveVars
  <2>1. CASE MarketEvent \/ ExchangeEvent
    BY <2>1 DEF MarketEvent, ExchangeEvent
  <2>2. CASE TakeReport
    BY <2>2, ReportIsFlowStep DEF FlowNext
  <2>3. CASE ExchangeStep
    BY <2>3 DEF ExchangeStep, FlowNext
  <2>4. QED BY <2>1, <2>2, <2>3, CommandIsFlowStep DEF LiveNext
<1>3. QED BY <1>1, <1>2, LiveInvariant, PTL DEF LiveSpec, FlowSpec

(* on_book of src/maker.rs with on_cancel_all of src/order.rs: once the     *)
(* maker stands aside and its commands are taken, every order of its symbol *)
(* that can still trade has been asked to be cancelled, for any prices,     *)
(* limits and numbers of orders, and whatever is on its way.                *)
THEOREM LiveStandingAsideSweeps == LiveSpec => []StandingAsideSweeps
<1>1. LiveInv => StandingAsideSweeps
  <2> SUFFICES ASSUME LiveInv, sweeping, commands = <<>> PROVE AllAskedToCancel
    BY DEF StandingAsideSweeps, AllAskedToCancel
  <2>1. Len(commands) = 0
    OBVIOUS
  <2>2. QED BY <2>1 DEF LiveInv, Sweeping
<1>2. QED BY <1>1, LiveInvariant, PTL

(* requote_two_sides, requote_exit and on_fill of src/maker.rs with         *)
(* on_cancel_order of src/order.rs: once the maker's commands are taken,    *)
(* every order it gave up for another one, after the order's Open event had *)
(* reached it, was asked to be cancelled, for any prices, offsets, limits   *)
(* and numbers of orders, and whatever is on its way.                       *)
THEOREM LiveReplacedIsCancelled == LiveSpec => []ReplacedIsCancelled
<1>1. LiveInv => ReplacedIsCancelled
  <2> SUFFICES ASSUME LiveInv, commands = <<>>, NEW i \in replaced PROVE AskedToCancel(i)
    BY DEF ReplacedIsCancelled
  <2>1. ~ Cancels(commands, i)
    BY DEF Cancels
  <2>2. QED BY <2>1 DEF LiveInv, ReplacedInv, ReplacedIsAsked
<1>2. QED BY <1>1, LiveInvariant, PTL

(* on_market_event and on_exchange_event of src/market.rs: fed with the     *)
(* events of the order engine, whose client order ids are not the ones it   *)
(* guesses, the maker keeps everything proved of it alone.                  *)
THEOREM LiveMakerKeeps == LiveSpec => []PhaseMatchesTracking /\ CrossesAsConfigured
<1>1. LiveInv => PhaseMatchesTracking
  BY DEF LiveInv, MakerInv
<1>2. LiveInv /\ [LiveNext]_liveVars => [MakerCall]_makerVars
  <2> SUFFICES ASSUME LiveInv, LiveNext PROVE [MakerCall]_makerVars
    BY DEF liveVars
  <2>1. CASE MarketEvent
    BY <2>1, MarketEventIsCall
  <2>2. CASE ExchangeEvent
    BY <2>2, ExchangeEventIsCall
  <2>3. QED BY <2>1, <2>2 DEF LiveNext, TakeCommand, TakeReport, ExchangeStep
<1>3. LiveInv /\ [LiveNext]_liveVars => [PricedAsConfigured]_makerVars
  BY <1>2, CallPrices DEF LiveInv
<1>4. QED
  BY <1>1, <1>3, LiveInvariant, PTL DEF LiveSpec, CrossesAsConfigured, PricedAsConfigured

---------------------------------------------------------------------------
(* Crashes: however often and whenever the process ends and is started      *)
(* again, the orders of all its runs stay within the limit.                 *)

(* Orders of one run, numbered with the run, are as many as the orders.     *)
LEMMA NumberedOrders ==
  ASSUME NEW k, NEW S, IsFiniteSet(S), NEW T \in SUBSET ({k} \X S)
  PROVE  IsFiniteSet(T) /\ Cardinality(T) <= Cardinality(S)
<1> DEFINE f == [x \in T |-> x[2]]
<1>1. f \in Injection(T, S)
  <2>1. \A x \in T : x = <<k, x[2]>> /\ x[2] \in S
    OBVIOUS
  <2>2. f \in [T -> S]
    BY <2>1
  <2>3. \A x, y \in T : f[x] = f[y] => x = y
    BY <2>1
  <2>4. QED BY <2>2, <2>3 DEF Injection, IsInjective
<1>2. QED BY <1>1, FS_Injection

(* The steps the restarted process and its exchange take with the orders of *)
(* the running process are steps of OrderFlow.                              *)
LEMMA RestartFlowStep ==
  ASSUME Process \/ Serve
  PROVE  [FlowNext]_flowVars
BY DEF Process, Serve, FlowNext

(* A session that ends finishes orders at the exchange and tells nobody:    *)
(* what engine and reports say of each other is untouched.                  *)
LEMMA FlowInvDisconnect ==
  ASSUME FlowInv, UNCHANGED <<engineVars, reported>>, exch' = AfterDisconnect(exch)
  PROVE  FlowInv'
<1>1. /\ UNCHANGED <<seenExecIds, latestStatus, symbolOf, openCounts, nextClientId,
                     nextSeqNum, wire, reported>>
      /\ FlowTypeOK
  BY DEF engineVars, managerVars, FlowInv
<1>2. FlowTypeOK'
  BY <1>1 DEF FlowTypeOK, EngineTypeOK, AfterDisconnect
<1>3. /\ \A s : Sent(s)' = Sent(s)
      /\ \A i : Freed(i)' <=> Freed(i)
      /\ \A i : Misread(i)' <=> Misread(i)
  BY <1>1 DEF Sent, Requests, Freed, Misread
<1>4. CountIsExact'
  <2>1. \A s \in Symbols : Holding(s)' = Holding(s) /\ Outstanding(s)' = Outstanding(s)
    BY <1>3 DEF Holding, Outstanding
  <2>2. QED BY <1>1, <2>1 DEF FlowInv, CountIsExact, Holding
<1>5. \A i \in ClientIds : exch[i] = "done" => exch'[i] = "done"
  BY DEF AfterDisconnect
<1>6. OneFinalReport'
  BY <1>1, <1>5 DEF FlowInv, FlowTypeOK, OneFinalReport, Reports
<1>7. /\ ReportsOfSentOrders' /\ OneReportPerExec' /\ SeenWasReported'
      /\ TablesOfSentOrders'
  BY <1>1, <1>3
     DEF FlowInv, ReportsOfSentOrders, OneReportPerExec, SeenWasReported,
         TablesOfSentOrders
<1>8. FreshClientIds' /\ CountWithinLimit'
  BY <1>1 DEF FlowInv, FreshClientIds, CountWithinLimit, Known
<1>9. QED BY <1>2, <1>4, <1>6, <1>7, <1>8 DEF FlowInv

(* A restarted process is where the first one began.                        *)
LEMMA FlowInvRestart == Restart => FlowInv'
<1>1. Restart => FlowInit'
  BY DEF Restart, FlowInit, EngineInit
<1>2. FlowInit' => FlowInv'
  BY FlowInvInit, PTL
<1>3. QED BY <1>1, <1>2

(* Every run's orders that can still trade are within the limit.            *)
LEMMA RunWithinLimit ==
  ASSUME FlowInv, NEW s \in Symbols
  PROVE  /\ IsFiniteSet(MayTrade(s)) /\ Cardinality(MayTrade(s)) \in Nat
         /\ Cardinality(MayTrade(s)) <= MaxOpen
<1>1. IsFiniteSet(ClientIds)
  BY FS_Interval, EngineAssumption DEF ClientIds
<1>2. MayTrade(s) \subseteq ClientIds
  BY DEF MayTrade, Sent
<1>3. QED BY <1>1, <1>2, FS_Subset, FS_CardinalityType, FlowInvLimitsExposure DEF ExposureLimit

LEMMA PastFinite ==
  ASSUME NEW k, NEW s
  PROVE  /\ RestartTypeOK /\ k \in 1..(run - 1) /\ s \in Symbols
              => IsFiniteSet(PastMayTrade(k, s))
<1>1. IsFiniteSet(ClientIds)
  BY FS_Interval, EngineAssumption DEF ClientIds
<1>2. SUFFICES ASSUME RestartTypeOK, k \in 1..(run - 1), s \in Symbols
               PROVE  PastMayTrade(k, s) \subseteq ClientIds
  BY <1>1, FS_Subset
<1>3. k \in Runs
  BY <1>2, RestartAssumption DEF Runs, RestartTypeOK
<1>4. QED BY <1>2, <1>3 DEF RestartTypeOK, PastMayTrade

LEMMA RestartInvInit == RestartInit => RestartInv
<1> SUFFICES ASSUME RestartInit PROVE RestartInv
  OBVIOUS
<1>1. FlowInv
  BY FlowInvInit DEF RestartInit
<1>2. RestartTypeOK
  BY RestartAssumption DEF RestartInit, RestartTypeOK, Runs
<1>3. OneSession /\ LiveInSession /\ PastWithinLimit
  BY DEF RestartInit, FlowInit, OneSession, LiveInSession, PastWithinLimit
<1>4. QED BY <1>1, <1>2, <1>3 DEF RestartInv

LEMMA RestartInvRestart ==
  ASSUME RestartInv, Restart
  PROVE  RestartInv'
<1> USE DEF RestartInv
<1>1. run \in Nat /\ run \in Runs /\ run' \in Runs /\ run' = run + 1 /\ session' = session
  BY RestartAssumption DEF Restart, RestartTypeOK, Runs
<1>2. /\ \A s \in Symbols : Sent(s) \subseteq ClientIds
      /\ exch \in [ClientIds -> {"none", "live", "done"}]
  BY DEF Sent, FlowInv, FlowTypeOK
<1>3. /\ \A k \in Runs : k # run => pastSent'[k] = pastSent[k] /\ pastExch'[k] = pastExch[k]
      /\ pastExch'[run] = exch
      /\ \A s \in Symbols : pastSent'[run][s] = Sent(s)
      /\ RestartTypeOK'
  <2>1. [s \in Symbols |-> Sent(s)] \in [Symbols -> SUBSET ClientIds]
    BY <1>2
  <2>2. QED BY <1>1, <1>2, <2>1 DEF Restart, RestartTypeOK
<1>4. \A k \in 1..(run' - 1) : k \in Runs /\ (k = run \/ k \in 1..(run - 1))
  BY <1>1, RestartAssumption DEF Runs
<1>5. LiveInSession'
  <2>1. \A i \in ClientIds : exch'[i] # "live"
    BY DEF Restart
  <2>2. ASSUME NEW k \in 1..(run' - 1), session'[k] # "on", NEW i \in ClientIds
        PROVE  pastExch'[k][i] # "live"
    BY <1>1, <1>3, <1>4, <2>2 DEF LiveInSession
  <2>3. QED BY <2>1, <2>2 DEF LiveInSession
<1>6. PastWithinLimit'
  <2>1. SUFFICES ASSUME NEW k \in 1..(run' - 1), NEW s \in Symbols
                 PROVE  Cardinality(PastMayTrade(k, s)') <= MaxOpen
    BY DEF PastWithinLimit
  <2>2. CASE k = run
    <3>1. PastMayTrade(k, s)' = MayTrade(s)
      BY <1>3, <2>2 DEF PastMayTrade, MayTrade
    <3>2. QED BY <3>1, RunWithinLimit
  <2>3. CASE k # run
    <3>1. PastMayTrade(k, s)' = PastMayTrade(k, s)
      BY <1>3, <1>4, <2>3 DEF PastMayTrade
    <3>2. k \in 1..(run - 1)
      BY <1>4, <2>3
    <3>3. QED BY <3>1, <3>2 DEF PastWithinLimit
  <2>4. QED BY <2>2, <2>3
<1>7. OneSession'
  BY <1>1 DEF OneSession
<1>8. QED BY <1>3, <1>5, <1>6, <1>7, FlowInvRestart

(* What the exchange does to a past run's orders only shrinks what can still*)
(* trade.                                                                   *)
LEMMA PastShrinks ==
  ASSUME RestartInv, NEW k \in 1..(run - 1), UNCHANGED <<run, pastSent>>,
         NEW view \in [ClientIds -> {"none", "live", "done"}],
         pastExch' = [pastExch EXCEPT ![k] = view],
         \A i \in ClientIds : pastExch[k][i] = "done" => view[i] = "done"
  PROVE  /\ k \in Runs
         /\ pastExch' \in [Runs -> [ClientIds -> {"none", "live", "done"}]]
         /\ pastExch'[k] = view
         /\ \A j \in Runs : j # k => pastExch'[j] = pastExch[j]
         /\ PastWithinLimit'
<1> USE DEF RestartInv
<1>1. k \in Runs /\ (\A j \in 1..(run - 1) : j \in Runs)
  BY RestartAssumption DEF Runs, RestartTypeOK
<1>2. /\ pastSent \in [Runs -> [Symbols -> SUBSET ClientIds]]
      /\ pastExch \in [Runs -> [ClientIds -> {"none", "live", "done"}]]
  BY DEF RestartTypeOK
<1>4. /\ pastExch' \in [Runs -> [ClientIds -> {"none", "live", "done"}]]
      /\ pastExch'[k] = view
      /\ \A j \in Runs : j # k => pastExch'[j] = pastExch[j]
  BY <1>1, <1>2
<1>5. PastWithinLimit'
  <2>1. SUFFICES ASSUME NEW j \in 1..(run - 1), NEW s \in Symbols
                 PROVE  Cardinality(PastMayTrade(j, s)') <= MaxOpen
    BY DEF PastWithinLimit
  <2>2. PastMayTrade(j, s)' \subseteq PastMayTrade(j, s)
    <3>1. CASE j = k
      BY <1>1, <1>2, <1>4, <3>1 DEF PastMayTrade
    <3>2. CASE j # k
      BY <1>1, <1>4, <3>2 DEF PastMayTrade
    <3>3. QED BY <3>1, <3>2
  <2>3. IsFiniteSet(PastMayTrade(j, s)) /\ Cardinality(PastMayTrade(j, s)) \in Nat
    BY PastFinite, FS_CardinalityType
  <2>4. /\ Cardinality(PastMayTrade(j, s)') <= Cardinality(PastMayTrade(j, s))
        /\ Cardinality(PastMayTrade(j, s)') \in Nat
    BY <2>2, <2>3, FS_Subset, FS_CardinalityType
  <2>5. Cardinality(PastMayTrade(j, s)) <= MaxOpen
    BY DEF PastWithinLimit
  <2>6. QED BY <2>3, <2>4, <2>5, EngineAssumption
<1>6. QED BY <1>1, <1>4, <1>5

LEMMA RestartInvStep == RestartInv /\ [RestartNext]_restartVars => RestartInv'
<1> SUFFICES ASSUME RestartInv, [RestartNext]_restartVars PROVE RestartInv'
  OBVIOUS
<1> USE DEF RestartInv
<1>1. CASE Process
  <2>1. FlowInv'
    BY <1>1, RestartFlowStep, FlowInvStep
  <2>2. UNCHANGED <<exch, run, session, pastSent, pastExch>>
    BY <1>1 DEF Process, Command, Deliver, pastVars
  <2>3. QED
    BY <2>1, <2>2
       DEF RestartTypeOK, OneSession, LiveInSession, PastWithinLimit, PastMayTrade
<1>2. CASE Restart
  BY <1>2, RestartInvRestart
<1>3. CASE TakeLogon
  <2>1. PICK k \in 1..run :
          /\ session[k] = "none"
          /\ \A j \in Runs : session[j] # "on"
          /\ session' = [session EXCEPT ![k] = "on"]
    BY <1>3 DEF TakeLogon
  <2>2. UNCHANGED <<flowVars, run, pastSent, pastExch>> /\ UNCHANGED exch
    BY <1>3 DEF TakeLogon, pastVars, flowVars
  <2>3. FlowInv'
    BY <2>2, FlowInvStep
  <2>4. k \in Runs /\ (\A j \in 1..(run - 1) : j \in Runs) /\ run \in Runs
    BY RestartAssumption DEF RestartTypeOK, Runs
  <2>5. RestartTypeOK' /\ OneSession'
    BY <2>1, <2>2, <2>4 DEF RestartTypeOK, OneSession
  <2>6. \A j \in Runs : session'[j] # "on" => session[j] # "on"
    BY <2>1, <2>4 DEF RestartTypeOK
  <2>7. LiveInSession'
    BY <2>2, <2>4, <2>6 DEF LiveInSession
  <2>8. PastWithinLimit'
    BY <2>2 DEF PastWithinLimit, PastMayTrade
  <2>9. QED BY <2>3, <2>5, <2>7, <2>8
<1>4. CASE Serve
  <2>1. FlowInv'
    BY <1>4, RestartFlowStep, FlowInvStep
  <2>2. UNCHANGED <<run, session, pastSent, pastExch>> /\ session[run] = "on"
    BY <1>4 DEF Serve, pastVars
  <2>3. QED
    BY <2>1, <2>2
       DEF RestartTypeOK, OneSession, LiveInSession, PastWithinLimit, PastMayTrade
<1>5. CASE ServePast
  <2>1. PICK k \in 1..(run - 1), i \in ClientIds :
          /\ session[k] = "on"
          /\ pastExch[k][i] # "done"
          /\ \E e \in {"live", "done"} : pastExch' = [pastExch EXCEPT ![k][i] = e]
    BY <1>5 DEF ServePast
  <2>2. PICK e \in {"live", "done"} : pastExch' = [pastExch EXCEPT ![k][i] = e]
    BY <2>1
  <2>3. UNCHANGED <<flowVars, run, session, pastSent>> /\ UNCHANGED exch
    BY <1>5 DEF ServePast, flowVars
  <2>4. FlowInv'
    BY <2>3, FlowInvStep
  <2> DEFINE view == [pastExch[k] EXCEPT ![i] = e]
  <2>5. /\ k \in Runs
        /\ view \in [ClientIds -> {"none", "live", "done"}]
        /\ pastExch' = [pastExch EXCEPT ![k] = view]
        /\ \A j \in ClientIds : pastExch[k][j] = "done" => view[j] = "done"
    <3>1. k \in Runs
      BY RestartAssumption DEF RestartTypeOK, Runs
    <3>2. pastExch[k] \in [ClientIds -> {"none", "live", "done"}]
      BY <3>1 DEF RestartTypeOK
    <3>3. pastExch' = [pastExch EXCEPT ![k] = [@ EXCEPT ![i] = e]]
      BY <2>2
    <3>4. QED BY <2>1, <3>1, <3>2, <3>3
  <2>6. /\ pastExch' \in [Runs -> [ClientIds -> {"none", "live", "done"}]]
        /\ \A j \in Runs : j # k => pastExch'[j] = pastExch[j]
        /\ PastWithinLimit'
    <3> HIDE DEF view
    <3>1. UNCHANGED <<run, pastSent>>
      BY <2>3
    <3>2. QED BY <2>5, <3>1, PastShrinks
  <2>7. RestartTypeOK' /\ OneSession'
    BY <2>3, <2>6 DEF RestartTypeOK, OneSession
  <2>8. LiveInSession'
    <3>1. \A j \in 1..(run - 1) : j \in Runs
      BY RestartAssumption DEF RestartTypeOK, Runs
    <3>2. QED BY <2>1, <2>3, <2>6, <3>1 DEF LiveInSession
  <2>9. QED BY <2>4, <2>6, <2>7, <2>8
<1>6. CASE Disconnect
  <2>1. FlowInv'
    BY <1>6, FlowInvDisconnect DEF Disconnect
  <2>2. /\ UNCHANGED <<run, pastSent, pastExch>>
        /\ session' = [session EXCEPT ![run] = "ended"]
        /\ run \in Runs
        /\ \A i \in ClientIds : exch'[i] # "live"
    BY <1>6 DEF Disconnect, pastVars, RestartTypeOK, AfterDisconnect, LogonAsksForCancel
  <2>3. RestartTypeOK' /\ OneSession'
    BY <2>2 DEF RestartTypeOK, OneSession
  <2>4. \A j \in 1..(run - 1) : j \in Runs /\ session'[j] = session[j]
    BY <2>2, RestartAssumption DEF RestartTypeOK, Runs
  <2>5. LiveInSession' /\ PastWithinLimit'
    BY <2>2, <2>4 DEF LiveInSession, PastWithinLimit, PastMayTrade
  <2>6. QED BY <2>1, <2>3, <2>5
<1>7. CASE DisconnectPast
  <2>1. PICK k \in 1..(run - 1) :
          /\ session[k] = "on"
          /\ session' = [session EXCEPT ![k] = "ended"]
          /\ pastExch' = [pastExch EXCEPT ![k] = AfterDisconnect(pastExch[k])]
    BY <1>7 DEF DisconnectPast
  <2>2. UNCHANGED <<flowVars, run, pastSent>> /\ UNCHANGED <<exch, run>>
    BY <1>7 DEF DisconnectPast, flowVars
  <2>3. FlowInv'
    BY <2>2, FlowInvStep
  <2>4. \A j \in 1..(run - 1) : j \in Runs
    BY RestartAssumption DEF RestartTypeOK, Runs
  <2> DEFINE view == AfterDisconnect(pastExch[k])
  <2>5. /\ view \in [ClientIds -> {"none", "live", "done"}]
        /\ pastExch' = [pastExch EXCEPT ![k] = view]
        /\ \A j \in ClientIds : pastExch[k][j] = "done" => view[j] = "done"
        /\ \A j \in ClientIds : view[j] # "live"
    BY <2>1, <2>4 DEF RestartTypeOK, AfterDisconnect, LogonAsksForCancel
  <2>6. /\ k \in Runs
        /\ pastExch' \in [Runs -> [ClientIds -> {"none", "live", "done"}]]
        /\ pastExch'[k] = view
        /\ \A j \in Runs : j # k => pastExch'[j] = pastExch[j]
        /\ PastWithinLimit'
    <3> HIDE DEF view
    <3>1. UNCHANGED <<run, pastSent>>
      BY <2>2
    <3>2. QED BY <2>5, <3>1, PastShrinks
  <2>7. /\ session' \in [Runs -> {"none", "on", "ended"}]
        /\ \A j \in Runs : j # k => session'[j] = session[j]
        /\ session'[k] # "on"
    BY <2>1, <2>6 DEF RestartTypeOK
  <2>8. RestartTypeOK' /\ OneSession'
    BY <2>2, <2>6, <2>7 DEF RestartTypeOK, OneSession
  <2>9. run \in Runs /\ run # k
    BY RestartAssumption DEF RestartTypeOK, Runs
  <2>10. LiveInSession'
    <3> HIDE DEF view
    <3>1. session'[run] # "on" => \A i \in ClientIds : exch'[i] # "live"
      BY <2>2, <2>7, <2>9 DEF LiveInSession
    <3>2. ASSUME NEW j \in 1..(run - 1), session'[j] # "on"
          PROVE  \A i \in ClientIds : pastExch'[j][i] # "live"
      <4>1. CASE j = k
        BY <2>5, <2>6, <4>1
      <4>2. CASE j # k
        BY <2>4, <2>6, <2>7, <3>2, <4>2 DEF LiveInSession
      <4>3. QED BY <4>1, <4>2
    <3>3. QED BY <2>2, <3>1, <3>2 DEF LiveInSession
  <2>11. QED BY <2>3, <2>6, <2>8, <2>10
<1>8. CASE UNCHANGED restartVars
  <2>1. FlowInv'
    BY <1>8, FlowInvStep DEF restartVars
  <2>2. UNCHANGED <<exch, run, session, pastSent, pastExch>>
    BY <1>8 DEF restartVars, flowVars, pastVars
  <2>3. QED
    BY <2>1, <2>2
       DEF RestartTypeOK, OneSession, LiveInSession, PastWithinLimit, PastMayTrade
<1>9. QED
  BY <1>1, <1>2, <1>3, <1>4, <1>5, <1>6, <1>7, <1>8 DEF RestartNext

(* One session at a time, live orders in it only, every run within the      *)
(* limit.                                                                   *)
THEOREM RestartInvariant == RestartSpec => []RestartInv
BY RestartInvInit, RestartInvStep, PTL DEF RestartSpec

(* However often the process crashes, at whatever moment, and however late  *)
(* the exchange notices, the orders of all its runs that are live are never *)
(* more than the limit a single run is held to.                             *)
THEOREM RestartExposure == RestartSpec => []ExposureAcrossRuns
<1>1. RestartInv => ExposureAcrossRuns
  <2> SUFFICES ASSUME RestartInv, NEW s \in Symbols
               PROVE  Cardinality(LiveEver(s)) <= MaxOpen
    BY DEF ExposureAcrossRuns
  <2> USE DEF RestartInv
  <2>1. run \in Runs /\ (\A j \in 1..(run - 1) : j \in Runs /\ j # run)
    BY RestartAssumption DEF RestartTypeOK, Runs
  <2>2. ASSUME NEW k, NEW S, IsFiniteSet(S), Cardinality(S) <= MaxOpen,
               LiveEver(s) \subseteq {k} \X S
        PROVE  Cardinality(LiveEver(s)) <= MaxOpen
    <3>1. IsFiniteSet(LiveEver(s)) /\ Cardinality(LiveEver(s)) <= Cardinality(S)
      BY <2>2, NumberedOrders
    <3>2. Cardinality(LiveEver(s)) \in Nat /\ Cardinality(S) \in Nat
      BY <2>2, <3>1, FS_CardinalityType
    <3>3. QED BY <2>2, <3>1, <3>2, EngineAssumption
  <2>3. CASE session[run] # "on" /\ \A j \in 1..(run - 1) : session[j] # "on"
    <3>1. LiveEver(s) = {}
      BY <2>1, <2>3 DEF LiveEver, LiveOfRun, LiveOfPast, LiveInSession, Sent
    <3>2. QED BY <3>1, FS_EmptySet, EngineAssumption
  <2>4. CASE session[run] = "on"
    <3>1. \A j \in 1..(run - 1) : session[j] # "on"
      BY <2>1, <2>4 DEF OneSession
    <3>2. LiveOfPast(s) = {}
      BY <3>1 DEF LiveOfPast, LiveInSession
    <3>3. LiveEver(s) \subseteq {run} \X MayTrade(s)
      BY <3>2 DEF LiveEver, LiveOfRun, MayTrade
    <3>4. QED BY <2>2, <3>3, RunWithinLimit
  <2>5. CASE \E k \in 1..(run - 1) : session[k] = "on"
    <3>1. PICK k \in 1..(run - 1) : session[k] = "on"
      BY <2>5
    <3>2. /\ session[run] # "on"
          /\ \A j \in 1..(run - 1) : j # k => session[j] # "on"
      BY <2>1, <3>1 DEF OneSession
    <3>3. LiveOfRun(s) = {}
      BY <3>2 DEF LiveOfRun, LiveInSession, Sent
    <3>4. LiveOfPast(s) \subseteq {k} \X PastMayTrade(k, s)
      BY <3>2 DEF LiveOfPast, LiveInSession, PastMayTrade
    <3>5. LiveEver(s) \subseteq {k} \X PastMayTrade(k, s)
      BY <3>3, <3>4 DEF LiveEver
    <3>6. IsFiniteSet(PastMayTrade(k, s)) /\ Cardinality(PastMayTrade(k, s)) <= MaxOpen
      BY PastFinite DEF PastWithinLimit
    <3>7. QED BY <2>2, <3>5, <3>6
  <2>6. QED BY <2>3, <2>4, <2>5
<1>2. QED BY <1>1, RestartInvariant, PTL
=============================================================================
