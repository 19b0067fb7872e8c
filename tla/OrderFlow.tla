------------------------------ MODULE OrderFlow ------------------------------
(***************************************************************************)
(* The order engine and the exchange it talks to.  The exchange is external *)
(* (src/ holds only the messages exchanged with it): it accepts or rejects  *)
(* an order it is sent, fills or cancels it while it is live, and reports   *)
(* every step with a new ExecID.  A report may reach the engine late, more  *)
(* than once and in any order: reported keeps every report ever sent.       *)
(***************************************************************************)
EXTENDS OrderEngine

VARIABLES
  exch,      (* the exchange's view of each order                          *)
  reported   (* every report the exchange has sent                         *)

flowVars == <<engineVars, exch, reported>>

FlowInit ==
  /\ EngineInit
  /\ exch     = [i \in ClientIds |-> "none"]
  /\ reported = {}

Requests == {wire[k] : k \in 1..Len(wire)}

(* An ExecID the exchange has not used                                      *)
FreshExec(e) == \A r \in reported : r.exec # e

Report(i, s, status, e) ==
  reported' = reported \cup {[id |-> i, symbol |-> s, status |-> status, exec |-> e]}

(* What the exchange may do to order i of symbol s, reporting it with e.    *)
(* Of a live order it may report an OrdStatus(39) that parse_status does    *)
(* not know, such as 9, as it may when it ends one, such as 3.              *)
Accept(i, s, e) ==
  /\ exch[i] = "none"
  /\ \E status \in {"PendingNew", "Open", "Unknown"} : Report(i, s, status, e)
  /\ exch' = [exch EXCEPT ![i] = "live"]

Refuse(i, s, e) ==
  /\ exch[i] = "none"
  /\ Report(i, s, "Rejected", e)
  /\ exch' = [exch EXCEPT ![i] = "done"]

Amend(i, s, e) ==
  /\ exch[i] = "live"
  /\ \E status \in {"Open", "PartiallyFilled", "PendingCancel", "Unknown"} :
       Report(i, s, status, e)
  /\ UNCHANGED exch

Fill(i, s, e) ==
  /\ exch[i] = "live"
  /\ Report(i, s, "Filled", e)
  /\ exch' = [exch EXCEPT ![i] = "done"]

Expire(i, s, e) ==
  /\ exch[i] = "live"
  /\ Report(i, s, "Unknown", e)
  /\ exch' = [exch EXCEPT ![i] = "done"]

(* The exchange cancels an order: asked to, or of its own accord as it does *)
(* with the rest of an ImmediateOrCancel                                    *)
CancelLive(i, s, e) ==
  /\ exch[i] = "live"
  /\ Report(i, s, "Canceled", e)
  /\ exch' = [exch EXCEPT ![i] = "done"]

(* A request for an order that is already done is answered with an          *)
(* OrderCancelReject, which the order thread only prints: no step here.     *)
Exchange ==
  /\ \E m \in Requests, e \in ExecIds :
       /\ m.kind = "New"
       /\ FreshExec(e)
       /\ \/ Accept(m.id, m.symbol, e)
          \/ Refuse(m.id, m.symbol, e)
          \/ Amend(m.id, m.symbol, e)
          \/ Fill(m.id, m.symbol, e)
          \/ Expire(m.id, m.symbol, e)
          \/ CancelLive(m.id, m.symbol, e)
  /\ UNCHANGED engineVars

Command ==
  /\ \E s \in Symbols :
       NewOrder(s) \/ CancelAll(s) \/ \E i \in ClientIds : CancelOrder(s, i)
  /\ UNCHANGED <<exch, reported>>

Deliver ==
  /\ \E r \in reported : OnExecutionReport(r)
  /\ UNCHANGED <<exch, reported>>

FlowNext == Command \/ Exchange \/ Deliver

FlowSpec == FlowInit /\ [][FlowNext]_flowVars

---------------------------------------------------------------------------
(* Properties.                                                              *)

(* The orders of s that were sent                                           *)
Sent(s) == {i \in ClientIds : \E m \in Requests : m.kind = "New" /\ m.id = i /\ m.symbol = s}

(* Order i's end has been reported with a status the engine can read, and   *)
(* applied                                                                  *)
Freed(i) == \E r \in reported : r.id = i /\ r.status \in Terminal /\ r.exec \in seenExecIds

(* A status of order i that the engine cannot read has been applied         *)
Misread(i) == \E r \in reported : r.id = i /\ r.status = "Unknown" /\ r.exec \in seenExecIds

(* The orders of s the engine has not yet learnt the end of                 *)
Outstanding(s) == {i \in Sent(s) : ~ Freed(i)}

(* The orders of s that can still trade                                     *)
MayTrade(s) == {i \in Sent(s) : exch[i] # "done"}

FlowTypeOK ==
  /\ EngineTypeOK
  /\ exch \in [ClientIds -> {"none", "live", "done"}]
  /\ reported \subseteq Reports

(* docs/coinbase-hft-architecture.md:630, at the exchange: no symbol ever   *)
(* has more than MaxOpen orders that can still trade, whatever is still on  *)
(* its way, delayed, repeated or overtaken.                                 *)
ExposureLimit == \A s \in Symbols : Cardinality(MayTrade(s)) <= MaxOpen

(* Under every delay, repetition and reordering of reports no slot is given *)
(* back twice, and none leaks once the engine has learnt the order's end -  *)
(* unless a status it could not read was applied to that order before: the  *)
(* counter is exactly the number of outstanding orders, or above it by some *)
(* of those.                                                                *)
CountIsExact ==
  \A s \in Symbols :
    /\ openCounts[s] >= Cardinality(Outstanding(s))
    /\ openCounts[s] <= Cardinality({i \in Sent(s) : ~ Freed(i) \/ Misread(i)})

(* A CancelAll reaches every order that can still trade - each of them is   *)
(* active in the engine's tables, so the call sends a cancel request for it *)
(* - but those whose last applied status the engine could not read          *)
(* (OrderStatus::Unknown is not open-like).                                 *)
CancelAllReachesLive ==
  \A s \in Symbols : \A i \in MayTrade(s) : i \in Active(s) \/ latestStatus[i] = "Unknown"

(* What the reports on their way and the engine's tables say of each other: *)
(* the invariant the proofs of the properties above rest on.                *)
ReportsOfSentOrders == \A r \in reported : r.id \in Sent(r.symbol)
OneReportPerExec    == \A r, q \in reported : r.exec = q.exec => r = q
OneFinalReport      ==
  /\ \A r \in reported : r.status \in Terminal => exch[r.id] = "done"
  /\ \A r, q \in reported :
       r.status \in Terminal /\ q.status \in Terminal /\ r.id = q.id => r = q
SeenWasReported     == \A e \in seenExecIds : \E r \in reported : r.exec = e
TablesOfSentOrders  ==
  \A s \in Symbols : \A i \in Sent(s) :
    /\ symbolOf[i] = s
    /\ s \in Products
    /\ ~ Freed(i) => latestStatus[i] \in OpenLike \cup {"Unknown"}
    /\ latestStatus[i] = "Unknown" => Misread(i)

FlowInv ==
  /\ FlowTypeOK
  /\ FreshClientIds
  /\ CountWithinLimit
  /\ ReportsOfSentOrders
  /\ OneReportPerExec
  /\ OneFinalReport
  /\ SeenWasReported
  /\ TablesOfSentOrders
  /\ CountIsExact

(* Each order takes a slot of its symbol once and gives it back once.       *)
OpenSlots == INSTANCE OpenOrderSlots WITH
           Orders  <- ClientIds,
           holding <- [s \in Symbols |-> Outstanding(s)],
           used    <- {i \in ClientIds : \E s \in Symbols : i \in Sent(s)}
SlotsSpec == OpenSlots!Spec
=============================================================================
