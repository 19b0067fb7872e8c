---------------------------- MODULE OrderEngine ----------------------------
(***************************************************************************)
(* The order thread's engine: OrderManager and OrderThreadEngine of         *)
(* src/order.rs.  One value of each variable is one state of the two        *)
(* structs between two calls; an action is one whole call of on_command or  *)
(* on_execution_report.  The reports are unconstrained here: whatever this  *)
(* module promises holds under every exchange.                              *)
(***************************************************************************)
EXTENDS Naturals, Sequences, FiniteSets, Options

CONSTANTS
  Symbols,      (* symbol ids a command or a report may name               *)
  Products,     (* the configured ones: OrderThreadEngine.products         *)
  ExecIds,      (* ExecID(17) values                                       *)
  MaxOpen,      (* RiskConfig.max_open_orders_per_symbol                   *)
  MaxClientId,  (* bound: the last value next_client_order_seq hands out   *)
  FirstSeqNum   (* what set_next_seq_num was given after the Logon         *)

OpenLike  == {"PendingNew", "Open", "PartiallyFilled", "PendingCancel"}
Terminal  == {"Filled", "Canceled", "Rejected"}
Statuses  == OpenLike \cup Terminal \cup {"Unknown"}
ClientIds == 1..MaxClientId

ASSUME EngineAssumption ==
  /\ Products \subseteq Symbols
  /\ MaxOpen \in Nat
  /\ MaxClientId \in Nat
  /\ FirstSeqNum \in Nat
  /\ None \notin Symbols \cup Statuses

(* What OrderThreadAction::SendFix carries: a NewOrderSingle, or an         *)
(* OrderCancelRequest with the OrigClOrdID(41) it names.                    *)
Messages == [kind : {"New", "Cancel"}, seq : Nat, id : ClientIds,
             orig : ClientIds, symbol : Symbols]

(* OrderEvent, the fields the engine reads.                                 *)
Reports == [id : ClientIds, symbol : Symbols, status : Statuses, exec : ExecIds]

VARIABLES
  seenExecIds,   (* OrderManager.seen_exec_ids                             *)
  latestStatus,  (* OrderManager.latest_status                             *)
  symbolOf,      (* OrderManager.symbol_by_client_order_id                 *)
  openCounts,    (* OrderManager.open_counts                               *)
  nextClientId,  (* OrderManager.next_client_order_seq                     *)
  nextSeqNum,    (* OrderThreadEngine.next_seq_num                         *)
  wire           (* every message handed out to be sent, in order          *)

managerVars == <<seenExecIds, latestStatus, symbolOf, openCounts, nextClientId>>
engineVars  == <<managerVars, nextSeqNum, wire>>

EngineInit ==
  /\ seenExecIds  = {}
  /\ latestStatus = [i \in ClientIds |-> None]
  /\ symbolOf     = [i \in ClientIds |-> None]
  /\ openCounts   = [s \in Symbols |-> 0]
  /\ nextClientId = 1
  /\ nextSeqNum   = FirstSeqNum
  /\ wire         = <<>>

---------------------------------------------------------------------------
(* Commands.  A command the engine answers with OrderThreadAction::Reject   *)
(* changes nothing: it is the case where none of the actions is enabled.    *)

(* Variant: only orders the exchange has acknowledged are active            *)
ActiveAcknowledged(s) ==
  {i \in ClientIds : symbolOf[i] = s /\ latestStatus[i] \in OpenLike \ {"PendingNew"}}

(* active_client_order_ids                                                  *)
Active(s) == {i \in ClientIds : symbolOf[i] = s /\ latestStatus[i] \in OpenLike}

(* client_order_id_from_sequence finds these and no others                  *)
Known == {i \in ClientIds : symbolOf[i] # None}

(* Variant: > instead of >= in the test that refuses an order               *)
HasRoomForOneMore(s) == openCounts[s] <= MaxOpen

(* submit_new_order passes the open-order check                             *)
HasRoom(s) == openCounts[s] < MaxOpen

NewMsg(s) == [kind |-> "New", seq |-> nextSeqNum, id |-> nextClientId,
              orig |-> nextClientId, symbol |-> s]

(* on_new_order for an order whose price, quantity and notional             *)
(* ProductSpec::validate_order accepts                                      *)
NewOrder(s) ==
  /\ s \in Products
  /\ HasRoom(s)
  /\ nextClientId \in ClientIds
  /\ latestStatus' = [latestStatus EXCEPT ![nextClientId] = "PendingNew"]
  /\ symbolOf'     = [symbolOf EXCEPT ![nextClientId] = s]
  /\ openCounts'   = [openCounts EXCEPT ![s] = @ + 1]
  /\ nextClientId' = nextClientId + 1
  /\ nextSeqNum'   = nextSeqNum + 1
  /\ wire'         = Append(wire, NewMsg(s))
  /\ UNCHANGED seenExecIds

(* Variant: a cancel is sent under its order's own id                       *)
CancelMsgSameId(k, i, s) ==
  [kind |-> "Cancel", seq |-> nextSeqNum + k - 1, id |-> i, orig |-> i, symbol |-> s]

(* The k-th cancel request of one call, for original order i                *)
CancelMsg(k, i, s) ==
  [kind |-> "Cancel", seq |-> nextSeqNum + k - 1, id |-> nextClientId + k - 1,
   orig |-> i, symbol |-> s]

(* encode_cancel for each order of the sequence ids, in turn: request_cancel*)
(* spends a client order id of its own on every one and marks the original  *)
(* PendingCancel whatever its status was.                                   *)
EncodeCancels(ids, s) ==
  /\ nextClientId + Len(ids) <= MaxClientId + 1
  /\ latestStatus' = [i \in ClientIds |->
                        IF \E k \in 1..Len(ids) : ids[k] = i
                        THEN "PendingCancel" ELSE latestStatus[i]]
  /\ nextClientId' = nextClientId + Len(ids)
  /\ nextSeqNum'   = nextSeqNum + Len(ids)
  /\ wire'         = wire \o [k \in 1..Len(ids) |-> CancelMsg(k, ids[k], s)]
  /\ UNCHANGED <<seenExecIds, symbolOf, openCounts>>

(* on_cancel_order: the command's symbol picks the product, the order id is *)
(* looked up on its own                                                     *)
CancelOrder(s, i) == s \in Products /\ i \in Known /\ EncodeCancels(<<i>>, s)

(* S in the order of sort_by_key(client_order_sequence)                     *)
Ascending(S) == {ids \in [1..Cardinality(S) -> S] :
                   \A a, b \in 1..Cardinality(S) : a < b => ids[a] < ids[b]}

(* on_cancel_all                                                            *)
CancelAll(s) ==
  /\ s \in Products
  /\ Active(s) # {}
  /\ \E ids \in Ascending(Active(s)) : EncodeCancels(ids, s)

(* StrategyCommand.  valid says whether ProductSpec::validate_order accepts *)
(* the order's price, quantity and notional.                                *)
Commands ==
  [kind : {"New"}, symbol : Symbols, valid : BOOLEAN]
    \cup [kind : {"Cancel"}, symbol : Symbols, target : ClientIds]
    \cup [kind : {"CancelAll", "Replace"}, symbol : Symbols]

(* The commands on_command answers with a Reject, or with no action at all  *)
Refused(c) ==
  \/ c.symbol \notin Products
  \/ c.kind = "Replace"
  \/ c.kind = "New" /\ (~ c.valid \/ ~ HasRoom(c.symbol))
  \/ c.kind = "Cancel" /\ c.target \notin Known
  \/ c.kind = "CancelAll" /\ Active(c.symbol) = {}

OnCommand(c) ==
  \/ c.kind = "New" /\ c.valid /\ NewOrder(c.symbol)
  \/ c.kind = "Cancel" /\ CancelOrder(c.symbol, c.target)
  \/ c.kind = "CancelAll" /\ CancelAll(c.symbol)
  \/ Refused(c) /\ UNCHANGED engineVars

---------------------------------------------------------------------------
(* Execution reports.                                                       *)

(* Variant: only an acknowledged order gives its slot back                  *)
ApplyOrderEventLeaking(r) ==
  /\ seenExecIds'  = seenExecIds \cup {r.exec}
  /\ latestStatus' = [latestStatus EXCEPT ![r.id] = r.status]
  /\ symbolOf'     = [symbolOf EXCEPT ![r.id] = r.symbol]
  /\ openCounts'   = IF r.status \in Terminal /\ latestStatus[r.id] \in OpenLike \ {"PendingNew"}
                     THEN [openCounts EXCEPT ![r.symbol] = IF @ = 0 THEN 0 ELSE @ - 1]
                     ELSE openCounts
  /\ UNCHANGED <<nextClientId, nextSeqNum, wire>>

(* apply_order_event for an event whose exec id is new                      *)
ApplyOrderEvent(r) ==
  /\ seenExecIds'  = seenExecIds \cup {r.exec}
  /\ latestStatus' = [latestStatus EXCEPT ![r.id] = r.status]
  /\ symbolOf'     = [symbolOf EXCEPT ![r.id] = r.symbol]
  /\ openCounts'   = IF r.status \in Terminal /\ latestStatus[r.id] \in OpenLike
                     THEN [openCounts EXCEPT ![r.symbol] = IF @ = 0 THEN 0 ELSE @ - 1]
                     ELSE openCounts
  /\ UNCHANGED <<nextClientId, nextSeqNum, wire>>

(* Variant: a repeated exec id is applied again                             *)
FreshReportReplayed(r) == r.symbol \in Products

(* on_execution_report returns events: the product is configured and the    *)
(* exec id was not seen                                                     *)
FreshReport(r) == r.symbol \in Products /\ r.exec \notin seenExecIds

OnExecutionReport(r) == FreshReport(r) /\ ApplyOrderEvent(r)

EngineNext ==
  \/ \E s \in Symbols : NewOrder(s) \/ CancelAll(s)
  \/ \E s \in Symbols, i \in ClientIds : CancelOrder(s, i)
  \/ \E r \in Reports : OnExecutionReport(r)

EngineSpec == EngineInit /\ [][EngineNext]_engineVars

---------------------------------------------------------------------------
(* Properties.                                                              *)

(* The types of the engine's state; open_counts never goes negative.        *)
EngineTypeOK ==
  /\ seenExecIds \subseteq ExecIds
  /\ latestStatus \in [ClientIds -> Statuses \cup {None}]
  /\ symbolOf \in [ClientIds -> Symbols \cup {None}]
  /\ openCounts \in [Symbols -> Nat]
  /\ nextClientId \in 1..(MaxClientId + 1)
  /\ nextSeqNum \in Nat
  /\ wire \in Seq(Messages)

(* Whatever the exchange reports, in whatever order, the counter the open   *)
(* order limit is tested against never exceeds the limit.                   *)
CountWithinLimit == \A s \in Symbols : openCounts[s] <= MaxOpen

(* The messages on the wire carry consecutive MsgSeqNum(34), from the one   *)
(* the session was given: no call skips or repeats one, however many        *)
(* cancels a CancelAll expands into.                                        *)
ConsecutiveSeqNums ==
  /\ nextSeqNum = FirstSeqNum + Len(wire)
  /\ \A k \in 1..Len(wire) : wire[k].seq = FirstSeqNum + k - 1

(* ClOrdID(11) is never used twice, neither by two orders nor by an order   *)
(* and a cancel request, and a cancel names an order sent before it or one  *)
(* that a report has introduced.                                            *)
FreshClientIds ==
  \A k \in 1..Len(wire) :
    /\ wire[k].id < nextClientId
    /\ \A j \in 1..(k - 1) : wire[j].id < wire[k].id
    /\ wire[k].kind = "Cancel" => wire[k].orig \in Known
=============================================================================
