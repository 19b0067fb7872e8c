----------------------------- MODULE LiveTrading -----------------------------
(***************************************************************************)
(* One symbol end to end, as run_live_pipeline wires it: the strategy       *)
(* thread (Maker), its command channel, the order engine and the exchange   *)
(* (OrderFlow), and the exchange event channel back.  Both channels are     *)
(* FIFO, and so is the FIX session: here a report comes once and in order.  *)
(***************************************************************************)
EXTENDS OrderFlow, Maker

CONSTANT
  Symbol        (* the symbol traded                                       *)

ASSUME LiveAssumption ==
  /\ Symbol \in Products
  /\ ExecIds \subseteq Nat

VARIABLES
  commands,   (* command_tx to command_rx                                  *)
  order,      (* what each client order id was given to: side and price    *)
  reports,    (* execution reports in the FIX session's stream             *)
  events,     (* exchange_event_tx to exchange_event_rx                    *)
  sweeping,   (* history: the maker has stood aside and not quoted since   *)
  replaced    (* history: the orders it has given up for others            *)

liveVars ==
  <<flowVars, makerVars, commands, order, reports, events, sweeping, replaced>>

LiveInit ==
  /\ FlowInit
  /\ MakerInit
  /\ commands = <<>> /\ reports = <<>> /\ events = <<>>
  /\ order = [i \in ClientIds |-> None]
  /\ sweeping = FALSE
  /\ replaced = {}

---------------------------------------------------------------------------
(* The strategy thread (run_strategy_threads): one call of its engine, and  *)
(* a send for each command the call returns.                                *)

Send ==
  /\ commands' = commands \o emitted'
  /\ replaced' = replaced \cup givenUp'

(* The feed's sequence numbers increase                                     *)
MarketEvent ==
  /\ \E bid, ask \in Prices, seq \in {book.seq + 1} \cap (0..MaxSequence) :
       OnL1([bid |-> bid, ask |-> ask, seq |-> seq])
  /\ Send
  /\ sweeping' = (phase' = "Flat")
  /\ UNCHANGED <<flowVars, order, reports, events>>

ExchangeEvent ==
  /\ events # <<>>
  /\ LET e == Head(events) IN
       IF e.type = "Fill" THEN OnFill(e.side)
       ELSE OnOrder(e.id, e.side, e.price, e.status)
  /\ events' = Tail(events)
  /\ Send
  /\ UNCHANGED <<flowVars, order, reports, sweeping>>

---------------------------------------------------------------------------
(* The order thread.                                                        *)

(* The maker's command as the engine sees it                                *)
AsCommand(c) ==
  CASE c.kind = "New"       -> [kind |-> "New", symbol |-> Symbol, valid |-> TRUE]
    [] c.kind = "Cancel"    -> [kind |-> "Cancel", symbol |-> Symbol, target |-> c.target]
    [] c.kind = "CancelAll" -> [kind |-> "CancelAll", symbol |-> Symbol]

TakeCommand ==
  /\ commands # <<>>
  /\ OnCommand(AsCommand(Head(commands)))
  /\ commands' = Tail(commands)
  /\ order' = IF Head(commands).kind = "New" /\ wire' # wire
              THEN [order EXCEPT ![nextClientId] =
                      [side |-> Head(commands).side, price |-> Head(commands).price]]
              ELSE order
  /\ UNCHANGED <<exch, reported, makerVars, reports, events, sweeping, replaced>>

(* The events on_execution_report returns: a report with LastQty(32) also   *)
(* makes a fill event                                                       *)
EventsOf(r) ==
  LET o    == order[r.id]
      ev   == [type |-> "Order", id |-> r.id, side |-> o.side, price |-> o.price,
               status |-> r.status]
      fill == [type |-> "Fill", side |-> o.side]
  IN  IF r.status \in {"PartiallyFilled", "Filled"} THEN <<ev, fill>> ELSE <<ev>>

TakeReport ==
  /\ reports # <<>>
  /\ LET r == Head(reports) IN
       /\ OnExecutionReport(r)
       /\ events' = events \o EventsOf(r)
  /\ reports' = Tail(reports)
  /\ UNCHANGED <<exch, reported, makerVars, commands, order, sweeping, replaced>>

(* The exchange numbers its reports in turn                                 *)
ExchangeStep ==
  /\ Exchange
  /\ LET new == CHOOSE r \in reported' : r \notin reported IN
       /\ \A e \in ExecIds : e < new.exec => ~ FreshExec(e)
       /\ reports' = Append(reports, new)
  /\ UNCHANGED <<makerVars, commands, order, events, sweeping, replaced>>

LiveNext == MarketEvent \/ ExchangeEvent \/ TakeCommand \/ TakeReport \/ ExchangeStep

LiveSpec == LiveInit /\ [][LiveNext]_liveVars

---------------------------------------------------------------------------
(* Properties.                                                              *)

AskedToCancel(i) == \E m \in Requests : m.kind = "Cancel" /\ m.orig = i

(* Once the maker has stood aside (a strong trend) and its commands have    *)
(* been taken, each of its orders that can still trade has a cancel request *)
(* on the wire - the wrong guesses, the late Open events and the refused    *)
(* orders of the quoting before it notwithstanding - but those of which a   *)
(* status was applied that the engine cannot read.                          *)
StandingAsideSweeps ==
  sweeping /\ commands = <<>> =>
    \A i \in MayTrade(Symbol) : AskedToCancel(i) \/ Misread(i)

(* An order the maker gives up for another one - a requote, or a fill of    *)
(* the other quote - has a cancel request on the wire once the maker's      *)
(* commands have been taken, provided that the Open event of the order had  *)
(* reached the maker and was the last one of its slot.                      *)
(*                                                                          *)
(* It says nothing of an order given up before: the two quotes are tracked  *)
(* under numbers one too high (Maker), so a requote ahead of their Open     *)
(* events cancels another order or none, and the replaced one stays until   *)
(* the next CancelAll.                                                      *)
ReplacedIsCancelled ==
  commands = <<>> => \A i \in replaced : AskedToCancel(i)
=============================================================================
