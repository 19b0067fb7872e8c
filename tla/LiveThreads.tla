---------------------------- MODULE LiveThreads ----------------------------
(***************************************************************************)
(* The threads of run_live_pipeline (src/runtime.rs): the main thread       *)
(* starts a strategy, an order and a market thread, joins the market thread,*)
(* raises the shutdown flag and joins the other two.  The channels between  *)
(* them are unbounded; a thread that ends drops its ends of them.  What the *)
(* messages say is left to the modules of the threads.                      *)
(***************************************************************************)
EXTENDS Naturals

CONSTANTS
  OnceEvents, (* market events --once waits for (5 in the code)            *)
  MaxEvents   (* bound: market events the feed brings                      *)

ASSUME ThreadsAssumption ==
  /\ OnceEvents \in Nat /\ MaxEvents \in Nat

VARIABLES
  once,      (* the --once flag                                            *)
  main,      (* which thread main joins, or that it has returned           *)
  market,    (* where the market thread is, or how it ended                *)
  strategy,
  order,
  result,    (* what run_live_pipeline returned                            *)
  shutdown,  (* the shared flag                                            *)
  printed,   (* market events sent to the strategy                         *)
  unread,    (* of these, the ones still in the market channel             *)
  queued,    (* commands in the command channel                            *)
  answers    (* exchange events in the exchange event channel              *)

threadVars == <<once, main, market, strategy, order, result, shutdown, printed,
                unread, queued, answers>>

Ends        == {"ok", "err", "panic"}
Up(thread)  == thread \notin Ends

ThreadsInit ==
  /\ once \in BOOLEAN
  /\ main = "join market" /\ result = "none"
  /\ market = "connect" /\ strategy = "check" /\ order = "connect"
  /\ shutdown = FALSE
  /\ printed = 0 /\ unread = 0 /\ queued = 0 /\ answers = 0

---------------------------------------------------------------------------
(* The market thread (run_fix_market_data).                                 *)

MarketUnchanged == UNCHANGED <<main, strategy, order, result, queued, answers>>

MarketConnect ==
  /\ market = "connect"
  /\ market' \in {"check", "err"}
  /\ UNCHANGED <<shutdown, printed, unread>>
  /\ MarketUnchanged

MarketCheck ==
  /\ market = "check"
  /\ market' = IF shutdown THEN "ok" ELSE "read"
  /\ UNCHANGED <<shutdown, printed, unread>>
  /\ MarketUnchanged

(* Variant: --once does not end the run                                     *)
MarketEventOn ==
  /\ market = "read" /\ printed < MaxEvents
  /\ Up(strategy)
  /\ printed' = printed + 1 /\ unread' = unread + 1
  /\ market' = "check"
  /\ UNCHANGED shutdown
  /\ MarketUnchanged

(* A frame with an event; sending it fails once the strategy thread has     *)
(* dropped its receiver                                                     *)
MarketEvent ==
  /\ market = "read" /\ printed < MaxEvents
  /\ IF Up(strategy)
     THEN /\ printed' = printed + 1 /\ unread' = unread + 1
          /\ shutdown' = (shutdown \/ (once /\ printed + 1 >= OnceEvents))
          /\ market' = "check"
     ELSE market' = "err" /\ UNCHANGED <<shutdown, printed, unread>>
  /\ MarketUnchanged

(* Any other frame                                                          *)
MarketOther ==
  /\ market = "read"
  /\ market' = "check"
  /\ UNCHANGED <<shutdown, printed, unread>>
  /\ MarketUnchanged

(* The read times out, the connection closes, or a frame cannot be decoded; *)
(* or the thread panics                                                     *)
MarketFails ==
  /\ market = "read"
  /\ market' \in {"err", "panic"}
  /\ UNCHANGED <<shutdown, printed, unread>>
  /\ MarketUnchanged

Market == MarketConnect \/ MarketCheck \/ MarketEvent \/ MarketOther \/ MarketFails

---------------------------------------------------------------------------
(* The strategy thread (run_strategy_threads).  A call of an engine sends   *)
(* up to four commands for a market event - two cancels, two quotes -, up to*)
(* two for an exchange event; a failed send is ignored.                     *)

StrategyUnchanged == UNCHANGED <<main, market, order, result, shutdown, printed>>

Commands(n) == queued' = IF Up(order) THEN queued + n ELSE queued

StrategyCheck ==
  /\ strategy = "check"
  /\ strategy' = IF shutdown THEN "ok" ELSE "receive"
  /\ UNCHANGED <<unread, queued, answers>>
  /\ StrategyUnchanged

(* Variant: a dropped sender ends the loop whatever is in the channel       *)
StrategyReceiveDropping ==
  /\ strategy = "receive"
  /\ \/ /\ unread > 0 /\ Up(market)
        /\ unread' = unread - 1
        /\ \E n \in 0..4 : Commands(n)
        /\ strategy' = "drain"
     \/ /\ strategy' = IF Up(market) THEN "drain" ELSE "ok"
        /\ UNCHANGED <<unread, queued>>
  /\ UNCHANGED answers
  /\ StrategyUnchanged

(* recv_timeout: an event, the end of the channel, or 10 ms of neither      *)
StrategyReceive ==
  /\ strategy = "receive"
  /\ \/ /\ unread > 0
        /\ unread' = unread - 1
        /\ \E n \in 0..4 : Commands(n)
        /\ strategy' = "drain"
     \/ /\ unread = 0
        /\ strategy' = IF Up(market) THEN "drain" ELSE "ok"
        /\ UNCHANGED <<unread, queued>>
  /\ UNCHANGED answers
  /\ StrategyUnchanged

StrategyDrain ==
  /\ strategy = "drain"
  /\ \/ /\ answers > 0
        /\ answers' = answers - 1
        /\ \E n \in 0..2 : Commands(n)
        /\ UNCHANGED strategy
     \/ /\ answers = 0
        /\ strategy' = "check"
        /\ UNCHANGED <<answers, queued>>
  /\ UNCHANGED unread
  /\ StrategyUnchanged

StrategyPanics ==
  /\ strategy \in {"receive", "drain"}
  /\ strategy' = "panic"
  /\ UNCHANGED <<unread, queued, answers>>
  /\ StrategyUnchanged

Strategy == StrategyCheck \/ StrategyReceive \/ StrategyDrain \/ StrategyPanics

---------------------------------------------------------------------------
(* The order thread (run_fix_order_entry; OrderSession has its detail).     *)

OrderUnchanged == UNCHANGED <<main, market, strategy, result, shutdown, printed, unread>>

OrderConnect ==
  /\ order = "connect"
  /\ order' \in {"check", "err"}
  /\ UNCHANGED <<queued, answers>>
  /\ OrderUnchanged

OrderCheck ==
  /\ order = "check"
  /\ order' = IF shutdown THEN "ok" ELSE "drain"
  /\ UNCHANGED <<queued, answers>>
  /\ OrderUnchanged

(* try_recv: a command, which is sent or cannot be; the end of the channel; *)
(* or nothing                                                               *)
OrderDrain ==
  /\ order = "drain"
  /\ \/ queued > 0 /\ queued' = queued - 1 /\ order' \in {"drain", "err"}
     \/ queued = 0 /\ UNCHANGED queued /\ order' = IF Up(strategy) THEN "read" ELSE "err"
  /\ UNCHANGED <<answers>>
  /\ OrderUnchanged

(* Variant: a socket without a read timeout                                 *)
OrderReadBlocking ==
  /\ order = "read"
  /\ answers < MaxEvents /\ Up(strategy)
  /\ answers' = answers + 1
  /\ order' = "check"
  /\ UNCHANGED queued
  /\ OrderUnchanged

(* The read brings nothing within 30 s, or up to one exchange event         *)
OrderRead ==
  /\ order = "read"
  /\ \/ /\ order' \in {"check", "err", "panic"}
        /\ UNCHANGED answers
     \/ /\ answers < MaxEvents /\ Up(strategy)
        /\ answers' = answers + 1
        /\ order' = "check"
     \/ /\ ~ Up(strategy)
        /\ order' = "err"
        /\ UNCHANGED answers
  /\ UNCHANGED queued
  /\ OrderUnchanged

Order == OrderConnect \/ OrderCheck \/ OrderDrain \/ OrderRead

---------------------------------------------------------------------------
(* The main thread.                                                         *)

MainUnchanged ==
  UNCHANGED <<market, strategy, order, printed, unread, queued, answers>>

(* join_runtime_thread turns a panic into an error, which ? returns at once *)
JoinMarket ==
  /\ main = "join market" /\ ~ Up(market)
  /\ IF market = "panic"
     THEN main' = "returned" /\ result' = "err" /\ UNCHANGED shutdown
     ELSE main' = "join strategy" /\ shutdown' = TRUE /\ UNCHANGED result
  /\ MainUnchanged

JoinStrategy ==
  /\ main = "join strategy" /\ ~ Up(strategy)
  /\ IF strategy = "panic"
     THEN main' = "returned" /\ result' = "err"
     ELSE main' = "join order" /\ UNCHANGED result
  /\ UNCHANGED shutdown
  /\ MainUnchanged

(* Variant: the order thread's own error is not looked at                   *)
JoinOrderUnchecked ==
  /\ main = "join order" /\ ~ Up(order)
  /\ main' = "returned"
  /\ result' = IF order = "panic" THEN "err" ELSE market
  /\ UNCHANGED shutdown
  /\ MainUnchanged

JoinOrder ==
  /\ main = "join order" /\ ~ Up(order)
  /\ main' = "returned"
  /\ result' = IF order = "ok" THEN market ELSE "err"
  /\ UNCHANGED shutdown
  /\ MainUnchanged

Main == JoinMarket \/ JoinStrategy \/ JoinOrder

(* When main returns the process exits                                      *)
ThreadsNext ==
  /\ main # "returned"
  /\ Main \/ Market \/ Strategy \/ Order
  /\ UNCHANGED once

(* Each thread is scheduled, a read ends within its timeout, and a feed that*)
(* is read again and again brings market events                             *)
ThreadsSpec ==
  /\ ThreadsInit /\ [][ThreadsNext]_threadVars
  /\ WF_threadVars(main # "returned" /\ Main /\ UNCHANGED once)
  /\ WF_threadVars(main # "returned" /\ Market /\ UNCHANGED once)
  /\ WF_threadVars(main # "returned" /\ Strategy /\ UNCHANGED once)
  /\ WF_threadVars(main # "returned" /\ Order /\ UNCHANGED once)
  /\ SF_threadVars(main # "returned" /\ MarketEvent /\ UNCHANGED once)

---------------------------------------------------------------------------
(* Properties.                                                              *)

(* A run that reports success has stopped its trading threads in order: the *)
(* order thread left its loop by the flag, the strategy before it.          *)
SuccessIsOrderly ==
  result = "ok" => market = "ok" /\ strategy = "ok" /\ order = "ok"

(* The strategy does not stop while there is something to trade on, unless  *)
(* told to: every market event sent has been shown to it.                   *)
StrategyReadsAll ==
  strategy = "ok" => shutdown \/ (unread = 0 /\ ~ Up(market))

(* However the market thread ends, run_live_pipeline returns: no thread     *)
(* waits on another that waits on it.                                       *)
MarketEndReturns == ~ Up(market) ~> main = "returned"

(* README.md:188, "收到少量行情事件后退出": with --once the program           *)
(* ends.                                                                    *)
OnceReturns == once ~> main = "returned"
=============================================================================
