--------------------------- MODULE RuntimePipeline ---------------------------
(***************************************************************************)
(* RuntimePipeline of src/runtime.rs: the engines of all symbols and the    *)
(* order engine driven by the calls of one thread, with two unbounded       *)
(* channels between them into which other threads may send at any moment    *)
(* (exchange_event_sender, command_sender).  What the order engine does     *)
(* with a command is in OrderEngine; here it only counts that it gets it.   *)
(***************************************************************************)
EXTENDS Naturals, Sequences, SequencesExt

CONSTANTS
  EngineCount,     (* strategies; the engine of the k-th has SymbolId k - 1 *)
  UnknownSymbols,  (* symbol ids without an engine                         *)
  Balance,         (* an event without a symbol, for every strategy        *)
  Session,         (* one for none of them: a session or risk event        *)
  Market, Outside, (* marks: a market event, a command of another thread   *)
  MaxBatch,        (* bound: events given to one call                      *)
  MaxEvents,       (* bound: events, of both kinds                         *)
  MaxCommands      (* bound: commands of other threads                     *)

EngineIds == 0..(EngineCount - 1)

ASSUME PipelineAssumption ==
  /\ EngineCount \in Nat
  /\ UnknownSymbols \subseteq Nat \ EngineIds
  /\ Balance # Session /\ {Balance, Session, Market, Outside} \cap Nat = {}

VARIABLES
  at,            (* where the thread is: idle between two calls, else the  *)
                 (* loop it is in                                          *)
  batch,         (* what is left of the events of the call                 *)
  eventQueue,    (* exchange_event channel, by position in sent            *)
  commandQueue,  (* command channel                                        *)
  sent,          (* history: the exchange events, in the channel's order   *)
  due,           (* history: how many were sent when the last of this      *)
                 (* call's was                                             *)
  seen,          (* history: what each strategy was called with            *)
  calls          (* history: how many events were given so far             *)

pipeVars == <<at, batch, eventQueue, commandQueue, sent, due, seen, calls>>

MarketEvents == EngineIds \cup UnknownSymbols          (* L1 and Trade      *)
NoSymbolEvents == {Balance, Session}
ExchangeEvents == MarketEvents \cup NoSymbolEvents     (* Order and Fill    *)

PipeInit ==
  /\ at = "idle" /\ batch = <<>>
  /\ eventQueue = <<>> /\ commandQueue = <<>>
  /\ sent = <<>> /\ due = 0 /\ calls = 0
  /\ seen = [i \in EngineIds |-> <<>>]

(* Variant: an event without a symbol goes to the first engine              *)
RouteFirst(e) == IF e \in NoSymbolEvents THEN EngineIds \cap {0} ELSE {e} \cap EngineIds

(* The engines an event is handed to: that of its symbol, if there is one,  *)
(* or all                                                                   *)
Route(e) == IF e \in NoSymbolEvents THEN EngineIds ELSE {e} \cap EngineIds

(* on_market_event and on_exchange_event of MarketEngine: the events its    *)
(* strategy is called with; session and risk events are not among them      *)
Takes(i, e) == e \in {i, Balance}

(* The strategies of the engines that take event e are called with it, and  *)
(* each may answer with a command                                           *)
Hand(e, entry) ==
  LET shown == {i \in Route(e) : Takes(i, e)} IN
  /\ seen' = [i \in EngineIds |-> IF i \in shown THEN Append(seen[i], entry) ELSE seen[i]]
  /\ \E answering \in SUBSET shown :
       commandQueue' = commandQueue \o SetToSortSeq(answering, <)

(* on_market_events                                                         *)
CallMarket ==
  /\ at = "idle"
  /\ \E es \in BoundedSeq(MarketEvents, MaxBatch) :
       /\ calls + Len(es) <= MaxEvents
       /\ batch' = es /\ calls' = calls + Len(es)
  /\ at' = "market"
  /\ UNCHANGED <<eventQueue, commandQueue, sent, due, seen>>

MarketNext ==
  /\ at = "market" /\ batch # <<>>
  /\ Hand(Head(batch), Market)
  /\ batch' = Tail(batch)
  /\ UNCHANGED <<at, eventQueue, sent, due, calls>>

(* The exchange events are not looked at                                    *)
MarketEnd ==
  /\ at = "market" /\ batch = <<>>
  /\ at' = "commands"
  /\ UNCHANGED <<batch, eventQueue, commandQueue, sent, due, seen, calls>>

(* A send, of the pipeline's thread or of another                           *)
Send(e) ==
  /\ sent' = Append(sent, e)
  /\ eventQueue' = Append(eventQueue, Len(sent) + 1)

(* on_exchange_events: all its events go through the channel first          *)
CallExchange ==
  /\ at = "idle"
  /\ \E es \in BoundedSeq(ExchangeEvents, MaxBatch) :
       /\ calls + Len(es) <= MaxEvents
       /\ batch' = es /\ calls' = calls + Len(es)
  /\ at' = "sending"
  /\ UNCHANGED <<eventQueue, commandQueue, sent, due, seen>>

SendNext ==
  /\ at = "sending" /\ batch # <<>>
  /\ Send(Head(batch))
  /\ due' = Len(sent')
  /\ batch' = Tail(batch)
  /\ UNCHANGED <<at, commandQueue, seen, calls>>

SendEnd ==
  /\ at = "sending" /\ batch = <<>>
  /\ at' = "events"
  /\ UNCHANGED <<batch, eventQueue, commandQueue, sent, due, seen, calls>>

(* drain_exchange_events                                                    *)
DrainEvent ==
  /\ at = "events" /\ eventQueue # <<>>
  /\ Hand(sent[Head(eventQueue)], Head(eventQueue))
  /\ eventQueue' = Tail(eventQueue)
  /\ UNCHANGED <<at, batch, sent, due, calls>>

(* Variant: the commands wait for the next call                             *)
DrainEventsReturn ==
  /\ at = "events" /\ eventQueue = <<>>
  /\ at' = "idle"
  /\ UNCHANGED <<batch, eventQueue, commandQueue, sent, due, seen, calls>>

DrainEventsEnd ==
  /\ at = "events" /\ eventQueue = <<>>
  /\ at' = "commands"
  /\ UNCHANGED <<batch, eventQueue, commandQueue, sent, due, seen, calls>>

(* drain_commands                                                           *)
DrainCommand ==
  /\ at = "commands" /\ commandQueue # <<>>
  /\ commandQueue' = Tail(commandQueue)
  /\ UNCHANGED <<at, batch, eventQueue, sent, due, seen, calls>>

DrainCommandsEnd ==
  /\ at = "commands" /\ commandQueue = <<>>
  /\ at' = "idle"
  /\ UNCHANGED <<batch, eventQueue, commandQueue, sent, due, seen, calls>>

(* Other threads, external                                                  *)
OutsideEvent ==
  /\ calls < MaxEvents
  /\ \E e \in ExchangeEvents : Send(e)
  /\ calls' = calls + 1
  /\ UNCHANGED <<at, batch, commandQueue, due, seen>>

OutsideCommand ==
  /\ Len(SelectSeq(commandQueue, LAMBDA c : c = Outside)) < MaxCommands
  /\ commandQueue' = Append(commandQueue, Outside)
  /\ UNCHANGED <<at, batch, eventQueue, sent, due, seen, calls>>

PipeNext ==
  \/ CallMarket \/ MarketNext \/ MarketEnd
  \/ CallExchange \/ SendNext \/ SendEnd
  \/ DrainEvent \/ DrainEventsEnd \/ DrainCommand \/ DrainCommandsEnd
  \/ OutsideEvent \/ OutsideCommand

PipeSpec == PipeInit /\ [][PipeNext]_pipeVars

---------------------------------------------------------------------------
(* Properties.                                                              *)

(* Each strategy is called with the exchange events of its symbol and all   *)
(* balances, each once and in the channel's order, those of other threads   *)
(* included - a balance therefore reaches every strategy before anything    *)
(* sent after it reaches any -, and a call returns only when the events it  *)
(* was given have been seen.                                                *)
SeenIsAddressed ==
  LET taken == Len(sent) - Len(eventQueue) IN
  /\ eventQueue = [k \in 1..Len(eventQueue) |-> taken + k]
  /\ \A i \in EngineIds :
       LET shown == {k \in 1..Len(seen[i]) : seen[i][k] # Market} IN
       /\ \A j, k \in shown : j < k => seen[i][j] < seen[i][k]
       /\ {seen[i][k] : k \in shown} = {n \in 1..taken : sent[n] \in {i, Balance}}
  /\ at = "idle" => taken >= due

(* Between two calls no command of a strategy waits in the channel: an      *)
(* answer to an event is with the order engine when the call with the event *)
(* returns, whichever event of the batch it answers and whatever other      *)
(* threads send meanwhile.                                                  *)
NoAnswerWaits == at = "idle" => \A k \in 1..Len(commandQueue) : commandQueue[k] = Outside
=============================================================================
