---------------------------- MODULE OrderSession ----------------------------
(***************************************************************************)
(* The order thread: run_fix_order_entry of src/runtime.rs around the       *)
(* engine of OrderEngine.  It writes a Logon, then repeats: look at the     *)
(* shutdown flag, send what the strategy's queue holds, wait for bytes from *)
(* the exchange (up to the 30 s read timeout), handle the frames read.      *)
(* The strategy thread and the exchange are its environment.                *)
(***************************************************************************)
EXTENDS OrderEngine

CONSTANTS
  Reported,    (* bound: statuses the exchange reports                     *)
  MaxCommands, (* bound: commands the strategy sends                        *)
  MaxFrames    (* bound: frames the exchange sends                          *)

ASSUME SessionAssumption ==
  /\ Reported \subseteq Statuses
  /\ MaxCommands \in Nat /\ MaxFrames \in Nat

VARIABLES
  pipeline,   (* started by run_live_pipeline (command_rx is Some), or by  *)
              (* --order-only (None)                                       *)
  once,       (* the --once flag, which only --order-only passes on        *)
  pc,         (* "connect", "check", "drain", "read", "handle", "ok", "err"  *)
  shutdown,   (* the shared AtomicBool                                     *)
  queue,      (* the strategy's commands, mpsc                             *)
  strategyUp, (* the strategy thread still holds its two channel ends      *)
  commands,   (* number of commands sent so far                            *)
  inbound,    (* frames the exchange has sent and the thread has not read  *)
  pending,    (* frames read and not yet handled                           *)
  frames,     (* number of frames sent so far                              *)
  peerUp,     (* the exchange has not closed the connection                *)
  ready,      (* history: the Logon was acknowledged                       *)
  senderSeq,  (* sender_seq: numbers the Logon and the heartbeats          *)
  written,    (* the MsgSeqNum of every message written, in order          *)
  answered,   (* number of heartbeats written                              *)
  toStrategy  (* the exchange events sent to the strategy, in order        *)

envVars     == <<queue, strategyUp, commands, inbound, frames, peerUp>>
options     == <<pipeline, once>>
sessionVars == <<engineVars, options, pc, shutdown, envVars, pending, ready,
                 senderSeq, written, answered, toStrategy>>

Stopped == pc \in {"ok", "err"}

(* Frames of the exchange; fill says whether LastQty(32) is positive, and   *)
(* "Bad" is any frame on which the parser or the report decoder fails.      *)
Frames ==
  [type : {"Logon", "TestRequest", "Other", "Bad"}]
    \cup [type : {"Report"}, report : Reports, fill : BOOLEAN]

SessionInit ==
  /\ EngineInit
  /\ pipeline \in BOOLEAN /\ once \in BOOLEAN /\ ~ (pipeline /\ once)
  /\ pc = "connect" /\ shutdown = FALSE
  /\ queue = <<>> /\ strategyUp = pipeline /\ commands = 0
  /\ inbound = <<>> /\ pending = <<>> /\ frames = 0 /\ peerUp = TRUE
  /\ ready = FALSE
  /\ senderSeq = 1 /\ written = <<>> /\ answered = 0
  /\ toStrategy = <<>>

Goto(l) == pc' = l

(* A write may fail once the exchange has closed the connection             *)
WriteFails == ~ peerUp

---------------------------------------------------------------------------
(* The thread.                                                              *)

(* Variant: the engine is given the Logon's own number                      *)
ConnectEarly ==
  /\ pc = "connect"
  /\ Goto("check")
  /\ written' = <<senderSeq>>
  /\ senderSeq' = senderSeq + 1
  /\ nextSeqNum' = senderSeq
  /\ UNCHANGED <<managerVars, wire, shutdown, envVars, pending, ready, answered, toStrategy>>

(* Connecting, and the Logon under sender_seq 1                             *)
Connect ==
  /\ pc = "connect"
  /\ \/ /\ Goto("check")
        /\ written' = <<senderSeq>>
        /\ senderSeq' = senderSeq + 1
        /\ nextSeqNum' = senderSeq + 1
     \/ /\ Goto("err")
        /\ senderSeq' \in {senderSeq, senderSeq + 1}
        /\ UNCHANGED <<written, nextSeqNum>>
  /\ UNCHANGED <<managerVars, wire, shutdown, envVars, pending, ready, answered, toStrategy>>

(* Variant: commands wait for the Logon's answer                            *)
CheckReady ==
  /\ pc = "check"
  /\ Goto(IF shutdown THEN "ok" ELSE IF pipeline /\ ready THEN "drain" ELSE "read")
  /\ UNCHANGED <<engineVars, shutdown, envVars, pending, ready, senderSeq, written,
                 answered, toStrategy>>

Check ==
  /\ pc = "check"
  /\ Goto(IF shutdown THEN "ok" ELSE IF pipeline THEN "drain" ELSE "read")
  /\ UNCHANGED <<engineVars, shutdown, envVars, pending, ready, senderSeq, written,
                 answered, toStrategy>>

(* The numbers of the messages the step hands out to be written             *)
NewNumbers == [k \in 1..(Len(wire') - Len(wire)) |-> wire'[Len(wire) + k].seq]

(* One command: on_command, and a write for each message it returns, up to  *)
(* the first one that fails                                                 *)
DrainCommand ==
  /\ pc = "drain"
  /\ queue # <<>>
  /\ OnCommand(Head(queue))
  /\ queue' = Tail(queue)
  /\ \/ written' = written \o NewNumbers /\ UNCHANGED pc
     \/ /\ WriteFails
        /\ \E n \in 0..(Len(NewNumbers) - 1) : written' = written \o SubSeq(NewNumbers, 1, n)
        /\ Goto("err")
  /\ UNCHANGED <<shutdown, strategyUp, commands, inbound, frames, peerUp, pending,
                 ready, senderSeq, answered, toStrategy>>

(* try_recv finds the queue empty, or empty and disconnected                *)
DrainEnd ==
  /\ pc = "drain"
  /\ queue = <<>>
  /\ Goto(IF strategyUp THEN "read" ELSE "err")
  /\ UNCHANGED <<engineVars, shutdown, envVars, pending, ready, senderSeq, written,
                 answered, toStrategy>>

(* stream.read returns some of the bytes that have arrived                  *)
ReadBytes ==
  /\ pc = "read"
  /\ \E n \in 1..Len(inbound) :
       /\ pending' = pending \o SubSeq(inbound, 1, n)
       /\ inbound' = SubSeq(inbound, n + 1, Len(inbound))
  /\ Goto("handle")
  /\ UNCHANGED <<engineVars, shutdown, queue, strategyUp, commands, frames, peerUp,
                 ready, senderSeq, written, answered, toStrategy>>

(* Variant: after a silent read the thread reads again at once              *)
ReadNothingAgain ==
  /\ pc = "read"
  /\ inbound = <<>>
  /\ Goto(IF pipeline THEN "read" ELSE "err")
  /\ UNCHANGED <<engineVars, shutdown, envVars, pending, ready, senderSeq, written,
                 answered, toStrategy>>
(* Nothing arrives within the read timeout, or the connection is at its     *)
(* end: with a command queue both count as zero bytes and the loop goes on  *)
ReadNothing ==
  /\ pc = "read"
  /\ inbound = <<>>
  /\ Goto(IF pipeline THEN "check" ELSE "err")
  /\ UNCHANGED <<engineVars, shutdown, envVars, pending, ready, senderSeq, written,
                 answered, toStrategy>>

(* Any other read error, such as a reset connection                         *)
ReadFails ==
  /\ pc = "read"
  /\ ~ peerUp
  /\ Goto("err")
  /\ UNCHANGED <<engineVars, shutdown, envVars, pending, ready, senderSeq, written,
                 answered, toStrategy>>

Handling(type) == pc = "handle" /\ pending # <<>> /\ Head(pending).type = type

(* Variant: the Logon's answer does not end a --once run                    *)
HandleLogonOnly ==
  /\ Handling("Logon")
  /\ ready' = TRUE
  /\ pending' = Tail(pending)
  /\ UNCHANGED <<engineVars, pc, shutdown, envVars, senderSeq, written, answered, toStrategy>>

HandleLogon ==
  /\ Handling("Logon")
  /\ ready' = TRUE
  /\ shutdown' = (shutdown \/ once)
  /\ pending' = Tail(pending)
  /\ UNCHANGED <<engineVars, pc, envVars, senderSeq, written, answered, toStrategy>>

(* The heartbeat takes its MsgSeqNum from sender_seq, the orders take theirs*)
(* from the engine's next_seq_num                                           *)
HandleTestRequest ==
  /\ Handling("TestRequest")
  /\ senderSeq' = senderSeq + 1
  /\ \/ /\ written' = Append(written, senderSeq)
        /\ answered' = answered + 1
        /\ UNCHANGED pc
     \/ WriteFails /\ Goto("err") /\ UNCHANGED <<written, answered>>
  /\ pending' = Tail(pending)
  /\ UNCHANGED <<engineVars, shutdown, envVars, ready, toStrategy>>

(* The events on_execution_report returns for a fresh report                *)
Events(f) ==
  LET order == [type |-> "Order", exec |-> f.report.exec, status |-> f.report.status]
      fill  == [type |-> "Fill", exec |-> f.report.exec]
  IN  IF f.fill THEN <<order, fill>> ELSE <<order>>

HandleReport ==
  /\ Handling("Report")
  /\ LET f == Head(pending) r == Head(pending).report IN
       \/ /\ FreshReport(r) /\ ApplyOrderEvent(r)
          /\ \/ /\ strategyUp \/ ~ pipeline
                /\ toStrategy' = IF pipeline THEN toStrategy \o Events(f) ELSE toStrategy
                /\ UNCHANGED pc
             \/ /\ pipeline /\ ~ strategyUp
                /\ Goto("err")
                /\ \E n \in 0..(Len(Events(f)) - 1) :
                     toStrategy' = toStrategy \o SubSeq(Events(f), 1, n)
          /\ shutdown' = (shutdown \/ once)
       \/ /\ r.symbol \in Products /\ r.exec \in seenExecIds
          /\ UNCHANGED <<engineVars, pc, toStrategy, shutdown>>
       \/ /\ r.symbol \notin Products
          /\ Goto("err")
          /\ UNCHANGED <<engineVars, toStrategy, shutdown>>
  /\ pending' = Tail(pending)
  /\ UNCHANGED <<envVars, ready, senderSeq, written, answered>>

(* Heartbeats, OrderCancelRejects and everything else is at most printed    *)
HandleOther ==
  /\ Handling("Other")
  /\ pending' = Tail(pending)
  /\ UNCHANGED <<engineVars, pc, shutdown, envVars, ready, senderSeq, written,
                 answered, toStrategy>>

HandleBad ==
  /\ Handling("Bad")
  /\ Goto("err")
  /\ UNCHANGED <<engineVars, shutdown, envVars, pending, ready, senderSeq, written,
                 answered, toStrategy>>

HandledAll ==
  /\ pc = "handle"
  /\ pending = <<>>
  /\ Goto("check")
  /\ UNCHANGED <<engineVars, shutdown, envVars, pending, ready, senderSeq, written,
                 answered, toStrategy>>

Thread ==
  \/ Connect \/ Check \/ DrainCommand \/ DrainEnd
  \/ ReadBytes \/ ReadNothing \/ ReadFails
  \/ HandleLogon \/ HandleTestRequest \/ HandleReport \/ HandleOther \/ HandleBad
  \/ HandledAll

---------------------------------------------------------------------------
(* The environment.                                                         *)

threadVars == <<engineVars, pc, pending, ready, senderSeq, written, answered, toStrategy>>

(* There is a strategy for each configured product and for no other         *)
SendCommand ==
  /\ strategyUp /\ commands < MaxCommands
  /\ \E c \in Commands : c.symbol \in Products /\ queue' = Append(queue, c)
  /\ commands' = commands + 1
  /\ UNCHANGED <<threadVars, shutdown, strategyUp, inbound, frames, peerUp>>

(* The strategy thread ends and drops command_tx and exchange_event_rx      *)
StrategyEnds ==
  /\ strategyUp
  /\ strategyUp' = FALSE
  /\ UNCHANGED <<threadVars, shutdown, queue, commands, inbound, frames, peerUp>>

(* The main thread stores the flag when the market thread has ended         *)
Shutdown ==
  /\ pipeline /\ ~ shutdown
  /\ shutdown' = TRUE
  /\ UNCHANGED <<threadVars, envVars>>

(* Reports are about an order the engine was told of; to the thread without *)
(* a strategy they are about orders of an earlier run.                      *)
ExchangeSends ==
  /\ peerUp /\ pc # "connect" /\ frames < MaxFrames
  /\ \E f \in Frames :
       /\ f.type = "Report" => /\ f.report.id \in Known \/ ~ pipeline
                               /\ f.report.status \in Reported
       /\ inbound' = Append(inbound, f)
  /\ frames' = frames + 1
  /\ UNCHANGED <<threadVars, shutdown, queue, strategyUp, commands, peerUp>>

ExchangeCloses ==
  /\ peerUp
  /\ peerUp' = FALSE
  /\ UNCHANGED <<threadVars, shutdown, queue, strategyUp, commands, inbound, frames>>

SessionNext ==
  /\ ~ Stopped
  /\ Thread \/ SendCommand \/ StrategyEnds \/ Shutdown \/ ExchangeSends \/ ExchangeCloses
  /\ UNCHANGED options

(* The thread is scheduled; nothing makes the others take a step            *)
SessionSpec ==
  SessionInit /\ [][SessionNext]_sessionVars /\ WF_sessionVars(Thread /\ UNCHANGED options)

---------------------------------------------------------------------------
(* Properties.                                                              *)

(* docs/live-test-flow.md:182, of the order session: "FIX `MsgSeqNum(34)`   *)
(* 递增不重复" - the numbers written increase and none is written twice.     *)
SeqNumsIncrease == \A k \in 1..(Len(written) - 1) : written[k] < written[k + 1]

(* While no heartbeat is interleaved, Logon, orders and cancels carry       *)
(* consecutive numbers from 1, across every batch a CancelAll expands into. *)
OrdersNumberedOnFromLogon ==
  answered = 0 => \A k \in 1..Len(written) : written[k] = k

(* Every exec id applied by the engine has been forwarded to the strategy,  *)
(* exactly once and its fill right after its order event, unless the thread *)
(* has ended with an error because the strategy is gone.                    *)
AppliedIsForwarded ==
  pipeline =>
    LET orders == {k \in 1..Len(toStrategy) : toStrategy[k].type = "Order"} IN
    /\ \A j, k \in orders : toStrategy[j].exec = toStrategy[k].exec => j = k
    /\ \A k \in 1..Len(toStrategy) : toStrategy[k].type = "Fill" =>
         k - 1 \in orders /\ toStrategy[k - 1].exec = toStrategy[k].exec
    /\ pc # "err" => {toStrategy[k].exec : k \in orders} = seenExecIds

(* The flag is looked at between two waits for the exchange only, yet once  *)
(* it is set the thread ends: neither the commands and frames still on their*)
(* way nor a silent or closed connection keeps the loop away from the test. *)
(* (A strategy that sent commands for ever could: the drain has no limit.)  *)
ShutdownStopsThread == shutdown ~> Stopped

(* A command put into the queue is taken out of it, or the thread ends: no  *)
(* wait for the exchange holds it back for ever.                            *)
CommandsAreTaken == queue # <<>> ~> (queue = <<>> \/ Stopped)

(* --once without a strategy: once the Logon's answer or a fresh report     *)
(* has been handled, whatever else was read with it, the thread does not    *)
(* wait for the exchange again.                                             *)
OnceNeverWaitsAgain ==
  once /\ (ready \/ seenExecIds # {}) => pc \notin {"drain", "read"}
=============================================================================
