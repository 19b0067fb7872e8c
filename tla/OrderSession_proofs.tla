------------------------- MODULE OrderSession_proofs -------------------------
(***************************************************************************)
(* Theorems about the order thread, for any number of commands and frames,  *)
(* any engine and any failing write: how it numbers, what it forwards, and  *)
(* that --once does not wait.                                               *)
(***************************************************************************)
EXTENDS OrderSession, OrderEngine_proofs, SequenceTheorems

StrategyEvents == [type : {"Order"}, exec : ExecIds, status : Statuses]
                    \cup [type : {"Fill"}, exec : ExecIds]

SessionTypeOK ==
  /\ EngineTypeOK
  /\ queue \in Seq(Commands)
  /\ inbound \in Seq(Frames) /\ pending \in Seq(Frames)
  /\ senderSeq \in Nat /\ answered \in Nat
  /\ written \in Seq(Nat)
  /\ toStrategy \in Seq(StrategyEvents)

---------------------------------------------------------------------------
(* Commands and reports, as the engine sees them.                           *)

LEMMA CommandIsEngineStep ==
  ASSUME NEW c \in Commands, OnCommand(c)
  PROVE  /\ [EngineNext]_engineVars
         /\ \/ UNCHANGED engineVars
            \/ \E s \in Symbols : \/ NewOrder(s) \/ CancelAll(s)
                                  \/ \E i \in ClientIds : CancelOrder(s, i)
<1>1. c.symbol \in Symbols
  BY DEF Commands
<1>2. c.kind = "Cancel" => c.target \in ClientIds
  BY DEF Commands
<1>3. QED BY <1>1, <1>2 DEF OnCommand, EngineNext

(* What on_command hands out is numbered on from next_seq_num               *)
LEMMA CommandNumbers ==
  ASSUME EngineTypeOK, NEW c \in Commands, OnCommand(c)
  PROVE  \E n \in Nat :
           /\ Len(wire') = Len(wire) + n /\ nextSeqNum' = nextSeqNum + n
           /\ \A k \in 1..n : wire'[Len(wire) + k].seq = nextSeqNum + k - 1
<1>0. wire \in Seq(Messages) /\ Len(wire) \in Nat /\ nextSeqNum \in Nat
  BY DEF EngineTypeOK
<1>1. CASE UNCHANGED engineVars
  <2>1. Len(wire') = Len(wire) + 0 /\ nextSeqNum' = nextSeqNum + 0
    BY <1>0, <1>1 DEF engineVars
  <2>2. QED BY <2>1
<1>2. ASSUME NEW s \in Symbols, NewOrder(s)
      PROVE  /\ Len(wire') = Len(wire) + 1 /\ nextSeqNum' = nextSeqNum + 1
             /\ wire'[Len(wire) + 1].seq = nextSeqNum
  <2>1. NewMsg(s) \in Messages /\ NewMsg(s).seq = nextSeqNum
    BY <1>0, <1>2 DEF NewMsg, Messages, NewOrder
  <2>2. wire' = Append(wire, NewMsg(s)) /\ nextSeqNum' = nextSeqNum + 1
    BY <1>2 DEF NewOrder
  <2>3. QED BY <1>0, <2>1, <2>2
<1>3. ASSUME NEW s \in Symbols, CancelAll(s) \/ \E i \in ClientIds : CancelOrder(s, i)
      PROVE  \E n \in Nat :
               /\ Len(wire') = Len(wire) + n /\ nextSeqNum' = nextSeqNum + n
               /\ \A k \in 1..n : wire'[Len(wire) + k].seq = nextSeqNum + k - 1
  <2>1. PICK ids \in Seq(Known) : EncodeCancels(ids, s)
    BY <1>3, CancelsAreBatches
  <2>2. /\ Len(ids) \in Nat
        /\ Len(wire') = Len(wire) + Len(ids) /\ nextSeqNum' = nextSeqNum + Len(ids)
        /\ \A k \in 1..Len(ids) : wire'[Len(wire) + k] = CancelMsg(k, ids[k], s)
    BY <2>1, CancelBatchOnWire
  <2>3. \A k \in 1..Len(ids) : CancelMsg(k, ids[k], s).seq = nextSeqNum + k - 1
    BY DEF CancelMsg
  <2>4. QED BY <2>2, <2>3
<1>4. QED
  <2>1. CASE \E s \in Symbols : NewOrder(s)
    <3>1. /\ Len(wire') = Len(wire) + 1 /\ nextSeqNum' = nextSeqNum + 1
          /\ wire'[Len(wire) + 1].seq = nextSeqNum
      BY <1>2, <2>1
    <3>2. \A k \in 1..1 : wire'[Len(wire) + k].seq = nextSeqNum + k - 1
      BY <1>0, <3>1
    <3>3. QED BY <3>1, <3>2
  <2>2. QED BY <1>1, <1>3, <2>1, CommandIsEngineStep

(* What DrainCommand has to write                                           *)
LEMMA NumbersToWrite ==
  ASSUME EngineTypeOK, NEW c \in Commands, OnCommand(c)
  PROVE  /\ NewNumbers \in Seq(Nat)
         /\ nextSeqNum' = nextSeqNum + Len(NewNumbers)
         /\ \A k \in 1..Len(NewNumbers) : NewNumbers[k] = nextSeqNum + k - 1
<1>1. PICK n \in Nat :
        /\ Len(wire') = Len(wire) + n /\ nextSeqNum' = nextSeqNum + n
        /\ \A k \in 1..n : wire'[Len(wire) + k].seq = nextSeqNum + k - 1
  BY CommandNumbers
<1>2. Len(wire) \in Nat /\ nextSeqNum \in Nat
  BY DEF EngineTypeOK
<1>3. Len(wire') - Len(wire) = n
  BY <1>1, <1>2
<1>4. NewNumbers = [k \in 1..n |-> wire'[Len(wire) + k].seq]
  BY <1>3 DEF NewNumbers
<1>5. ASSUME NEW k \in 1..n
      PROVE  NewNumbers[k] = nextSeqNum + k - 1 /\ NewNumbers[k] \in Nat
  <2>1. wire'[Len(wire) + k].seq = nextSeqNum + k - 1
    BY <1>1
  <2>2. NewNumbers[k] = wire'[Len(wire) + k].seq
    BY <1>4
  <2>3. nextSeqNum + k - 1 \in Nat
    BY <1>2
  <2>4. QED BY <2>1, <2>2, <2>3
<1>6. NewNumbers \in Seq(Nat) /\ Len(NewNumbers) = n
  <2>1. NewNumbers \in [1..n -> Nat]
    BY <1>4, <1>5, Zenon
  <2>2. QED BY <2>1
<1>7. QED BY <1>1, <1>5, <1>6
---------------------------------------------------------------------------
(* The thread's types.                                                      *)

LEMMA SubSeqInSeq ==
  ASSUME NEW S, NEW s \in Seq(S), NEW m \in 1..(Len(s) + 1), NEW n \in 0..Len(s)
  PROVE  SubSeq(s, m, n) \in Seq(S)
OBVIOUS

(* A report the engine applies is a step of the engine                      *)
LEMMA ReportIsEngineStep ==
  ASSUME SessionTypeOK, HandleReport
  PROVE  /\ Head(pending) \in Frames /\ Head(pending).report \in Reports
         /\ \/ OnExecutionReport(Head(pending).report)
            \/ UNCHANGED engineVars
<1>1. pending \in Seq(Frames) /\ pending # <<>> /\ Head(pending).type = "Report"
  BY DEF SessionTypeOK, HandleReport, Handling
<1>2. Head(pending) \in Frames
  BY <1>1
<1>3. Head(pending).report \in Reports
  BY <1>1, <1>2 DEF Frames
<1>4. QED BY <1>2, <1>3 DEF HandleReport, OnExecutionReport

LEMMA EventsAreEvents ==
  ASSUME NEW f \in Frames, f.report \in Reports
  PROVE  /\ Events(f) \in Seq(StrategyEvents)
         /\ \A n \in 0..(Len(Events(f)) - 1) : SubSeq(Events(f), 1, n) \in Seq(StrategyEvents)
<1>1. f.report.exec \in ExecIds /\ f.report.status \in Statuses
  BY DEF Reports
<1>2. Events(f) \in Seq(StrategyEvents) /\ Len(Events(f)) \in 1..2
  <2> DEFINE order == [type |-> "Order", exec |-> f.report.exec, status |-> f.report.status]
             fill  == [type |-> "Fill", exec |-> f.report.exec]
  <2>1. order \in StrategyEvents /\ fill \in StrategyEvents
    BY <1>1 DEF StrategyEvents
  <2>2. Events(f) = IF f.fill THEN <<order, fill>> ELSE <<order>>
    BY DEF Events
  <2> HIDE DEF order, fill
  <2>3. QED BY <2>1, <2>2
<1>3. ASSUME NEW n \in 0..(Len(Events(f)) - 1)
      PROVE  SubSeq(Events(f), 1, n) \in Seq(StrategyEvents)
  <2>1. 1 \in 1..(Len(Events(f)) + 1) /\ n \in 0..Len(Events(f))
    BY <1>2
  <2>2. QED BY <1>2, <2>1, SubSeqInSeq
<1>4. QED BY <1>2, <1>3

LEMMA SessionInitType == SessionInit => SessionTypeOK
BY EngineInitType DEF SessionInit, SessionTypeOK

LEMMA SessionStepType == SessionTypeOK /\ [SessionNext]_sessionVars => SessionTypeOK'
<1> SUFFICES ASSUME SessionTypeOK, [SessionNext]_sessionVars PROVE SessionTypeOK'
  OBVIOUS
<1>0. EngineTypeOK /\ (UNCHANGED engineVars => EngineTypeOK')
  BY DEF SessionTypeOK, EngineTypeOK, engineVars, managerVars
<1>1. CASE UNCHANGED sessionVars
  BY <1>0, <1>1 DEF SessionTypeOK, sessionVars, envVars
<1>2. CASE Connect
  <2>1. EngineTypeOK'
    BY <1>2 DEF Connect, SessionTypeOK, EngineTypeOK, managerVars
  <2>2. senderSeq' \in Nat /\ written' \in Seq(Nat)
    <3>1. senderSeq' \in {senderSeq, senderSeq + 1}
          /\ (written' = written \/ written' = <<senderSeq>>)
      BY <1>2 DEF Connect
    <3>2. senderSeq \in Nat /\ written \in Seq(Nat)
      BY DEF SessionTypeOK
    <3>3. senderSeq + 1 \in Nat /\ <<senderSeq>> \in Seq(Nat)
      BY <3>2
    <3>4. QED BY <3>1, <3>2, <3>3, Zenon
  <2>3. QED BY <1>2, <2>1, <2>2 DEF Connect, SessionTypeOK, envVars
<1>3. CASE DrainCommand
  <2>1. Head(queue) \in Commands /\ queue' \in Seq(Commands) /\ OnCommand(Head(queue))
    BY <1>3 DEF DrainCommand, SessionTypeOK
  <2>2. EngineTypeOK'
    BY <1>0, <2>1, CommandIsEngineStep, EngineStepType
  <2>3. NewNumbers \in Seq(Nat)
    BY <1>0, <2>1, NumbersToWrite
  <2>4. written' \in Seq(Nat)
    <3>1. \A n \in 0..(Len(NewNumbers) - 1) : SubSeq(NewNumbers, 1, n) \in Seq(Nat)
      <4>1. \A n \in 0..(Len(NewNumbers) - 1) :
              1 \in 1..(Len(NewNumbers) + 1) /\ n \in 0..Len(NewNumbers)
        BY <2>3
      <4>2. QED BY <2>3, <4>1, SubSeqInSeq
    <3>2. \A t \in Seq(Nat) : written \o t \in Seq(Nat)
      BY DEF SessionTypeOK
    <3>3. QED BY <1>3, <2>3, <3>1, <3>2 DEF DrainCommand
  <2>5. QED BY <1>3, <2>1, <2>2, <2>4 DEF DrainCommand, SessionTypeOK
<1>4. CASE ReadBytes
  <2>1. PICK n \in 1..Len(inbound) :
          /\ pending' = pending \o SubSeq(inbound, 1, n)
          /\ inbound' = SubSeq(inbound, n + 1, Len(inbound))
    BY <1>4 DEF ReadBytes
  <2>2. inbound \in Seq(Frames) /\ pending \in Seq(Frames) /\ Len(inbound) \in Nat
    BY DEF SessionTypeOK
  <2>3. SubSeq(inbound, 1, n) \in Seq(Frames)
        /\ SubSeq(inbound, n + 1, Len(inbound)) \in Seq(Frames)
    <3>1. /\ 1 \in 1..(Len(inbound) + 1) /\ n \in 0..Len(inbound)
          /\ n + 1 \in 1..(Len(inbound) + 1) /\ Len(inbound) \in 0..Len(inbound)
      BY <2>2
    <3>2. QED BY <2>2, <3>1, SubSeqInSeq
  <2>4. pending' \in Seq(Frames) /\ inbound' \in Seq(Frames)
    BY <2>1, <2>2, <2>3
  <2>5. QED BY <1>0, <1>4, <2>4 DEF ReadBytes, SessionTypeOK
<1>5. CASE HandleReport
  <2>1. /\ Head(pending) \in Frames /\ Head(pending).report \in Reports
        /\ \/ OnExecutionReport(Head(pending).report)
           \/ UNCHANGED engineVars
    BY <1>5, ReportIsEngineStep
  <2>2. EngineTypeOK'
    BY <1>0, <2>1, EngineStepType DEF EngineNext
  <2>3. toStrategy' \in Seq(StrategyEvents)
    <3>1. \A t \in Seq(StrategyEvents) : toStrategy \o t \in Seq(StrategyEvents)
      BY DEF SessionTypeOK
    <3>2. \/ UNCHANGED toStrategy
          \/ toStrategy' = toStrategy \o Events(Head(pending))
          \/ \E n \in 0..(Len(Events(Head(pending))) - 1) :
               toStrategy' = toStrategy \o SubSeq(Events(Head(pending)), 1, n)
      BY <1>5 DEF HandleReport
    <3>3. QED BY <2>1, <3>1, <3>2, EventsAreEvents DEF SessionTypeOK
  <2>4. pending' \in Seq(Frames)
    BY <1>5 DEF HandleReport, Handling, SessionTypeOK
  <2>5. QED BY <1>5, <2>2, <2>3, <2>4 DEF HandleReport, SessionTypeOK, envVars
<1>6. CASE HandleLogon \/ HandleTestRequest \/ HandleOther
  <2>1. pending # <<>> /\ pending' = Tail(pending) /\ UNCHANGED engineVars
    BY <1>6 DEF HandleLogon, HandleTestRequest, HandleOther, Handling
  <2>2. pending' \in Seq(Frames)
    BY <2>1 DEF SessionTypeOK
  <2>3. senderSeq' \in Nat /\ answered' \in Nat /\ written' \in Seq(Nat)
    <3>1. /\ senderSeq' \in {senderSeq, senderSeq + 1}
          /\ answered' \in {answered, answered + 1}
          /\ (written' = written \/ written' = Append(written, senderSeq))
      BY <1>6 DEF HandleLogon, HandleTestRequest, HandleOther
    <3>2. senderSeq \in Nat /\ answered \in Nat /\ written \in Seq(Nat)
      BY DEF SessionTypeOK
    <3>3. senderSeq + 1 \in Nat /\ answered + 1 \in Nat /\ Append(written, senderSeq) \in Seq(Nat)
      BY <3>2
    <3>4. QED BY <3>1, <3>2, <3>3, Zenon
  <2>4. QED
    BY <1>0, <1>6, <2>1, <2>2, <2>3
       DEF HandleLogon, HandleTestRequest, HandleOther, SessionTypeOK, envVars
<1>7. CASE Check \/ DrainEnd \/ ReadNothing \/ ReadFails \/ HandleBad \/ HandledAll
  BY <1>0, <1>7 DEF Check, DrainEnd, ReadNothing, ReadFails, HandleBad, HandledAll,
                    SessionTypeOK, envVars
<1>8. CASE SendCommand
  <2>1. queue' \in Seq(Commands)
    BY <1>8 DEF SendCommand, SessionTypeOK
  <2>2. QED BY <1>0, <1>8, <2>1 DEF SendCommand, SessionTypeOK, threadVars
<1>9. CASE ExchangeSends
  <2>1. inbound' \in Seq(Frames)
    BY <1>9 DEF ExchangeSends, SessionTypeOK
  <2>2. QED BY <1>0, <1>9, <2>1 DEF ExchangeSends, SessionTypeOK, threadVars
<1>10. CASE StrategyEnds \/ Shutdown \/ ExchangeCloses
  BY <1>0, <1>10 DEF StrategyEnds, Shutdown, ExchangeCloses, SessionTypeOK, threadVars, envVars
<1>11. QED
  BY <1>1, <1>2, <1>3, <1>4, <1>5, <1>6, <1>7, <1>8, <1>9, <1>10 DEF SessionNext, Thread

THEOREM SessionTypeCorrect == SessionSpec => []SessionTypeOK
BY SessionInitType, SessionStepType, PTL DEF SessionSpec

---------------------------------------------------------------------------
(* Numbering.                                                               *)

FromOne(s) == \A k \in 1..Len(s) : s[k] = k

LEMMA NumberedOn ==
  ASSUME NEW s \in Seq(Nat), FromOne(s), NEW t \in Seq(Nat),
         \A k \in 1..Len(t) : t[k] = Len(s) + k
  PROVE  FromOne(s \o t) /\ Len(s \o t) = Len(s) + Len(t)
<1>1. Len(s) \in Nat /\ Len(t) \in Nat /\ Len(s \o t) = Len(s) + Len(t)
  OBVIOUS
<1>2. ASSUME NEW k \in 1..Len(s \o t) PROVE (s \o t)[k] = k
  <2>1. CASE k <= Len(s)
    BY <1>1, <2>1 DEF FromOne
  <2>2. CASE k > Len(s)
    <3>1. k - Len(s) \in 1..Len(t) /\ (s \o t)[k] = t[k - Len(s)]
      BY <1>1, <2>2
    <3>2. t[k - Len(s)] = Len(s) + (k - Len(s))
      BY <3>1
    <3>3. QED BY <1>1, <3>1, <3>2
  <2>3. QED BY <1>1, <2>1, <2>2
<1>3. QED BY <1>1, <1>2 DEF FromOne

(* Until a heartbeat takes a number of its own the engine's counter is the  *)
(* one after the last number written                                        *)
NumbersInv ==
  /\ pc = "connect" => written = <<>> /\ senderSeq = 1
  /\ answered = 0 => /\ FromOne(written)
                     /\ pc \notin {"connect", "err"} => nextSeqNum = Len(written) + 1

LEMMA NumbersStep ==
  SessionTypeOK /\ NumbersInv /\ [SessionNext]_sessionVars => NumbersInv'
<1> SUFFICES ASSUME SessionTypeOK, NumbersInv, [SessionNext]_sessionVars
             PROVE  NumbersInv'
  OBVIOUS
<1>0. /\ EngineTypeOK /\ written \in Seq(Nat) /\ Len(written) \in Nat
      /\ queue \in Seq(Commands) /\ nextSeqNum \in Nat /\ answered \in Nat
  BY DEF SessionTypeOK, EngineTypeOK
<1>1. CASE Connect
  <2>1. CASE pc' = "err" /\ UNCHANGED written
    BY <1>1, <2>1 DEF Connect, NumbersInv
  <2>2. CASE written' = <<senderSeq>> /\ nextSeqNum' = senderSeq + 1
    <3>1. written' = <<1>> /\ nextSeqNum' = 2 /\ pc' # "connect"
      BY <1>1, <2>2 DEF Connect, NumbersInv, Goto
    <3>2. FromOne(<<1>>) /\ Len(<<1>>) = 1
      BY DEF FromOne
    <3>3. FromOne(written)' /\ Len(written') = 1
      BY <3>1, <3>2 DEF FromOne
    <3>4. QED BY <3>1, <3>3 DEF NumbersInv
  <2>3. QED BY <1>1, <2>1, <2>2 DEF Connect, Goto
<1>2. CASE DrainCommand
  <2>1. Head(queue) \in Commands /\ OnCommand(Head(queue))
    BY <1>0, <1>2 DEF DrainCommand
  <2>2. /\ NewNumbers \in Seq(Nat)
        /\ nextSeqNum' = nextSeqNum + Len(NewNumbers)
        /\ \A k \in 1..Len(NewNumbers) : NewNumbers[k] = nextSeqNum + k - 1
    BY <1>0, <2>1, NumbersToWrite
  <2>3. SUFFICES ASSUME answered = 0
                 PROVE  /\ FromOne(written')
                        /\ pc' # "err" => nextSeqNum' = Len(written') + 1
    BY <1>2 DEF DrainCommand, Goto, NumbersInv, FromOne
  <2>4. FromOne(written) /\ nextSeqNum = Len(written) + 1
    BY <1>2, <2>3 DEF DrainCommand, NumbersInv
  <2>5. \A k \in 1..Len(NewNumbers) : NewNumbers[k] = Len(written) + k
    BY <1>0, <2>2, <2>4
  <2>6. CASE written' = written \o NewNumbers
    <3>1. FromOne(written \o NewNumbers)
          /\ Len(written \o NewNumbers) = Len(written) + Len(NewNumbers)
      BY <1>0, <2>2, <2>4, <2>5, NumberedOn
    <3>2. Len(NewNumbers) \in Nat
      BY <2>2
    <3>3. QED BY <1>0, <2>2, <2>4, <2>6, <3>1, <3>2
  <2>7. CASE pc' = "err" /\ \E n \in 0..(Len(NewNumbers) - 1) :
                              written' = written \o SubSeq(NewNumbers, 1, n)
    <3>1. PICK n \in 0..(Len(NewNumbers) - 1) :
                 written' = written \o SubSeq(NewNumbers, 1, n)
      BY <2>7
    <3> DEFINE part == SubSeq(NewNumbers, 1, n)
    <3>2. 1 \in 1..(Len(NewNumbers) + 1) /\ n \in 0..Len(NewNumbers)
      BY <2>2
    <3>3. /\ part \in Seq(Nat) /\ Len(part) = n
          /\ \A k \in 1..n : part[k] = NewNumbers[k] /\ k \in 1..Len(NewNumbers)
      BY <2>2, <3>2
    <3>4. \A k \in 1..Len(part) : part[k] = Len(written) + k
      BY <2>5, <3>3
    <3> HIDE DEF part
    <3>5. FromOne(written \o part)
      BY <1>0, <2>4, <3>3, <3>4, NumberedOn
    <3>6. QED BY <2>7, <3>1, <3>5 DEF part
  <2>8. QED BY <1>2, <2>6, <2>7 DEF DrainCommand, Goto
<1>3. CASE HandleTestRequest
  <2>1. pc = "handle" /\ UNCHANGED nextSeqNum
        /\ \/ answered' = answered + 1 /\ UNCHANGED pc
           \/ UNCHANGED <<written, answered>> /\ pc' = "err"
    BY <1>3 DEF HandleTestRequest, Handling, Goto, engineVars
  <2>2. answered' = answered + 1 => answered' # 0
    BY <1>0
  <2>3. QED BY <2>1, <2>2 DEF NumbersInv, FromOne
<1>4. ASSUME UNCHANGED <<written, answered, nextSeqNum, senderSeq>>,
             \/ pc' = pc \/ pc' = "err"
             \/ pc \notin {"connect", "err"} /\ pc' # "connect"
      PROVE  NumbersInv'
  BY <1>4 DEF NumbersInv, FromOne
<1>5. CASE HandleReport
  BY <1>4, <1>5 DEF HandleReport, ApplyOrderEvent, Goto, engineVars
<1>6. CASE \/ Check \/ DrainEnd \/ ReadBytes \/ ReadNothing \/ ReadFails
           \/ HandleLogon \/ HandleOther \/ HandleBad \/ HandledAll
  BY <1>4, <1>6 DEF Check, DrainEnd, ReadBytes, ReadNothing, ReadFails, HandleLogon,
                    HandleOther, HandleBad, HandledAll, Goto, engineVars
<1>7. CASE SendCommand \/ StrategyEnds \/ Shutdown \/ ExchangeSends \/ ExchangeCloses
  BY <1>4, <1>7 DEF SendCommand, StrategyEnds, Shutdown, ExchangeSends, ExchangeCloses,
                    threadVars, engineVars
<1>8. CASE UNCHANGED sessionVars
  BY <1>4, <1>8 DEF sessionVars, engineVars
<1>9. QED
  BY <1>1, <1>2, <1>3, <1>5, <1>6, <1>7, <1>8 DEF SessionNext, Thread

(* While no heartbeat goes between them the Logon and the orders are        *)
(* numbered 1, 2, 3, ...: a CancelAll of any size, and a batch cut off by a *)
(* failing write, skip and repeat no number.                                *)
THEOREM SessionOrdersNumbered == SessionSpec => []OrdersNumberedOnFromLogon
<1>1. SessionInit => NumbersInv
  BY DEF SessionInit, NumbersInv, FromOne
<1>2. NumbersInv => OrdersNumberedOnFromLogon
  BY DEF NumbersInv, OrdersNumberedOnFromLogon, FromOne
<1>3. QED BY <1>1, <1>2, NumbersStep, SessionTypeCorrect, PTL DEF SessionSpec

---------------------------------------------------------------------------
(* What the strategy is told.                                               *)

OrdersIn(s) == {k \in 1..Len(s) : s[k].type = "Order"}
ExecsIn(s)  == {s[k].exec : k \in OrdersIn(s)}

(* No order event twice, and each fill right after its order's              *)
Paired(s) ==
  /\ \A j, k \in OrdersIn(s) : s[j].exec = s[k].exec => j = k
  /\ \A k \in 1..Len(s) : s[k].type = "Fill" =>
       k - 1 \in OrdersIn(s) /\ s[k - 1].exec = s[k].exec

(* t is s and one event more                                                *)
OneMore(s, t) ==
  Len(t) = Len(s) + 1 /\ \A k \in 1..Len(s) : t[k] = s[k]

LEMMA OneOrderMore ==
  ASSUME NEW s \in Seq(StrategyEvents), NEW t \in Seq(StrategyEvents), OneMore(s, t),
         Paired(s), t[Len(t)].type = "Order", t[Len(t)].exec \notin ExecsIn(s)
  PROVE  Paired(t) /\ ExecsIn(t) = ExecsIn(s) \cup {t[Len(t)].exec}
<1> DEFINE n == Len(s)
<1>1. n \in Nat /\ Len(t) = n + 1 /\ \A k \in 1..n : t[k] = s[k]
  BY DEF OneMore
<1>2. OrdersIn(t) = OrdersIn(s) \cup {n + 1}
  BY <1>1 DEF OrdersIn
<1>3. OrdersIn(s) \subseteq 1..n /\ \A k \in OrdersIn(s) : t[k] = s[k]
  BY <1>1 DEF OrdersIn
<1>4. \A k \in OrdersIn(s) : t[k].exec # t[n + 1].exec
  BY <1>1, <1>3 DEF ExecsIn
<1>5. \A j, k \in OrdersIn(t) : t[j].exec = t[k].exec => j = k
  BY <1>2, <1>3, <1>4 DEF Paired
<1>6. ASSUME NEW k \in 1..Len(t), t[k].type = "Fill"
      PROVE  k - 1 \in OrdersIn(t) /\ t[k - 1].exec = t[k].exec
  <2>1. k \in 1..n /\ s[k].type = "Fill"
    BY <1>1, <1>6
  <2>2. k - 1 \in OrdersIn(s) /\ s[k - 1].exec = s[k].exec
    BY <2>1 DEF Paired
  <2>3. QED BY <1>1, <1>2, <1>3, <2>1, <2>2
<1>7. ExecsIn(t) = ExecsIn(s) \cup {t[n + 1].exec}
  BY <1>2, <1>3 DEF ExecsIn
<1>8. QED BY <1>1, <1>5, <1>6, <1>7 DEF Paired

LEMMA OneFillMore ==
  ASSUME NEW s \in Seq(StrategyEvents), NEW t \in Seq(StrategyEvents), OneMore(s, t),
         Paired(s), Len(s) \in OrdersIn(s),
         t[Len(t)].type = "Fill", t[Len(t)].exec = s[Len(s)].exec
  PROVE  Paired(t) /\ ExecsIn(t) = ExecsIn(s)
<1> DEFINE n == Len(s)
<1>1. n \in Nat /\ Len(t) = n + 1 /\ \A k \in 1..n : t[k] = s[k]
  BY DEF OneMore
<1>2. OrdersIn(t) = OrdersIn(s)
  BY <1>1 DEF OrdersIn
<1>3. OrdersIn(s) \subseteq 1..n /\ \A k \in OrdersIn(s) : t[k] = s[k]
  BY <1>1 DEF OrdersIn
<1>4. \A j, k \in OrdersIn(t) : t[j].exec = t[k].exec => j = k
  BY <1>2, <1>3 DEF Paired
<1>5. ASSUME NEW k \in 1..Len(t), t[k].type = "Fill"
      PROVE  k - 1 \in OrdersIn(t) /\ t[k - 1].exec = t[k].exec
  <2>1. CASE k = n + 1
    <3>1. k - 1 = n
      BY <1>1, <2>1
    <3>2. QED BY <1>1, <1>2, <1>3, <2>1, <3>1
  <2>2. CASE k # n + 1
    <3>1. k \in 1..n /\ s[k].type = "Fill"
      BY <1>1, <1>5, <2>2
    <3>2. k - 1 \in OrdersIn(s) /\ s[k - 1].exec = s[k].exec
      BY <3>1 DEF Paired
    <3>3. QED BY <1>1, <1>2, <1>3, <3>1, <3>2
  <2>3. QED BY <2>1, <2>2
<1>6. ExecsIn(t) = ExecsIn(s)
  BY <1>2, <1>3 DEF ExecsIn
<1>7. QED BY <1>4, <1>5, <1>6 DEF Paired

LEMMA TwoMore ==
  ASSUME NEW S, NEW s \in Seq(S), NEW p \in Seq(S), Len(p) = 2
  PROVE  /\ Len(s \o p) = Len(s) + 2
         /\ (s \o p)[Len(s) + 1] = p[1] /\ (s \o p)[Len(s) + 2] = p[2]
         /\ \A k \in 1..Len(s) : (s \o p)[k] = s[k]
<1>1. /\ Len(s \o p) = Len(s) + Len(p)
      /\ \A i \in 1..(Len(s) + Len(p)) :
           (s \o p)[i] = IF i <= Len(s) THEN s[i] ELSE p[i - Len(s)]
  BY ConcatProperties, Zenon
<1>2. Len(s) \in Nat
  OBVIOUS
<1> DEFINE t == s \o p
<1> HIDE DEF t
<1>3. /\ Len(t) = Len(s) + 2
      /\ t[Len(s) + 1] = p[1] /\ t[Len(s) + 2] = p[2]
      /\ \A k \in 1..Len(s) : t[k] = s[k]
  <2>1. /\ Len(t) = Len(s) + Len(p)
        /\ \A i \in 1..(Len(s) + Len(p)) :
             t[i] = IF i <= Len(s) THEN s[i] ELSE p[i - Len(s)]
    BY <1>1, Zenon DEF t
  <2>2. Len(s) + 2 - Len(s) = 2 /\ Len(s) + 1 - Len(s) = 1
    BY <1>2
  <2>3. QED BY <1>2, <2>1, <2>2
<1>4. QED BY <1>3, Zenon DEF t

(* The events of a report, or a part of them, after what was sent before    *)
LEMMA EventsSent ==
  ASSUME NEW s \in Seq(StrategyEvents), Paired(s),
         NEW f \in Frames, f.report \in Reports, f.report.exec \notin ExecsIn(s),
         NEW t \in Seq(StrategyEvents)
  PROVE  /\ t = s \o Events(f) =>
              Paired(t) /\ ExecsIn(t) = ExecsIn(s) \cup {f.report.exec}
         /\ \A n \in 0..(Len(Events(f)) - 1) :
              t = s \o SubSeq(Events(f), 1, n) =>
                Paired(t) /\ ExecsIn(t) \subseteq ExecsIn(s) \cup {f.report.exec}
<1> DEFINE order == [type |-> "Order", exec |-> f.report.exec, status |-> f.report.status]
           fill  == [type |-> "Fill", exec |-> f.report.exec]
<1>1. /\ order \in StrategyEvents /\ order.type = "Order" /\ order.exec = f.report.exec
      /\ fill \in StrategyEvents /\ fill.type = "Fill" /\ fill.exec = f.report.exec
  BY DEF Reports, StrategyEvents
<1>2. Events(f) = IF f.fill THEN <<order, fill>> ELSE <<order>>
  BY DEF Events
<1> HIDE DEF order, fill
<1>3. ASSUME NEW u \in Seq(StrategyEvents), OneMore(s, u), u[Len(u)] = order
      PROVE  Paired(u) /\ ExecsIn(u) = ExecsIn(s) \cup {f.report.exec} /\ Len(u) \in OrdersIn(u)
  <2>1. Paired(u) /\ ExecsIn(u) = ExecsIn(s) \cup {f.report.exec}
    BY <1>1, <1>3, OneOrderMore
  <2>2. Len(u) \in OrdersIn(u)
    BY <1>1, <1>3 DEF OrdersIn, OneMore
  <2>3. QED BY <2>1, <2>2
<1>4. /\ Append(s, order) \in Seq(StrategyEvents) /\ OneMore(s, Append(s, order))
      /\ Append(s, order)[Len(Append(s, order))] = order
  BY <1>1 DEF OneMore
<1>5. ASSUME t = s \o Events(f)
      PROVE  Paired(t) /\ ExecsIn(t) = ExecsIn(s) \cup {f.report.exec}
  <2>1. CASE ~ f.fill
    <3>1. t = s \o <<order>>
      BY <1>2, <1>5, <2>1
    <3>2. OneMore(s, t) /\ t[Len(t)] = order
      BY <1>1, <3>1 DEF OneMore
    <3>3. QED BY <1>3, <3>2
  <2>2. CASE f.fill
    <3> DEFINE u == Append(s, order)
    <3>1. t = s \o <<order, fill>>
      BY <1>2, <1>5, <2>2
    <3>2. OneMore(u, t) /\ t[Len(t)] = fill
      <4> DEFINE pair == <<order, fill>>
      <4>1. pair \in Seq(StrategyEvents) /\ Len(pair) = 2 /\ pair[1] = order /\ pair[2] = fill
        BY <1>1
      <4>2. t = s \o pair
        BY <3>1
      <4> HIDE DEF pair
      <4>3. /\ Len(s) \in Nat
            /\ Len(u) = Len(s) + 1 /\ u[Len(s) + 1] = order
            /\ \A k \in 1..Len(s) : u[k] = s[k]
        BY <1>4 DEF OneMore
      <4> HIDE DEF u
      <4>4. /\ Len(t) = Len(s) + 2
            /\ t[Len(s) + 1] = order /\ t[Len(s) + 2] = fill
            /\ \A k \in 1..Len(s) : t[k] = s[k]
        BY <4>1, <4>2, TwoMore
      <4>5. \A k \in 1..Len(u) : t[k] = u[k]
        BY <4>3, <4>4
      <4>6. QED BY <4>3, <4>4, <4>5 DEF OneMore
    <3>3. Paired(u) /\ ExecsIn(u) = ExecsIn(s) \cup {f.report.exec} /\ Len(u) \in OrdersIn(u)
      BY <1>3, <1>4
    <3>4. u \in Seq(StrategyEvents) /\ t[Len(t)].type = "Fill" /\ t[Len(t)].exec = u[Len(u)].exec
      BY <1>1, <1>4, <3>2
    <3> HIDE DEF u
    <3>5. QED BY <3>2, <3>3, <3>4, OneFillMore
  <2>3. QED BY <2>1, <2>2
<1>6. ASSUME NEW n \in 0..(Len(Events(f)) - 1), t = s \o SubSeq(Events(f), 1, n)
      PROVE  Paired(t) /\ ExecsIn(t) \subseteq ExecsIn(s) \cup {f.report.exec}
  <2>1. n = 0 \/ n = 1
    BY <1>2
  <2>2. CASE n = 0
    <3>1. t = s
      BY <1>2, <1>6, <2>2
    <3>2. QED BY <3>1
  <2>3. CASE n = 1
    <3>1. OneMore(s, t) /\ t[Len(t)] = order
      BY <1>1, <1>2, <1>6, <2>3 DEF OneMore
    <3>2. QED BY <1>3, <3>1
  <2>4. QED BY <2>1, <2>2, <2>3
<1>7. QED BY <1>5, <1>6

ForwardInv ==
  pipeline => /\ Paired(toStrategy)
              /\ ExecsIn(toStrategy) \subseteq seenExecIds
              /\ pc # "err" => ExecsIn(toStrategy) = seenExecIds

LEMMA ForwardStep ==
  SessionTypeOK /\ ForwardInv /\ [SessionNext]_sessionVars => ForwardInv'
<1> SUFFICES ASSUME SessionTypeOK, ForwardInv, [SessionNext]_sessionVars
             PROVE  ForwardInv'
  OBVIOUS
<1>0. UNCHANGED pipeline /\ SessionTypeOK'
  BY SessionStepType DEF SessionNext, sessionVars, options
<1>1. ASSUME UNCHANGED <<toStrategy, seenExecIds>>, pc' = "err" \/ pc # "err"
      PROVE  ForwardInv'
  BY <1>0, <1>1 DEF ForwardInv, Paired, ExecsIn, OrdersIn
<1>2. CASE DrainCommand
  <2>1. UNCHANGED seenExecIds
    BY <1>2 DEF DrainCommand, OnCommand, NewOrder, CancelOrder, CancelAll, EncodeCancels,
                engineVars, managerVars
  <2>2. QED BY <1>1, <1>2, <2>1 DEF DrainCommand
<1>3. CASE HandleReport
  <2> DEFINE f == Head(pending)
  <2>1. pc = "handle" /\ f \in Frames /\ f.report \in Reports
    BY <1>3, ReportIsEngineStep DEF HandleReport, Handling
  <2>2. CASE UNCHANGED <<seenExecIds, toStrategy>>
    BY <1>1, <2>1, <2>2
  <2>3. CASE FreshReport(f.report) /\ seenExecIds' = seenExecIds \cup {f.report.exec}
    <3>1. SUFFICES ASSUME pipeline PROVE ForwardInv'
      BY <1>0 DEF ForwardInv
    <3>2. /\ toStrategy \in Seq(StrategyEvents) /\ toStrategy' \in Seq(StrategyEvents)
          /\ Paired(toStrategy) /\ f.report.exec \notin ExecsIn(toStrategy)
          /\ ExecsIn(toStrategy) = seenExecIds
      BY <1>0, <2>1, <2>3, <3>1 DEF SessionTypeOK, ForwardInv, FreshReport
    <3>3. \/ toStrategy' = toStrategy \o Events(f)
          \/ /\ pc' = "err"
             /\ \E n \in 0..(Len(Events(f)) - 1) :
                  toStrategy' = toStrategy \o SubSeq(Events(f), 1, n)
      BY <1>3, <2>3, <3>1 DEF HandleReport, FreshReport, Goto
    <3> HIDE DEF f
    <3>4. CASE toStrategy' = toStrategy \o Events(f)
      <4>1. Paired(toStrategy') /\ ExecsIn(toStrategy') = ExecsIn(toStrategy) \cup {f.report.exec}
        BY <2>1, <3>2, <3>4, EventsSent
      <4>2. QED BY <2>3, <3>2, <4>1 DEF ForwardInv, Paired, ExecsIn, OrdersIn
    <3>5. CASE pc' = "err" /\ \E n \in 0..(Len(Events(f)) - 1) :
                                toStrategy' = toStrategy \o SubSeq(Events(f), 1, n)
      <4>1. /\ Paired(toStrategy')
            /\ ExecsIn(toStrategy') \subseteq ExecsIn(toStrategy) \cup {f.report.exec}
        BY <2>1, <3>2, <3>5, EventsSent
      <4>2. QED BY <2>3, <3>2, <3>5, <4>1 DEF ForwardInv, Paired, ExecsIn, OrdersIn
    <3>6. QED BY <3>3, <3>4, <3>5
  <2>4. QED BY <1>3, <2>2, <2>3 DEF HandleReport, ApplyOrderEvent, engineVars, managerVars
<1>4. CASE Connect
  BY <1>1, <1>4 DEF Connect, managerVars
<1>5. CASE \/ Check \/ DrainEnd \/ ReadBytes \/ ReadNothing \/ ReadFails \/ HandleLogon
           \/ HandleTestRequest \/ HandleOther \/ HandleBad \/ HandledAll
  BY <1>1, <1>5 DEF Check, DrainEnd, ReadBytes, ReadNothing, ReadFails, HandleLogon,
                    HandleTestRequest, HandleOther, HandleBad, HandledAll, Handling,
                    engineVars, managerVars
<1>6. CASE SendCommand \/ StrategyEnds \/ Shutdown \/ ExchangeSends \/ ExchangeCloses
  <2>1. pc # "err" \/ pc' = "err"
    BY <1>6 DEF SendCommand, StrategyEnds, Shutdown, ExchangeSends, ExchangeCloses, threadVars
  <2>2. QED
    BY <1>1, <1>6, <2>1 DEF SendCommand, StrategyEnds, Shutdown, ExchangeSends, ExchangeCloses,
                       threadVars, engineVars, managerVars
<1>7. CASE UNCHANGED sessionVars
  <2>1. pc # "err" \/ pc' = "err"
    BY <1>7 DEF sessionVars
  <2>2. QED BY <1>1, <1>7, <2>1 DEF sessionVars, engineVars, managerVars
<1>8. QED
  BY <1>2, <1>3, <1>4, <1>5, <1>6, <1>7 DEF SessionNext, Thread

(* Every exec id the engine applied was told to the strategy, once, its fill*)
(* right after its order event: duplicate reports and a report the send of  *)
(* which fails half way included.                                           *)
THEOREM SessionAppliedIsForwarded == SessionSpec => []AppliedIsForwarded
<1>1. SessionInit => ForwardInv
  BY DEF SessionInit, EngineInit, ForwardInv, Paired, ExecsIn, OrdersIn
<1>2. ForwardInv => AppliedIsForwarded
  BY DEF ForwardInv, AppliedIsForwarded, Paired, ExecsIn, OrdersIn
<1>3. QED BY <1>1, <1>2, ForwardStep, SessionTypeCorrect, PTL DEF SessionSpec

---------------------------------------------------------------------------
(* --once.                                                                  *)

OnceInv ==
  /\ once \in BOOLEAN /\ shutdown \in BOOLEAN
  /\ once => ~ pipeline
  /\ pc = "drain" => pipeline
  /\ once /\ (ready \/ seenExecIds # {}) => shutdown /\ pc # "read"

LEMMA OnceStep == OnceInv /\ [SessionNext]_sessionVars => OnceInv'
<1> SUFFICES ASSUME OnceInv, [SessionNext]_sessionVars PROVE OnceInv'
  OBVIOUS
<1>1. CASE UNCHANGED sessionVars
  BY <1>1 DEF OnceInv, sessionVars, options, engineVars, managerVars
<1>2. ASSUME SessionNext PROVE OnceInv'
  <2>0. UNCHANGED <<pipeline, once>>
    BY <1>2 DEF SessionNext, options
  <2>1. CASE Connect
    BY <2>0, <2>1 DEF Connect, OnceInv, Goto, managerVars
  <2>2. CASE Check
    BY <2>0, <2>2 DEF Check, OnceInv, Goto, engineVars, managerVars
  <2>3. CASE DrainCommand
    BY <2>0, <2>3 DEF DrainCommand, OnceInv, Goto
  <2>4. CASE DrainEnd
    BY <2>0, <2>4 DEF DrainEnd, OnceInv, Goto
  <2>5. CASE ReadBytes \/ ReadNothing \/ ReadFails
    BY <2>0, <2>5 DEF ReadBytes, ReadNothing, ReadFails, OnceInv, Goto, engineVars, managerVars
  <2>6. CASE HandleTestRequest \/ HandleOther \/ HandleBad \/ HandledAll
    BY <2>0, <2>6 DEF HandleTestRequest, HandleOther, HandleBad, HandledAll,
                      Handling, OnceInv, Goto, engineVars, managerVars
  <2>7. CASE HandleLogon \/ HandleReport
    <3>1. pc = "handle" /\ pc' \in {"handle", "err"}
      BY <2>7 DEF HandleLogon, HandleReport, Handling, Goto
    <3>2. \/ shutdown' = (shutdown \/ once)
          \/ UNCHANGED <<ready, seenExecIds, shutdown>>
      BY <2>7 DEF HandleLogon, HandleReport, engineVars, managerVars
    <3>3. shutdown' \in BOOLEAN /\ (once /\ (ready' \/ seenExecIds' # {}) => shutdown')
      <4>1. CASE shutdown' = (shutdown \/ once)
        BY <4>1, Zenon DEF OnceInv
      <4>2. CASE UNCHANGED <<ready, seenExecIds, shutdown>>
        BY <4>2 DEF OnceInv
      <4>3. QED BY <3>2, <4>1, <4>2
    <3>4. QED BY <2>0, <3>1, <3>3 DEF OnceInv
  <2>8. CASE SendCommand \/ StrategyEnds \/ Shutdown \/ ExchangeSends \/ ExchangeCloses
    <3>1. UNCHANGED <<pc, ready, seenExecIds>>
      BY <2>8 DEF SendCommand, StrategyEnds, Shutdown, ExchangeSends, ExchangeCloses,
                  threadVars, engineVars, managerVars
    <3>2. shutdown' = TRUE \/ shutdown' = shutdown
      BY <2>8 DEF SendCommand, StrategyEnds, Shutdown, ExchangeSends, ExchangeCloses
    <3>3. shutdown' \in BOOLEAN /\ (once /\ (ready \/ seenExecIds # {}) => shutdown')
      BY <3>2 DEF OnceInv
    <3>4. QED BY <2>0, <3>1, <3>3 DEF OnceInv
  <2>9. QED
    BY <1>2, <2>1, <2>2, <2>3, <2>4, <2>5, <2>6, <2>7, <2>8 DEF SessionNext, Thread
<1>3. QED BY <1>1, <1>2

(* Once --once has its answer the thread never waits for the exchange       *)
(* again: the flag is set by the frame that answers it, and between handling*)
(* frames and reading again lies the test of the flag.                      *)
THEOREM SessionOnceEnds == SessionSpec => []OnceNeverWaitsAgain
<1>1. SessionInit => OnceInv
  BY DEF SessionInit, EngineInit, OnceInv
<1>2. OnceInv => OnceNeverWaitsAgain
  BY DEF OnceInv, OnceNeverWaitsAgain
<1>3. QED BY <1>1, <1>2, OnceStep, PTL DEF SessionSpec

---------------------------------------------------------------------------
(* The engine inside the thread.                                            *)

(* Before the Logon is written the engine has the number it was made with   *)
UnconnectedInv == pc = "connect" => senderSeq = 1 /\ nextSeqNum = FirstSeqNum

(* No branch of the loop goes back to the connecting                        *)
LEMMA ConnectedForGood ==
  ASSUME SessionNext, pc' = "connect"
  PROVE  pc = "connect" /\ UNCHANGED <<senderSeq, nextSeqNum>>
<1>1. CASE Connect \/ Check \/ DrainEnd \/ ReadBytes \/ ReadNothing \/ ReadFails
  BY <1>1 DEF Connect, Check, DrainEnd, ReadBytes, ReadNothing, ReadFails, Goto
<1>2. CASE DrainCommand
  BY <1>2 DEF DrainCommand, Goto
<1>3. CASE HandleLogon \/ HandleTestRequest \/ HandleOther \/ HandleBad \/ HandledAll
  BY <1>3 DEF HandleLogon, HandleTestRequest, HandleOther, HandleBad, HandledAll,
              Handling, Goto
<1>4. CASE HandleReport
  BY <1>4 DEF HandleReport, Handling, Goto
<1>5. CASE SendCommand \/ StrategyEnds \/ Shutdown \/ ExchangeSends \/ ExchangeCloses
  BY <1>5 DEF SendCommand, StrategyEnds, Shutdown, ExchangeSends, ExchangeCloses,
              threadVars, engineVars
<1>6. QED BY <1>1, <1>2, <1>3, <1>4, <1>5 DEF SessionNext, Thread

LEMMA UnconnectedStep == UnconnectedInv /\ [SessionNext]_sessionVars => UnconnectedInv'
<1> SUFFICES ASSUME UnconnectedInv, [SessionNext]_sessionVars PROVE UnconnectedInv'
  OBVIOUS
<1>1. CASE UNCHANGED sessionVars
  BY <1>1 DEF UnconnectedInv, sessionVars, engineVars
<1>2. CASE SessionNext
  BY <1>2, ConnectedForGood DEF UnconnectedInv
<1>3. QED BY <1>1, <1>2

(* set_next_seq_num gives the engine the number it was made with, and every *)
(* other step of the thread is a call of the engine or leaves it alone      *)
LEMMA SessionStepIsEngineStep ==
  ASSUME FirstSeqNum = 2
  PROVE  SessionTypeOK /\ UnconnectedInv /\ [SessionNext]_sessionVars
           => [EngineNext]_engineVars
<1> SUFFICES ASSUME SessionTypeOK, UnconnectedInv, [SessionNext]_sessionVars
             PROVE  [EngineNext]_engineVars
  OBVIOUS
<1>1. CASE Connect
  <2>1. nextSeqNum' = nextSeqNum
    BY <1>1 DEF Connect, UnconnectedInv
  <2>2. QED BY <1>1, <2>1 DEF Connect, engineVars
<1>2. CASE DrainCommand
  <2>1. Head(queue) \in Commands /\ OnCommand(Head(queue))
    BY <1>2 DEF DrainCommand, SessionTypeOK
  <2>2. QED BY <2>1, CommandIsEngineStep
<1>3. CASE HandleReport
  BY <1>3, ReportIsEngineStep DEF EngineNext
<1>4. CASE \/ Check \/ DrainEnd \/ ReadBytes \/ ReadNothing \/ ReadFails
           \/ HandleLogon \/ HandleTestRequest \/ HandleOther \/ HandleBad \/ HandledAll
  BY <1>4 DEF Check, DrainEnd, ReadBytes, ReadNothing, ReadFails, HandleLogon,
              HandleTestRequest, HandleOther, HandleBad, HandledAll
<1>5. CASE SendCommand \/ StrategyEnds \/ Shutdown \/ ExchangeSends \/ ExchangeCloses
  BY <1>5 DEF SendCommand, StrategyEnds, Shutdown, ExchangeSends, ExchangeCloses, threadVars
<1>6. CASE UNCHANGED sessionVars
  BY <1>6 DEF sessionVars
<1>7. QED
  BY <1>1, <1>2, <1>3, <1>4, <1>5, <1>6 DEF SessionNext, Thread

(* The order thread drives the engine through on_command,                   *)
(* on_execution_report and the numbering after the Logon only, one whole    *)
(* call at a time: an engine whose first number is the Logon's, 1, plus one *)
(* is implemented by the thread, whatever fails around its calls.           *)
THEOREM SessionImplementsEngine ==
  ASSUME FirstSeqNum = 2 PROVE SessionSpec => EngineSpec
<1>1. SessionInit => EngineInit /\ UnconnectedInv
  BY DEF SessionInit, EngineInit, UnconnectedInv
<1>2. SessionTypeOK /\ UnconnectedInv /\ [SessionNext]_sessionVars
        => [EngineNext]_engineVars
  BY SessionStepIsEngineStep
<1>3. QED
  BY <1>1, <1>2, UnconnectedStep, SessionTypeCorrect, PTL DEF SessionSpec, EngineSpec

(* So what the engine promises by itself it promises in the thread: the     *)
(* limit on open orders, consecutive numbers handed out, no ClOrdID used    *)
(* twice.                                                                   *)
THEOREM SessionKeepsEngine ==
  ASSUME FirstSeqNum = 2
  PROVE  SessionSpec => [](CountWithinLimit /\ ConsecutiveSeqNums /\ FreshClientIds)
BY SessionImplementsEngine, EngineCountWithinLimit, EngineConsecutiveSeqNums,
   EngineFreshClientIds, PTL
=============================================================================
