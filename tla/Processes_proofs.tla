--------------------------- MODULE Processes_proofs ---------------------------
(***************************************************************************)
(* The processes a trading run consists of.  The live process returns       *)
(* success only when its threads ended in order, and its strategy misses no *)
(* event, for feeds of any length.  The dashboard that starts it holds every*)
(* runtime there is but those it left behind when it ended, and keeps what  *)
(* is saved, for any number of requests, keys and ends of its process.      *)
(***************************************************************************)
EXTENDS Dashboard, LiveThreads, FiniteSetTheorems, TLAPS

---------------------------------------------------------------------------
(* The threads of the live process.                                         *)

ThreadsTypeOK ==
  /\ main \in {"join market", "join strategy", "join order", "returned"}
  /\ market \in {"connect", "check", "read"} \cup Ends
  /\ strategy \in {"check", "receive", "drain", "ok", "panic"}
  /\ order \in {"connect", "check", "drain", "read"} \cup Ends
  /\ result \in {"none", "ok", "err"}
  /\ printed \in Nat /\ unread \in Nat /\ queued \in Nat /\ answers \in Nat

FlagTypeOK == shutdown \in BOOLEAN

(* What main has seen of the threads it has joined.                         *)
Joined ==
  /\ main \in {"join strategy", "join order"} => market \in {"ok", "err"} /\ shutdown
  /\ main = "join order" => strategy = "ok"
  /\ main # "returned" => result = "none"

ThreadsInv == ThreadsTypeOK /\ FlagTypeOK /\ Joined /\ SuccessIsOrderly /\ StrategyReadsAll

(* The flag is raised and never lowered.                                    *)
LEMMA FlagStep ==
  ASSUME FlagTypeOK, [ThreadsNext]_threadVars
  PROVE  FlagTypeOK' /\ (shutdown => shutdown')
<1> USE DEF FlagTypeOK
<1>1. CASE Market
  BY <1>1, Zenon DEF Market, MarketConnect, MarketCheck, MarketEvent, MarketOther, MarketFails
<1>2. CASE Strategy
  BY <1>2, Zenon DEF Strategy, StrategyUnchanged, StrategyCheck, StrategyReceive, StrategyDrain,
                     StrategyPanics
<1>3. CASE Order
  BY <1>3, Zenon DEF Order, OrderUnchanged, OrderConnect, OrderCheck, OrderDrain, OrderRead
<1>4. CASE Main
  BY <1>4, Zenon DEF Main, JoinMarket, JoinStrategy, JoinOrder
<1>5. CASE UNCHANGED threadVars
  BY <1>5, Zenon DEF threadVars
<1>6. QED BY <1>1, <1>2, <1>3, <1>4, <1>5, Zenon DEF ThreadsNext

LEMMA ThreadsStep == ThreadsInv /\ [ThreadsNext]_threadVars => ThreadsInv'
<1> SUFFICES ASSUME ThreadsInv, [ThreadsNext]_threadVars PROVE ThreadsInv'
  OBVIOUS
<1>f. FlagTypeOK' /\ (shutdown => shutdown')
  BY FlagStep DEF ThreadsInv
<1>i. ThreadsTypeOK /\ Joined /\ SuccessIsOrderly /\ StrategyReadsAll
  BY DEF ThreadsInv
<1>n. /\ printed + 1 \in Nat /\ unread + 1 \in Nat /\ answers + 1 \in Nat
      /\ unread > 0 => unread - 1 \in Nat
      /\ queued > 0 => queued - 1 \in Nat
      /\ answers > 0 => answers - 1 \in Nat
      /\ \A n \in 0..4 : queued + n \in Nat
      /\ \A n \in 0..2 : queued + n \in Nat
  <2>1. printed \in Nat /\ unread \in Nat /\ queued \in Nat /\ answers \in Nat
    BY <1>i DEF ThreadsTypeOK
  <2>2. QED BY ONLY <2>1
<1> SUFFICES ThreadsTypeOK' /\ Joined' /\ SuccessIsOrderly' /\ StrategyReadsAll'
  BY <1>f DEF ThreadsInv
<1> USE DEF ThreadsTypeOK, Joined, SuccessIsOrderly, StrategyReadsAll, Ends, Up
<1>1. CASE main # "returned" /\ Market
  <2>1. result = "none" /\ UNCHANGED <<main, strategy, order, result, queued, answers>>
        /\ market \in {"connect", "check", "read"}
    BY <1>1, <1>i DEF Market, MarketUnchanged, MarketConnect, MarketCheck, MarketEvent,
                      MarketOther, MarketFails
  <2>2. market' \in {"check", "read"} \cup Ends
    BY <1>1, <1>i DEF Market, MarketConnect, MarketCheck, MarketEvent, MarketOther, MarketFails
  <2>3. printed' \in Nat /\ unread' \in Nat
    BY <1>1, <1>i, <1>n, Zenon
    DEF Market, MarketConnect, MarketCheck, MarketEvent, MarketOther, MarketFails
  <2>4. strategy = "ok" => shutdown
    BY <1>i, <2>1
  <2>5. QED BY <1>1, <1>i, <1>f, <2>1, <2>2, <2>3, <2>4
<1>2. CASE main # "returned" /\ Strategy
  <2>1. /\ result = "none" /\ UNCHANGED <<main, market, order, result, shutdown, printed>>
        /\ strategy \in {"check", "receive", "drain"}
    BY <1>2, <1>i DEF Strategy, StrategyUnchanged, StrategyCheck, StrategyReceive, StrategyDrain,
                      StrategyPanics
  <2>2. strategy' \in {"check", "receive", "drain", "ok", "panic"}
    BY <1>2, <1>i DEF Strategy, StrategyCheck, StrategyReceive, StrategyDrain, StrategyPanics
  <2>3. unread' \in Nat /\ queued' \in Nat /\ answers' \in Nat
    BY <1>2, <1>i, <1>n, Zenon
    DEF Strategy, StrategyCheck, StrategyReceive, StrategyDrain, StrategyPanics, Commands
  <2>4. strategy' = "ok" => shutdown \/ (unread' = 0 /\ ~ Up(market))
    BY <1>2, <2>1 DEF Strategy, StrategyCheck, StrategyReceive, StrategyDrain, StrategyPanics
  <2>5. QED BY <1>2, <1>i, <1>f, <2>1, <2>2, <2>3, <2>4
<1>3. CASE main # "returned" /\ Order
  <2>1. result = "none" /\ UNCHANGED <<main, market, strategy, result, shutdown, printed, unread>>
    BY <1>3, <1>i DEF Order, OrderUnchanged, OrderConnect, OrderCheck, OrderDrain, OrderRead
  <2>2. order' \in {"check", "drain", "read"} \cup Ends
    BY <1>3, <1>i DEF Order, OrderConnect, OrderCheck, OrderDrain, OrderRead
  <2>3. queued' \in Nat /\ answers' \in Nat
    BY <1>3, <1>i, <1>n, Zenon DEF Order, OrderConnect, OrderCheck, OrderDrain, OrderRead
  <2>4. QED BY <1>3, <1>i, <1>f, <2>1, <2>2, <2>3
<1>4. CASE main # "returned" /\ Main
  <2>1. UNCHANGED <<market, strategy, order, printed, unread, queued, answers>>
    BY <1>4, Zenon DEF Main, MainUnchanged, JoinMarket, JoinStrategy, JoinOrder
  <2>2. CASE JoinMarket
    <3>1. \/ main' = "returned" /\ result' = "err"
          \/ main' = "join strategy" /\ market # "panic" /\ ~ Up(market) /\ shutdown' /\ result' = "none"
      BY <1>i, <2>2 DEF JoinMarket
    <3>2. QED BY <1>i, <1>f, <2>1, <3>1
  <2>3. CASE JoinStrategy \/ JoinOrder
    <3>1. \/ main' = "returned" /\ result' = "err"
          \/ main = "join strategy" /\ main' = "join order" /\ strategy = "ok" /\ result' = "none"
          \/ main = "join order" /\ main' = "returned" /\ order = "ok" /\ result' = market
      BY <1>i, <2>3 DEF JoinStrategy, JoinOrder
    <3>2. QED BY <1>i, <1>f, <2>1, <3>1
  <2>4. QED BY <1>4, <2>2, <2>3 DEF Main
<1>5. CASE UNCHANGED threadVars
  <2>1. UNCHANGED <<main, market, strategy, order, result, printed, unread, queued, answers>>
    BY <1>5 DEF threadVars
  <2>2. ThreadsTypeOK'
    BY <1>i, <2>1
  <2>3. Joined' /\ SuccessIsOrderly' /\ StrategyReadsAll'
    BY <1>i, <1>f, <2>1
  <2>4. QED BY <2>2, <2>3
<1>6. QED BY <1>1, <1>2, <1>3, <1>4, <1>5 DEF ThreadsNext

LEMMA ThreadsInvariant == ThreadsSpec => []ThreadsInv
<1>1. ThreadsInit => ThreadsInv
  <2> SUFFICES ASSUME ThreadsInit PROVE ThreadsInv
    OBVIOUS
  <2>1. FlagTypeOK
    BY DEF ThreadsInit, FlagTypeOK
  <2>2. ThreadsTypeOK
    BY DEF ThreadsInit, ThreadsTypeOK, Ends
  <2>3. Joined /\ SuccessIsOrderly /\ StrategyReadsAll
    BY DEF ThreadsInit, Joined, SuccessIsOrderly, StrategyReadsAll
  <2>4. QED BY <2>1, <2>2, <2>3 DEF ThreadsInv
<1>2. QED BY <1>1, ThreadsStep, PTL DEF ThreadsSpec

(* run_live_pipeline of src/runtime.rs: however the threads interleave, a   *)
(* run that returns Ok has seen all three of them end without an error.     *)
THEOREM LiveSuccessIsOrderly == ThreadsSpec => []SuccessIsOrderly
<1>1. ThreadsInv => SuccessIsOrderly
  BY DEF ThreadsInv
<1>2. QED BY <1>1, ThreadsInvariant, PTL

(* run_strategy_threads: without the flag the strategy ends only after the  *)
(* market thread, and with no market event left unread.                     *)
THEOREM LiveStrategyReadsAll == ThreadsSpec => []StrategyReadsAll
<1>1. ThreadsInv => StrategyReadsAll
  BY DEF ThreadsInv
<1>2. QED BY <1>1, ThreadsInvariant, PTL

---------------------------------------------------------------------------
(* The runtimes of the dashboard.  What stop_runtime waits for it has taken *)
(* under the mutex, which it keeps, so it never has one child and waits for *)
(* another.                                                                 *)

Held == child = "running" \/ victim = "dying"

RuntimesInv ==
  /\ runtimes = orphans + IF Held THEN 1 ELSE 0
  /\ orphans \in Nat
  /\ child \in {"none", "running", "failed", "done"} /\ victim \in {"none", "dying", "dead"}
  /\ victim # "none" => lock # None
  /\ lock # None => child = "none"

LEMMA HeldIsCounted == RuntimesInv => OneRuntimeHeld
<1> SUFFICES ASSUME RuntimesInv PROVE OneRuntimeHeld
  OBVIOUS
<1> DEFINE Live == {p \in {child, victim} : p \in {"running", "dying"}}
<1>0. victim # "none" => child = "none"
  BY DEF RuntimesInv
<1>1. CASE child = "running"
  <2>1. Live = {"running"}
    BY <1>0, <1>1
  <2>2. QED BY <1>1, <2>1, FS_Singleton DEF RuntimesInv, Held, OneRuntimeHeld
<1>2. CASE child # "running" /\ victim = "dying"
  <2>1. Live = {"dying"}
    BY <1>0, <1>2
  <2>2. QED BY <1>2, <2>1, FS_Singleton DEF RuntimesInv, Held, OneRuntimeHeld
<1>3. CASE ~ Held
  <2>1. Live = {}
    BY <1>3 DEF RuntimesInv, Held
  <2>2. QED BY <1>3, <2>1, FS_EmptySet DEF RuntimesInv, Held, OneRuntimeHeld
<1>4. QED BY <1>1, <1>2, <1>3 DEF Held

LEMMA RuntimeStep == RuntimesInv /\ [DashNext]_dashVars => RuntimesInv'
<1> SUFFICES ASSUME RuntimesInv, [DashNext]_dashVars PROVE RuntimesInv'
  OBVIOUS
<1> USE DEF RuntimesInv, Held, history, crashed, runtimeVars, saveVars
<1>1. ASSUME NEW r \in Requests, Arrive(r) \/ Load(r) \/ ReadFile(r) \/ Truncate(r) \/ WriteFile(r)
      PROVE  RuntimesInv'
  <2>1. UNCHANGED <<runtimes, orphans, child, victim, lock>>
    BY <1>1, Zenon DEF Arrive, Load, ReadFile, Truncate, WriteFile
  <2>2. QED BY <2>1
<1>2. ASSUME NEW r \in Requests, Start(r) PROVE RuntimesInv'
  BY <1>2 DEF Start
<1>3. ASSUME NEW r \in Requests, Stop(r) PROVE RuntimesInv'
  <2>1. r # None
    BY DashboardAssumption
  <2>2. QED BY <1>3, <2>1 DEF Stop
<1>4. ASSUME NEW r \in Requests, StopWait(r) PROVE RuntimesInv'
  BY <1>4 DEF StopWait
<1>5. ASSUME NEW r \in Requests, ReportState(r) PROVE RuntimesInv'
  BY <1>5 DEF ReportState
<1>6. CASE ChildExits
  BY <1>6 DEF ChildExits
<1>7. CASE VictimExits
  BY <1>7 DEF VictimExits
<1>8. CASE Crash
  BY <1>8 DEF Crash
<1>9. CASE OrphanExits
  BY <1>9 DEF OrphanExits
<1>10. CASE UNCHANGED dashVars
  BY <1>10 DEF dashVars
<1>11. QED
  BY <1>1, <1>2, <1>3, <1>4, <1>5, <1>6, <1>7, <1>8, <1>9, <1>10 DEF DashNext, Handler

(* start_runtime, stop_runtime and public_state of src/dashboard.rs: for any*)
(* number of requests and of ends of the dashboard, the runtimes alive are  *)
(* the one the dashboard has, or waits for, and those of its earlier ends.  *)
THEOREM DashOneRuntimeHeld == DashSpec => []OneRuntimeHeld
<1>1. DashInit => RuntimesInv
  BY DEF DashInit, RuntimesInv, Held
<1>2. QED BY <1>1, HeldIsCounted, RuntimeStep, PTL DEF DashSpec

---------------------------------------------------------------------------
(* The configuration file.  While a save has the file emptied, every other  *)
(* one under way is interfered with; and the copy of one that nobody has    *)
(* interfered with has all that is due, next to what it sets.               *)

Places == {"start", "stop", "wait", "load", "report", "read", "truncate", "write"} \cup Ended

FileTypeOK ==
  /\ at \in [Requests -> Places]
  /\ copy \in [Requests -> [Fields -> Requests \cup {"initial", None}]]
  /\ due \in [Fields -> Requests \cup {"initial", "any"}]

Others == \A r \in Emptied : UnderWay \ {r} \subseteq stale

Faithful(r) == \A f \in Fields : copy[r][f] = r \/ due[f] \in {"any", copy[r][f]}

FileInv ==
  /\ FileTypeOK
  /\ file \in [Fields -> Requests \cup {"initial", None}]
  /\ Others
  /\ \A r \in UnderWay \ stale : Faithful(r)
  /\ SavedIsKept

(* A step that touches neither the file nor its saves, and moves requests   *)
(* between places where nothing is saved                                    *)
LEMMA ElsewhereKeepsFile ==
  ASSUME FileInv, UNCHANGED <<file, copy, due, stale>>,
         at' \in [Requests -> Places],
         \A r \in Requests : \/ at'[r] = at[r]
                             \/ {at[r], at'[r]} \cap {"truncate", "write"} = {}
  PROVE  FileInv'
<1>1. UnderWay' = UnderWay /\ Emptied' = Emptied
  BY DEF UnderWay, Emptied
<1>2. FileTypeOK' /\ (file \in [Fields -> Requests \cup {"initial", None}])'
  BY DEF FileTypeOK, FileInv
<1>3. Others' /\ SavedIsKept'
  BY <1>1 DEF FileInv, Others, SavedIsKept
<1>4. \A r \in (UnderWay \ stale)' : Faithful(r)'
  BY <1>1 DEF FileInv, Faithful
<1>5. QED BY <1>2, <1>3, <1>4 DEF FileInv

(* persist_dashboard_update: the read ...                                   *)
LEMMA ReadKeepsFile == ASSUME FileInv, NEW r \in Requests, ReadFile(r) PROVE FileInv'
<1> USE DEF history, crashed
<1>1. CASE Goto(r, "failed") /\ UNCHANGED <<copy, stale>>
  <2>1. at' = [at EXCEPT ![r] = "failed"] /\ at[r] = "read" /\ UNCHANGED <<file, due>>
    BY <1>1 DEF ReadFile, Goto
  <2>2. at' \in [Requests -> Places]
    BY <2>1 DEF FileInv, FileTypeOK, Places, Ended
  <2>3. QED BY <1>1, <2>1, <2>2, ElsewhereKeepsFile DEF FileInv, FileTypeOK
<1>2. CASE /\ \E k \in Fields : copy' = [copy EXCEPT ![r] = [file EXCEPT ![k] = Changed(k, r)]]
           /\ stale' = IF Emptied # {} THEN stale \cup {r} ELSE stale
           /\ Goto(r, "truncate")
  <2>1. PICK k \in Fields : copy' = [copy EXCEPT ![r] = [file EXCEPT ![k] = Changed(k, r)]]
    BY <1>2
  <2> DEFINE content == [file EXCEPT ![k] = Changed(k, r)]
  <2>2. /\ at[r] = "read" /\ at' = [at EXCEPT ![r] = "truncate"]
        /\ UNCHANGED <<file, due>>
    BY <1>2 DEF ReadFile, Goto
  <2>3. content \in [Fields -> Requests \cup {"initial", None}]
    BY DEF Changed, FileInv
  <2>4. FileTypeOK' /\ (file \in [Fields -> Requests \cup {"initial", None}])'
    BY <2>1, <2>2, <2>3 DEF FileTypeOK, FileInv, Places
  <2>5. UnderWay' = UnderWay \cup {r} /\ Emptied' = Emptied /\ r \notin UnderWay
    BY <2>2 DEF UnderWay, Emptied, FileInv, FileTypeOK
  <2>6. Others'
    BY <1>2, <2>5 DEF Others, FileInv
  <2>7. SavedIsKept'
    BY <2>2, <2>5 DEF SavedIsKept, FileInv
  <2>8. ASSUME r \notin stale' PROVE Faithful(r)'
    <3>1. \A f \in Fields : due[f] \in {"any", file[f]}
      BY <1>2, <2>8 DEF FileInv, SavedIsKept
    <3>2. copy'[r] = content
      BY <2>1 DEF FileInv, FileTypeOK
    <3>3. \A f \in Fields \ {k} : content[f] = file[f]
      BY DEF FileInv
    <3>4. content[k] = r \/ (file[k] = None /\ content[k] = None)
      BY DEF Changed, FileInv
    <3>5. due[k] # None
      BY DashboardAssumption DEF FileInv, FileTypeOK
    <3>6. QED BY <2>2, <3>1, <3>2, <3>3, <3>4, <3>5 DEF Faithful
  <2>9. ASSUME NEW q \in UnderWay \ stale PROVE Faithful(q)'
    <3>1. q # r /\ q \in Requests /\ Faithful(q)
      BY <2>5, <2>9 DEF FileInv, UnderWay
    <3>2. copy'[q] = copy[q]
      BY <2>1, <3>1 DEF FileInv, FileTypeOK
    <3>3. QED BY <2>2, <3>1, <3>2 DEF Faithful
  <2>10. \A q \in (UnderWay \ stale)' : Faithful(q)'
    BY <1>2, <2>5, <2>8, <2>9
  <2>11. QED BY <2>4, <2>6, <2>7, <2>10 DEF FileInv
<1>3. QED BY <1>1, <1>2 DEF ReadFile

(* ... and fs::write, which empties the file                                *)
LEMMA TruncateKeepsFile == ASSUME FileInv, NEW r \in Requests, Truncate(r) PROVE FileInv'
<1> USE DEF history, crashed
<1>0. at[r] = "truncate" /\ r \in UnderWay /\ r \notin Emptied /\ UNCHANGED due
  BY DEF Truncate, UnderWay, Emptied
<1>1. CASE /\ file' = Empty /\ stale' = stale \cup (UnderWay \ {r})
           /\ Goto(r, "write") /\ UNCHANGED copy
  <2>1. at' = [at EXCEPT ![r] = "write"]
    BY <1>1 DEF Goto
  <2>2. UnderWay' = UnderWay /\ Emptied' = Emptied \cup {r}
    BY <1>0, <2>1 DEF UnderWay, Emptied, FileInv, FileTypeOK
  <2>3. FileTypeOK' /\ (file \in [Fields -> Requests \cup {"initial", None}])'
    BY <1>0, <1>1, <2>1 DEF FileTypeOK, FileInv, Places, Empty
  <2>4. Others'
    BY <1>1, <2>2 DEF Others, FileInv
  <2>5. SavedIsKept'
    BY <2>2 DEF SavedIsKept
  <2>6. \A q \in (UnderWay \ stale)' : Faithful(q)'
    BY <1>0, <1>1, <2>2 DEF FileInv, Faithful
  <2>7. QED BY <2>3, <2>4, <2>5, <2>6 DEF FileInv
<1>2. CASE /\ Goto(r, "failed") /\ copy' = [copy EXCEPT ![r] = Empty]
           /\ stale' = stale \ {r} /\ UNCHANGED file
  <2>1. at' = [at EXCEPT ![r] = "failed"]
    BY <1>2 DEF Goto
  <2>2. UnderWay' = UnderWay \ {r} /\ Emptied' = Emptied
    BY <1>0, <2>1 DEF UnderWay, Emptied, FileInv, FileTypeOK
  <2>3. FileTypeOK' /\ (file \in [Fields -> Requests \cup {"initial", None}])'
    BY <1>0, <1>2, <2>1 DEF FileTypeOK, FileInv, Places, Ended, Empty
  <2>4. Others' /\ SavedIsKept'
    BY <1>0, <1>2, <2>2 DEF Others, SavedIsKept, FileInv
  <2>5. ASSUME NEW q \in (UnderWay \ stale)' PROVE Faithful(q)'
    <3>1. q \in UnderWay \ stale /\ q # r /\ q \in Requests
      BY <1>2, <2>2, <2>5 DEF UnderWay
    <3>2. copy'[q] = copy[q]
      BY <1>2, <3>1 DEF FileInv, FileTypeOK
    <3>3. QED BY <1>0, <3>1, <3>2 DEF FileInv, Faithful
  <2>6. QED BY <2>3, <2>4, <2>5 DEF FileInv
<1>3. QED BY <1>1, <1>2 DEF Truncate

(* and writes it, in full or not.                                           *)
LEMMA WriteKeepsFile == ASSUME FileInv, NEW r \in Requests, WriteFile(r) PROVE FileInv'
<1> USE DEF history, crashed
<1>1. /\ at[r] = "write" /\ \E l \in {"load", "failed"} : at' = [at EXCEPT ![r] = l]
      /\ copy' = [copy EXCEPT ![r] = Empty] /\ stale' = stale \ {r}
      /\ file' \in Mixed(r) \/ file' = copy[r]
      /\ due' = DueNothing \/ (r \notin stale /\ due' = DueAfter(r) /\ file' = copy[r])
  BY Zenon DEF WriteFile, Goto
<1>2. UnderWay' = UnderWay \ {r} /\ Emptied' = Emptied \ {r} /\ r \in Emptied /\ r \in UnderWay
  BY <1>1 DEF UnderWay, Emptied, FileInv, FileTypeOK
<1>3. due' \in [Fields -> Requests \cup {"initial", "any"}]
  BY <1>1 DEF DueNothing, DueAfter, FileInv, FileTypeOK
<1>4. copy' \in [Requests -> [Fields -> Requests \cup {"initial", None}]]
  BY <1>1 DEF FileInv, FileTypeOK, Empty
<1>5. at' \in [Requests -> Places]
  BY <1>1 DEF FileInv, FileTypeOK, Places, Ended
<1>6. file' \in [Fields -> Requests \cup {"initial", None}]
  BY <1>1 DEF Mixed, FileInv, FileTypeOK
<1>7. Others'
  BY <1>1, <1>2 DEF Others, FileInv
<1>8. SavedIsKept'
  <2>1. CASE due' = DueNothing
    BY <2>1 DEF DueNothing, SavedIsKept
  <2>2. CASE r \notin stale /\ due' = DueAfter(r) /\ file' = copy[r]
    <3>1. Faithful(r)
      BY <1>2, <2>2 DEF FileInv
    <3>2. ASSUME NEW f \in Fields PROVE due'[f] \in {"any", file'[f]}
      BY <2>2, <3>1 DEF DueAfter, Faithful
    <3>3. QED BY <3>2 DEF SavedIsKept
  <2>3. QED BY <1>1, <2>1, <2>2
<1>9. ASSUME NEW q \in (UnderWay \ stale)' PROVE Faithful(q)'
  <2>1. q \in UnderWay \ {r} /\ q \notin stale /\ q \in Requests
    BY <1>1, <1>2, <1>9 DEF UnderWay
  <2>2. FALSE
    BY <1>2, <2>1 DEF FileInv, Others
  <2>3. QED BY <2>2
<1>10. QED BY <1>3, <1>4, <1>5, <1>6, <1>7, <1>8, <1>9 DEF FileInv, FileTypeOK

LEMMA FileStep == FileInv /\ [DashNext]_dashVars => FileInv'
<1> SUFFICES ASSUME FileInv, [DashNext]_dashVars PROVE FileInv'
  OBVIOUS
<1> USE DEF history, crashed, saveVars
<1>1. ASSUME NEW r \in Requests,
             Arrive(r) \/ Start(r) \/ Stop(r) \/ StopWait(r) \/ Load(r) \/ ReportState(r)
      PROVE  FileInv'
  <2>1. /\ UNCHANGED <<file, copy, due, stale>>
        /\ at[r] \notin {"truncate", "write"}
        /\ \/ UNCHANGED at
           \/ \E l \in Places \ {"truncate", "write"} : at' = [at EXCEPT ![r] = l]
    BY <1>1 DEF Arrive, Start, Stop, StopWait, Load, ReportState, Goto, Places, Ended
  <2>2. at' \in [Requests -> Places]
    BY <2>1 DEF FileInv, FileTypeOK
  <2>3. QED BY <2>1, <2>2, ElsewhereKeepsFile DEF FileInv, FileTypeOK
<1>2. CASE ChildExits \/ VictimExits \/ OrphanExits \/ UNCHANGED dashVars
  <2>1. UNCHANGED <<file, copy, due, stale, at>>
    BY <1>2, Zenon DEF ChildExits, VictimExits, OrphanExits, dashVars
  <2>2. QED BY <2>1, ElsewhereKeepsFile DEF FileInv, FileTypeOK
<1>3. CASE Crash
  <2>1. /\ UNCHANGED file
        /\ at' = [r \in Requests |-> IF at[r] \in Ended THEN at[r] ELSE "lost"]
        /\ copy' = [r \in Requests |-> Empty]
        /\ due' = IF Emptied # {} THEN DueNothing ELSE due
    BY <1>3 DEF Crash
  <2>2. UnderWay' = {} /\ Emptied' = {}
    BY <2>1 DEF UnderWay, Emptied, Ended
  <2>3. FileTypeOK' /\ (file \in [Fields -> Requests \cup {"initial", None}])'
    BY <2>1 DEF FileTypeOK, FileInv, Places, Ended, Empty, DueNothing
  <2>4. SavedIsKept'
    BY <2>1, <2>2 DEF FileInv, SavedIsKept, DueNothing
  <2>5. QED BY <2>2, <2>3, <2>4 DEF FileInv, Others
<1>4. QED
  BY <1>1, <1>2, <1>3, ReadKeepsFile, TruncateKeepsFile, WriteKeepsFile DEF DashNext, Handler

(* persist_dashboard_update of src/config.rs: for any number of requests, of*)
(* failing reads and writes and of ends of the dashboard, every key has what*)
(* the last save of it wrote, until a save interferes with another one or   *)
(* the file is left in part.                                                *)
THEOREM DashSavedIsKept == DashSpec => []SavedIsKept
<1>1. DashInit => FileInv
  <2> SUFFICES ASSUME DashInit PROVE FileInv
    OBVIOUS
  <2>1. UnderWay = {} /\ Emptied = {}
    BY DEF DashInit, UnderWay, Emptied
  <2>2. FileTypeOK
    BY DEF DashInit, FileTypeOK, Places, Ended, Empty
  <2>3. QED BY <2>1, <2>2 DEF DashInit, FileInv, Others, SavedIsKept
<1>2. FileInv => SavedIsKept
  BY DEF FileInv
<1>3. QED BY <1>1, <1>2, FileStep, PTL DEF DashSpec
=============================================================================
