---------------------------- MODULE OrderRestart ----------------------------
(***************************************************************************)
(* The order process and the exchange across crashes.  The code keeps       *)
(* nothing on disk: whenever the process ends, for whatever reason, no      *)
(* cancel is sent, and the next process starts with empty tables, client    *)
(* order ids from 1 and a new session.  What protects the account is that   *)
(* every Logon asks the exchange to cancel the session's orders when it     *)
(* loses the connection.  The exchange (external) serves one session of an  *)
(* account at a time: it takes the Logon of a new one only after it has     *)
(* ended the old one, and reads nothing of a session it has ended.  It      *)
(* reports to the session that sent the order only.                         *)
(***************************************************************************)
EXTENDS OrderFlow

CONSTANT MaxRuns   \* bound: processes started one after the other

ASSUME RestartAssumption == MaxRuns \in Nat \ {0}

VARIABLES
  run,       (* the number of the running process                          *)
  session,   (* session[k]: the exchange has not taken the Logon of run k, *)
             (* has taken it, or has ended the session                     *)
  pastSent,  (* pastSent[k][s]: the orders of s that the earlier run k sent*)
  pastExch   (* and the exchange's view of them; no process knows either   *)

pastVars    == <<pastSent, pastExch>>
restartVars == <<flowVars, run, session, pastVars>>

Runs == 1..MaxRuns

RestartInit ==
  /\ FlowInit
  /\ run      = 1
  /\ session  = [k \in Runs |-> "none"]
  /\ pastSent = [k \in Runs |-> [s \in Symbols |-> {}]]
  /\ pastExch = [k \in Runs |-> [i \in ClientIds |-> "none"]]

(* The fourth argument of encode_coinbase_logon, and what it puts into the  *)
(* message: CancelOrdersOnDisconnect(8013)                                  *)
LogonKeepsOrders   == FALSE   \* Variant: the Logon does not ask
LogonAsksForCancel == TRUE

(* A session that ends takes its live orders with it if its Logon asked     *)
AfterDisconnect(view) ==
  [i \in ClientIds |-> IF LogonAsksForCancel /\ view[i] = "live" THEN "done" ELSE view[i]]

---------------------------------------------------------------------------
(* The process.  Orders are written behind the Logon, which the thread does *)
(* not wait for; reports read late or twice are those of FlowNext.          *)
Process ==
  /\ Command \/ Deliver
  /\ UNCHANGED <<run, session, pastVars>>

(* The process ends, by a crash, an error or an orderly shutdown, and the   *)
(* next one is started: run_fix_order_entry from its first line on          *)
Restart ==
  /\ run < MaxRuns
  /\ run'  = run + 1
  /\ pastSent' = [pastSent EXCEPT ![run] = [s \in Symbols |-> Sent(s)]]
  /\ pastExch' = [pastExch EXCEPT ![run] = exch]
  /\ seenExecIds'  = {}
  /\ latestStatus' = [i \in ClientIds |-> None]
  /\ symbolOf'     = [i \in ClientIds |-> None]
  /\ openCounts'   = [s \in Symbols |-> 0]
  /\ nextClientId' = 1
  /\ nextSeqNum'   = FirstSeqNum
  /\ wire'         = <<>>
  /\ exch'         = [i \in ClientIds |-> "none"]
  /\ reported'     = {}
  /\ UNCHANGED session

---------------------------------------------------------------------------
(* The exchange.                                                            *)

TakeLogon ==
  /\ \E k \in 1..run :
       /\ session[k] = "none"
       /\ \A j \in Runs : session[j] # "on"
       /\ session' = [session EXCEPT ![k] = "on"]
  /\ UNCHANGED <<flowVars, run, pastVars>>

(* It reads the running process's orders, ends them and reports on them     *)
Serve ==
  /\ session[run] = "on"
  /\ Exchange
  /\ UNCHANGED <<run, session, pastVars>>

(* It reads what an earlier process wrote before it ended, and ends its     *)
(* orders; nobody hears of it                                               *)
ServePast ==
  /\ \E k \in 1..(run - 1), i \in ClientIds :
       /\ session[k] = "on"
       /\ \E s \in Symbols : i \in pastSent[k][s]
       /\ \/ /\ pastExch[k][i] = "none"
             /\ pastExch' = [pastExch EXCEPT ![k][i] = "live"]
          \/ /\ pastExch[k][i] # "done"
             /\ pastExch' = [pastExch EXCEPT ![k][i] = "done"]
  /\ UNCHANGED <<flowVars, run, session, pastSent>>

(* The connection is lost, with the process or without it: the exchange     *)
(* ends the session, and the reports it makes of that reach nobody          *)
Disconnect ==
  /\ session[run] = "on"
  /\ session' = [session EXCEPT ![run] = "ended"]
  /\ exch'    = AfterDisconnect(exch)
  /\ UNCHANGED <<engineVars, reported, run, pastVars>>

DisconnectPast ==
  /\ \E k \in 1..(run - 1) :
       /\ session[k] = "on"
       /\ session' = [session EXCEPT ![k] = "ended"]
       /\ pastExch' = [pastExch EXCEPT ![k] = AfterDisconnect(@)]
  /\ UNCHANGED <<flowVars, run, pastSent>>

RestartNext ==
  \/ Process \/ Restart
  \/ TakeLogon \/ Serve \/ ServePast \/ Disconnect \/ DisconnectPast

RestartSpec == RestartInit /\ [][RestartNext]_restartVars

---------------------------------------------------------------------------
(* Properties.                                                              *)

(* The orders of s that are live at the exchange, whichever run sent them   *)
LiveOfRun(s)  == {i \in Sent(s) : exch[i] = "live"}
LiveOfPast(s) == {o \in (1..(run - 1)) \X ClientIds :
                    o[2] \in pastSent[o[1]][s] /\ pastExch[o[1]][o[2]] = "live"}
LiveEver(s)   == LiveOfPast(s) \cup ({run} \X LiveOfRun(s))

(* docs/coinbase-hft-architecture.md:630 bounds the open orders of a symbol,*)
(* while a new process counts from 0 and sends before its Logon is answered:*)
(* still, the orders of all runs together that are live at the exchange are *)
(* never more than MaxOpen, however often and whenever the process crashes. *)
ExposureAcrossRuns == \A s \in Symbols : Cardinality(LiveEver(s)) <= MaxOpen

(* What the proof of ExposureAcrossRuns rests on: one session at a time,    *)
(* live orders in it only, and each past run within the limit.              *)
PastMayTrade(k, s) == {i \in pastSent[k][s] : pastExch[k][i] # "done"}
RestartTypeOK ==
  /\ run \in Runs
  /\ session \in [Runs -> {"none", "on", "ended"}]
  /\ pastSent \in [Runs -> [Symbols -> SUBSET ClientIds]]
  /\ pastExch \in [Runs -> [ClientIds -> {"none", "live", "done"}]]
OneSession == \A j, k \in Runs : session[j] = "on" /\ session[k] = "on" => j = k
LiveInSession ==
  /\ session[run] # "on" => \A i \in ClientIds : exch[i] # "live"
  /\ \A k \in 1..(run - 1) :
       session[k] # "on" => \A i \in ClientIds : pastExch[k][i] # "live"
PastWithinLimit ==
  \A k \in 1..(run - 1), s \in Symbols : Cardinality(PastMayTrade(k, s)) <= MaxOpen

RestartInv ==
  /\ FlowInv
  /\ RestartTypeOK
  /\ OneSession
  /\ LiveInSession
  /\ PastWithinLimit
=============================================================================
