----------------------------- MODULE Dashboard -----------------------------
(***************************************************************************)
(* The dashboard process: src/dashboard.rs, and the update of the           *)
(* configuration file in src/config.rs.  Every HTTP request has a thread of *)
(* its own.  The runtime's handle and the last error are under one mutex;   *)
(* the configuration file is under none, and fs::write empties it before it *)
(* writes it, and may fail at either.  The process may end at any moment - a*)
(* failed accept is enough - and is then started again: the runtime it      *)
(* spawned lives on, and the file stays as it was left.                     *)
(*                                                                          *)
(* A request is here from its arrival: the read that brings it              *)
(* (src/dashboard.rs:79) and the write of the answer have no timeout, and   *)
(* hold no lock.                                                            *)
(***************************************************************************)
EXTENDS Naturals, FiniteSets

CONSTANTS
  Requests,      (* the requests that come, in any order and overlapping   *)
  Fields,        (* keys of the configuration file                         *)
  Needed,        (* those without which it cannot be parsed                *)
  MaxCrashes,    (* bound: times the dashboard process ends                *)
  None

ASSUME DashboardAssumption ==
  /\ Needed \subseteq Fields
  /\ MaxCrashes \in Nat
  /\ {None, "initial", "any"} \cap Requests = {}
  /\ None \notin {"initial", "any"}

VARIABLES
  child,      (* DashboardState.child: none, or the process it holds       *)
  lastError,  (* DashboardState.last_error is set                          *)
  lock,       (* the request that keeps the mutex from a step to the next  *)
  victim,     (* the process stop_runtime has taken out of child and waits *)
              (* for: none, dying or dead                                  *)
  runtimes,   (* history: runtime processes alive                          *)
  file,       (* each key's value: the request that set it, or the first   *)
              (* one; None where the file lacks the key                    *)
  at,         (* where its thread is                                       *)
  copy,       (* the file as a save has read and changed it                *)
  due,        (* history: the value each key should have, or any           *)
  stale,      (* history: saves under way another one has interfered with  *)
  orphans,    (* history: runtimes alive whose dashboard has ended         *)
  crashes     (* history: times the dashboard process has ended            *)

runtimeVars == <<child, lastError, lock, victim, runtimes>>
history     == <<due, stale>>
saveVars    == <<file, copy, history>>
crashed     == <<orphans, crashes>>
dashVars    == <<runtimeVars, at, saveVars, crashed>>

Empty == [f \in Fields |-> None]

DashInit ==
  /\ child = "none" /\ lastError = FALSE /\ lock = None /\ victim = "none"
  /\ runtimes = 0
  /\ file = [f \in Fields |-> "initial"]
  /\ at = [r \in Requests |-> "idle"]
  /\ copy = [r \in Requests |-> Empty]
  /\ due = [f \in Fields |-> "initial"] /\ stale = {}
  /\ orphans = 0 /\ crashes = 0

Goto(r, l) == at' = [at EXCEPT ![r] = l]

---------------------------------------------------------------------------
(* Requests.                                                                *)

Arrive(r) ==
  /\ at[r] = "idle"
  /\ \E l \in {"start", "stop", "load", "read"} : Goto(r, l)
  /\ UNCHANGED <<runtimeVars, saveVars, crashed>>

(* Variant: a child that is held is not looked at                           *)
StartAnother(r) ==
  /\ at[r] = "start" /\ lock = None
  /\ child' = "running" /\ runtimes' = runtimes + 1
  /\ lastError' = FALSE
  /\ Goto(r, "load")
  /\ UNCHANGED <<lock, victim, saveVars, crashed>>

(* start_runtime, all of it under the mutex: a child that is held, even one *)
(* that has exited, makes it a no-op; the spawn may fail                    *)
Start(r) ==
  /\ at[r] = "start" /\ lock = None
  /\ \/ /\ child # "none"
        /\ Goto(r, "load")
        /\ UNCHANGED <<child, lastError, runtimes>>
     \/ /\ child = "none"
        /\ child' = "running" /\ runtimes' = runtimes + 1
        /\ lastError' = FALSE
        /\ Goto(r, "load")
     \/ /\ child = "none"
        /\ Goto(r, "failed")
        /\ UNCHANGED <<child, lastError, runtimes>>
  /\ UNCHANGED <<lock, victim, saveVars, crashed>>

(* stop_runtime takes the child and kills it - an error of the kill is      *)
(* ignored: the process has exited - and keeps the mutex                    *)
Stop(r) ==
  /\ at[r] = "stop" /\ lock = None
  /\ IF child = "none"
       THEN Goto(r, "load") /\ UNCHANGED <<child, victim, lock>>
       ELSE /\ victim' = IF child = "running" THEN "dying" ELSE "dead"
            /\ child' = "none" /\ lock' = r
            /\ Goto(r, "wait")
  /\ UNCHANGED <<lastError, runtimes, saveVars, crashed>>

(* Variant: the mutex is kept until the request is answered                 *)
StopWaitLocked(r) ==
  /\ at[r] = "wait" /\ victim = "dead"
  /\ victim' = "none"
  /\ Goto(r, "load")
  /\ UNCHANGED <<child, lastError, lock, runtimes, saveVars, crashed>>

(* while it waits for the child to be dead                                  *)
StopWait(r) ==
  /\ at[r] = "wait" /\ victim = "dead"
  /\ victim' = "none" /\ lock' = None
  /\ Goto(r, "load")
  /\ UNCHANGED <<child, lastError, runtimes, saveVars, crashed>>

(* public_state reads and parses the file first                             *)
Load(r) ==
  /\ at[r] = "load"
  /\ \/ Goto(r, "failed")
     \/ (\A f \in Needed : file[f] # None) /\ Goto(r, "report")
  /\ UNCHANGED <<runtimeVars, saveVars, crashed>>

(* and then, under the mutex, reaps a child that has exited                 *)
ReportState(r) ==
  /\ at[r] = "report" /\ lock = None
  /\ child' = IF child \in {"failed", "done"} THEN "none" ELSE child
  /\ lastError' = IF child \in {"failed", "done"} THEN child = "failed" ELSE lastError
  /\ Goto(r, "answered")
  /\ UNCHANGED <<lock, victim, runtimes, saveVars, crashed>>

---------------------------------------------------------------------------
(* persist_dashboard_update: read, change, and fs::write in its two steps,  *)
(* each of which may fail.                                                  *)

(* A save sets one key here, and in the code any number in the same text.   *)
(* A product's key is only changed where the product is in the file, any    *)
(* other key is added if need be.                                           *)
Changed(f, r) == IF f \in Needed /\ file[f] = None THEN None ELSE r

(* History: the saves that have read the file and not yet written it, and   *)
(* those that have emptied it                                               *)
UnderWay == {r \in Requests : at[r] \in {"truncate", "write"}}
Emptied  == {r \in Requests : at[r] = "write"}

(* Variant: a save writes what it changes and nothing else                  *)
ReadFileNot(r) ==
  /\ at[r] = "read"
  /\ \E f \in Fields : copy' = [copy EXCEPT ![r] = [Empty EXCEPT ![f] = r]]
  /\ stale' = IF Emptied # {} THEN stale \cup {r} ELSE stale
  /\ Goto(r, "truncate")
  /\ UNCHANGED <<runtimeVars, file, due, crashed>>

ReadFile(r) ==
  /\ at[r] = "read"
  /\ \/ /\ \E f \in Fields :
             copy' = [copy EXCEPT ![r] = [file EXCEPT ![f] = Changed(f, r)]]
        /\ stale' = IF Emptied # {} THEN stale \cup {r} ELSE stale
        /\ Goto(r, "truncate")
     \/ /\ Goto(r, "failed")
        /\ UNCHANGED <<copy, stale>>
  /\ UNCHANGED <<runtimeVars, file, due, crashed>>

Truncate(r) ==
  /\ at[r] = "truncate"
  /\ \/ /\ file' = Empty
        /\ stale' = stale \cup (UnderWay \ {r})
        /\ Goto(r, "write")
        /\ UNCHANGED copy
     \/ /\ Goto(r, "failed")
        /\ copy' = [copy EXCEPT ![r] = Empty]
        /\ stale' = stale \ {r}
        /\ UNCHANGED file
  /\ UNCHANGED <<runtimeVars, due, crashed>>

(* What the file holds when r's text got into it in part, or over another   *)
(* one                                                                      *)
Mixed(r) == {g \in [Fields -> Requests \cup {None, "initial"}] :
               \A f \in Fields : g[f] \in {copy[r][f], file[f], None}}

(* History: what is due after r's text is all the file has; or after the    *)
(* file was left in part                                                    *)
DueAfter(r) == [f \in Fields |-> IF copy[r][f] = r THEN r ELSE due[f]]
DueNothing  == [f \in Fields |-> "any"]

WriteFile(r) ==
  /\ at[r] = "write"
  /\ \/ /\ file = Empty
        /\ file' = copy[r]
        /\ due' = IF r \in stale THEN DueNothing ELSE DueAfter(r)
        /\ Goto(r, "load")
     \/ /\ file # Empty
        /\ file' \in Mixed(r)
        /\ due' = DueNothing
        /\ Goto(r, "load")
     \/ /\ file' \in Mixed(r)
        /\ due' = DueNothing
        /\ Goto(r, "failed")
  /\ copy' = [copy EXCEPT ![r] = Empty]
  /\ stale' = stale \ {r}
  /\ UNCHANGED <<runtimeVars, crashed>>

Handler(r) ==
  \/ Start(r) \/ Stop(r) \/ StopWait(r) \/ Load(r) \/ ReportState(r)
  \/ ReadFile(r) \/ Truncate(r) \/ WriteFile(r)

---------------------------------------------------------------------------
(* Processes.                                                               *)

(* The runtime process ends by itself, or killed                            *)
ChildExits ==
  /\ child = "running"
  /\ child' \in {"failed", "done"}
  /\ runtimes' = runtimes - 1
  /\ UNCHANGED <<lastError, lock, victim, at, saveVars, crashed>>

VictimExits ==
  /\ victim = "dying"
  /\ victim' = "dead"
  /\ runtimes' = runtimes - 1
  /\ UNCHANGED <<child, lastError, lock, at, saveVars, crashed>>

Ended == {"idle", "answered", "failed", "lost"}

(* The dashboard process ends and is started again: every request under way *)
(* is lost where it is, the handle is gone and the runtime is not           *)
Crash ==
  /\ crashes < MaxCrashes
  /\ crashes' = crashes + 1
  /\ orphans' = IF child = "running" \/ victim = "dying" THEN orphans + 1 ELSE orphans
  /\ child' = "none" /\ lastError' = FALSE /\ lock' = None /\ victim' = "none"
  /\ due' = IF Emptied # {} THEN DueNothing ELSE due
  /\ stale' = {}
  /\ at' = [r \in Requests |-> IF at[r] \in Ended THEN at[r] ELSE "lost"]
  /\ copy' = [r \in Requests |-> Empty]
  /\ UNCHANGED <<runtimes, file>>

OrphanExits ==
  /\ orphans > 0
  /\ orphans' = orphans - 1
  /\ runtimes' = runtimes - 1
  /\ UNCHANGED <<child, lastError, lock, victim, at, saveVars, crashes>>

DashNext ==
  \/ \E r \in Requests : Arrive(r) \/ Handler(r)
  \/ ChildExits \/ VictimExits \/ Crash \/ OrphanExits

(* Threads run, and a process that was killed ends                          *)
DashSpec ==
  /\ DashInit /\ [][DashNext]_dashVars
  /\ \A r \in Requests : WF_dashVars(Handler(r))
  /\ WF_dashVars(VictimExits)

---------------------------------------------------------------------------
(* Properties.                                                              *)

(* However start, stop and state requests overlap, and whenever the runtime *)
(* or the dashboard itself ends, the dashboard holds every live runtime -   *)
(* or waits for it to die - but those that a dashboard left behind when it  *)
(* ended: a start never adds a second one to the one it has, and a stop     *)
(* leaves none that it could reach.                                         *)
OneRuntimeHeld ==
  runtimes = orphans + Cardinality({p \in {child, victim} : p \in {"running", "dying"}})

(* tests/config_dashboard_tests.rs:102-108, for requests that overlap: when *)
(* no save is between the two steps of fs::write, every key has the value   *)
(* the last save of it gave it.  Nothing is due any more only after a save  *)
(* that another one had interfered with - it had read the file before the   *)
(* other emptied it, or while it was empty -, after a write that failed     *)
(* with the file already emptied, and after an end of the process there:    *)
(* read, change and write are under no lock, and the file is not replaced   *)
(* by a renamed one.  The saves that come after any of these are kept again.*)
SavedIsKept == Emptied = {} => \A f \in Fields : due[f] \in {"any", file[f]}

(* Every request gets an answer or an error, or is lost with the process:   *)
(* none waits for ever for the mutex, whose owner may be waiting for a      *)
(* child to die.                                                            *)
RequestsEnd == \A r \in Requests : at[r] # "idle" ~> at[r] \in Ended \ {"idle"}
=============================================================================
