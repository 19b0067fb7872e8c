------------------------------- MODULE Library -------------------------------
(***************************************************************************)
(* The parts of the crate that the threads of the live program do not run:  *)
(* the session of src/fix/session.rs, the feed of src/dashboard_feed.rs,    *)
(* the rings of src/ring.rs and src/app.rs, and RuntimePipeline of          *)
(* src/runtime.rs.  Nothing connects them yet, so a behaviour is one of one *)
(* of them; the others rest.                                                *)
(***************************************************************************)
EXTENDS FixSession, DashboardFeed, Rings, RuntimePipeline

VARIABLE part    (* the one that is used                                    *)

libraryVars == <<part, fixVars, feedVars, clientVars, ringVars, pipeVars>>

(* The capacities of rings that are not used do not matter                  *)
LibraryInit ==
  /\ part \in {"session", "feed", "rings", "pipeline"}
  /\ FixInit /\ FeedInit /\ RingInit /\ PipeInit
  /\ part # "rings" => capacity = [k \in Kinds |-> CHOOSE c \in Capacities : TRUE]

LibraryNext ==
  /\ UNCHANGED part
  /\ \/ /\ part = "session" /\ FixNext
        /\ UNCHANGED <<feedVars, clientVars, ringVars, pipeVars>>
     \/ /\ part = "feed" /\ FeedNext
        /\ UNCHANGED <<fixVars, ringVars, pipeVars>>
     \/ /\ part = "rings" /\ RingNext
        /\ UNCHANGED <<fixVars, feedVars, clientVars, pipeVars>>
     \/ /\ part = "pipeline" /\ PipeNext
        /\ UNCHANGED <<fixVars, feedVars, clientVars, ringVars>>

LibrarySpec == LibraryInit /\ [][LibraryNext]_libraryVars
=============================================================================
