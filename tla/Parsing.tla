------------------------------ MODULE Parsing ------------------------------
(***************************************************************************)
(* What goes over the wire: frames out of a byte stream (FixFramer),        *)
(* numbers out of a field (Decimals), and messages as they are built and    *)
(* read back (FixMessages), explored one at a time.                         *)
(***************************************************************************)
EXTENDS FixFramer, Decimals, FixMessages

VARIABLE part    (* the one that is explored                                *)

parsingVars == <<part, framerVars, decimalsVars, messageVars>>

(* Those that are not explored rest in an initial state of their own        *)
ParsingInit ==
  /\ part \in {"frames", "number", "message"}
  /\ part # "frames" => stream = <<CHOOSE f \in Frames : TRUE>>
  /\ part # "number" =>
       text = <<>> /\ scale = (CHOOSE s \in Scales : TRUE) /\ ordered = {}
  /\ part # "message" => todo = (CHOOSE m \in Messages : TRUE) /\ fault = "none"
  /\ FramerInit /\ DecimalsInit /\ MessagesInit

ParsingNext ==
  /\ UNCHANGED part
  /\ \/ part = "frames"  /\ FramerNext   /\ UNCHANGED <<decimalsVars, messageVars>>
     \/ part = "number"  /\ DecimalsNext /\ UNCHANGED <<framerVars, messageVars>>
     \/ part = "message" /\ MessagesNext /\ UNCHANGED <<framerVars, decimalsVars>>

ParsingSpec == ParsingInit /\ [][ParsingNext]_parsingVars
=============================================================================
