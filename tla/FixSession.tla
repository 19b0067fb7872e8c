----------------------------- MODULE FixSession -----------------------------
(***************************************************************************)
(* FixSession of src/fix/session.rs: the numbering of one FIX session in    *)
(* both directions.  Its peer is external; what the peer sends may be lost, *)
(* delivered again and overtake what was sent before it.  The threads of    *)
(* src/runtime.rs do not use it yet, they keep counters of their own.       *)
(***************************************************************************)
EXTENDS Naturals, Sequences

CONSTANTS
  MaxFrames,   (* bound: frames the peer sends                             *)
  MaxOut       (* bound: messages the session hands out to be sent         *)

ASSUME FixSessionAssumption == MaxFrames \in Nat /\ MaxOut \in Nat

VARIABLES
  state,             (* as in the code                                     *)
  nextSenderSeqNum,
  nextTargetSeqNum,
  out,               (* the messages built, in order                       *)
  peerSent,          (* external: frames of the peer; the k-th carries k   *)
  handled            (* history: the frames the session has acted on       *)

fixVars == <<state, nextSenderSeqNum, nextTargetSeqNum, out, peerSent, handled>>

FrameTypes == {"Logon", "TestRequest", "Other"}
NoRequest  == 0

FixInit ==
  /\ state = "Disconnected"
  /\ nextSenderSeqNum = 1 /\ nextTargetSeqNum = 1
  /\ out = <<>> /\ peerSent = <<>> /\ handled = <<>>

(* take_sender_seq_num, and the message numbered with it; a heartbeat       *)
(* carries the TestReqID it answers, here the number of the frame           *)
Build(what, request) ==
  /\ Len(out) < MaxOut
  /\ out' = Append(out, [what |-> what, seq |-> nextSenderSeqNum, request |-> request])
  /\ nextSenderSeqNum' = nextSenderSeqNum + 1

BuildLogon ==
  /\ Build("Logon", NoRequest)
  /\ state' = "LogonSent"
  /\ UNCHANGED <<nextTargetSeqNum, peerSent, handled>>

BuildHeartbeat ==
  /\ Build("Heartbeat", NoRequest)
  /\ UNCHANGED <<state, nextTargetSeqNum, peerSent, handled>>

(* Variant: a frame above the expected number is acted on                   *)
ExpectedOrLater(k) == k >= nextTargetSeqNum

(* Any other number is a SequenceGap and changes nothing, nor does a frame  *)
(* without a number                                                         *)
Expected(k) == k = nextTargetSeqNum

(* Variant: a test request is counted only with the next frame              *)
AnswerTestRequestUncounted(k) ==
  /\ peerSent[k] = "TestRequest"
  /\ Build("Heartbeat", k)
  /\ UNCHANGED <<state, nextTargetSeqNum, handled>>

AnswerTestRequest(k) ==
  /\ peerSent[k] = "TestRequest"
  /\ Build("Heartbeat", k)
  /\ nextTargetSeqNum' = nextTargetSeqNum + 1
  /\ handled' = Append(handled, k)
  /\ UNCHANGED state

TakeOther(k) ==
  /\ peerSent[k] # "TestRequest"
  /\ state' = IF peerSent[k] = "Logon" THEN "Connected" ELSE state
  /\ nextTargetSeqNum' = nextTargetSeqNum + 1
  /\ handled' = Append(handled, k)
  /\ UNCHANGED <<out, nextSenderSeqNum>>

OnInbound ==
  /\ \E k \in 1..Len(peerSent) : Expected(k) /\ (AnswerTestRequest(k) \/ TakeOther(k))
  /\ UNCHANGED peerSent

PeerSends ==
  /\ Len(peerSent) < MaxFrames
  /\ \E t \in FrameTypes : peerSent' = Append(peerSent, t)
  /\ UNCHANGED <<state, nextSenderSeqNum, nextTargetSeqNum, out, handled>>

FixNext == BuildLogon \/ BuildHeartbeat \/ OnInbound \/ PeerSends

FixSpec == FixInit /\ [][FixNext]_fixVars

---------------------------------------------------------------------------
(* Properties.                                                              *)

(* Whatever is lost, repeated or overtaken, the frames acted on are the     *)
(* peer's first ones, each once and in its order, and the number expected   *)
(* next is that of the first one missing.                                   *)
ActsOnPrefix ==
  /\ handled = [k \in 1..Len(handled) |-> k]
  /\ nextTargetSeqNum = Len(handled) + 1

(* Every test request acted on is answered by exactly one heartbeat with    *)
(* its TestReqID, in order; a repeated one is not answered again, and the   *)
(* heartbeats, asked for or not, and the Logons share one numbering.        *)
AnswersOnce ==
  LET answers == {k \in 1..Len(out) : out[k].request # NoRequest} IN
  /\ \A j, k \in answers : j < k => out[j].request < out[k].request
  /\ {out[k].request : k \in answers} =
       {handled[k] : k \in {j \in 1..Len(handled) : peerSent[handled[j]] = "TestRequest"}}
  /\ \A k \in 1..Len(out) : out[k].seq = k
  /\ nextSenderSeqNum = Len(out) + 1
=============================================================================
