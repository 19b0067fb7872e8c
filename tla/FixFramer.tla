----------------------------- MODULE FixFramer -----------------------------
(***************************************************************************)
(* From a TCP byte stream to FIX frames: FixParser::next_frame under the    *)
(* read loops of src/runtime.rs, which append what a read returns to        *)
(* pending and then take frames off its front until next_frame has none.    *)
(*                                                                          *)
(* Bytes are counted, not spelled: a frame is its length and what is wrong  *)
(* with it, and next_frame looks at how much of it has arrived.             *)
(***************************************************************************)
EXTENDS Naturals, Sequences

CONSTANTS
  BeginLen,   (* bytes of the field 8=..., its SOH included                *)
  LenDigits,  (* numbers of digits of BodyLength(9)                        *)
  BodyLens,   (* lengths of the bodies                                     *)
  Faults,     (* what may be wrong with a frame                            *)
  MaxFrames   (* bound: frames the peer sends                              *)

ASSUME FramerAssumption ==
  /\ BeginLen \in Nat /\ BeginLen > 2
  /\ LenDigits \subseteq Nat \ {0}
  /\ BodyLens \subseteq Nat \ {0}
  /\ Faults \subseteq {"checksum", "length", "type"}
  /\ MaxFrames \in Nat

(* "length" is a BodyLength that reaches past the end of the stream         *)
Frames == [digits : LenDigits, body : BodyLens, fault : Faults \cup {"none"}]

BodyStart(f) == BeginLen + 2 + f.digits + 1
BodyEnd(f)   == BodyStart(f) + f.body
Size(f)      == BodyEnd(f) + 7            (* 10=ddd and its SOH            *)

VARIABLES
  stream,     (* the frames the peer sends                                 *)
  received,   (* bytes of the stream read so far                           *)
  consumed,   (* bytes of the stream drained from pending                  *)
  delivered,  (* number of frames next_frame has returned                  *)
  pc          (* reading, parsing, or dead: the thread returned an error   *)

framerVars == <<stream, received, consumed, delivered, pc>>

(* Bytes of the first k frames of the stream                                *)
SizeOf(k) ==
  LET sum[j \in 0..k] == IF j = 0 THEN 0 ELSE sum[j - 1] + Size(stream[j])
  IN  sum[k]

FramerInit ==
  /\ \E n \in 1..MaxFrames : stream \in [1..n -> Frames]
  /\ received = 0 /\ consumed = 0 /\ delivered = 0
  /\ pc = "read"

(* Variants of the tests in next_frame: an empty buffer is not told apart;  *)
(* the checksum is not compared                                             *)
NextFrameNeedsBytes(f, n) ==
  CASE n = 0                 -> "error"
    [] n \in 1..(Size(f) - 1) -> "more"
    [] n >= Size(f)          -> IF f.fault = "none" THEN "frame" ELSE "error"
NextFrameUnsummed(f, n) ==
  CASE n \in 0..(Size(f) - 1) -> "more"
    [] n >= Size(f)          -> IF f.fault \in {"none", "checksum"} THEN "frame" ELSE "error"

(* What next_frame answers on the first n bytes of a stream that starts     *)
(* with frame f                                                             *)
NextFrame(f, n) ==
  CASE n = 0                            -> "more"
    [] n \in 1..1                       -> "error"   (* MissingBeginString *)
    [] n \in 2..(BeginLen - 1)          -> "more"
    [] n \in BeginLen..(BeginLen + 1)   -> "error"   (* MissingBodyLength  *)
    [] n \in (BeginLen + 2)..BodyEnd(f) -> "more"
    [] n \in (BodyEnd(f) + 1)..(BodyEnd(f) + 2) ->
         IF f.fault = "length" THEN "more" ELSE "error"  (* InvalidBodyLength *)
    [] n \in (BodyEnd(f) + 3)..(Size(f) - 1) ->
         IF f.fault = "length" THEN "error" ELSE "more"
    [] n >= Size(f)                     -> IF f.fault = "none" THEN "frame" ELSE "error"

Current == stream[delivered + 1]
Pending == received - consumed

(* stream.read returns some of the bytes not read yet                       *)
Read ==
  /\ pc = "read"
  /\ \E k \in 1..(SizeOf(Len(stream)) - received) :
       received' = received + k
  /\ pc' = "parse"
  /\ UNCHANGED <<stream, consumed, delivered>>

(* Variant: one frame per read                                              *)
ParseOne ==
  /\ pc = "parse"
  /\ LET answer == IF delivered = Len(stream) THEN "more" ELSE NextFrame(Current, Pending) IN
       /\ delivered' = delivered + (IF answer = "frame" THEN 1 ELSE 0)
       /\ consumed' = consumed + (IF answer = "frame" THEN Size(Current) ELSE 0)
       /\ pc' = IF answer = "error" THEN "dead" ELSE "read"
  /\ UNCHANGED <<stream, received>>

(* One turn of the inner loop                                               *)
Parse ==
  /\ pc = "parse"
  /\ LET answer == IF delivered = Len(stream) THEN "more" ELSE NextFrame(Current, Pending) IN
       \/ /\ answer = "frame"
          /\ delivered' = delivered + 1
          /\ consumed' = consumed + Size(Current)
          /\ UNCHANGED pc
       \/ /\ answer = "more"
          /\ pc' = "read"
          /\ UNCHANGED <<delivered, consumed>>
       \/ /\ answer = "error"
          /\ pc' = "dead"
          /\ UNCHANGED <<delivered, consumed>>
  /\ UNCHANGED <<stream, received>>

FramerNext == Read \/ Parse

FramerSpec == FramerInit /\ [][FramerNext]_framerVars

---------------------------------------------------------------------------
(* Properties.                                                              *)

(* Whatever the reads' boundaries, the frames handed on are the stream's    *)
(* first ones, whole and sound, and pending starts where the next begins:   *)
(* no byte is dropped, repeated or taken into the wrong frame.              *)
SoundPrefix ==
  /\ consumed = SizeOf(delivered)
  /\ \A k \in 1..delivered : stream[k].fault = "none"

(* When the thread goes back to wait for bytes it has handled every frame   *)
(* that is complete: none sits in pending until more traffic arrives.       *)
NothingLeftBehind ==
  pc = "read" /\ delivered < Len(stream) => Pending < Size(Current)

(* docs/coinbase-hft-architecture.md:265, "TCP byte stream -> complete FIX  *)
(* frame；处理粘包/半包": half a frame is waited for, and only a frame with a *)
(* fault of its own ends the session.                                       *)
OnlyFaultsKill == pc = "dead" => Current.fault # "none"

(* Pending ends inside a tag that next_frame tests with starts_with: in 8=, *)
(* in 9= or in 10=                                                          *)
EndsInTag ==
  Pending \in {1, BeginLen, BeginLen + 1, BodyEnd(Current) + 1, BodyEnd(Current) + 2}

(* How far that is kept: a sound frame ends the session only when a read    *)
(* ends inside one of three tags; under every other cut it is waited for.   *)
KilledByFaultOrTornTag == pc = "dead" => Current.fault # "none" \/ EndsInTag
=============================================================================
