----------------------------- MODULE FixMessages -----------------------------
(***************************************************************************)
(* FIX messages byte by byte: the builders of FixEncoder (src/fix/encoder.rs)*)
(* push their fields one after the other and wrap them; next_frame and the  *)
(* field iterator of src/fix/parser.rs read them back, from a buffer that   *)
(* grows by one byte at a time.  A peer may also send the message with one  *)
(* of the faults of FixFramer.                                              *)
(***************************************************************************)
EXTENDS Ascii, SequencesExt

CONSTANTS
  Texts,      (* values given to the encoder: ids, symbols, credentials    *)
  SeqNums     (* MsgSeqNum(34)                                             *)

(* No value has a separator in it: the encoder does not look                *)
ASSUME MessagesAssumption ==
  /\ Texts \subseteq Seq((0..255) \ {SOH})
  /\ SeqNums \subseteq Nat

VARIABLES
  todo,       (* the fields the builder has still to push                  *)
  pushed,     (* history: those it has pushed                              *)
  body,       (* the bytes of those                                        *)
  fault,      (* what is wrong with the message                            *)
  wire,       (* the message, <<>> until it is wrapped                     *)
  got,        (* bytes of it in the reader's buffer                        *)
  answer,     (* what next_frame last answered                             *)
  offset,     (* of FixFieldIter                                           *)
  read        (* the fields it has yielded                                 *)

readerVars  == <<got, answer, offset, read>>
messageVars == <<todo, pushed, body, fault, wire, readerVars>>

---------------------------------------------------------------------------
(* FixEncoder: a field is its tag and its value.                            *)

Chosen(fields) == {<<>>} \cup {<<f>> : f \in fields}

StandardBody(type, n, t) ==
  << <<35, <<type>>>>, <<34, DigitsOf(n)>>, <<49, t>>, <<52, t>>, <<56, t>> >>

Heartbeats(n, t) == {StandardBody(48, n, t) \o id : id \in Chosen({<<112, t>>})}

Logon(n, t) == StandardBody(65, n, t) \o << <<98, DigitsOf(0)>>, <<108, DigitsOf(10)>> >>

CoinbaseLogons(n, t) ==
  {Logon(n, t) \o << <<553, t>>, <<554, t>>, <<95, DigitsOf(Len(t))>>, <<96, t>>,
                     <<1137, DigitsOf(9)>> >> \o cancel : cancel \in Chosen({<<8013, <<89>>>>})}

MarketDataRequest(n, t, symbols) ==
  StandardBody(86, n, t) \o << <<262, t>>, <<263, DigitsOf(1)>>, <<264, DigitsOf(1)>>,
                               <<146, DigitsOf(symbols)>> >> \o [k \in 1..symbols |-> <<55, t>>]

NewOrders(n, t) ==
  {StandardBody(68, n, t) \o << <<11, t>>, <<55, t>>, <<54, DigitsOf(side)>>, <<38, t>>,
                                <<40, DigitsOf(2)>>, <<44, t>> >> \o postOnly \o tif :
     side \in {1, 2}, postOnly \in Chosen({<<18, DigitsOf(6)>>}),
     tif \in Chosen({<<59, DigitsOf(3)>>, <<59, DigitsOf(4)>>})}

Cancels(n, t) ==
  {StandardBody(70, n, t) \o << <<11, t>>, <<41, t>>, <<55, t>>, <<54, DigitsOf(side)>> >> :
     side \in {1, 2}}

Messages ==
  UNION {Heartbeats(n, t) \cup {Logon(n, t)} \cup CoinbaseLogons(n, t)
           \cup {MarketDataRequest(n, t, k) : k \in 0..2}
           \cup NewOrders(n, t) \cup Cancels(n, t) : n \in SeqNums, t \in Texts}

MessagesInit ==
  /\ todo \in Messages
  /\ pushed = <<>> /\ body = <<>>
  /\ fault \in {"none", "checksum", "length", "type"}
  /\ wire = <<>> /\ got = 0 /\ answer = [kind |-> "more"]
  /\ offset = 0 /\ read = <<>>

Field(f) == DigitsOf(f[1]) \o <<Equals>> \o f[2] \o <<SOH>>

PushField ==
  /\ todo # <<>>
  /\ body' = body \o Field(Head(todo))
  /\ pushed' = Append(pushed, Head(todo))
  /\ todo' = Tail(todo)
  /\ UNCHANGED <<fault, wire, readerVars>>

Checksum(bytes) ==
  LET sum[k \in 0..Len(bytes)] == IF k = 0 THEN 0 ELSE sum[k - 1] + bytes[k]
  IN  sum[Len(bytes)] % 256

Preamble(length) == Field(<<8, <<70>>>>) \o Field(<<9, DigitsOf(length)>>)

(* Variant: the checksum is not padded to three digits                      *)
WrapUnpadded(b) ==
  LET front == Preamble(Len(b)) \o b IN front \o Field(<<10, DigitsOf(Checksum(front))>>)

Wrap(b) ==
  LET front == Preamble(Len(b)) \o b IN front \o Field(<<10, Padded(Checksum(front), 3)>>)

(* The same with a fault, external: another checksum, or a BodyLength that  *)
(* reaches past the end                                                     *)
StatedLength(b) == IF fault = "length" THEN Len(b) + 8 ELSE Len(b)
Spoil(b) ==
  LET front == Preamble(StatedLength(b)) \o b
      sum   == IF fault = "checksum" THEN Checksum(front) + 1 ELSE Checksum(front)
  IN  front \o Field(<<10, Padded(sum % 256, 3)>>)

(* and a MsgType of two characters                                          *)
LongType == Field(<<35, <<85, 55>>>>) \o SubSeq(body, 6, Len(body))

Send ==
  /\ todo = <<>> /\ wire = <<>>
  /\ body' = IF fault = "type" THEN LongType ELSE body
  /\ wire' = IF fault = "none" THEN Wrap(body) ELSE Spoil(body')
  /\ UNCHANGED <<todo, pushed, fault, readerVars>>

---------------------------------------------------------------------------
(* FixParser.                                                               *)

StartsAt(buf, k, bytes) ==
  /\ k + Len(bytes) - 1 <= Len(buf)
  /\ SubSeq(buf, k, k + Len(bytes) - 1) = bytes

FindSOH(buf, from) == SelectInSubSeq(buf, from, Len(buf), LAMBDA b : b = SOH)

IsNumber(bytes) == bytes # <<>> /\ ToSet(bytes) \subseteq Digits
ParseU32(bytes) ==
  LET of[k \in 0..Len(bytes)] == IF k = 0 THEN 0 ELSE 10 * of[k - 1] + (bytes[k] - Zero)
  IN  of[Len(bytes)]

(* msg_type_from_body: the value of the first field 35, which must be one   *)
(* character                                                                *)
HasMsgType(b) ==
  LET starts == {k \in 1..Len(b) : (k = 1 \/ b[k - 1] = SOH) /\ StartsAt(b, k, <<51, 53, Equals>>)}
      first  == CHOOSE k \in starts : \A j \in starts : k <= j
  IN  starts # {} /\ FindSOH(b, first) = first + 4

ChecksumTag == <<49, 48, Equals>>

(* The seven bytes behind the body, the last of them number n               *)
IsTrailer(buf, n) ==
  /\ buf[n] = SOH
  /\ IsNumber(SubSeq(buf, n - 3, n - 1))
  /\ ParseU32(SubSeq(buf, n - 3, n - 1)) = Checksum(SubSeq(buf, 1, n - 7))

(* next_frame, with its early returns: the frame's body, or why there is    *)
(* none                                                                     *)
NextFrameOf(buf) ==
  LET begin  == FindSOH(buf, 1)                  (* the SOH of 8=...        *)
      length == FindSOH(buf, begin + 3)          (* that of 9=...           *)
      digits == SubSeq(buf, begin + 3, length - 1)
      end    == length + ParseU32(digits)        (* the body's last byte    *)
      inside == SubSeq(buf, length + 1, end)
      more   == [kind |-> "more"]
      error  == [kind |-> "error"]
  IN
  IF buf = <<>> THEN more
  ELSE IF ~ StartsAt(buf, 1, <<56, Equals>>) THEN error
  ELSE IF begin = 0 THEN more
  ELSE IF ~ StartsAt(buf, begin + 1, <<57, Equals>>) THEN error
  ELSE IF length = 0 THEN more
  ELSE IF ~ IsNumber(digits) THEN error
  ELSE IF end > Len(buf)
  THEN IF \E k \in (length + 1)..Len(buf) : StartsAt(buf, k, <<SOH>> \o ChecksumTag)
       THEN error ELSE more
  ELSE IF end = Len(buf) THEN more
  ELSE IF ~ StartsAt(buf, end + 1, ChecksumTag) THEN error
  ELSE IF Len(buf) < end + 7 THEN more
  ELSE IF IsTrailer(buf, end + 7) /\ HasMsgType(inside)
  THEN [kind |-> "frame", body |-> inside] ELSE error

(* One byte more in the buffer, and next_frame is called                    *)
Receive ==
  /\ got < Len(wire) /\ answer.kind # "frame"
  /\ got' = got + 1
  /\ answer' = NextFrameOf(SubSeq(wire, 1, got'))
  /\ UNCHANGED <<todo, pushed, body, fault, wire, offset, read>>

(* FixFieldIter::next skips the SOHs before a field and takes what follows  *)
(* up to the next one, behind the last field nothing; a field without = or  *)
(* with a tag that is no number ends the fields                             *)
NextFieldOf(b, from) ==
  LET start == SelectInSubSeq(b, from + 1, Len(b), LAMBDA x : x # SOH)
      end   == IF FindSOH(b, start) = 0 THEN Len(b) + 1 ELSE FindSOH(b, start)
      eq    == SelectInSubSeq(b, start, end - 1, LAMBDA x : x = Equals)
      tag   == SubSeq(b, start, eq - 1)
  IN  IF start = 0 \/ eq = 0 \/ ~ IsNumber(tag) THEN [kind |-> "none"]
      ELSE [kind |-> "field", end |-> end,
            field |-> <<ParseU32(tag), SubSeq(b, eq + 1, end - 1)>>]

NextField ==
  /\ answer.kind = "frame"
  /\ LET next == NextFieldOf(answer.body, offset) IN
       /\ next.kind = "field"
       /\ read' = Append(read, next.field)
       /\ offset' = next.end
  /\ UNCHANGED <<todo, pushed, body, fault, wire, got, answer>>

MessagesNext == PushField \/ Send \/ Receive \/ NextField

MessagesSpec == MessagesInit /\ [][MessagesNext]_messageVars

---------------------------------------------------------------------------
(* Properties.                                                              *)

(* What FixFramer says of the message from its length and its fault         *)
Counted == INSTANCE FixFramer WITH
             BeginLen <- 4, LenDigits <- Nat \ {0}, BodyLens <- Nat \ {0},
             Faults <- {"checksum", "length", "type"}, MaxFrames <- 1,
             stream <- <<>>, received <- got, consumed <- 0, delivered <- 0,
             pc <- "read"
AsFrame ==
  [digits |-> Len(DigitsOf(StatedLength(body))), body |-> Len(body), fault |-> fault]

(* tests/fix_encoder_tests.rs and tests/fix_parser_tests.rs, together and   *)
(* for every message, value and cut: on each part of a message its reader   *)
(* answers what FixFramer counts - a sound message is whole with its last   *)
(* byte and not before, and its length and checksum are those expected -,   *)
(* and then it reads the fields that were pushed, in their order, no value  *)
(* running into the next field.                                             *)
EncodedIsRead ==
  /\ wire # <<>> => answer.kind = Counted!NextFrame(AsFrame, got)
  /\ got > 0 /\ got = Len(wire) => answer.kind = (IF fault = "none" THEN "frame" ELSE "error")
  /\ IsPrefix(read, pushed)
  /\ answer.kind = "frame" /\ NextFieldOf(answer.body, offset).kind = "none" => read = pushed
=============================================================================
