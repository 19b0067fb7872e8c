------------------------------ MODULE Decimals ------------------------------
(***************************************************************************)
(* Decimal numbers between FIX text and scaled integers: the scanner        *)
(* parse_decimal_scaled of src/types.rs, byte by byte, and format_scaled of *)
(* src/order.rs.  The text is the peer's or a configuration's, hence any,   *)
(* or what format_scaled made of an order's price or quantity.              *)
(***************************************************************************)
EXTENDS Ascii, SequencesExt

CONSTANTS
  Bytes,      (* bytes a text may hold                                     *)
  MaxTextLen, (* bound: bytes of a text                                    *)
  Scales,     (* price_scale and qty_scale of the products                 *)
  Ordered,    (* prices and quantities of orders                           *)
  MaxI64,     (* 2^63 - 1 in the code                                      *)
  MaxI128     (* 2^127 - 1 in the code                                     *)

ASSUME DecimalsAssumption ==
  /\ Bytes \subseteq 0..255
  /\ Scales \subseteq -MaxI64..MaxI64 /\ Ordered \subseteq -MaxI64..MaxI64
  /\ MaxI64 \in Nat /\ MaxI128 \in Nat /\ MaxI128 > MaxI64

VARIABLES
  text, scale,      (* the arguments input and scale                       *)
  ordered,          (* the value text was made of, if any: {} or {value}   *)
  pos,              (* bytes scanned                                       *)
  intPart, fracPart, fracScale, seenDot, seenDigit,
  outcome, value    (* "scan" and 0 until it is known                      *)

scanVars     == <<intPart, fracPart, fracScale, seenDot, seenDigit>>
decimalsVars == <<text, scale, ordered, pos, scanVars, outcome, value>>

---------------------------------------------------------------------------
(* format_scaled.                                                           *)

(* n.ilog10(): how many digits follow the first                             *)
Ilog10(n) == Len(DigitsOf(n)) - 1

Abs(v)  == IF v < 0 THEN -v ELSE v
Sign(v) == IF v < 0 THEN <<Minus>> ELSE <<>>

(* Variant: the fraction is not padded                                      *)
FormatUnpadded(v, s) ==
  Sign(v) \o (IF s <= 1 THEN DigitsOf(Abs(v))
              ELSE DigitsOf(Abs(v) \div s) \o <<Dot>> \o DigitsOf(Abs(v) % s))

FormatScaled(v, s) ==
  Sign(v) \o (IF s <= 1 THEN DigitsOf(Abs(v))
              ELSE DigitsOf(Abs(v) \div s) \o <<Dot>> \o Padded(Abs(v) % s, Ilog10(s)))

---------------------------------------------------------------------------
(* parse_decimal_scaled.                                                    *)

DecimalsInit ==
  /\ scale \in Scales
  /\ \/ ordered = {} /\ text \in BoundedSeq(Bytes, MaxTextLen)
     \/ \E v \in Ordered : ordered = {v} /\ text = FormatScaled(v, scale)
  /\ pos = 0
  /\ intPart = 0 /\ fracPart = 0 /\ fracScale = 1
  /\ seenDot = FALSE /\ seenDigit = FALSE
  /\ outcome = "start" /\ value = 0

Fail(error) ==
  /\ outcome' = error
  /\ UNCHANGED <<text, scale, ordered, pos, scanVars, value>>

(* The tests before the first byte is scanned, in their order               *)
Start ==
  /\ outcome = "start"
  /\ IF text = <<>> THEN Fail("Empty")
     ELSE IF scale <= 0 THEN Fail("InvalidScale")
     ELSE IF text[1] = Minus THEN Fail("NegativeNotSupported")
     ELSE outcome' = "scan" /\ UNCHANGED <<text, scale, ordered, pos, scanVars, value>>

Byte == text[pos + 1]
Shifted(n) == 10 * n + (Byte - Zero)

Scanning == outcome = "scan" /\ pos < Len(text)

Advance == pos' = pos + 1 /\ UNCHANGED <<text, scale, ordered, outcome, value>>

ScanIntDigit ==
  /\ Scanning /\ Byte \in Digits /\ ~ seenDot
  /\ IF Shifted(intPart) > MaxI128 THEN Fail("Overflow")
     ELSE /\ Advance
          /\ intPart' = Shifted(intPart) /\ seenDigit' = TRUE
          /\ UNCHANGED <<fracPart, fracScale, seenDot>>

(* Variant: only the size of the scale limits the digits                    *)
FractionTooLongForSize(fs) == fs > scale

FractionTooLong(fs) == fs > scale \/ scale % fs # 0

ScanFracDigit ==
  /\ Scanning /\ Byte \in Digits /\ seenDot
  /\ IF 10 * fracScale > MaxI64 THEN Fail("Overflow")
     ELSE IF FractionTooLong(10 * fracScale) THEN Fail("TooManyFractionalDigits")
     ELSE IF Shifted(fracPart) > MaxI128 THEN Fail("Overflow")
     ELSE /\ Advance
          /\ fracPart' = Shifted(fracPart) /\ fracScale' = 10 * fracScale /\ seenDigit' = TRUE
          /\ UNCHANGED <<intPart, seenDot>>

ScanDot ==
  /\ Scanning /\ Byte = Dot /\ ~ seenDot
  /\ Advance
  /\ seenDot' = TRUE
  /\ UNCHANGED <<intPart, fracPart, fracScale, seenDigit>>

ScanOther ==
  /\ Scanning /\ Byte \notin Digits /\ (Byte = Dot => seenDot)
  /\ Fail("InvalidByte")

Finish ==
  /\ outcome = "scan" /\ pos = Len(text)
  /\ LET scaled == intPart * scale + fracPart * (scale \div fracScale) IN
     IF ~ seenDigit THEN Fail("Empty")
     ELSE IF scaled > MaxI64 THEN Fail("Overflow")      (* of i128 or i64   *)
     ELSE /\ outcome' = "ok" /\ value' = scaled
          /\ UNCHANGED <<text, scale, ordered, pos, scanVars>>

DecimalsNext ==
  Start \/ ScanIntDigit \/ ScanFracDigit \/ ScanDot \/ ScanOther \/ Finish

DecimalsSpec == DecimalsInit /\ [][DecimalsNext]_decimalsVars

---------------------------------------------------------------------------
(* Properties.                                                              *)

(* What a text denotes, of itself: the number its digits spell, over ten    *)
(* to the number of those behind the dot                                    *)
IsDecimal(t) ==
  /\ \A k \in 1..Len(t) : t[k] \in Digits \cup {Dot}
  /\ \A j, k \in 1..Len(t) : t[j] = Dot /\ t[k] = Dot => j = k
  /\ \E k \in 1..Len(t) : t[k] \in Digits
Spelled(t) ==
  LET to[k \in 0..Len(t)] == IF k = 0 THEN 0
                             ELSE IF t[k] = Dot THEN to[k - 1]
                             ELSE 10 * to[k - 1] + (t[k] - Zero)
  IN  to[Len(t)]
Dots(t)   == {k \in 1..Len(t) : t[k] = Dot}
Behind(t) == IF Dots(t) = {} THEN 0 ELSE Len(t) - Max(Dots(t))
Power10(n) == LET to[k \in 0..n] == IF k = 0 THEN 1 ELSE 10 * to[k - 1] IN to[n]
Fraction == Power10(Behind(text))

(* parse_decimal_scaled accepts a text exactly if it is a decimal with no   *)
(* more digits behind the dot than the scale has room for and a value an    *)
(* i64 holds, and then answers that value, without rounding or wrapping.    *)
ParsedIsDenoted ==
  outcome \notin {"start", "scan"} =>
    IF /\ scale > 0 /\ IsDecimal(text)
       /\ scale % Fraction = 0
       /\ Spelled(text) * (scale \div Fraction) <= MaxI64
    THEN outcome = "ok" /\ value = Spelled(text) * (scale \div Fraction)
    ELSE outcome # "ok"

(* An order's price or quantity survives the trip: the text format_scaled   *)
(* writes into the FIX message is read as the value the strategy meant,     *)
(* for every scale that is a power of ten (with any other, which no test    *)
(* of the configuration refuses, it is not).                                *)
OrderedIsSent ==
  \A v \in ordered :
    /\ outcome \notin {"start", "scan"} /\ v >= 0
    /\ \E k \in 0..Len(DigitsOf(MaxI64)) : scale = Power10(k)
    => outcome = "ok" /\ value = v
=============================================================================
