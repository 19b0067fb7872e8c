--------------------------- MODULE Parsing_proofs ---------------------------
(***************************************************************************)
(* What is read off the wire.  FixParser::next_frame under the read loops,  *)
(* for every stream of frames and every cut of it into reads: what is       *)
(* handed on, what waits, and what ends the session.  parse_decimal_scaled  *)
(* and format_scaled, for every text, scale and value: what is accepted,    *)
(* what it is read as, and that what is written is read back.  And FIX      *)
(* messages: what the encoder's builders push, next_frame and the field     *)
(* iterator read back.                                                      *)
(***************************************************************************)
EXTENDS Parsing, SequenceTheorems, WellFoundedInduction, TLAPS

---------------------------------------------------------------------------
(* The means of induction: a set of naturals that is not empty has a least. *)

LEMMA LeastNatural ==
  ASSUME NEW S \in SUBSET Nat, S # {}
  PROVE  \E n \in S : \A m \in S : n <= m
<1>1. IsWellFoundedOn(OpToRel(<, Nat), Nat)
  BY NatLessThanWellFounded
<1>2. PICK n \in S : \A m \in S : ~ (<<m, n>> \in OpToRel(<, Nat))
  BY <1>1, WFMin, Zenon
<1>3. \A m \in S : ~ (m < n)
  BY <1>2 DEF OpToRel
<1>4. QED BY <1>3

---------------------------------------------------------------------------
(* The bytes of the first frames.  SizeOf sums by a recursive function, so  *)
(* the functions it chooses from have to be shown to exist.                 *)

(* f sums the sizes of the first frames of the stream, up to k of them      *)
Sums(f, k) ==
  f = [j \in 0..k |-> IF j = 0 THEN 0 ELSE f[j - 1] + Size(stream[j])]

LEMMA SumsExist == \A k \in Nat : \E f : Sums(f, k)
<1> DEFINE Bad == {k \in Nat : ~ \E f : Sums(f, k)}
<1> SUFFICES ASSUME Bad # {} PROVE FALSE
  OBVIOUS
<1>1. PICK n \in Bad : \A m \in Bad : n <= m
  BY LeastNatural
<1>2. CASE n = 0
  <2> DEFINE g == [j \in 0..0 |-> 0]
  <2>1. g = [j \in 0..0 |-> IF j = 0 THEN 0 ELSE g[j - 1] + Size(stream[j])]
    OBVIOUS
  <2>2. Sums(g, 0)
    BY <2>1 DEF Sums
  <2>3. QED BY <1>2, <2>2
<1>3. CASE n # 0
  <2>1. n - 1 \in Nat /\ ~ (n <= n - 1)
    BY <1>3
  <2>2. PICK f : Sums(f, n - 1)
    BY <1>1, <2>1
  <2> DEFINE g == [j \in 0..n |-> IF j = n THEN f[n - 1] + Size(stream[n]) ELSE f[j]]
             h == [j \in 0..n |-> IF j = 0 THEN 0 ELSE g[j - 1] + Size(stream[j])]
  <2>3. ASSUME NEW j \in 0..n PROVE g[j] = h[j]
    <3>1. \A i \in 0..(n - 1) : g[i] = f[i] /\ f[i] = IF i = 0 THEN 0 ELSE f[i - 1] + Size(stream[i])
      BY <2>1, <2>2 DEF Sums
    <3>2. CASE j = n
      BY <1>3, <2>1, <3>1, <3>2
    <3>3. CASE j # n
      BY <2>1, <3>1, <3>3
    <3>4. QED BY <3>2, <3>3
  <2>4. g = h
    BY <2>3
  <2>5. Sums(g, n)
    BY <2>4 DEF Sums
  <2>6. QED BY <2>5
<1>4. QED BY <1>2, <1>3

(* Two of them agree where both are defined                                 *)
LEMMA SumsAgree ==
  ASSUME NEW k \in Nat, NEW m \in Nat, k <= m, NEW f, NEW g, Sums(f, k), Sums(g, m)
  PROVE  \A j \in 0..k : f[j] = g[j]
<1> DEFINE Bad == {j \in 0..k : f[j] # g[j]}
<1> SUFFICES ASSUME Bad # {} PROVE FALSE
  OBVIOUS
<1>0. Bad \in SUBSET Nat
  OBVIOUS
<1>1. PICK j \in Bad : \A i \in Bad : j <= i
  BY <1>0, LeastNatural
<1>2. /\ \A i \in 0..k : f[i] = IF i = 0 THEN 0 ELSE f[i - 1] + Size(stream[i])
      /\ \A i \in 0..k : g[i] = IF i = 0 THEN 0 ELSE g[i - 1] + Size(stream[i])
  BY DEF Sums
<1>3. j # 0 => j - 1 \in 0..k /\ ~ (j <= j - 1)
  OBVIOUS
<1>4. j # 0 => f[j - 1] = g[j - 1]
  BY <1>1, <1>3
<1>5. QED BY <1>2, <1>4

LEMMA SizeOfNext ==
  /\ SizeOf(0) = 0
  /\ \A k \in Nat : SizeOf(k + 1) = SizeOf(k) + Size(stream[k + 1])
<1>1. \A k \in Nat : \E f : Sums(f, k) /\ SizeOf(k) = f[k]
  BY SumsExist DEF SizeOf, Sums
<1>2. SizeOf(0) = 0
  BY <1>1 DEF Sums
<1>3. ASSUME NEW k \in Nat PROVE SizeOf(k + 1) = SizeOf(k) + Size(stream[k + 1])
  <2>1. PICK f : Sums(f, k) /\ SizeOf(k) = f[k]
    BY <1>1
  <2>2. PICK g : Sums(g, k + 1) /\ SizeOf(k + 1) = g[k + 1]
    BY <1>1
  <2>3. f[k] = g[k]
    BY <2>1, <2>2, SumsAgree
  <2>4. g[k + 1] = g[k] + Size(stream[k + 1])
    BY <2>2 DEF Sums
  <2>5. QED BY <2>1, <2>2, <2>3, <2>4
<1>4. QED BY <1>2, <1>3

---------------------------------------------------------------------------
(* The invariant.                                                           *)

FramerTypeOK ==
  /\ stream \in Seq(Frames)
  /\ received \in Nat /\ consumed \in Nat /\ delivered \in 0..Len(stream)
  /\ pc \in {"read", "parse", "dead"}

FramerInv ==
  /\ FramerTypeOK
  /\ consumed <= received /\ received <= SizeOf(Len(stream))
  /\ pc = "dead" => delivered < Len(stream)
  /\ SoundPrefix /\ NothingLeftBehind /\ KilledByFaultOrTornTag

LEMMA FrameSizes ==
  ASSUME NEW f \in Frames
  PROVE  /\ BodyEnd(f) \in Nat /\ Size(f) = BodyEnd(f) + 7 /\ BodyEnd(f) > BeginLen + 2
         /\ BeginLen \in Nat /\ BeginLen > 2
<1>1. f.digits \in Nat \ {0} /\ f.body \in Nat \ {0}
  BY FramerAssumption DEF Frames
<1>2. QED BY <1>1, FramerAssumption DEF BodyEnd, BodyStart, Size

(* What next_frame's answers tell of the frame and of how much of it is     *)
(* there                                                                    *)
LEMMA AnswersTell ==
  ASSUME NEW f \in Frames, NEW n \in Nat
  PROVE  /\ NextFrame(f, n) = "frame" => n >= Size(f) /\ f.fault = "none"
         /\ NextFrame(f, n) = "more" => n < Size(f)
         /\ NextFrame(f, n) = "error" =>
              \/ f.fault # "none"
              \/ n \in {1, BeginLen, BeginLen + 1, BodyEnd(f) + 1, BodyEnd(f) + 2}
<1> DEFINE b == BodyEnd(f)
<1>1. b \in Nat /\ Size(f) = b + 7 /\ b > BeginLen + 2 /\ BeginLen \in Nat /\ BeginLen > 2
  BY FrameSizes
<1> HIDE DEF b
<1>2. NextFrame(f, n) =
        CASE n = 0                        -> "more"
          [] n \in 1..1                   -> "error"
          [] n \in 2..(BeginLen - 1)      -> "more"
          [] n \in BeginLen..(BeginLen + 1) -> "error"
          [] n \in (BeginLen + 2)..b      -> "more"
          [] n \in (b + 1)..(b + 2)       -> IF f.fault = "length" THEN "more" ELSE "error"
          [] n \in (b + 3)..(Size(f) - 1) -> IF f.fault = "length" THEN "error" ELSE "more"
          [] n >= Size(f)                 -> IF f.fault = "none" THEN "frame" ELSE "error"
  BY DEF NextFrame, b
<1>3. CASE n = 0
  BY <1>1, <1>2, <1>3
<1>4. CASE n \in 1..1
  BY <1>1, <1>2, <1>4
<1>5. CASE n \in 2..(BeginLen - 1)
  BY <1>1, <1>2, <1>5
<1>6. CASE n \in BeginLen..(BeginLen + 1)
  BY <1>1, <1>2, <1>6 DEF b
<1>7. CASE n \in (BeginLen + 2)..b
  BY <1>1, <1>2, <1>7
<1>8. CASE n \in (b + 1)..(b + 2)
  BY <1>1, <1>2, <1>8 DEF b
<1>9. CASE n \in (b + 3)..(Size(f) - 1)
  BY <1>1, <1>2, <1>9
<1>10. CASE n >= Size(f)
  BY <1>1, <1>2, <1>10
<1>11. QED BY <1>1, <1>3, <1>4, <1>5, <1>6, <1>7, <1>8, <1>9, <1>10

(* The first frames are no longer than more of them                         *)
LEMMA SizesAreNaturals ==
  ASSUME stream \in Seq(Frames)
  PROVE  \A k \in 0..Len(stream) : SizeOf(k) \in Nat
<1> DEFINE Bad == {k \in 0..Len(stream) : SizeOf(k) \notin Nat}
<1> SUFFICES ASSUME Bad # {} PROVE FALSE
  OBVIOUS
<1>1. Bad \in SUBSET Nat
  OBVIOUS
<1>2. PICK n \in Bad : \A m \in Bad : n <= m
  BY <1>1, LeastNatural
<1>3. n # 0
  <2>1. SizeOf(n) \notin Nat
    BY <1>2
  <2>2. SizeOf(0) = 0
    BY SizeOfNext
  <2>3. QED BY <2>1, <2>2
<1>4. n - 1 \in 0..Len(stream) /\ n \in 1..Len(stream) /\ ~ (n <= n - 1) /\ (n - 1) + 1 = n
  BY <1>2, <1>3
<1>5. SizeOf(n - 1) \in Nat
  BY <1>2, <1>4
<1>6. stream[n] \in Frames
  BY <1>4
<1>7. Size(stream[n]) \in Nat
  BY <1>6, FrameSizes
<1>8. SizeOf(n) = SizeOf(n - 1) + Size(stream[n])
  BY <1>4, SizeOfNext
<1>9. QED BY <1>2, <1>5, <1>7, <1>8

LEMMA FramerBegins == FramerInit => FramerInv
<1> SUFFICES ASSUME FramerInit PROVE FramerInv
  OBVIOUS
<1>1. stream \in Seq(Frames) /\ Len(stream) \in Nat
  BY FramerAssumption DEF FramerInit
<1>2. received = 0 /\ consumed = 0 /\ delivered = 0 /\ pc = "read"
  BY DEF FramerInit
<1>3. SizeOf(0) = 0 /\ SizeOf(Len(stream)) \in Nat
  BY <1>1, SizeOfNext, SizesAreNaturals
<1>4. delivered < Len(stream) => Current \in Frames
  BY <1>1, <1>2 DEF Current
<1>5. delivered < Len(stream) => Pending < Size(Current)
  BY <1>2, <1>4, FrameSizes DEF Pending
<1>6. QED
  BY <1>1, <1>2, <1>3, <1>5
  DEF FramerInv, FramerTypeOK, SoundPrefix, NothingLeftBehind, KilledByFaultOrTornTag

LEMMA FramerStep == FramerInv /\ [FramerNext]_framerVars => FramerInv'
<1> SUFFICES ASSUME FramerInv, [FramerNext]_framerVars PROVE FramerInv'
  OBVIOUS
<1>0. /\ stream \in Seq(Frames) /\ Len(stream) \in Nat
      /\ received \in Nat /\ consumed \in Nat /\ delivered \in 0..Len(stream)
      /\ consumed <= received /\ received <= SizeOf(Len(stream))
      /\ consumed = SizeOf(delivered)
  BY DEF FramerInv, FramerTypeOK, SoundPrefix
<1>a. stream' = stream
  BY DEF FramerNext, Read, Parse, framerVars
<1>b. \A k : SizeOf(k)' = SizeOf(k)
  BY <1>a DEF SizeOf
<1>1. CASE UNCHANGED framerVars
  BY <1>1, <1>b DEF framerVars, FramerInv, FramerTypeOK, SoundPrefix, NothingLeftBehind,
     KilledByFaultOrTornTag, EndsInTag, Pending, Current
<1>2. CASE Read
  <2>1. PICK k \in 1..(SizeOf(Len(stream)) - received) : received' = received + k
    BY <1>2 DEF Read
  <2>2. /\ pc' = "parse" /\ consumed' = consumed /\ delivered' = delivered
    BY <1>2 DEF Read
  <2>3. SizeOf(Len(stream)) \in Nat
    BY <1>0, SizesAreNaturals
  <2>4. received' \in Nat /\ consumed' <= received' /\ received' <= SizeOf(Len(stream))
    BY <1>0, <2>1, <2>2, <2>3
  <2>5. QED
    BY <1>0, <1>a, <1>b, <2>2, <2>4
    DEF FramerInv, FramerTypeOK, SoundPrefix, NothingLeftBehind, KilledByFaultOrTornTag
<1>3. CASE Parse
  <2> DEFINE call == IF delivered = Len(stream) THEN "more" ELSE NextFrame(Current, Pending)
  <2>1. pc = "parse" /\ received' = received
    BY <1>3 DEF Parse
  <2>2. Pending \in Nat
    BY <1>0 DEF Pending
  <2>3. delivered < Len(stream) => delivered + 1 \in 1..Len(stream) /\ Current \in Frames
    BY <1>0 DEF Current
  <2>4. CASE call = "frame" /\ delivered' = delivered + 1 /\ consumed' = consumed + Size(Current)
             /\ UNCHANGED pc
    <3>1. delivered # Len(stream) /\ NextFrame(Current, Pending) = "frame"
      BY <2>4
    <3>2. delivered < Len(stream)
      BY <1>0, <3>1
    <3>3. Pending >= Size(Current) /\ Current.fault = "none"
      BY <2>2, <2>3, <3>1, <3>2, AnswersTell
    <3>4. Size(Current) \in Nat
      BY <2>3, <3>2, FrameSizes
    <3>5. consumed' \in Nat /\ consumed' <= received' /\ delivered' \in 0..Len(stream)
      BY <1>0, <2>1, <2>3, <2>4, <3>2, <3>3, <3>4 DEF Pending
    <3>6. consumed' = SizeOf(delivered')
      BY <1>0, <2>4, SizeOfNext DEF Current
    <3>7. \A k \in 1..delivered' : stream[k].fault = "none"
      <4>1. \A k \in 1..delivered' : k \in 1..delivered \/ k = delivered + 1
        BY <1>0, <2>4
      <4>2. QED BY <3>3, <4>1 DEF FramerInv, SoundPrefix, Current
    <3>8. pc' = "parse"
      BY <2>1, <2>4
    <3>9. QED
      BY <1>0, <1>a, <1>b, <2>1, <3>5, <3>6, <3>7, <3>8
      DEF FramerInv, FramerTypeOK, SoundPrefix, NothingLeftBehind, KilledByFaultOrTornTag
  <2>5. CASE call = "more" /\ pc' = "read" /\ UNCHANGED <<delivered, consumed>>
    <3>1. delivered < Len(stream) => Pending < Size(Current)
      BY <2>2, <2>3, <2>5, AnswersTell
    <3>2. QED
      BY <1>0, <1>a, <1>b, <2>1, <2>5, <3>1
      DEF FramerInv, FramerTypeOK, SoundPrefix, NothingLeftBehind, KilledByFaultOrTornTag,
          Pending, Current
  <2>6. CASE call = "error" /\ pc' = "dead" /\ UNCHANGED <<delivered, consumed>>
    <3>1. delivered # Len(stream) /\ NextFrame(Current, Pending) = "error"
      BY <2>6
    <3>2. delivered < Len(stream)
      BY <1>0, <3>1
    <3>3. Current.fault # "none" \/ EndsInTag
      BY <2>2, <2>3, <3>1, <3>2, AnswersTell DEF EndsInTag
    <3>4. Current' = Current /\ Pending' = Pending
      BY <1>a, <2>1, <2>6 DEF Current, Pending
    <3>5. (Current.fault # "none" \/ EndsInTag)'
      BY <3>3, <3>4 DEF EndsInTag
    <3>6. QED
      BY <1>0, <1>a, <1>b, <2>1, <2>6, <3>2, <3>5
      DEF FramerInv, FramerTypeOK, SoundPrefix, NothingLeftBehind, KilledByFaultOrTornTag
  <2>7. QED BY <1>3, <2>4, <2>5, <2>6 DEF Parse
<1>4. QED BY <1>1, <1>2, <1>3 DEF FramerNext

(* The read loops of src/runtime.rs and next_frame: the frames handed on    *)
(* are the first ones of the stream, whole and sound, wherever reads end.   *)
THEOREM FramesAreSoundPrefix == FramerSpec => []SoundPrefix
<1>1. FramerInv => SoundPrefix
  BY DEF FramerInv
<1>2. QED BY <1>1, FramerBegins, FramerStep, PTL DEF FramerSpec

(* The inner loop ends only when no complete frame is left in pending.      *)
THEOREM FramesAreNotLeftBehind == FramerSpec => []NothingLeftBehind
<1>1. FramerInv => NothingLeftBehind
  BY DEF FramerInv
<1>2. QED BY <1>1, FramerBegins, FramerStep, PTL DEF FramerSpec

(* A session ends only over a faulty frame, or over a sound one of which a  *)
(* read ended inside one of the three tags that starts_with tests.          *)
THEOREM FramesKillByFaultOrTornTag == FramerSpec => []KilledByFaultOrTornTag
<1>1. FramerInv => KilledByFaultOrTornTag
  BY DEF FramerInv
<1>2. QED BY <1>1, FramerBegins, FramerStep, PTL DEF FramerSpec

---------------------------------------------------------------------------
(* Recursive functions on the first numbers.                                *)

(* f takes the value c to start with and a step of its own at each number   *)
Runs(f, c, step, n) == f[0] = c /\ \A k \in 1..n : f[k] = step[k][f[k - 1]]

LEMMA RunsExist ==
  ASSUME NEW V, NEW c \in V, NEW step \in [Nat -> [V -> V]]
  PROVE  \A n \in Nat : \E f \in [0..n -> V] : Runs(f, c, step, n)
<1> DEFINE Bad == {n \in Nat : ~ \E f \in [0..n -> V] : Runs(f, c, step, n)}
<1> SUFFICES ASSUME Bad # {} PROVE FALSE
  OBVIOUS
<1>0. Bad \in SUBSET Nat
  OBVIOUS
<1>1. PICK n \in Bad : \A m \in Bad : n <= m
  BY <1>0, LeastNatural
<1>2. CASE n = 0
  <2> DEFINE g == [k \in 0..0 |-> c]
  <2>1. g \in [0..0 -> V] /\ Runs(g, c, step, 0)
    BY DEF Runs
  <2>2. QED BY <1>1, <1>2, <2>1
<1>3. CASE n # 0
  <2>1. n - 1 \in Nat /\ ~ (n <= n - 1) /\ n \in Nat
    BY <1>1, <1>3
  <2>2. PICK f \in [0..(n - 1) -> V] : Runs(f, c, step, n - 1)
    BY <1>1, <2>1
  <2> DEFINE g == [k \in 0..n |-> IF k = n THEN step[n][f[n - 1]] ELSE f[k]]
  <2>3. step[n][f[n - 1]] \in V
    BY <2>1
  <2>4. g \in [0..n -> V]
    BY <2>1, <2>3
  <2>5. g[0] = c /\ g[n] = step[n][g[n - 1]]
    BY <1>3, <2>1, <2>2 DEF Runs
  <2>6. ASSUME NEW k \in 1..n, k # n PROVE g[k] = step[k][g[k - 1]]
    <3>1. k \in 1..(n - 1) /\ k \in 0..n /\ k - 1 \in 0..n /\ k - 1 # n
      BY <2>1, <2>6
    <3>2. f[k] = step[k][f[k - 1]]
      BY <2>2, <3>1 DEF Runs
    <3>3. QED BY <2>6, <3>1, <3>2
  <2> HIDE DEF g
  <2>7. Runs(g, c, step, n)
    BY <2>5, <2>6 DEF Runs
  <2>8. QED BY <1>1, <2>4, <2>7
<1>4. QED BY <1>2, <1>3

(* Two functions with the same steps agree                                  *)
SameSteps(f, g, n) == f[0] = g[0] /\ \A k \in 1..n : f[k - 1] = g[k - 1] => f[k] = g[k]

LEMMA StepsAgree ==
  ASSUME NEW n \in Nat, NEW f, NEW g, SameSteps(f, g, n)
  PROVE  \A k \in 0..n : f[k] = g[k]
<1> DEFINE Bad == {k \in 0..n : f[k] # g[k]}
<1> SUFFICES ASSUME Bad # {} PROVE FALSE
  OBVIOUS
<1>0. Bad \in SUBSET Nat
  OBVIOUS
<1>1. PICK k \in Bad : \A m \in Bad : k <= m
  BY <1>0, LeastNatural
<1>2. k \in 1..n /\ k - 1 \in 0..n /\ ~ (k <= k - 1)
  BY <1>1 DEF SameSteps
<1>3. f[k - 1] = g[k - 1]
  BY <1>1, <1>2
<1>4. QED BY <1>1, <1>2, <1>3 DEF SameSteps

---------------------------------------------------------------------------
(* Powers of ten.                                                           *)

TenStep == [k \in Nat |-> [v \in Nat |-> 10 * v]]

LEMMA PowerRuns ==
  ASSUME NEW n \in Nat
  PROVE  \E f \in [0..n -> Nat] : Runs(f, 1, TenStep, n) /\ Power10(n) = f[n]
<1>1. TenStep \in [Nat -> [Nat -> Nat]] /\ 1 \in Nat
  BY DEF TenStep
<1>2. PICK g \in [0..n -> Nat] : Runs(g, 1, TenStep, n)
  BY <1>1, RunsExist
<1>3. ASSUME NEW k \in 1..n PROVE g[k] = 10 * g[k - 1]
  <2>1. k - 1 \in 0..n /\ k \in Nat
    OBVIOUS
  <2>2. g[k] = TenStep[k][g[k - 1]]
    BY <1>2 DEF Runs
  <2>3. QED BY <2>1, <2>2 DEF TenStep
<1>4. g = [k \in 0..n |-> IF k = 0 THEN 1 ELSE 10 * g[k - 1]]
  BY <1>2, <1>3 DEF Runs
<1>5. PICK h : /\ h = [k \in 0..n |-> IF k = 0 THEN 1 ELSE 10 * h[k - 1]]
               /\ Power10(n) = h[n]
  BY <1>4 DEF Power10
<1>6. h[0] = g[0] /\ \A k \in 1..n : h[k] = 10 * h[k - 1]
  BY <1>4, <1>5
<1>7. SameSteps(h, g, n)
  BY <1>3, <1>6 DEF SameSteps
<1>8. \A k \in 0..n : h[k] = g[k]
  BY <1>7, StepsAgree
<1>9. QED BY <1>2, <1>5, <1>8

LEMMA PowerRunsOn ==
  ASSUME NEW n \in Nat
  PROVE  Power10(n) \in Nat /\ Power10(n + 1) = 10 * Power10(n)
<1>1. PICK f \in [0..n -> Nat] : Runs(f, 1, TenStep, n) /\ Power10(n) = f[n]
  BY PowerRuns
<1>2. PICK m \in Nat : m = n + 1
  OBVIOUS
<1>3. PICK g \in [0..m -> Nat] : Runs(g, 1, TenStep, m) /\ Power10(m) = g[m]
  BY PowerRuns
<1>4. /\ f[0] = g[0]
      /\ \A k \in 1..n : f[k] = TenStep[k][f[k - 1]] /\ g[k] = TenStep[k][g[k - 1]]
  BY <1>1, <1>2, <1>3 DEF Runs
<1>5. SameSteps(f, g, n)
  BY <1>4 DEF SameSteps
<1>6. f[n] = g[n]
  BY <1>5, StepsAgree
<1>7. g[m] = TenStep[m][g[n]] /\ g[n] \in Nat
  BY <1>2, <1>3 DEF Runs
<1>8. QED BY <1>1, <1>2, <1>3, <1>6, <1>7 DEF TenStep

LEMMA PowerNext ==
  /\ Power10(0) = 1
  /\ \A n \in Nat : Power10(n) \in Nat /\ Power10(n + 1) = 10 * Power10(n)
<1>1. PICK f : Runs(f, 1, TenStep, 0) /\ Power10(0) = f[0]
  BY PowerRuns
<1>2. QED BY <1>1, PowerRunsOn DEF Runs

LEMMA PowerPositive == \A n \in Nat : Power10(n) \in Nat \ {0}
<1> DEFINE Bad == {n \in Nat : Power10(n) = 0}
<1> SUFFICES ASSUME Bad # {} PROVE FALSE
  BY PowerNext
<1>0. Bad \in SUBSET Nat
  OBVIOUS
<1>1. PICK k \in Bad : \A m \in Bad : k <= m
  BY <1>0, LeastNatural
<1>2. k - 1 \in Nat /\ ~ (k <= k - 1) /\ (k - 1) + 1 = k
  BY <1>1, PowerNext
<1>3. Power10(k) = 10 * Power10(k - 1) /\ Power10(k - 1) \in Nat
  BY <1>2, PowerNext
<1>4. QED BY <1>1, <1>2, <1>3

(* The larger power is a multiple of the smaller                            *)
LEMMA PowerDivides ==
  ASSUME NEW a \in Nat
  PROVE  \A d \in Nat : \E m \in Nat \ {0} : Power10(a + d) = m * Power10(a)
<1> DEFINE Bad == {d \in Nat : ~ \E m \in Nat \ {0} : Power10(a + d) = m * Power10(a)}
<1> SUFFICES ASSUME Bad # {} PROVE FALSE
  OBVIOUS
<1>0. Bad \in SUBSET Nat
  OBVIOUS
<1>1. PICK d \in Bad : \A n \in Bad : d <= n
  BY <1>0, LeastNatural
<1>2. d # 0
  <2>1. Power10(a + 0) = 1 * Power10(a)
    BY PowerNext
  <2>2. 0 \notin Bad
    BY <2>1
  <2>3. QED BY <1>1, <2>2
<1>3. d - 1 \in Nat /\ ~ (d <= d - 1)
  BY <1>1, <1>2
<1>4. PICK m \in Nat \ {0} : Power10(a + (d - 1)) = m * Power10(a)
  BY <1>1, <1>3
<1>5. Power10((a + (d - 1)) + 1) = 10 * Power10(a + (d - 1)) /\ (a + (d - 1)) + 1 = a + d
  BY <1>3, PowerNext
<1>6. PICK p \in Nat : p = Power10(a)
  BY PowerNext
<1>7. 10 * (m * p) = (10 * m) * p /\ 10 * m \in Nat \ {0}
  OBVIOUS
<1>8. Power10(a + d) = (10 * m) * Power10(a)
  BY <1>4, <1>5, <1>6, <1>7
<1>9. QED BY <1>1, <1>7, <1>8

---------------------------------------------------------------------------
(* What a text spells.                                                      *)

SpellStep(t) ==
  [k \in Nat |-> [v \in Int |-> IF k \notin 1..Len(t) THEN v
                                ELSE IF t[k] = Dot THEN v ELSE 10 * v + (t[k] - Zero)]]

LEMMA SpelledRuns ==
  ASSUME NEW t \in Seq(Int), NEW n \in Nat, n = Len(t)
  PROVE  \E f \in [0..n -> Int] : Runs(f, 0, SpellStep(t), n) /\ Spelled(t) = f[n]
<1>0. \A k \in 1..n : t[k] \in Int
  OBVIOUS
<1>1. SpellStep(t) \in [Nat -> [Int -> Int]] /\ 0 \in Int
  BY <1>0 DEF SpellStep, Zero
<1>2. PICK g \in [0..n -> Int] : Runs(g, 0, SpellStep(t), n)
  BY <1>1, RunsExist
<1>3. ASSUME NEW k \in 1..n
      PROVE  g[k] = IF t[k] = Dot THEN g[k - 1] ELSE 10 * g[k - 1] + (t[k] - Zero)
  <2>1. k - 1 \in 0..n /\ k \in Nat
    OBVIOUS
  <2>2. g[k] = SpellStep(t)[k][g[k - 1]] /\ g[k - 1] \in Int
    BY <1>2, <2>1 DEF Runs
  <2>3. QED BY <2>1, <2>2 DEF SpellStep
<1>4. g = [k \in 0..n |-> IF k = 0 THEN 0
                          ELSE IF t[k] = Dot THEN g[k - 1]
                          ELSE 10 * g[k - 1] + (t[k] - Zero)]
  BY <1>2, <1>3 DEF Runs
<1>5. PICK h : /\ h = [k \in 0..n |-> IF k = 0 THEN 0
                                      ELSE IF t[k] = Dot THEN h[k - 1]
                                      ELSE 10 * h[k - 1] + (t[k] - Zero)]
               /\ Spelled(t) = h[n]
  BY <1>4 DEF Spelled
<1>6. h[0] = 0 /\ g[0] = 0
  BY <1>4, <1>5
<1>7. ASSUME NEW k \in 1..n
      PROVE  h[k] = IF t[k] = Dot THEN h[k - 1] ELSE 10 * h[k - 1] + (t[k] - Zero)
  <2>1. k # 0 /\ k \in 0..n
    BY <1>7
  <2>2. QED BY <1>5, <2>1, Zenon
<1>8. SameSteps(h, g, n)
  BY <1>3, <1>6, <1>7 DEF SameSteps
<1>9. h[n] = g[n]
  BY <1>8, StepsAgree
<1>10. QED BY <1>2, <1>5, <1>9

LEMMA SpelledAppend ==
  ASSUME NEW t \in Seq(Int), NEW x \in Int
  PROVE  Spelled(Append(t, x)) = IF x = Dot THEN Spelled(t) ELSE 10 * Spelled(t) + (x - Zero)
<1>a. Append(t, x) \in Seq(Int)
  OBVIOUS
<1>1. PICK u \in Seq(Int) : u = Append(t, x)
  BY <1>a
<1>b. PICK n \in Nat : n = Len(t)
  OBVIOUS
<1>c. PICK m \in Nat : m = n + 1
  OBVIOUS
<1>2. m = Len(u) /\ u[m] = x /\ \A k \in 1..n : u[k] = t[k] /\ k \in 1..m
  BY <1>1, <1>b, <1>c
<1>3. PICK f : f \in [0..n -> Int] /\ Runs(f, 0, SpellStep(t), n) /\ Spelled(t) = f[n]
  BY <1>b, SpelledRuns
<1>4. PICK g : g \in [0..m -> Int] /\ Runs(g, 0, SpellStep(u), m) /\ Spelled(u) = g[m]
  BY <1>2, SpelledRuns
<1>5. f[0] = g[0]
  BY <1>3, <1>4 DEF Runs
<1>6. ASSUME NEW k \in 1..n, f[k - 1] = g[k - 1] PROVE f[k] = g[k]
  <2>1. k \in Nat /\ k - 1 \in 0..n /\ f[k - 1] \in Int
    BY <1>3
  <2>2. f[k] = SpellStep(t)[k][f[k - 1]] /\ g[k] = SpellStep(u)[k][f[k - 1]]
    BY <1>2, <1>3, <1>4, <1>6 DEF Runs
  <2>3. QED BY <1>b, <1>2, <2>1, <2>2 DEF SpellStep
<1>7. SameSteps(f, g, n)
  BY <1>5, <1>6 DEF SameSteps
<1>8. \A k \in 0..n : f[k] = g[k]
  BY <1>7, StepsAgree
<1>9. f[n] = g[n] /\ f[n] \in Int
  BY <1>3, <1>8
<1>10. m \in 1..m /\ m - 1 = n
  BY <1>c
<1>11. g[m] = SpellStep(u)[m][g[n]]
  BY <1>4, <1>10 DEF Runs
<1>12. g[m] = IF x = Dot THEN g[n] ELSE 10 * g[n] + (x - Zero)
  BY <1>2, <1>9, <1>10, <1>11 DEF SpellStep
<1>13. QED BY <1>1, <1>3, <1>4, <1>9, <1>12

LEMMA SpelledIsInt ==
  /\ Spelled(<<>>) = 0
  /\ \A t \in Seq(Int) : Spelled(t) \in Int
<1>1. Spelled(<<>>) = 0
  <2>1. <<>> \in Seq(Int) /\ Len(<<>>) = 0
    OBVIOUS
  <2>2. PICK t \in Seq(Int) : t = <<>>
    BY <2>1
  <2>3. PICK f : Runs(f, 0, SpellStep(t), 0) /\ Spelled(t) = f[0]
    BY <2>1, <2>2, SpelledRuns
  <2>4. QED BY <2>2, <2>3 DEF Runs
<1>2. ASSUME NEW t \in Seq(Int) PROVE Spelled(t) \in Int
  <2>a. PICK n \in Nat : n = Len(t)
    OBVIOUS
  <2>1. PICK f \in [0..n -> Int] : Spelled(t) = f[n]
    BY <2>a, SpelledRuns
  <2>2. QED BY <2>1
<1>3. QED BY <1>1, <1>2

(* A text is its first bytes and its last                                   *)
LEMMA LastByte ==
  ASSUME NEW S, NEW t \in Seq(S), t # <<>>
  PROVE  \E u \in Seq(S), x \in S : t = Append(u, x) /\ Len(u) = Len(t) - 1
<1>1. Len(t) \in Nat \ {0} /\ t[Len(t)] \in S
  OBVIOUS
<1>2. PICK u : u = [k \in 1..(Len(t) - 1) |-> t[k]]
  OBVIOUS
<1>3. u \in Seq(S) /\ Len(u) = Len(t) - 1
  BY <1>1, <1>2
<1>4. t = Append(u, t[Len(t)])
  BY <1>1, <1>2, <1>3
<1>5. QED BY <1>1, <1>3, <1>4

(* Texts without a dot                                                      *)
DigitTexts == Seq(Digits)

(* Digits behind a text shift what it spells                                *)
LEMMA SpelledBehind ==
  ASSUME NEW t \in Seq(Int)
  PROVE  \A u \in DigitTexts : Spelled(t \o u) = Spelled(t) * Power10(Len(u)) + Spelled(u)
<1> DEFINE Fine(u) == Spelled(t \o u) = Spelled(t) * Power10(Len(u)) + Spelled(u)
           Bad == {n \in Nat : \E u \in DigitTexts : Len(u) = n /\ ~ Fine(u)}
<1>0. ASSUME NEW u \in DigitTexts PROVE u \in Seq(Int) /\ Len(u) \in Nat
  <2>1. Digits \subseteq Int
    BY DEF Digits, Zero
  <2>2. u \in Seq(Digits)
    BY DEF DigitTexts
  <2>3. u \in Seq(Int)
    BY <2>1, <2>2, SeqMonotonic
  <2>4. QED BY <2>3
<1> SUFFICES ASSUME Bad # {} PROVE FALSE
  BY <1>0
<1>1. Bad \in SUBSET Nat
  OBVIOUS
<1>2. PICK n \in Bad : \A m \in Bad : n <= m
  BY <1>1, LeastNatural
<1>3. PICK u \in DigitTexts : Len(u) = n /\ ~ Fine(u)
  BY <1>2
<1>4. PICK p \in Int : p = Spelled(t)
  BY SpelledIsInt
<1>5. u # <<>>
  <2>1. ASSUME u = <<>> PROVE FALSE
    <3>1. t \o u = t /\ Len(u) = 0
      BY <2>1
    <3>2. Fine(u)
      BY <1>4, <2>1, <3>1, SpelledIsInt, PowerNext
    <3>3. QED BY <1>3, <3>2
  <2>2. QED BY <2>1
<1>6. PICK w \in DigitTexts, x \in Digits : u = Append(w, x) /\ Len(w) = Len(u) - 1
  BY <1>5, LastByte DEF DigitTexts
<1>7. x \in Int /\ x # Dot /\ w \in Seq(Int) /\ Len(w) \in Nat /\ Len(u) = Len(w) + 1
  BY <1>0, <1>6 DEF Digits, Zero, Dot
<1>8. Fine(w)
  <2>1. ~ (n <= Len(w)) /\ Len(w) \in Nat
    BY <1>3, <1>7
  <2>2. Len(w) \notin Bad
    BY <1>2, <2>1
  <2>3. QED BY <1>7, <2>2
<1>9. t \o u = Append(t \o w, x) /\ t \o w \in Seq(Int)
  BY <1>6, <1>7
<1>10. Spelled(t \o u) = 10 * Spelled(t \o w) + (x - Zero)
  BY <1>7, <1>9, SpelledAppend
<1>11. Spelled(u) = 10 * Spelled(w) + (x - Zero)
  BY <1>6, <1>7, SpelledAppend
<1>12. Power10(Len(u)) = 10 * Power10(Len(w)) /\ Power10(Len(w)) \in Nat
  BY <1>7, PowerNext
<1>13. PICK q \in Nat, s \in Int : q = Power10(Len(w)) /\ s = Spelled(w)
  BY <1>7, <1>12, SpelledIsInt
<1>14. Spelled(t \o u) = 10 * (p * q + s) + (x - Zero)
  BY <1>4, <1>8, <1>10, <1>13
<1>15. 10 * (p * q + s) + (x - Zero) = p * (10 * q) + (10 * s + (x - Zero))
  BY <1>7 DEF Zero
<1>16. Fine(u)
  BY <1>4, <1>11, <1>12, <1>13, <1>14, <1>15
<1>17. QED BY <1>3, <1>16

---------------------------------------------------------------------------
(* The digits of a number.                                                  *)

(* f gives the digits of every number up to k                               *)
GivesDigits(f, k) ==
  f = [n \in 0..k |-> IF n < 10 THEN <<Zero + n>> ELSE Append(f[n \div 10], Zero + (n % 10))]

LEMMA TenthIsLess ==
  ASSUME NEW n \in Nat, n >= 10
  PROVE  /\ n \div 10 \in Nat /\ n \div 10 >= 1 /\ n \div 10 <= n - 1
         /\ n % 10 \in 0..9 /\ n = 10 * (n \div 10) + (n % 10)
  OBVIOUS

LEMMA DigitsGiven == \A k \in Nat : \E f : GivesDigits(f, k)
<1> DEFINE Bad == {k \in Nat : ~ \E f : GivesDigits(f, k)}
<1> SUFFICES ASSUME Bad # {} PROVE FALSE
  OBVIOUS
<1>0. Bad \in SUBSET Nat
  OBVIOUS
<1>1. PICK n \in Bad : \A m \in Bad : n <= m
  BY <1>0, LeastNatural
<1>2. CASE n = 0
  <2> DEFINE g == [j \in 0..0 |-> <<Zero + j>>]
  <2>1. \A j \in 0..0 : j < 10
    OBVIOUS
  <2>2. g = [j \in 0..0 |-> IF j < 10 THEN <<Zero + j>> ELSE Append(g[j \div 10], Zero + (j % 10))]
    BY <2>1
  <2>3. GivesDigits(g, 0)
    BY <2>2 DEF GivesDigits
  <2>4. QED BY <1>1, <1>2, <2>3
<1>3. CASE n # 0
  <2>1. n - 1 \in Nat /\ ~ (n <= n - 1)
    BY <1>3
  <2>2. PICK f : GivesDigits(f, n - 1)
    BY <1>1, <2>1
  <2> DEFINE g == [j \in 0..n |->
                     IF j = n THEN (IF n < 10 THEN <<Zero + n>> ELSE Append(f[n \div 10], Zero + (n % 10)))
                     ELSE f[j]]
             h == [j \in 0..n |->
                     IF j < 10 THEN <<Zero + j>> ELSE Append(g[j \div 10], Zero + (j % 10))]
  <2>3. ASSUME NEW j \in 0..n PROVE g[j] = h[j]
    <3>1. j >= 10 => j \div 10 \in 0..n /\ j \div 10 # n /\ g[j \div 10] = f[j \div 10]
      <4>1. ASSUME j >= 10 PROVE j \div 10 \in 0..n /\ j \div 10 # n
        BY <4>1, TenthIsLess
      <4>2. QED BY <4>1
    <3>2. CASE j = n
      BY <3>1, <3>2
    <3>3. CASE j # n
      <4>1. j \in 0..(n - 1) /\ g[j] = f[j]
        BY <3>3
      <4>2. f[j] = IF j < 10 THEN <<Zero + j>> ELSE Append(f[j \div 10], Zero + (j % 10))
        BY <2>2, <4>1 DEF GivesDigits
      <4>3. QED BY <3>1, <4>1, <4>2
    <3>4. QED BY <3>2, <3>3
  <2>4. g = h
    BY <2>3
  <2>5. GivesDigits(g, n)
    BY <2>4 DEF GivesDigits
  <2>6. QED BY <1>1, <2>5
<1>4. QED BY <1>2, <1>3

LEMMA GivenDigits ==
  ASSUME NEW k, NEW f, GivesDigits(f, k), NEW n \in 0..k
  PROVE  f[n] = IF n < 10 THEN <<Zero + n>> ELSE Append(f[n \div 10], Zero + (n % 10))
BY Zenon DEF GivesDigits

LEMMA DigitsAgree ==
  ASSUME NEW k \in Nat, NEW m \in Nat, k <= m, NEW f, NEW g, GivesDigits(f, k), GivesDigits(g, m)
  PROVE  f[k] = g[k]
<1> DEFINE Bad == {j \in 0..k : f[j] # g[j]}
<1> SUFFICES ASSUME Bad # {} PROVE FALSE
  BY DEF Bad
<1>0. Bad \in SUBSET Nat
  OBVIOUS
<1>1. PICK j \in Bad : \A i \in Bad : j <= i
  BY <1>0, LeastNatural
<1>2. /\ f[j] = IF j < 10 THEN <<Zero + j>> ELSE Append(f[j \div 10], Zero + (j % 10))
      /\ g[j] = IF j < 10 THEN <<Zero + j>> ELSE Append(g[j \div 10], Zero + (j % 10))
  <2>1. j \in 0..k /\ j \in 0..m
    BY <1>1
  <2>2. QED BY <2>1, GivenDigits, Zenon
<1>3. j >= 10 => j \div 10 \in 0..k /\ ~ (j <= j \div 10)
  <2>1. ASSUME j >= 10 PROVE j \div 10 \in 0..k /\ ~ (j <= j \div 10)
    BY <2>1, TenthIsLess
  <2>2. QED BY <2>1
<1>4. j >= 10 => f[j \div 10] = g[j \div 10]
  BY <1>1, <1>3
<1>5. f[j] = g[j]
  BY <1>2, <1>4
<1>6. QED BY <1>1, <1>5

LEMMA DigitsNext ==
  ASSUME NEW n \in Nat
  PROVE  DigitsOf(n) = IF n < 10 THEN <<Zero + n>>
                       ELSE Append(DigitsOf(n \div 10), Zero + (n % 10))
<1>1. \A k \in Nat : \E f : GivesDigits(f, k) /\ DigitsOf(k) = f[k]
  BY DigitsGiven DEF DigitsOf, GivesDigits
<1>2. PICK f : GivesDigits(f, n) /\ DigitsOf(n) = f[n]
  BY <1>1
<1>3. f[n] = IF n < 10 THEN <<Zero + n>> ELSE Append(f[n \div 10], Zero + (n % 10))
  <2>1. n \in 0..n
    OBVIOUS
  <2>2. QED BY <1>2, <2>1, GivenDigits, Zenon
<1>4. ASSUME n >= 10 PROVE f[n \div 10] = DigitsOf(n \div 10)
  <2>1. PICK k \in Nat : k = n \div 10 /\ k <= n
    BY <1>4, TenthIsLess
  <2>2. PICK g : GivesDigits(g, k) /\ DigitsOf(k) = g[k]
    BY <1>1
  <2>3. g[k] = f[k]
    BY <1>2, <2>1, <2>2, DigitsAgree
  <2>4. QED BY <2>1, <2>2, <2>3
<1>5. QED BY <1>2, <1>3, <1>4

(* There are digits, they spell the number, and k of them are enough for    *)
(* the numbers below ten to the k                                           *)
DigitsTell(n) ==
  /\ DigitsOf(n) \in DigitTexts
  /\ DigitsOf(n) # <<>>
  /\ Spelled(DigitsOf(n)) = n
  /\ \A k \in Nat \ {0} : n < Power10(k) <=> Len(DigitsOf(n)) <= k

LEMMA DigitsTellAll == \A n \in Nat : DigitsTell(n)
<1> DEFINE Bad == {n \in Nat : ~ DigitsTell(n)}
<1> SUFFICES ASSUME Bad # {} PROVE FALSE
  OBVIOUS
<1>0. Bad \in SUBSET Nat
  OBVIOUS
<1>1. PICK n \in Bad : \A m \in Bad : n <= m
  BY <1>0, LeastNatural
<1>2. CASE n < 10
  <2>a. PICK x : x = Zero + n
    OBVIOUS
  <2>b. DigitsOf(n) = <<x>>
    BY <1>2, <2>a, DigitsNext
  <2>1. x \in Digits /\ x \in Int /\ x # Dot /\ x - Zero = n
    BY <1>2, <2>a DEF Digits, Zero, Dot
  <2>2. DigitsOf(n) \in DigitTexts /\ DigitsOf(n) # <<>> /\ Len(DigitsOf(n)) = 1
    BY <2>b, <2>1 DEF DigitTexts
  <2>3. Spelled(DigitsOf(n)) = n
    <3>1. PICK t \in Seq(Int) : t = <<>>
      <4>1. <<>> \in Seq(Int)
        OBVIOUS
      <4>2. QED BY <4>1
    <3>2. <<x>> = Append(t, x)
      BY <3>1
    <3>3. Spelled(Append(t, x)) = 10 * Spelled(t) + n
      BY <2>1, SpelledAppend
    <3>4. Spelled(t) = 0
      BY <3>1, SpelledIsInt
    <3>5. Spelled(Append(t, x)) = n
      BY <3>3, <3>4
    <3>6. QED BY <2>b, <3>2, <3>5
  <2>4. \A k \in Nat \ {0} : n < Power10(k) /\ 1 <= k
    <3>1. ASSUME NEW k \in Nat \ {0} PROVE n < Power10(k)
      <4>1. k - 1 \in Nat /\ (k - 1) + 1 = k
        OBVIOUS
      <4>2. Power10(k) = 10 * Power10(k - 1) /\ Power10(k - 1) \in Nat \ {0}
        BY <4>1, PowerNext, PowerPositive
      <4>3. QED BY <1>2, <4>2
    <3>2. QED BY <3>1
  <2>5. QED BY <1>1, <2>2, <2>3, <2>4 DEF DigitsTell
<1>3. CASE n >= 10
  <2>1. PICK q \in Nat : q = n \div 10 /\ q >= 1 /\ q <= n - 1 /\ n % 10 \in 0..9 /\ n = 10 * q + (n % 10)
    BY <1>3, TenthIsLess
  <2>2. DigitsTell(q)
    BY <1>1, <2>1
  <2>3. PICK x \in Digits : x = Zero + (n % 10) /\ x \in Int /\ x # Dot /\ x - Zero = n % 10
    BY <2>1 DEF Digits, Zero, Dot
  <2>4. DigitsOf(n) = Append(DigitsOf(q), x)
    BY <1>3, <2>1, <2>3, DigitsNext
  <2>5. PICK w \in DigitTexts : w = DigitsOf(q)
    BY <2>2 DEF DigitsTell
  <2>6. w \in Seq(Int) /\ Len(w) \in Nat \ {0} /\ w # <<>>
    <3>1. Digits \subseteq Int
      BY DEF Digits, Zero
    <3>2. w \in Seq(Digits) /\ w # <<>>
      BY <2>2, <2>5 DEF DigitTexts, DigitsTell
    <3>3. w \in Seq(Int)
      BY <3>1, <3>2, SeqMonotonic
    <3>4. QED BY <3>2, <3>3
  <2>7. Append(w, x) \in DigitTexts /\ Append(w, x) # <<>> /\ Len(Append(w, x)) = Len(w) + 1
    BY <2>3, <2>6 DEF DigitTexts
  <2>8. Spelled(Append(w, x)) = n
    <3>1. Spelled(Append(w, x)) = 10 * Spelled(w) + (x - Zero)
      BY <2>3, <2>6, SpelledAppend
    <3>2. Spelled(w) = q
      BY <2>2, <2>5 DEF DigitsTell
    <3>3. QED BY <2>1, <2>3, <3>1, <3>2
  <2>9. ASSUME NEW k \in Nat \ {0} PROVE n < Power10(k) <=> Len(w) + 1 <= k
    <3>1. k - 1 \in Nat /\ (k - 1) + 1 = k
      OBVIOUS
    <3>2. PICK p \in Nat \ {0} : p = Power10(k - 1) /\ Power10(k) = 10 * p
      BY <3>1, PowerNext, PowerPositive
    <3>3. n < Power10(k) <=> q < p
      BY <2>1, <3>2
    <3>4. CASE k = 1
      <4>1. p = 1
        BY <3>2, <3>4, PowerNext
      <4>2. QED BY <2>1, <2>6, <3>3, <3>4, <4>1
    <3>5. CASE k # 1
      <4>1. k - 1 \in Nat \ {0}
        BY <3>5
      <4>2. q < p <=> Len(w) <= k - 1
        BY <2>2, <2>5, <3>2, <4>1 DEF DigitsTell
      <4>3. QED BY <2>6, <3>1, <3>3, <4>2
    <3>6. QED BY <3>4, <3>5
  <2>10. QED BY <1>1, <2>4, <2>5, <2>7, <2>8, <2>9 DEF DigitsTell
<1>4. QED BY <1>2, <1>3

---------------------------------------------------------------------------
(* The scanner's registers tell what of a text they have read.              *)

DecimalSoFar(t) ==
  /\ \A k \in 1..Len(t) : t[k] \in Digits \cup {Dot}
  /\ \A j, k \in 1..Len(t) : t[j] = Dot /\ t[k] = Dot => j = k

Registers(t, i, f, fs, dot, digit) ==
  /\ i \in Nat /\ f \in Nat /\ fs \in Nat \ {0}
  /\ dot <=> Dots(t) # {}
  /\ digit <=> \E k \in 1..Len(t) : t[k] \in Digits
  /\ Spelled(t) = i * fs + f
  /\ fs = Power10(Behind(t))
  /\ ~ dot => f = 0

LEMMA BytesAreInts ==
  ASSUME NEW t \in Seq(0..255)
  PROVE  t \in Seq(Int)
<1>1. 0..255 \subseteq Int
  OBVIOUS
<1>2. QED BY <1>1, SeqMonotonic

LEMMA BehindIs ==
  ASSUME NEW t \in Seq(0..255), DecimalSoFar(t)
  PROVE  /\ Dots(t) = {} => Behind(t) = 0
         /\ \A d \in Dots(t) : Behind(t) = Len(t) - d /\ d \in 1..Len(t)
         /\ Behind(t) \in Nat
<1>1. Dots(t) = {} => Behind(t) = 0
  BY DEF Behind
<1>2. ASSUME NEW d \in Dots(t) PROVE Behind(t) = Len(t) - d /\ d \in 1..Len(t)
  <2>1. d \in 1..Len(t) /\ Len(t) \in Nat
    BY DEF Dots
  <2>2. \A e \in Dots(t) : e = d
    BY DEF Dots, DecimalSoFar
  <2>3. Dots(t) = {d}
    BY <2>2
  <2>4. Max({d}) = d
    BY <2>1 DEF Max
  <2>5. QED BY <2>1, <2>3, <2>4 DEF Behind
<1>3. Behind(t) \in Nat
  <2>1. ASSUME NEW d \in Dots(t) PROVE Behind(t) \in Nat
    BY <1>2
  <2>2. QED BY <1>1, <2>1
<1>4. QED BY <1>1, <1>2, <1>3

LEMMA NothingRead ==
  Registers(<<>>, 0, 0, 1, FALSE, FALSE) /\ DecimalSoFar(<<>>)
<1>1. Len(<<>>) = 0 /\ 1..0 = {}
  OBVIOUS
<1>2. Dots(<<>>) = {} /\ Behind(<<>>) = 0
  BY <1>1 DEF Dots, Behind
<1>3. DecimalSoFar(<<>>)
  BY <1>1 DEF DecimalSoFar
<1>4. QED BY <1>1, <1>2, <1>3, SpelledIsInt, PowerNext DEF Registers

(* A byte more                                                              *)
Extends(u, t, x) ==
  /\ u \in Seq(0..255) /\ Len(t) \in Nat /\ Len(u) = Len(t) + 1
  /\ \A k \in 1..Len(u) : u[k] = IF k = Len(u) THEN x ELSE t[k]
  /\ \A k \in 1..Len(u) : k # Len(u) => k \in 1..Len(t)
  /\ \A k \in 1..Len(t) : k \in 1..Len(u) /\ k # Len(u)
  /\ Len(u) \in 1..Len(u)

LEMMA ByteMore ==
  ASSUME NEW t \in Seq(0..255), NEW x \in 0..255, NEW u, u = Append(t, x)
  PROVE  Extends(u, t, x)
BY DEF Extends

TakesDigit(u, t, x) ==
  /\ u \in Seq(0..255) /\ DecimalSoFar(u)
  /\ \E k \in 1..Len(u) : u[k] \in Digits
  /\ Dots(u) = Dots(t)
  /\ Behind(u) = IF Dots(t) = {} THEN 0 ELSE Behind(t) + 1
  /\ Spelled(u) = 10 * Spelled(t) + (x - Zero)

LEMMA DigitMore ==
  ASSUME NEW t \in Seq(0..255), NEW x \in Digits, NEW u, u = Append(t, x), DecimalSoFar(t)
  PROVE  TakesDigit(u, t, x)
<1>1. x \in 0..255 /\ x \in Int /\ x # Dot
  BY DEF Digits, Zero, Dot
<1>2. /\ u \in Seq(0..255) /\ Len(t) \in Nat /\ Len(u) = Len(t) + 1
      /\ \A k \in 1..Len(u) : u[k] = IF k = Len(u) THEN x ELSE t[k]
      /\ \A k \in 1..Len(u) : k # Len(u) => k \in 1..Len(t)
      /\ \A k \in 1..Len(t) : k \in 1..Len(u) /\ k # Len(u)
      /\ Len(u) \in 1..Len(u)
  <2>1. Extends(u, t, x)
    BY <1>1, ByteMore
  <2>2. QED BY <2>1 DEF Extends
<1>3. DecimalSoFar(u)
  <2>1. \A k \in 1..Len(u) : u[k] \in Digits \cup {Dot}
    BY <1>2 DEF DecimalSoFar
  <2>2. ASSUME NEW j \in 1..Len(u), NEW k \in 1..Len(u), u[j] = Dot, u[k] = Dot PROVE j = k
    <3>1. j \in 1..Len(t) /\ k \in 1..Len(t) /\ t[j] = Dot /\ t[k] = Dot
      BY <1>1, <1>2, <2>2
    <3>2. QED BY <3>1 DEF DecimalSoFar
  <2>3. QED BY <2>1, <2>2 DEF DecimalSoFar
<1>4. Dots(u) = Dots(t)
  <2>1. \A k : k \in Dots(u) <=> k \in Dots(t)
    BY <1>1, <1>2 DEF Dots
  <2>2. QED BY <2>1, Zenon
<1>5. Behind(u) = IF Dots(t) = {} THEN 0 ELSE Behind(t) + 1
  <2>1. CASE Dots(t) = {}
    BY <1>2, <1>3, <1>4, <2>1, BehindIs
  <2>2. CASE Dots(t) # {}
    <3>1. PICK d : d \in Dots(t) /\ d \in Dots(u)
      BY <1>4, <2>2
    <3>2. Behind(u) = Len(u) - d
      BY <1>2, <1>3, <3>1, BehindIs
    <3>3. Behind(t) = Len(t) - d /\ d \in 1..Len(t)
      BY <3>1, BehindIs
    <3>4. QED BY <1>2, <2>2, <3>2, <3>3
  <2>3. QED BY <2>1, <2>2
<1>6. Spelled(u) = 10 * Spelled(t) + (x - Zero)
  <2>1. t \in Seq(Int)
    BY BytesAreInts
  <2>2. QED BY <1>1, <2>1, SpelledAppend
<1>7. \E k \in 1..Len(u) : u[k] \in Digits
  BY <1>2
<1>8. QED BY <1>2, <1>3, <1>4, <1>5, <1>6, <1>7 DEF TakesDigit

TakesDot(u, t) ==
  /\ u \in Seq(0..255) /\ DecimalSoFar(u)
  /\ (\E k \in 1..Len(u) : u[k] \in Digits) <=> (\E k \in 1..Len(t) : t[k] \in Digits)
  /\ Dots(u) # {} /\ Behind(u) = 0
  /\ Spelled(u) = Spelled(t)

LEMMA DotMore ==
  ASSUME NEW t \in Seq(0..255), NEW u, u = Append(t, Dot), DecimalSoFar(t), Dots(t) = {}
  PROVE  TakesDot(u, t)
<1>1. Dot \in 0..255 /\ Dot \in Int /\ Dot \notin Digits
  BY DEF Digits, Zero, Dot
<1>2. /\ u \in Seq(0..255) /\ Len(t) \in Nat /\ Len(u) = Len(t) + 1
      /\ \A k \in 1..Len(u) : u[k] = IF k = Len(u) THEN Dot ELSE t[k]
      /\ \A k \in 1..Len(u) : k # Len(u) => k \in 1..Len(t)
      /\ \A k \in 1..Len(t) : k \in 1..Len(u) /\ k # Len(u)
      /\ Len(u) \in 1..Len(u)
  <2>1. Extends(u, t, Dot)
    BY <1>1, ByteMore
  <2>2. QED BY <2>1 DEF Extends
<1>3. \A k \in 1..Len(t) : t[k] # Dot
  BY DEF Dots
<1>4. DecimalSoFar(u)
  <2>1. \A k \in 1..Len(u) : u[k] \in Digits \cup {Dot}
    BY <1>2 DEF DecimalSoFar
  <2>2. ASSUME NEW j \in 1..Len(u), NEW k \in 1..Len(u), u[j] = Dot, u[k] = Dot PROVE j = k
    BY <1>2, <1>3, <2>2
  <2>3. QED BY <2>1, <2>2 DEF DecimalSoFar
<1>5. Len(u) \in Dots(u)
  BY <1>2 DEF Dots
<1>6. Behind(u) = 0
  <2>1. Behind(u) = Len(u) - Len(u)
    BY <1>2, <1>4, <1>5, BehindIs
  <2>2. QED BY <1>2, <2>1
<1>7. Spelled(u) = Spelled(t)
  <2>1. t \in Seq(Int)
    BY BytesAreInts
  <2>2. QED BY <1>1, <2>1, SpelledAppend
<1>8. (\E k \in 1..Len(u) : u[k] \in Digits) <=> (\E k \in 1..Len(t) : t[k] \in Digits)
  BY <1>1, <1>2
<1>9. QED BY <1>2, <1>4, <1>5, <1>6, <1>7, <1>8 DEF TakesDot

---------------------------------------------------------------------------
(* The first bytes of a decimal: what they spell is no more than the whole, *)
(* and their fraction divides its fraction.                                 *)

FirstBytes(t, k) == SubSeq(t, 1, k)

LEMMA FirstBytesAre ==
  ASSUME NEW t \in Seq(0..255), NEW k \in 0..Len(t)
  PROVE  /\ FirstBytes(t, k) \in Seq(0..255) /\ Len(FirstBytes(t, k)) = k
         /\ \A j \in 1..k : FirstBytes(t, k)[j] = t[j]
         /\ FirstBytes(t, Len(t)) = t /\ FirstBytes(t, 0) = <<>>
<1>1. k \in Nat /\ Len(t) \in Nat /\ \A j \in 1..k : t[j] \in 0..255
  <2>1. k \in Nat /\ Len(t) \in Nat /\ k <= Len(t)
    OBVIOUS
  <2>2. ASSUME NEW j \in 1..k PROVE t[j] \in 0..255
    <3>1. j \in 1..Len(t)
      BY <2>1
    <3>2. QED BY <3>1, ElementOfSeq
  <2>3. QED BY <2>1, <2>2
<1>2. FirstBytes(t, k) \in Seq(0..255) /\ Len(FirstBytes(t, k)) = k
  BY <1>1 DEF FirstBytes
<1>3. \A j \in 1..k : FirstBytes(t, k)[j] = t[j]
  BY <1>1 DEF FirstBytes
<1>4. FirstBytes(t, Len(t)) = t
  BY SubSeqFull DEF FirstBytes
<1>5. FirstBytes(t, 0) = <<>>
  BY <1>1 DEF FirstBytes
<1>6. QED BY <1>2, <1>3, <1>4, <1>5

LEMMA FirstBytesNext ==
  ASSUME NEW t \in Seq(0..255), NEW k \in 0..Len(t), k # Len(t)
  PROVE  FirstBytes(t, k + 1) = Append(FirstBytes(t, k), t[k + 1]) /\ k + 1 \in 0..Len(t)
BY DEF FirstBytes

LEMMA FirstBytesDecimal ==
  ASSUME NEW t \in Seq(0..255), NEW k \in 0..Len(t), DecimalSoFar(t)
  PROVE  DecimalSoFar(FirstBytes(t, k))
<1>1. PICK u : u = FirstBytes(t, k)
  OBVIOUS
<1>2. Len(u) = k /\ k \in Nat /\ Len(t) \in Nat /\ \A j \in 1..k : u[j] = t[j] /\ j \in 1..Len(t)
  BY <1>1, FirstBytesAre
<1>3. DecimalSoFar(u)
  BY <1>2 DEF DecimalSoFar
<1>4. QED BY <1>1, <1>3

LEMMA SpelledGrows ==
  ASSUME NEW t \in Seq(0..255), DecimalSoFar(t), NEW k \in 0..Len(t)
  PROVE  /\ Spelled(FirstBytes(t, k)) \in Nat
         /\ Spelled(FirstBytes(t, k)) <= Spelled(t)
<1>0. PICK n \in Nat : n = Len(t)
  OBVIOUS
<1> DEFINE S(j) == Spelled(FirstBytes(t, j))
<1>1. ASSUME NEW j \in 0..n, j # n, S(j) \in Nat PROVE S(j + 1) \in Nat /\ S(j) <= S(j + 1)
  <2>1. PICK u \in Seq(0..255) : u = FirstBytes(t, j)
    BY <1>0, FirstBytesAre
  <2>2. PICK w : w = FirstBytes(t, j + 1)
    OBVIOUS
  <2>3. PICK x : x = t[j + 1]
    OBVIOUS
  <2>4. w = Append(u, x) /\ j + 1 \in 1..n
    BY <1>0, <1>1, <2>1, <2>2, <2>3, FirstBytesNext
  <2>5. DecimalSoFar(u)
    BY <1>0, <2>1, FirstBytesDecimal
  <2>6. x \in Digits \cup {Dot}
    BY <1>0, <2>3, <2>4 DEF DecimalSoFar
  <2>7. u \in Seq(Int)
    BY BytesAreInts
  <2>8. x \in Int /\ (x = Dot \/ x - Zero \in Nat)
    BY <2>6 DEF Digits, Dot, Zero
  <2>9. Spelled(w) = IF x = Dot THEN Spelled(u) ELSE 10 * Spelled(u) + (x - Zero)
    BY <2>4, <2>7, <2>8, SpelledAppend
  <2>10. Spelled(u) \in Nat /\ (Spelled(w) \in Nat /\ Spelled(u) <= Spelled(w))
    <3>1. Spelled(u) \in Nat
      BY <1>1, <2>1
    <3>2. QED BY <2>8, <2>9, <3>1
  <2>11. QED BY <2>1, <2>2, <2>10
<1>2. S(0) \in Nat
  BY <1>0, FirstBytesAre, SpelledIsInt
<1> HIDE DEF S
<1>3. \A j \in 0..n : S(j) \in Nat
  <2> DEFINE Bad == {j \in 0..n : S(j) \notin Nat}
  <2> SUFFICES ASSUME Bad # {} PROVE FALSE
    OBVIOUS
  <2>1. Bad \in SUBSET Nat
    OBVIOUS
  <2>2. PICK j \in Bad : \A i \in Bad : j <= i
    BY <2>1, LeastNatural
  <2>3. j # 0
    BY <1>2, <2>2
  <2>4. PICK i \in 0..n : i # n /\ j = i + 1 /\ ~ (j <= i)
    <3>1. j - 1 \in 0..n /\ j - 1 # n /\ j = (j - 1) + 1 /\ ~ (j <= j - 1)
      BY <2>2, <2>3
    <3>2. QED BY <3>1
  <2>5. S(i) \in Nat
    BY <2>2, <2>4
  <2>6. S(i + 1) \in Nat
    BY <1>1, <2>4, <2>5
  <2>7. QED BY <2>2, <2>4, <2>6
<1>4. \A j \in k..n : S(k) <= S(j)
  <2> DEFINE Bad == {j \in k..n : ~ (S(k) <= S(j))}
  <2> SUFFICES ASSUME Bad # {} PROVE FALSE
    OBVIOUS
  <2>1. Bad \in SUBSET Nat
    BY <1>0
  <2>2. PICK j \in Bad : \A i \in Bad : j <= i
    BY <2>1, LeastNatural
  <2>0. k \in 0..n
    BY <1>0
  <2>3. j # k
    <3>1. S(k) \in Nat
      BY <1>3, <2>0
    <3>2. S(k) <= S(k)
      BY <3>1
    <3>3. QED BY <2>2, <3>2
  <2>4. PICK i \in k..n : i # n /\ j = i + 1 /\ ~ (j <= i) /\ i \in 0..n /\ j \in 0..n
    <3>1. j - 1 \in k..n /\ j - 1 # n /\ j = (j - 1) + 1 /\ ~ (j <= j - 1) /\ j - 1 \in 0..n /\ j \in 0..n
      BY <2>0, <2>2, <2>3
    <3>2. QED BY <3>1
  <2>5. S(k) <= S(i)
    BY <2>2, <2>4
  <2>6. S(i) <= S(i + 1) /\ S(i) \in Nat /\ S(i + 1) \in Nat /\ S(k) \in Nat
    BY <1>1, <1>3, <2>0, <2>4
  <2>7. S(k) <= S(j)
    BY <2>4, <2>5, <2>6
  <2>8. QED BY <2>2, <2>7
<1>5. S(n) = Spelled(t)
  BY <1>0, FirstBytesAre DEF S
<1>6. k \in 0..n /\ n \in k..n
  BY <1>0
<1>7. S(k) \in Nat /\ S(k) <= Spelled(t)
  BY <1>3, <1>4, <1>5, <1>6
<1>8. QED BY <1>7 DEF S

LEMMA FractionGrows ==
  ASSUME NEW t \in Seq(0..255), DecimalSoFar(t), NEW k \in 0..Len(t)
  PROVE  \E m \in Nat \ {0} : Power10(Behind(t)) = m * Power10(Behind(FirstBytes(t, k)))
<1>1. PICK u \in Seq(0..255) : u = FirstBytes(t, k) /\ Len(u) = k /\ \A j \in 1..k : u[j] = t[j]
  BY FirstBytesAre
<1>2. DecimalSoFar(u)
  BY <1>1, FirstBytesDecimal
<1>3. Behind(u) \in Nat /\ Behind(t) \in Nat
  BY <1>2, BehindIs
<1>4. Behind(u) <= Behind(t)
  <2>1. CASE Dots(u) = {}
    BY <1>2, <1>3, <2>1, BehindIs
  <2>2. CASE Dots(u) # {}
    <3>1. PICK d \in Dots(u) : TRUE
      BY <2>2
    <3>2. d \in 1..k /\ d \in Dots(t)
      <4>1. Len(t) \in Nat /\ k \in Nat /\ k <= Len(t)
        OBVIOUS
      <4>2. QED BY <1>1, <3>1, <4>1 DEF Dots
    <3>3. Behind(u) = Len(u) - d
      BY <1>2, <3>1, BehindIs
    <3>4. Behind(t) = Len(t) - d
      BY <3>2, BehindIs
    <3>5. QED BY <1>1, <3>2, <3>3, <3>4
  <2>3. QED BY <2>1, <2>2
<1>5. PICK d \in Nat : Behind(t) = Behind(u) + d
  <2>1. Behind(t) - Behind(u) \in Nat /\ Behind(t) = Behind(u) + (Behind(t) - Behind(u))
    BY <1>3, <1>4
  <2>2. QED BY <2>1
<1>6. PICK m \in Nat \ {0} : Power10(Behind(u) + d) = m * Power10(Behind(u))
  BY <1>3, PowerDivides
<1>7. QED BY <1>1, <1>5, <1>6

---------------------------------------------------------------------------
(* Division.                                                                *)

LEMMA Multiple ==
  ASSUME NEW s \in Nat \ {0}, NEW p \in Nat \ {0}, NEW q \in Nat, s = q * p
  PROVE  s % p = 0 /\ s \div p = q /\ q >= 1 /\ p <= s
OBVIOUS

LEMMA Divided ==
  ASSUME NEW s \in Nat \ {0}, NEW p \in Nat \ {0}, s % p = 0
  PROVE  s \div p \in Nat \ {0} /\ s = (s \div p) * p
OBVIOUS

---------------------------------------------------------------------------
(* parse_decimal_scaled.                                                    *)

Denotes(t, s) ==
  /\ s > 0 /\ IsDecimal(t)
  /\ s % Power10(Behind(t)) = 0
  /\ Spelled(t) * (s \div Power10(Behind(t))) <= MaxI64

Denoted(t, s) == Spelled(t) * (s \div Power10(Behind(t)))

(* What the part read spells cannot be too large for a text that is read,   *)
(* nor its fraction too fine                                                *)
LEMMA DenotesBounds ==
  ASSUME NEW t \in Seq(0..255), NEW s \in Int, Denotes(t, s), NEW k \in 0..Len(t)
  PROVE  /\ Spelled(FirstBytes(t, k)) <= MaxI64
         /\ Power10(Behind(FirstBytes(t, k))) <= s
         /\ s % Power10(Behind(FirstBytes(t, k))) = 0
<1>0. s \in Nat \ {0} /\ DecimalSoFar(t) /\ MaxI64 \in Nat
  BY DecimalsAssumption DEF Denotes, IsDecimal, DecimalSoFar
<1>1. PICK a \in Nat, b \in Nat : a = Spelled(FirstBytes(t, k)) /\ b = Spelled(t) /\ a <= b
  <2>1. /\ Spelled(FirstBytes(t, k)) \in Nat
        /\ Spelled(FirstBytes(t, k)) <= Spelled(t)
    BY <1>0, SpelledGrows
  <2>2. Spelled(t) \in Int
    BY BytesAreInts, SpelledIsInt
  <2>3. QED BY <2>1, <2>2
<1>2. PICK p \in Nat \ {0} : p = Power10(Behind(t))
  BY <1>0, BehindIs, PowerPositive
<1>3. PICK u \in Seq(0..255) : u = FirstBytes(t, k)
  BY FirstBytesAre
<1>4. PICK r \in Nat \ {0} : r = Power10(Behind(u))
  <2>1. DecimalSoFar(u)
    BY <1>0, <1>3, FirstBytesDecimal
  <2>2. QED BY <2>1, BehindIs, PowerPositive
<1>5. PICK m \in Nat \ {0} : p = m * r
  BY <1>0, <1>2, <1>3, <1>4, FractionGrows
<1>6. PICK q \in Nat \ {0} : q = s \div p /\ s = q * p /\ b * q <= MaxI64
  <2>1. s % p = 0
    BY <1>2 DEF Denotes
  <2>2. s \div p \in Nat \ {0} /\ s = (s \div p) * p
    BY <1>0, <2>1, Divided
  <2>3. b * (s \div p) <= MaxI64
    BY <1>1, <1>2 DEF Denotes
  <2>4. QED BY <2>2, <2>3
<1>7. a <= MaxI64
  <2>1. b <= b * q
    OBVIOUS
  <2>2. b * q \in Nat
    OBVIOUS
  <2>3. QED BY <1>0, <1>1, <1>6, <2>1, <2>2
<1>8. r <= s /\ s % r = 0
  <2>1. s = (q * m) * r /\ q * m \in Nat
    BY <1>5, <1>6
  <2>2. QED BY <1>0, <2>1, Multiple
<1>9. QED BY <1>1, <1>3, <1>4, <1>7, <1>8

DecimalsTypeOK ==
  /\ text \in Seq(0..255) /\ scale \in Scales /\ scale \in Int /\ pos \in 0..Len(text)
  /\ outcome \in {"start", "scan", "ok", "Empty", "InvalidScale", "NegativeNotSupported",
                  "Overflow", "TooManyFractionalDigits", "InvalidByte"}

(* Until the answer is known the registers tell what has been read          *)
ScanInv ==
  outcome \in {"start", "scan"} =>
    /\ DecimalSoFar(FirstBytes(text, pos))
    /\ Registers(FirstBytes(text, pos), intPart, fracPart, fracScale, seenDot, seenDigit)
    /\ outcome = "start" => pos = 0
    /\ outcome = "scan" => scale > 0 /\ fracScale <= scale /\ scale % fracScale = 0

AnswerInv ==
  outcome \notin {"start", "scan"} =>
    IF Denotes(text, scale) THEN outcome = "ok" /\ value = Denoted(text, scale)
    ELSE outcome # "ok"

OrderedInv ==
  \A v \in ordered : v \in Ordered /\ text = FormatScaled(v, scale)

DecimalsInv == DecimalsTypeOK /\ ScanInv /\ AnswerInv /\ OrderedInv

LEMMA StartTells == DecimalsInv /\ Start => DecimalsInv'
<1> SUFFICES ASSUME DecimalsInv, Start PROVE DecimalsInv'
  OBVIOUS
<1>1. text \in Seq(0..255) /\ scale \in Int /\ outcome = "start" /\ pos = 0
  BY DEF DecimalsInv, DecimalsTypeOK, ScanInv, Start
<1>2. UNCHANGED <<text, scale, ordered, pos, scanVars, value>>
  BY DEF Start, Fail
<1>3. OrderedInv'
  BY <1>2 DEF DecimalsInv, OrderedInv
<1>4. CASE /\ text # <<>> /\ scale > 0 /\ text[1] # Minus
           /\ outcome' = "scan"
  <2>1. DecimalsTypeOK' /\ AnswerInv'
    BY <1>2, <1>4 DEF DecimalsInv, DecimalsTypeOK, AnswerInv
  <2>2. Registers(FirstBytes(text, pos), intPart, fracPart, fracScale, seenDot, seenDigit)
    BY <1>1 DEF DecimalsInv, ScanInv
  <2>3. PICK t : t = FirstBytes(text, 0) /\ t = <<>>
    BY <1>1, FirstBytesAre
  <2>4. fracScale = 1
    <3>1. Dots(t) = {} /\ Behind(t) = 0
      BY <2>3 DEF Dots, Behind
    <3>2. QED BY <1>1, <2>2, <2>3, <3>1, PowerNext DEF Registers
  <2>5. fracScale <= scale /\ scale % fracScale = 0
    BY <1>1, <1>4, <2>4
  <2>6. ScanInv'
    BY <1>1, <1>2, <1>4, <2>5 DEF DecimalsInv, ScanInv, scanVars
  <2>7. QED BY <1>3, <2>1, <2>6 DEF DecimalsInv
<1>5. CASE /\ text = <<>> \/ scale <= 0 \/ (text # <<>> /\ text[1] = Minus)
           /\ outcome' \in {"Empty", "InvalidScale", "NegativeNotSupported"}
  <2>1. DecimalsTypeOK' /\ ScanInv'
    BY <1>2, <1>5 DEF DecimalsInv, DecimalsTypeOK, ScanInv
  <2>2. ~ Denotes(text, scale)
    <3>1. CASE text = <<>>
      BY <3>1 DEF Denotes, IsDecimal
    <3>2. CASE scale <= 0
      BY <1>1, <3>2 DEF Denotes
    <3>3. CASE text # <<>> /\ text[1] = Minus
      <4>1. 1 \in 1..Len(text)
        BY <1>1, <3>3
      <4>2. Minus \notin Digits \cup {Dot}
        BY DEF Minus, Digits, Dot, Zero
      <4>3. QED BY <3>3, <4>1, <4>2 DEF Denotes, IsDecimal
    <3>4. QED BY <1>5, <3>1, <3>2, <3>3
  <2>3. AnswerInv'
    BY <1>2, <1>5, <2>2 DEF AnswerInv
  <2>4. QED BY <1>3, <2>1, <2>3 DEF DecimalsInv
<1>6. QED BY <1>1, <1>4, <1>5 DEF Start, Fail

(* What holds while a byte is scanned                                       *)
LEMMA Scanned ==
  ASSUME DecimalsInv, Scanning
  PROVE  /\ text \in Seq(0..255) /\ scale \in Int /\ scale > 0 /\ pos \in 0..Len(text) /\ pos # Len(text)
         /\ pos + 1 \in 0..Len(text) /\ pos + 1 \in 1..Len(text)
         /\ FirstBytes(text, pos) \in Seq(0..255)
         /\ FirstBytes(text, pos + 1) = Append(FirstBytes(text, pos), Byte)
         /\ Byte \in 0..255
         /\ DecimalSoFar(FirstBytes(text, pos))
         /\ Registers(FirstBytes(text, pos), intPart, fracPart, fracScale, seenDot, seenDigit)
         /\ fracScale <= scale /\ scale % fracScale = 0
         /\ outcome = "scan"
<1>1. text \in Seq(0..255) /\ scale \in Int /\ pos \in 0..Len(text) /\ outcome = "scan" /\ pos < Len(text)
  BY DEF DecimalsInv, DecimalsTypeOK, Scanning
<1>2. pos # Len(text) /\ pos + 1 \in 0..Len(text) /\ pos + 1 \in 1..Len(text)
  BY <1>1
<1>3. Byte \in 0..255
  BY <1>1, <1>2, ElementOfSeq DEF Byte
<1>4. FirstBytes(text, pos) \in Seq(0..255)
  BY <1>1, FirstBytesAre
<1>5. FirstBytes(text, pos + 1) = Append(FirstBytes(text, pos), Byte)
  BY <1>1, <1>2, FirstBytesNext DEF Byte
<1>6. QED BY <1>1, <1>2, <1>3, <1>4, <1>5 DEF DecimalsInv, ScanInv

(* An error is an answer for a text that denotes nothing                    *)
LEMMA FailTells ==
  ASSUME DecimalsInv, NEW error, Fail(error), ~ Denotes(text, scale),
         error \in {"Empty", "Overflow", "TooManyFractionalDigits", "InvalidByte"}
  PROVE  DecimalsInv'
<1>1. UNCHANGED <<text, scale, ordered, pos>> /\ outcome' = error
  BY DEF Fail
<1>2. DecimalsTypeOK'
  BY <1>1 DEF DecimalsInv, DecimalsTypeOK
<1>3. ScanInv' /\ AnswerInv'
  BY <1>1 DEF ScanInv, AnswerInv
<1>4. OrderedInv'
  BY <1>1 DEF DecimalsInv, OrderedInv
<1>5. QED BY <1>2, <1>3, <1>4 DEF DecimalsInv

(* and a byte that is taken leaves registers that tell                      *)
LEMMA AdvanceTells ==
  ASSUME DecimalsInv, Scanning, Advance, DecimalSoFar(FirstBytes(text, pos + 1)),
         Registers(FirstBytes(text, pos + 1), intPart', fracPart', fracScale', seenDot', seenDigit'),
         fracScale' <= scale, scale % fracScale' = 0
  PROVE  DecimalsInv'
<1>1. UNCHANGED <<text, scale, ordered, outcome, value>> /\ pos' = pos + 1
  BY DEF Advance
<1>2. /\ text \in Seq(0..255) /\ scale \in Int /\ scale > 0 /\ pos \in 0..Len(text)
      /\ pos + 1 \in 0..Len(text) /\ outcome = "scan"
  BY Scanned
<1>3. DecimalsTypeOK'
  <2>1. scale \in Scales
    BY DEF DecimalsInv, DecimalsTypeOK
  <2>2. QED BY <1>1, <1>2, <2>1 DEF DecimalsTypeOK
<1>4. ScanInv'
  BY <1>1, <1>2 DEF ScanInv
<1>5. AnswerInv'
  BY <1>1, <1>2 DEF AnswerInv
<1>6. OrderedInv'
  BY <1>1 DEF DecimalsInv, OrderedInv
<1>7. QED BY <1>3, <1>4, <1>5, <1>6 DEF DecimalsInv

LEMMA IntDigitTells == DecimalsInv /\ ScanIntDigit => DecimalsInv'
<1> SUFFICES ASSUME DecimalsInv, ScanIntDigit PROVE DecimalsInv'
  OBVIOUS
<1>1. Scanning /\ Byte \in Digits /\ ~ seenDot
  BY DEF ScanIntDigit
<1>2. PICK t, u : t \in Seq(0..255) /\ t = FirstBytes(text, pos) /\ u = FirstBytes(text, pos + 1)
  BY <1>1, Scanned
<1>3. PICK x \in Digits : x = Byte
  BY <1>1
<1>4. u = Append(t, x) /\ DecimalSoFar(t)
  BY <1>1, <1>2, <1>3, Scanned
<1>5. Registers(t, intPart, fracPart, fracScale, seenDot, seenDigit)
  BY <1>1, <1>2, Scanned
<1>6. /\ DecimalSoFar(u) /\ Dots(u) = Dots(t)
      /\ \E k \in 1..Len(u) : u[k] \in Digits
      /\ Behind(u) = IF Dots(t) = {} THEN 0 ELSE Behind(t) + 1
      /\ Spelled(u) = 10 * Spelled(t) + (x - Zero)
  <2>1. TakesDigit(u, t, x)
    BY <1>2, <1>4, DigitMore
  <2>2. QED BY <2>1 DEF TakesDigit
<1>7. Dots(t) = {} /\ Behind(t) = 0 /\ Behind(u) = 0
  <2>1. Dots(t) = {}
    BY <1>1, <1>5 DEF Registers
  <2>2. QED BY <1>2, <1>4, <1>6, <2>1, BehindIs
<1>8. fracScale = 1 /\ fracPart = 0 /\ intPart \in Nat /\ Spelled(t) = intPart
  <2>1. fracScale = 1 /\ fracPart = 0 /\ intPart \in Nat /\ Spelled(t) = intPart * fracScale + fracPart
    BY <1>1, <1>5, <1>7, PowerNext DEF Registers
  <2>2. QED BY <2>1
<1>9. Shifted(intPart) \in Nat /\ Spelled(u) = Shifted(intPart)
  <2>1. x \in Int /\ x - Zero \in Nat /\ Zero \in Int
    BY DEF Digits, Zero
  <2>2. QED BY <1>3, <1>6, <1>8, <2>1 DEF Shifted
<1>10. CASE Shifted(intPart) > MaxI128
  <2>1. ~ Denotes(text, scale)
    <3>1. ASSUME Denotes(text, scale) PROVE FALSE
      <4>1. Spelled(u) <= MaxI64
        BY <1>1, <1>2, <3>1, Scanned, DenotesBounds
      <4>2. QED BY <1>9, <1>10, <4>1, DecimalsAssumption
    <3>2. QED BY <3>1
  <2>2. Fail("Overflow")
    BY <1>10 DEF ScanIntDigit
  <2>3. QED BY <2>1, <2>2, FailTells
<1>11. CASE ~ (Shifted(intPart) > MaxI128)
  <2>1. Advance /\ intPart' = Shifted(intPart) /\ seenDigit' = TRUE /\ UNCHANGED <<fracPart, fracScale, seenDot>>
    BY <1>11 DEF ScanIntDigit
  <2>2. Registers(u, intPart', fracPart', fracScale', seenDot', seenDigit')
    <3>1. intPart' \in Nat /\ fracPart' = 0 /\ fracScale' = 1 /\ Spelled(u) = intPart' * fracScale' + fracPart'
      BY <1>8, <1>9, <2>1
    <3>2. fracScale' = Power10(Behind(u))
      BY <1>7, <1>8, <2>1, PowerNext
    <3>3. (seenDot' <=> Dots(u) # {}) /\ (~ seenDot' => fracPart' = 0)
      BY <1>1, <1>6, <1>7, <2>1, <3>1
    <3>4. QED BY <1>6, <2>1, <3>1, <3>2, <3>3 DEF Registers
  <2>3. fracScale' <= scale /\ scale % fracScale' = 0
    BY <1>1, <2>1, Scanned
  <2>4. QED BY <1>1, <1>2, <1>6, <2>1, <2>2, <2>3, AdvanceTells
<1>12. QED BY <1>10, <1>11

LEMMA FracDigitTells == DecimalsInv /\ ScanFracDigit => DecimalsInv'
<1> SUFFICES ASSUME DecimalsInv, ScanFracDigit PROVE DecimalsInv'
  OBVIOUS
<1>1. Scanning /\ Byte \in Digits /\ seenDot
  BY DEF ScanFracDigit
<1>2. PICK t, u : t \in Seq(0..255) /\ t = FirstBytes(text, pos) /\ u = FirstBytes(text, pos + 1)
  BY <1>1, Scanned
<1>3. PICK x \in Digits : x = Byte
  BY <1>1
<1>4. u = Append(t, x) /\ DecimalSoFar(t) /\ scale \in Nat \ {0} /\ pos + 1 \in 0..Len(text) /\ text \in Seq(0..255)
  BY <1>1, <1>2, <1>3, Scanned
<1>5. Registers(t, intPart, fracPart, fracScale, seenDot, seenDigit)
  BY <1>1, <1>2, Scanned
<1>6. /\ DecimalSoFar(u) /\ Dots(u) = Dots(t)
      /\ \E k \in 1..Len(u) : u[k] \in Digits
      /\ Behind(u) = IF Dots(t) = {} THEN 0 ELSE Behind(t) + 1
      /\ Spelled(u) = 10 * Spelled(t) + (x - Zero)
  <2>1. TakesDigit(u, t, x)
    BY <1>2, <1>4, DigitMore
  <2>2. QED BY <2>1 DEF TakesDigit
<1>7. Dots(t) # {} /\ Behind(t) \in Nat /\ Behind(u) = Behind(t) + 1
  <2>1. Dots(t) # {}
    BY <1>1, <1>5 DEF Registers
  <2>2. QED BY <1>2, <1>4, <1>6, <2>1, BehindIs
<1>8. PICK i \in Nat, f \in Nat, fs \in Nat \ {0} :
        /\ i = intPart /\ f = fracPart /\ fs = fracScale
        /\ Spelled(t) = i * fs + f /\ fs = Power10(Behind(t))
  BY <1>5 DEF Registers
<1>9. PICK d \in Nat : d = x - Zero
  BY DEF Digits, Zero
<1>10. Power10(Behind(u)) = 10 * fs
  BY <1>7, <1>8, PowerNext
<1>11. Shifted(fracPart) = 10 * f + d /\ Spelled(u) = i * (10 * fs) + (10 * f + d)
  <2>1. Shifted(fracPart) = 10 * f + d
    BY <1>3, <1>8, <1>9 DEF Shifted
  <2>2. Spelled(u) = 10 * (i * fs + f) + d
    BY <1>6, <1>8, <1>9
  <2>3. 10 * (i * fs + f) + d = i * (10 * fs) + (10 * f + d)
    OBVIOUS
  <2>4. QED BY <2>1, <2>2, <2>3
<1>12. Denotes(text, scale) => 10 * fs <= scale /\ scale % (10 * fs) = 0 /\ Spelled(u) <= MaxI64
  BY <1>2, <1>4, <1>10, DenotesBounds
<1>13. CASE 10 * fracScale > MaxI64
  <2>1. scale <= MaxI64
    <3>1. scale \in Scales
      BY DEF DecimalsInv, DecimalsTypeOK
    <3>2. QED BY <1>4, <3>1, DecimalsAssumption
  <2>2. ~ Denotes(text, scale)
    BY <1>4, <1>8, <1>12, <1>13, <2>1, DecimalsAssumption
  <2>3. Fail("Overflow")
    BY <1>13 DEF ScanFracDigit
  <2>4. QED BY <2>2, <2>3, FailTells
<1>14. CASE ~ (10 * fracScale > MaxI64) /\ FractionTooLong(10 * fracScale)
  <2>1. ~ Denotes(text, scale)
    BY <1>4, <1>8, <1>12, <1>14 DEF FractionTooLong
  <2>2. Fail("TooManyFractionalDigits")
    BY <1>14 DEF ScanFracDigit
  <2>3. QED BY <2>1, <2>2, FailTells
<1>15. CASE ~ (10 * fracScale > MaxI64) /\ ~ FractionTooLong(10 * fracScale) /\ Shifted(fracPart) > MaxI128
  <2>1. i * (10 * fs) \in Nat
    OBVIOUS
  <2>2. ~ Denotes(text, scale)
    BY <1>11, <1>12, <1>15, <2>1, DecimalsAssumption
  <2>3. Fail("Overflow")
    BY <1>15 DEF ScanFracDigit
  <2>4. QED BY <2>2, <2>3, FailTells
<1>16. CASE /\ ~ (10 * fracScale > MaxI64) /\ ~ FractionTooLong(10 * fracScale)
            /\ ~ (Shifted(fracPart) > MaxI128)
  <2>1. /\ Advance /\ fracPart' = Shifted(fracPart) /\ fracScale' = 10 * fracScale
        /\ seenDigit' = TRUE /\ UNCHANGED <<intPart, seenDot>>
    BY <1>16 DEF ScanFracDigit
  <2>2. Registers(u, intPart', fracPart', fracScale', seenDot', seenDigit')
    <3>1. intPart' = i /\ fracPart' = 10 * f + d /\ fracScale' = 10 * fs
      BY <1>8, <1>11, <2>1
    <3>2. (seenDot' <=> Dots(u) # {}) /\ (~ seenDot' => fracPart' = 0)
      BY <1>1, <1>6, <1>7, <2>1
    <3>3. 10 * fs \in Nat \ {0} /\ 10 * f + d \in Nat
      OBVIOUS
    <3>4. QED BY <1>6, <1>10, <1>11, <2>1, <3>1, <3>2, <3>3 DEF Registers
  <2>3. fracScale' <= scale /\ scale % fracScale' = 0
    <3>1. fracScale' = 10 * fs /\ 10 * fs \in Nat
      <4>1. 10 * fs \in Nat
        OBVIOUS
      <4>2. fracScale' = 10 * fracScale /\ fracScale = fs
        BY <1>8, <2>1
      <4>3. QED BY <4>1, <4>2
    <3>2. ~ (10 * fs > scale) /\ scale % (10 * fs) = 0
      BY <1>8, <1>16 DEF FractionTooLong
    <3>3. 10 * fs <= scale
      BY <1>4, <3>1, <3>2
    <3>4. QED BY <3>1, <3>2, <3>3
  <2>4. QED BY <1>1, <1>2, <1>6, <2>1, <2>2, <2>3, AdvanceTells
<1>17. QED BY <1>13, <1>14, <1>15, <1>16

LEMMA DotTells == DecimalsInv /\ ScanDot => DecimalsInv'
<1> SUFFICES ASSUME DecimalsInv, ScanDot PROVE DecimalsInv'
  OBVIOUS
<1>1. /\ Scanning /\ Byte = Dot /\ ~ seenDot /\ Advance
      /\ seenDot' = TRUE /\ UNCHANGED <<intPart, fracPart, fracScale, seenDigit>>
  BY DEF ScanDot
<1>2. PICK t, u : t \in Seq(0..255) /\ t = FirstBytes(text, pos) /\ u = FirstBytes(text, pos + 1)
  BY <1>1, Scanned
<1>3. u = Append(t, Dot) /\ DecimalSoFar(t)
  BY <1>1, <1>2, Scanned
<1>4. Registers(t, intPart, fracPart, fracScale, seenDot, seenDigit)
  BY <1>1, <1>2, Scanned
<1>5. Dots(t) = {} /\ Behind(t) = 0
  <2>1. Dots(t) = {}
    BY <1>1, <1>4 DEF Registers
  <2>2. QED BY <1>2, <1>3, <2>1, BehindIs
<1>6. /\ DecimalSoFar(u)
      /\ (\E k \in 1..Len(u) : u[k] \in Digits) <=> (\E k \in 1..Len(t) : t[k] \in Digits)
      /\ Dots(u) # {} /\ Behind(u) = 0 /\ Spelled(u) = Spelled(t)
  <2>1. TakesDot(u, t)
    BY <1>2, <1>3, <1>5, DotMore
  <2>2. QED BY <2>1 DEF TakesDot
<1>7. Registers(u, intPart', fracPart', fracScale', seenDot', seenDigit')
  <2>1. /\ intPart \in Nat /\ fracPart \in Nat /\ fracScale \in Nat \ {0}
        /\ Spelled(t) = intPart * fracScale + fracPart /\ fracScale = Power10(0)
    BY <1>4, <1>5 DEF Registers
  <2>2. seenDigit' <=> \E k \in 1..Len(u) : u[k] \in Digits
    BY <1>1, <1>4, <1>6 DEF Registers
  <2>3. QED BY <1>1, <1>6, <2>1, <2>2 DEF Registers
<1>8. fracScale' <= scale /\ scale % fracScale' = 0
  BY <1>1, Scanned
<1>9. QED BY <1>1, <1>2, <1>6, <1>7, <1>8, AdvanceTells

LEMMA OtherTells == DecimalsInv /\ ScanOther => DecimalsInv'
<1> SUFFICES ASSUME DecimalsInv, ScanOther PROVE DecimalsInv'
  OBVIOUS
<1>1. Scanning /\ Byte \notin Digits /\ (Byte = Dot => seenDot) /\ Fail("InvalidByte")
  BY DEF ScanOther
<1>2. /\ text \in Seq(0..255) /\ pos + 1 \in 1..Len(text) /\ pos \in 0..Len(text)
      /\ Registers(FirstBytes(text, pos), intPart, fracPart, fracScale, seenDot, seenDigit)
  BY <1>1, Scanned
<1>3. ASSUME Denotes(text, scale) PROVE FALSE
  <2>1. Byte = Dot
    BY <1>1, <1>2, <1>3 DEF Denotes, IsDecimal, Byte
  <2>2. Dots(FirstBytes(text, pos)) # {}
    BY <1>1, <1>2, <2>1 DEF Registers
  <2>3. PICK k \in 1..pos : text[k] = Dot /\ k \in 1..Len(text)
    <3>1. Len(FirstBytes(text, pos)) = pos /\ \A j \in 1..pos : FirstBytes(text, pos)[j] = text[j]
      BY <1>2, FirstBytesAre
    <3>2. PICK k \in 1..pos : text[k] = Dot
      BY <2>2, <3>1 DEF Dots
    <3>3. k \in 1..Len(text)
      BY <1>2
    <3>4. QED BY <3>2, <3>3
  <2>4. k = pos + 1
    BY <1>2, <1>3, <2>1, <2>3 DEF Denotes, IsDecimal, Byte
  <2>5. QED BY <1>2, <2>3, <2>4
<1>4. QED BY <1>1, <1>3, FailTells

LEMMA FinishTells == DecimalsInv /\ Finish => DecimalsInv'
<1> SUFFICES ASSUME DecimalsInv, Finish PROVE DecimalsInv'
  OBVIOUS
<1>1. /\ outcome = "scan" /\ pos = Len(text) /\ text \in Seq(0..255)
      /\ scale \in Nat \ {0} /\ fracScale <= scale /\ scale % fracScale = 0
  BY DEF Finish, DecimalsInv, DecimalsTypeOK, ScanInv
<1>2. /\ DecimalSoFar(text)
      /\ Registers(text, intPart, fracPart, fracScale, seenDot, seenDigit)
  <2>1. pos \in 0..Len(text) /\ FirstBytes(text, pos) = text
    BY <1>1, FirstBytesAre DEF DecimalsInv, DecimalsTypeOK
  <2>2. QED BY <1>1, <2>1 DEF DecimalsInv, ScanInv
<1>3. PICK i \in Nat, f \in Nat, fs \in Nat \ {0} :
        /\ i = intPart /\ f = fracPart /\ fs = fracScale
        /\ Spelled(text) = i * fs + f /\ fs = Power10(Behind(text))
  BY <1>2 DEF Registers
<1>4. PICK q \in Nat \ {0} : q = scale \div fs /\ scale = q * fs
  <2>1. scale % fs = 0
    BY <1>1, <1>3
  <2>2. scale \div fs \in Nat \ {0} /\ scale = (scale \div fs) * fs
    BY <1>1, <2>1, Divided
  <2>3. QED BY <2>2
<1> DEFINE scaled == intPart * scale + fracPart * (scale \div fracScale)
<1>5. scaled = Denoted(text, scale)
  <2>1. scaled = i * (q * fs) + f * q
    BY <1>3, <1>4
  <2>2. Denoted(text, scale) = (i * fs + f) * q
    BY <1>3, <1>4 DEF Denoted
  <2>3. i * (q * fs) + f * q = (i * fs + f) * q
    OBVIOUS
  <2>4. QED BY <2>1, <2>2, <2>3
<1>6. Denotes(text, scale) <=> seenDigit /\ scaled <= MaxI64
  <2>1. IsDecimal(text) <=> \E k \in 1..Len(text) : text[k] \in Digits
    BY <1>2 DEF IsDecimal, DecimalSoFar
  <2>2. seenDigit <=> \E k \in 1..Len(text) : text[k] \in Digits
    BY <1>2 DEF Registers
  <2>3. scale > 0 /\ scale % Power10(Behind(text)) = 0
    BY <1>1, <1>3
  <2>4. QED BY <1>5, <2>1, <2>2, <2>3 DEF Denotes, Denoted
<1> HIDE DEF scaled
<1>7. CASE ~ seenDigit
  <2>1. Fail("Empty")
    BY <1>7 DEF Finish
  <2>2. QED BY <1>6, <1>7, <2>1, FailTells
<1>8. CASE seenDigit /\ scaled > MaxI64
  <2>1. Fail("Overflow")
    BY <1>8 DEF Finish, scaled
  <2>2. scaled \in Int /\ MaxI64 \in Int
    <3>1. i * scale + f * q \in Int
      BY <1>1
    <3>2. QED BY <1>3, <1>4, <3>1, DecimalsAssumption DEF scaled
  <2>3. ~ (scaled <= MaxI64)
    BY <1>8, <2>2
  <2>4. QED BY <1>6, <2>1, <2>3, FailTells
<1>9. CASE seenDigit /\ ~ (scaled > MaxI64)
  <2>1. /\ outcome' = "ok" /\ value' = scaled
        /\ UNCHANGED <<text, scale, ordered, pos, scanVars>>
    BY <1>9 DEF Finish, scaled
  <2>2. scaled \in Int /\ MaxI64 \in Int
    <3>1. i * scale + f * q \in Int
      BY <1>1
    <3>2. QED BY <1>3, <1>4, <3>1, DecimalsAssumption DEF scaled
  <2>3. Denotes(text, scale)
    BY <1>6, <1>9, <2>2
  <2>4. AnswerInv'
    BY <1>5, <2>1, <2>3 DEF AnswerInv
  <2>5. DecimalsTypeOK' /\ ScanInv' /\ OrderedInv'
    BY <2>1 DEF DecimalsInv, DecimalsTypeOK, ScanInv, OrderedInv
  <2>6. QED BY <2>4, <2>5 DEF DecimalsInv
<1>10. QED BY <1>7, <1>8, <1>9

---------------------------------------------------------------------------
(* What format_scaled writes.                                               *)

Zeros(m) == [k \in 1..m |-> Zero]

LEMMA ZerosSpellNothing ==
  \A m \in Nat : Zeros(m) \in DigitTexts /\ Len(Zeros(m)) = m /\ Spelled(Zeros(m)) = 0
<1>1. ASSUME NEW m \in Nat PROVE Zeros(m) \in DigitTexts /\ Zeros(m) \in Seq(Int) /\ Len(Zeros(m)) = m
  BY DEF Zeros, DigitTexts, Digits, Zero
<1> DEFINE Bad == {m \in Nat : Spelled(Zeros(m)) # 0}
<1> SUFFICES ASSUME Bad # {} PROVE FALSE
  BY <1>1
<1>2. Bad \in SUBSET Nat
  OBVIOUS
<1>3. PICK m \in Bad : \A i \in Bad : m <= i
  BY <1>2, LeastNatural
<1>4. m # 0
  <2>1. Zeros(0) = <<>>
    BY DEF Zeros
  <2>2. QED BY <1>3, <2>1, SpelledIsInt
<1>5. PICK i \in Nat : m = i + 1 /\ ~ (m <= i)
  <2>1. m - 1 \in Nat /\ m = (m - 1) + 1 /\ ~ (m <= m - 1)
    BY <1>3, <1>4
  <2>2. QED BY <2>1
<1>6. Zeros(m) = Append(Zeros(i), Zero)
  BY <1>5 DEF Zeros
<1>7. Spelled(Zeros(i)) = 0
  BY <1>3, <1>5
<1>8. PICK t \in Seq(Int) : t = Zeros(i)
  BY <1>1
<1>9. Spelled(Append(t, Zero)) = 10 * Spelled(t) + (Zero - Zero)
  BY SpelledAppend DEF Zero, Dot
<1>10. Spelled(Append(t, Zero)) = 0
  <2>1. Spelled(t) = 0 /\ 10 * 0 + (Zero - Zero) = 0
    BY <1>7, <1>8 DEF Zero
  <2>2. QED BY <1>9, <2>1
<1>11. QED BY <1>3, <1>6, <1>8, <1>10

(* Sequences over a set are sequences over a larger one                     *)
Wider(S, T) == \A t \in Seq(S) : t \in Seq(T)

LEMMA Widened == ASSUME NEW S, NEW T, S \subseteq T PROVE Wider(S, T)
BY SeqMonotonic DEF Wider

LEMMA DigitTextsAre ==
  ASSUME NEW t \in DigitTexts
  PROVE  t \in Seq(Int) /\ t \in Seq(0..255)
<1>1. Digits \subseteq Int /\ Digits \subseteq 0..255
  BY DEF Digits, Zero
<1>2. Wider(Digits, Int) /\ Wider(Digits, 0..255)
  BY <1>1, Widened
<1>3. QED BY <1>2 DEF Wider, DigitTexts

IsJoined(t, d, x, p, n, k) ==
  /\ Len(t) = n + 1 + k /\ t[n + 1] = x /\ t \in Seq(Int)
  /\ \A j \in 1..n : t[j] = d[j]
  /\ \A j \in 1..k : t[n + 1 + j] = p[j]
  /\ t = Append(d, x) \o p

LEMMA Joined ==
  ASSUME NEW d \in Seq(Int), NEW x \in Int, NEW p \in Seq(Int)
  PROVE  IsJoined(d \o <<x>> \o p, d, x, p, Len(d), Len(p))
<1>0. PICK n \in Nat, k \in Nat : n = Len(d) /\ k = Len(p)
  OBVIOUS
<1> DEFINE t == d \o <<x>> \o p
<1>1. PICK u \in Seq(Int) : u = d \o <<x>> /\ u = Append(d, x)
  <2>1. d \o <<x>> \in Seq(Int) /\ d \o <<x>> = Append(d, x)
    OBVIOUS
  <2>2. QED BY <2>1
<1>2. Len(u) = n + 1 /\ u[n + 1] = x /\ \A j \in 1..n : u[j] = d[j]
  BY <1>0, <1>1
<1>3. t = u \o p
  BY <1>0, <1>1
<1>4. t \in Seq(Int) /\ Len(t) = n + 1 + k
  BY <1>0, <1>2, <1>3
<1>5. ASSUME NEW j \in 1..(n + 1) PROVE t[j] = u[j]
  BY <1>0, <1>2, <1>3
<1>6. ASSUME NEW j \in 1..k PROVE t[n + 1 + j] = p[j]
  BY <1>0, <1>2, <1>3
<1>7. \A j \in 1..n : j \in 1..(n + 1)
  OBVIOUS
<1>8. n + 1 \in 1..(n + 1)
  OBVIOUS
<1> HIDE DEF t
<1>9. IsJoined(t, d, x, p, n, k)
  BY <1>1, <1>2, <1>3, <1>4, <1>5, <1>6, <1>7, <1>8 DEF IsJoined
<1>10. QED BY <1>0, <1>9 DEF t

LEMMA PaddedTells ==
  ASSUME NEW n \in Nat, NEW w \in Int
  PROVE  /\ Padded(n, w) \in DigitTexts
         /\ w > 0 /\ n < Power10(w) => Len(Padded(n, w)) = w /\ Spelled(Padded(n, w)) = n
<1>1. PICK ds \in DigitTexts : ds = DigitsOf(n) /\ DigitsTell(n)
  BY DigitsTellAll DEF DigitsTell
<1>2. Len(ds) \in Nat
  BY DEF DigitTexts
<1>3. CASE Len(ds) <= w
  <2>1. PICK m \in Nat : m = w - Len(ds)
    BY <1>2, <1>3
  <2>2. Padded(n, w) = Zeros(m) \o ds
    BY <1>1, <2>1 DEF Padded, Zeros
  <2>3. PICK z \in DigitTexts : z = Zeros(m) /\ Len(z) = m /\ Spelled(z) = 0
    BY ZerosSpellNothing
  <2>4. z \o ds \in DigitTexts /\ Len(z \o ds) = w
    BY <1>2, <2>1, <2>3 DEF DigitTexts
  <2>5. Spelled(z \o ds) = n
    <3>1. z \in Seq(Int)
      BY DigitTextsAre
    <3>2. Spelled(z \o ds) = Spelled(z) * Power10(Len(ds)) + Spelled(ds)
      BY <3>1, SpelledBehind
    <3>3. Power10(Len(ds)) \in Nat
      BY <1>2, PowerNext
    <3>4. QED BY <1>1, <2>3, <3>2, <3>3 DEF DigitsTell
  <2>6. QED BY <2>2, <2>3, <2>4, <2>5
<1>4. CASE ~ (Len(ds) <= w)
  <2>1. Padded(n, w) = ds
    <3>1. [k \in 1..(w - Len(ds)) |-> Zero] = <<>>
      BY <1>2, <1>4
    <3>2. Padded(n, w) = <<>> \o ds
      BY <1>1, <3>1 DEF Padded
    <3>3. QED BY <3>2 DEF DigitTexts
  <2>2. w > 0 => ~ (n < Power10(w))
    BY <1>1, <1>4 DEF DigitsTell
  <2>3. QED BY <2>1, <2>2
<1>5. QED BY <1>3, <1>4

LEMMA PowerHasDigits == \A k \in Nat : Ilog10(Power10(k)) = k
<1> SUFFICES ASSUME NEW k \in Nat PROVE Ilog10(Power10(k)) = k
  OBVIOUS
<1>1. PICK p \in Nat : p = Power10(k) /\ Power10(k + 1) = 10 * p /\ p >= 1
  <2>1. Power10(k) \in Nat \ {0} /\ Power10(k + 1) = 10 * Power10(k)
    BY PowerNext, PowerPositive
  <2>2. QED BY <2>1
<1>2. PICK n \in Nat : n = Len(DigitsOf(p)) /\ n # 0
  BY DigitsTellAll DEF DigitsTell, DigitTexts
<1>3. n <= k + 1
  <2>1. k + 1 \in Nat \ {0} /\ p < Power10(k + 1)
    BY <1>1
  <2>2. QED BY <1>2, <2>1, DigitsTellAll DEF DigitsTell
<1>4. k # 0 => ~ (n <= k)
  <2>1. ~ (p < Power10(k))
    BY <1>1
  <2>2. QED BY <1>2, <2>1, DigitsTellAll DEF DigitsTell
<1>5. n = k + 1
  BY <1>2, <1>3, <1>4
<1>6. QED BY <1>1, <1>2, <1>5 DEF Ilog10

LEMMA FormatIsText ==
  ASSUME NEW v \in Int, NEW s \in Int
  PROVE  FormatScaled(v, s) \in Seq(0..255)
<1>1. PICK sign \in Seq(0..255) : sign = Sign(v)
  <2>1. <<45>> \in Seq(0..255) /\ <<>> \in Seq(0..255)
    OBVIOUS
  <2>2. Sign(v) = <<45>> \/ Sign(v) = <<>>
    BY DEF Sign, Minus
  <2>3. QED BY <2>1, <2>2
<1>2. PICK dot \in Seq(0..255) : dot = <<Dot>>
  <2>1. <<46>> \in Seq(0..255)
    OBVIOUS
  <2>2. QED BY <2>1 DEF Dot
<1>3. PICK a \in Nat : a = Abs(v)
  BY DEF Abs
<1>4. \A n \in Nat : DigitsOf(n) \in Seq(0..255)
  BY DigitTextsAre, DigitsTellAll DEF DigitsTell
<1>5. CASE s <= 1
  <2>1. FormatScaled(v, s) = sign \o DigitsOf(a)
    BY <1>1, <1>3, <1>5 DEF FormatScaled
  <2>2. QED BY <1>4, <2>1, ConcatProperties
<1>6. CASE s > 1
  <2>1. PICK q \in Nat, r \in Nat : q = a \div s /\ r = a % s
    <3>1. a \div s \in Nat /\ a % s \in Nat
      BY <1>6
    <3>2. QED BY <3>1
  <2>2. PICK d \in Seq(0..255) : d = DigitsOf(q)
    BY <1>4
  <2>3. PICK p \in Seq(0..255) : p = Padded(r, Ilog10(s))
    <3>1. Ilog10(s) \in Int
      <4>1. s \in Nat
        BY <1>6
      <4>2. DigitsOf(s) \in Seq(0..255)
        BY <1>4, <4>1
      <4>3. QED BY <4>2 DEF Ilog10
    <3>2. QED BY <3>1, PaddedTells, DigitTextsAre
  <2>4. FormatScaled(v, s) = sign \o (d \o dot \o p)
    <3>1. ~ (s <= 1)
      BY <1>6
    <3>2. FormatScaled(v, s) =
            Sign(v) \o (DigitsOf(Abs(v) \div s) \o <<Dot>> \o Padded(Abs(v) % s, Ilog10(s)))
      BY <3>1 DEF FormatScaled
    <3>3. QED BY <1>1, <1>2, <1>3, <2>1, <2>2, <2>3, <3>2
  <2>5. sign \o (d \o dot \o p) \in Seq(0..255)
    OBVIOUS
  <2>6. QED BY <2>4, <2>5
<1>7. QED BY <1>5, <1>6

(* A number written for a scale of ten to the k denotes itself              *)
LEMMA WholeTells ==
  ASSUME NEW v \in Nat, v <= MaxI64
  PROVE  Denotes(DigitsOf(v), 1) /\ Denoted(DigitsOf(v), 1) = v
<1>1. PICK t \in DigitTexts : t = DigitsOf(v) /\ t # <<>> /\ Spelled(t) = v
  BY DigitsTellAll DEF DigitsTell
<1>2. ASSUME NEW j \in 1..Len(t) PROVE t[j] \in Digits /\ t[j] # Dot
  BY ElementOfSeq DEF DigitTexts, Digits, Dot, Zero
<1>3. 1 \in 1..Len(t)
  BY <1>1 DEF DigitTexts
<1>4. IsDecimal(t)
  BY <1>2, <1>3 DEF IsDecimal
<1>5. Behind(t) = 0
  <2>1. Dots(t) = {}
    BY <1>2 DEF Dots
  <2>2. QED BY <2>1 DEF Behind
<1>6. 1 % 1 = 0 /\ 1 \div 1 = 1 /\ v * 1 = v /\ 1 > 0
  OBVIOUS
<1>7. QED BY <1>1, <1>4, <1>5, <1>6, PowerNext DEF Denotes, Denoted

LEMMA SplitTells ==
  ASSUME NEW a \in Nat, NEW b \in Nat, NEW k \in Nat \ {0}, b < Power10(k),
         a * Power10(k) + b <= MaxI64,
         NEW t, t = DigitsOf(a) \o <<Dot>> \o Padded(b, k)
  PROVE  Denotes(t, Power10(k)) /\ Denoted(t, Power10(k)) = a * Power10(k) + b
<1>1. PICK d \in DigitTexts : d = DigitsOf(a) /\ d # <<>> /\ Spelled(d) = a
  BY DigitsTellAll DEF DigitsTell
<1>2. PICK p \in DigitTexts : p = Padded(b, k) /\ Len(p) = k /\ Spelled(p) = b
  BY PaddedTells
<1>3. PICK n \in Nat : n = Len(d) /\ n >= 1
  BY <1>1 DEF DigitTexts
<1>4. /\ \A j \in 1..n : d[j] \in Digits
      /\ \A j \in 1..k : p[j] \in Digits
  BY <1>2, <1>3, ElementOfSeq DEF DigitTexts
<1>5. /\ Len(t) = n + 1 + k /\ t[n + 1] = Dot
      /\ \A j \in 1..n : t[j] = d[j]
      /\ \A j \in 1..k : t[n + 1 + j] = p[j]
      /\ t = Append(d, Dot) \o p
  <2>1. d \in Seq(Int) /\ p \in Seq(Int) /\ Dot \in Int
    BY DigitTextsAre DEF Dot
  <2>2. t = d \o <<Dot>> \o p
    BY <1>1, <1>2
  <2>3. IsJoined(d \o <<Dot>> \o p, d, Dot, p, Len(d), Len(p))
    BY <2>1, Joined
  <2>4. IsJoined(t, d, Dot, p, n, k)
    BY <1>2, <1>3, <2>2, <2>3
  <2>5. QED BY <2>4 DEF IsJoined
<1>6. Dot \notin Digits
  BY DEF Dot, Digits, Zero
<1>7. ASSUME NEW j \in 1..Len(t), j # n + 1 PROVE t[j] \in Digits
  <2>0. j \in Nat /\ j >= 1
    BY <1>5
  <2>1. CASE j <= n
    <3>1. j \in 1..n
      BY <2>0, <2>1
    <3>2. QED BY <1>4, <1>5, <3>1
  <2>2. CASE j > n
    <3>1. PICK i \in 1..k : j = n + 1 + i
      <4>1. j - (n + 1) \in 1..k /\ j = n + 1 + (j - (n + 1))
        BY <1>5, <1>7, <2>2
      <4>2. QED BY <4>1
    <3>2. t[j] = p[i] /\ p[i] \in Digits
      BY <1>4, <1>5, <3>1
    <3>3. QED BY <3>2
  <2>3. QED BY <2>1, <2>2
<1>8. n + 1 \in 1..Len(t) /\ 1 \in 1..Len(t) /\ 1 # n + 1
  BY <1>3, <1>5
<1>9. IsDecimal(t)
  BY <1>5, <1>6, <1>7, <1>8 DEF IsDecimal
<1>10. Behind(t) = k
  <2>1. Dots(t) = {n + 1}
    BY <1>5, <1>6, <1>7, <1>8 DEF Dots
  <2>2. Max({n + 1}) = n + 1
    BY DEF Max
  <2>3. Behind(t) = (n + 1 + k) - (n + 1)
    BY <1>5, <2>1, <2>2 DEF Behind
  <2>4. QED BY <2>3
<1>11. Spelled(t) = a * Power10(k) + b
  <2>1. d \in Seq(Int)
    BY DigitTextsAre
  <2>2. PICK u \in Seq(Int) : u = Append(d, Dot)
    <3>1. Append(d, Dot) \in Seq(Int)
      BY <2>1 DEF Dot
    <3>2. QED BY <3>1
  <2>3. Spelled(u) = a
    BY <1>1, <2>1, <2>2, SpelledAppend DEF Dot
  <2>4. t = u \o p
    BY <1>5, <2>2
  <2>5. Spelled(u \o p) = Spelled(u) * Power10(Len(p)) + Spelled(p)
    BY SpelledBehind
  <2>6. QED BY <1>2, <2>3, <2>4, <2>5
<1>12. PICK s \in Nat \ {0} : s = Power10(k)
  BY PowerPositive
<1>13. s % s = 0 /\ s \div s = 1 /\ s > 0
  OBVIOUS
<1>14. PICK m \in Nat : m = a * s + b
  OBVIOUS
<1>15. Denotes(t, s) /\ Denoted(t, s) = m
  BY <1>9, <1>10, <1>11, <1>12, <1>13, <1>14 DEF Denotes, Denoted
<1>16. QED BY <1>12, <1>14, <1>15

LEMMA FormatTells ==
  ASSUME NEW v \in Nat, v <= MaxI64, NEW k \in Nat, NEW s, s = Power10(k)
  PROVE  Denotes(FormatScaled(v, s), s) /\ Denoted(FormatScaled(v, s), s) = v
<1>1. Sign(v) = <<>> /\ Abs(v) = v
  BY DEF Sign, Abs
<1>2. CASE k = 0
  <2>1. s = 1
    BY <1>2, PowerNext
  <2>2. FormatScaled(v, s) = <<>> \o DigitsOf(v)
    BY <1>1, <2>1 DEF FormatScaled
  <2>3. DigitsOf(v) \in Seq(Digits)
    BY DigitsTellAll DEF DigitsTell, DigitTexts
  <2>4. FormatScaled(v, s) = DigitsOf(v)
    BY <2>2, <2>3
  <2>5. QED BY <2>1, <2>4, WholeTells
<1>3. CASE k # 0
  <2>1. s \in Nat /\ s > 1
    <3>1. PICK i \in Nat : k = i + 1
      <4>1. k - 1 \in Nat /\ k = (k - 1) + 1
        BY <1>3
      <4>2. QED BY <4>1
    <3>2. s = 10 * Power10(i) /\ Power10(i) \in Nat \ {0}
      BY <3>1, PowerNext, PowerPositive
    <3>3. QED BY <3>2
  <2>2. PICK a \in Nat, b \in Nat : a = v \div s /\ b = v % s /\ b < s /\ a * s + b = v
    <3>1. v \div s \in Nat /\ v % s \in Nat /\ v % s < s /\ (v \div s) * s + (v % s) = v
      BY <2>1
    <3>2. QED BY <3>1
  <2>3. PICK t : t = DigitsOf(a) \o <<Dot>> \o Padded(b, k)
    OBVIOUS
  <2>4. Ilog10(s) = k
    BY PowerHasDigits
  <2>5. FormatScaled(v, s) = <<>> \o t
    <3>1. ~ (s <= 1)
      BY <2>1
    <3>2. FormatScaled(v, s) = <<>> \o (DigitsOf(v \div s) \o <<Dot>> \o Padded(v % s, Ilog10(s)))
      BY <1>1, <3>1 DEF FormatScaled
    <3>3. QED BY <2>2, <2>3, <2>4, <3>2
  <2>6. t \in Seq(Int)
    <3>1. PICK d \in Seq(Int) : d = DigitsOf(a)
      BY DigitTextsAre, DigitsTellAll DEF DigitsTell
    <3>2. PICK p \in Seq(Int) : p = Padded(b, k)
      BY DigitTextsAre, PaddedTells
    <3>3. t = d \o <<Dot>> \o p /\ Dot \in Int
      BY <2>3, <3>1, <3>2 DEF Dot
    <3>4. IsJoined(d \o <<Dot>> \o p, d, Dot, p, Len(d), Len(p))
      BY <3>3, Joined
    <3>5. QED BY <3>3, <3>4 DEF IsJoined
  <2>7. FormatScaled(v, s) = t
    BY <2>5, <2>6
  <2>8. Denotes(t, Power10(k)) /\ Denoted(t, Power10(k)) = a * Power10(k) + b
    <3>1. k \in Nat \ {0} /\ b < Power10(k) /\ a * Power10(k) + b <= MaxI64
      BY <1>3, <2>2
    <3>2. QED BY <2>3, <3>1, SplitTells
  <2>9. QED BY <2>2, <2>7, <2>8
<1>4. QED BY <1>2, <1>3

---------------------------------------------------------------------------
(* The invariant.                                                           *)

LEMMA DecimalsBegins == DecimalsInit => DecimalsInv
<1> SUFFICES ASSUME DecimalsInit PROVE DecimalsInv
  OBVIOUS
<1>1. scale \in Scales /\ scale \in Int
  BY DecimalsAssumption DEF DecimalsInit
<1>2. OrderedInv
  BY DEF DecimalsInit, OrderedInv
<1>3. text \in Seq(0..255)
  <2>1. CASE text \in BoundedSeq(Bytes, MaxTextLen)
    <3>1. PICK m \in 0..MaxTextLen : text \in [1..m -> Bytes]
      BY <2>1 DEF BoundedSeq, SeqOf
    <3>2. m \in Nat
      OBVIOUS
    <3>3. text \in Seq(Bytes)
      BY <3>1, <3>2
    <3>4. Bytes \subseteq 0..255
      BY DecimalsAssumption
    <3>5. Wider(Bytes, 0..255)
      BY <3>4, Widened
    <3>6. QED BY <3>3, <3>5 DEF Wider
  <2>2. CASE \E v \in Ordered : text = FormatScaled(v, scale)
    <3>1. PICK v \in Int : text = FormatScaled(v, scale)
      BY <2>2, DecimalsAssumption
    <3>2. QED BY <1>1, <3>1, FormatIsText
  <2>3. QED BY <2>1, <2>2 DEF DecimalsInit
<1>4. DecimalsTypeOK /\ AnswerInv
  BY <1>1, <1>3 DEF DecimalsInit, DecimalsTypeOK, AnswerInv
<1>5. ScanInv
  <2>1. pos \in 0..Len(text) /\ FirstBytes(text, pos) = <<>>
    BY <1>3, FirstBytesAre DEF DecimalsInit
  <2>2. QED BY <2>1, NothingRead DEF DecimalsInit, ScanInv
<1>6. QED BY <1>2, <1>4, <1>5 DEF DecimalsInv

LEMMA DecimalsStays == DecimalsInv /\ UNCHANGED decimalsVars => DecimalsInv'
<1> SUFFICES ASSUME DecimalsInv, UNCHANGED decimalsVars PROVE DecimalsInv'
  OBVIOUS
<1>1. UNCHANGED <<text, scale, ordered, pos, intPart, fracPart, fracScale, seenDot, seenDigit, outcome, value>>
  BY DEF decimalsVars, scanVars
<1>2. DecimalsTypeOK'
  BY <1>1 DEF DecimalsInv, DecimalsTypeOK
<1>3. ScanInv'
  BY <1>1 DEF DecimalsInv, ScanInv
<1>4. AnswerInv' /\ OrderedInv'
  BY <1>1 DEF DecimalsInv, AnswerInv, OrderedInv
<1>5. QED BY <1>2, <1>3, <1>4 DEF DecimalsInv

LEMMA DecimalsStep == DecimalsInv /\ [DecimalsNext]_decimalsVars => DecimalsInv'
BY StartTells, IntDigitTells, FracDigitTells, DotTells, OtherTells, FinishTells, DecimalsStays
   DEF DecimalsNext

LEMMA NumbersTell == DecimalsInv => ParsedIsDenoted /\ OrderedIsSent
<1> SUFFICES ASSUME DecimalsInv PROVE ParsedIsDenoted /\ OrderedIsSent
  OBVIOUS
<1>1. ParsedIsDenoted
  BY DEF DecimalsInv, AnswerInv, ParsedIsDenoted, Fraction, Denotes, Denoted
<1>2. ASSUME NEW v \in ordered, outcome \notin {"start", "scan"}, v >= 0,
             NEW k \in 0..Len(DigitsOf(MaxI64)), scale = Power10(k)
      PROVE  outcome = "ok" /\ value = v
  <2>1. v \in Nat /\ v <= MaxI64 /\ text = FormatScaled(v, scale)
    <3>1. v \in Ordered /\ text = FormatScaled(v, scale)
      BY DEF DecimalsInv, OrderedInv
    <3>2. v \in -MaxI64..MaxI64 /\ MaxI64 \in Nat
      BY <3>1, DecimalsAssumption
    <3>3. QED BY <1>2, <3>1, <3>2
  <2>2. k \in Nat
    OBVIOUS
  <2>3. Denotes(text, scale) /\ Denoted(text, scale) = v
    BY <1>2, <2>1, <2>2, FormatTells
  <2>4. QED BY <1>2, <2>3 DEF DecimalsInv, AnswerInv
<1>3. OrderedIsSent
  BY <1>2 DEF OrderedIsSent
<1>4. QED BY <1>1, <1>3

(* The scanner accepts exactly the decimals an i64 holds at the scale, and  *)
(* answers the value they denote                                            *)
THEOREM ParsedAsDenoted == DecimalsSpec => []ParsedIsDenoted
<1>1. QED BY DecimalsBegins, DecimalsStep, NumbersTell, PTL DEF DecimalsSpec

(* What format_scaled writes is read back as the value of the order         *)
THEOREM OrdersAreSent == DecimalsSpec => []OrderedIsSent
<1>1. QED BY DecimalsBegins, DecimalsStep, NumbersTell, PTL DEF DecimalsSpec

---------------------------------------------------------------------------
(* Numbers, sums and texts on the wire.                                     *)

LEMMA SmallNumbers ==
  /\ DigitsOf(8) = <<56>> /\ DigitsOf(9) = <<57>>
  /\ DigitsOf(10) = <<49, 48>> /\ DigitsOf(35) = <<51, 53>>
<1>1. DigitsOf(1) = <<49>> /\ DigitsOf(3) = <<51>>
  BY DigitsNext DEF Zero
<1>2. DigitsOf(8) = <<56>> /\ DigitsOf(9) = <<57>>
  BY DigitsNext DEF Zero
<1>3. DigitsOf(10) = Append(DigitsOf(10 \div 10), Zero + (10 % 10))
  BY DigitsNext
<1>4. DigitsOf(35) = Append(DigitsOf(35 \div 10), Zero + (35 % 10))
  BY DigitsNext
<1>5. 10 \div 10 = 1 /\ 10 % 10 = 0 /\ 35 \div 10 = 3 /\ 35 % 10 = 5
  OBVIOUS
<1>a. DigitsOf(10) = Append(DigitsOf(1), Zero + 0) /\ DigitsOf(35) = Append(DigitsOf(3), Zero + 5)
  BY <1>3, <1>4, <1>5, Zenon
<1>b. Zero + 0 = 48 /\ Zero + 5 = 53
  BY DEF Zero
<1>6. DigitsOf(10) = Append(<<49>>, 48) /\ DigitsOf(35) = Append(<<51>>, 53)
  BY <1>1, <1>a, <1>b, Zenon
<1>7. QED BY <1>2, <1>6

(* Only ten is written 10                                                   *)
LEMMA OnlyTen ==
  ASSUME NEW n \in Nat, DigitsOf(n) = <<49, 48>>
  PROVE  n = 10
<1>1. Spelled(DigitsOf(n)) = n /\ Spelled(DigitsOf(10)) = 10
  BY DigitsTellAll DEF DigitsTell
<1>2. QED BY <1>1, SmallNumbers

(* parse_u32 reads what the digits spell                                    *)
LEMMA ParsedIsSpelled ==
  ASSUME NEW t \in DigitTexts
  PROVE  ParseU32(t) = Spelled(t)
<1>1. t \in Seq(Int)
  BY DigitTextsAre
<1>2. PICK n \in Nat : n = Len(t)
  BY <1>1
<1>3. PICK f \in [0..n -> Int] : Runs(f, 0, SpellStep(t), n) /\ Spelled(t) = f[n]
  BY <1>1, <1>2, SpelledRuns
<1>4. ASSUME NEW k \in 1..n PROVE f[k] = 10 * f[k - 1] + (t[k] - Zero)
  <2>1. k - 1 \in 0..n /\ k \in Nat /\ k \in 1..Len(t)
    BY <1>2
  <2>2. t[k] \in Digits
    BY <2>1 DEF DigitTexts
  <2>3. t[k] # Dot
    BY <2>2 DEF Digits, Zero, Dot
  <2>4. f[k] = SpellStep(t)[k][f[k - 1]] /\ f[k - 1] \in Int
    BY <1>3, <2>1 DEF Runs
  <2>5. QED BY <2>1, <2>3, <2>4 DEF SpellStep
<1>5. f = [k \in 0..n |-> IF k = 0 THEN 0 ELSE 10 * f[k - 1] + (t[k] - Zero)]
  BY <1>3, <1>4 DEF Runs
<1>6. PICK h : /\ h = [k \in 0..n |-> IF k = 0 THEN 0 ELSE 10 * h[k - 1] + (t[k] - Zero)]
               /\ ParseU32(t) = h[n]
  BY <1>2, <1>5 DEF ParseU32
<1>7. h[0] = 0 /\ f[0] = 0
  BY <1>5, <1>6
<1>8. ASSUME NEW k \in 1..n PROVE h[k] = 10 * h[k - 1] + (t[k] - Zero)
  <2>1. k # 0 /\ k \in 0..n
    BY <1>8
  <2>2. QED BY <1>6, <2>1, Zenon
<1>9. SameSteps(h, f, n)
  BY <1>4, <1>7, <1>8 DEF SameSteps
<1>10. h[n] = f[n]
  BY <1>9, StepsAgree
<1>11. QED BY <1>3, <1>6, <1>10

(* A digit text that is not empty is a number to the parser                 *)
LEMMA DigitTextIsNumber ==
  ASSUME NEW t \in DigitTexts, t # <<>>
  PROVE  IsNumber(t)
<1>1. \A k \in DOMAIN t : t[k] \in Digits
  BY DEF DigitTexts
<1>2. QED BY <1>1 DEF IsNumber, ToSet

LEMMA NumbersAreRead ==
  ASSUME NEW n \in Nat
  PROVE  IsNumber(DigitsOf(n)) /\ ParseU32(DigitsOf(n)) = n
<1>1. DigitsOf(n) \in DigitTexts /\ DigitsOf(n) # <<>> /\ Spelled(DigitsOf(n)) = n
  BY DigitsTellAll DEF DigitsTell
<1>2. PICK t \in DigitTexts : t = DigitsOf(n)
  BY <1>1
<1>3. QED BY <1>1, <1>2, ParsedIsSpelled, DigitTextIsNumber

(* The checksum's three digits                                              *)
LEMMA SumsAreRead ==
  ASSUME NEW c \in 0..255
  PROVE  /\ Padded(c, 3) \in DigitTexts /\ Len(Padded(c, 3)) = 3
         /\ IsNumber(Padded(c, 3)) /\ ParseU32(Padded(c, 3)) = c
<1>1. Power10(3) = 1000
  <2>1. Power10(0) = 1 /\ Power10(0 + 1) = 10 * Power10(0)
        /\ Power10(1 + 1) = 10 * Power10(1) /\ Power10(2 + 1) = 10 * Power10(2)
    BY PowerNext
  <2>2. QED BY <2>1
<1>2. PICK t \in DigitTexts : t = Padded(c, 3) /\ Len(t) = 3 /\ Spelled(t) = c
  <2>1. c \in Nat /\ 3 \in Int /\ 3 > 0 /\ c < Power10(3)
    BY <1>1
  <2>2. QED BY <2>1, PaddedTells
<1>3. t # <<>>
  BY <1>2
<1>4. QED BY <1>2, <1>3, ParsedIsSpelled, DigitTextIsNumber

(* The sum is taken of bytes                                                *)
SumStep(bytes) ==
  [k \in Nat |-> [v \in Nat |-> IF k \notin 1..Len(bytes) THEN v ELSE v + bytes[k]]]

LEMMA ChecksumIsByte ==
  ASSUME NEW bytes \in Seq(0..255)
  PROVE  Checksum(bytes) \in 0..255
<1>1. PICK n \in Nat : n = Len(bytes)
  OBVIOUS
<1>0. ASSUME NEW k \in 1..n PROVE bytes[k] \in Nat
  <2>1. bytes[k] \in 0..255
    BY <1>1, ElementOfSeq
  <2>2. \A x \in 0..255 : x \in Nat
    OBVIOUS
  <2>3. QED BY <2>1, <2>2, Zenon
<1>2. SumStep(bytes) \in [Nat -> [Nat -> Nat]] /\ 0 \in Nat
  BY <1>0, <1>1 DEF SumStep
<1>3. PICK f \in [0..n -> Nat] : Runs(f, 0, SumStep(bytes), n)
  BY <1>2, RunsExist
<1>4. ASSUME NEW k \in 1..n PROVE f[k] = f[k - 1] + bytes[k]
  <2>1. k - 1 \in 0..n /\ k \in Nat /\ k \in 1..Len(bytes)
    BY <1>1
  <2>2. f[k] = SumStep(bytes)[k][f[k - 1]] /\ f[k - 1] \in Nat
    BY <1>3, <2>1 DEF Runs
  <2>3. QED BY <2>1, <2>2 DEF SumStep
<1>5. f = [k \in 0..n |-> IF k = 0 THEN 0 ELSE f[k - 1] + bytes[k]]
  BY <1>3, <1>4 DEF Runs
<1>6. PICK h : /\ h = [k \in 0..n |-> IF k = 0 THEN 0 ELSE h[k - 1] + bytes[k]]
               /\ Checksum(bytes) = h[n] % 256
  BY <1>1, <1>5 DEF Checksum
<1>7. h[0] = 0 /\ f[0] = 0
  BY <1>5, <1>6
<1>8. ASSUME NEW k \in 1..n PROVE h[k] = h[k - 1] + bytes[k]
  <2>1. k # 0 /\ k \in 0..n
    BY <1>8
  <2>2. QED BY <1>6, <2>1, Zenon
<1>9. SameSteps(h, f, n)
  BY <1>4, <1>7, <1>8 DEF SameSteps
<1>10. h[n] = f[n]
  BY <1>9, StepsAgree
<1>11. PICK s \in Nat : s = h[n]
  BY <1>10
<1>12. s % 256 \in 0..255
  OBVIOUS
<1>13. QED BY <1>6, <1>11, <1>12, Zenon

(* Two texts, one behind the other                                          *)
IsConcat(t, a, i, z, j) ==
  /\ t \in Seq(Int) /\ Len(t) = i + j
  /\ \A k \in 1..i : t[k] = a[k]
  /\ \A k \in 1..j : t[i + k] = z[k]

LEMMA Concat ==
  ASSUME NEW a \in Seq(Int), NEW i \in Nat, i = Len(a), NEW z \in Seq(Int), NEW j \in Nat, j = Len(z)
  PROVE  IsConcat(a \o z, a, i, z, j)
<1>1. PICK t : t = a \o z
  OBVIOUS
<1>2. t \in Seq(Int) /\ Len(t) = i + j
  BY <1>1
<1>3. \A k \in 1..i : t[k] = a[k]
  BY <1>1
<1>4. \A k \in 1..j : t[i + k] = z[k]
  BY <1>1
<1>5. QED BY <1>1, <1>2, <1>3, <1>4 DEF IsConcat

Regroups(a, b, c) == (a \o b) \o c = a \o (b \o c)
AllRegroup(a, b, c, d) == ((a \o b) \o c) \o d = a \o (b \o (c \o d))

LEMMA ThreeTexts ==
  ASSUME NEW a \in Seq(Int), NEW b \in Seq(Int), NEW c \in Seq(Int)
  PROVE  Regroups(a, b, c)
BY ConcatAssociative DEF Regroups

LEMMA FourTexts ==
  ASSUME NEW a \in Seq(Int), NEW b \in Seq(Int), NEW c \in Seq(Int), NEW d \in Seq(Int)
  PROVE  AllRegroup(a, b, c, d)
<1>1. PICK u : u = a \o b /\ u \in Seq(Int)
  BY ConcatProperties
<1>2. PICK v : v = c \o d /\ v \in Seq(Int)
  BY ConcatProperties
<1>3. Regroups(u, c, d) /\ Regroups(a, b, v)
  BY <1>1, <1>2, ThreeTexts
<1>4. (u \o c) \o d = u \o v /\ u \o v = a \o (b \o v)
  BY <1>1, <1>2, <1>3 DEF Regroups
<1>5. QED BY <1>1, <1>2, <1>4 DEF AllRegroup

---------------------------------------------------------------------------
(* The tests of next_frame: a first separator, starts_with.                 *)

(* The first of some numbers                                                *)
LEMMA FirstOf ==
  ASSUME NEW S, NEW p \in S, NEW T, S \subseteq Int, S = T, \A i \in S : p <= i
  PROVE  (IF T # {} THEN Min(T) ELSE 0) = p
<1>1. Min(S) \in S /\ \A i \in S : Min(S) <= i
  BY DEF Min
<1>2. Min(S) <= p /\ p <= Min(S) /\ p \in Int /\ Min(S) \in Int
  BY <1>1
<1>3. QED BY <1>2

LEMMA FoundSOH ==
  ASSUME NEW buf, NEW from \in Nat, NEW n \in Nat, n = Len(buf), NEW p \in from..n,
         buf[p] = SOH, \A j \in from..(p - 1) : buf[j] # SOH
  PROVE  FindSOH(buf, from) = p
<1> DEFINE S == {i \in from..n : buf[i] = SOH}
<1>1. p \in S /\ S \subseteq Int
  OBVIOUS
<1>2. ASSUME NEW i \in S PROVE p <= i
  <2>1. i \notin from..(p - 1)
    BY <1>2
  <2>2. QED BY <2>1
<1>3. FindSOH(buf, from) = IF S # {} THEN Min(S) ELSE 0
  BY Zenon DEF FindSOH, SelectInSubSeq
<1> HIDE DEF S
<1>4. QED BY <1>1, <1>2, <1>3, FirstOf, Zenon

LEMMA NoSOH ==
  ASSUME NEW buf, NEW from \in Nat, NEW n \in Nat, n = Len(buf),
         \A j \in from..n : buf[j] # SOH
  PROVE  FindSOH(buf, from) = 0
<1> DEFINE S == {i \in from..n : buf[i] = SOH}
<1>1. S = {}
  OBVIOUS
<1>2. FindSOH(buf, from) = IF S # {} THEN Min(S) ELSE 0
  BY Zenon DEF FindSOH, SelectInSubSeq
<1>3. QED BY <1>1, <1>2, Zenon

(* starts_with, byte by byte                                                *)
Agree(buf, k, n, t, m) == k + m - 1 <= n /\ \A j \in 1..m : buf[k + j - 1] = t[j]

LEMMA StartsWith ==
  ASSUME NEW buf \in Seq(Int), NEW n \in Nat, n = Len(buf), NEW k \in Nat \ {0},
         NEW t \in Seq(Int), NEW m \in Nat, m = Len(t)
  PROVE  StartsAt(buf, k, t) <=> Agree(buf, k, n, t, m)
<1>1. CASE k + m - 1 <= n
  <2>a. k + m - 1 \in Int
    OBVIOUS
  <2>0. PICK l \in Int : l = k + m - 1
    BY <2>a
  <2>b. \A i \in k..l : buf[i] \in Int
    BY <1>1, <2>0
  <2>c. SubSeq(buf, k, l) \in Seq(Int)
    BY <2>b, SubSeqProperties
  <2>1. PICK s \in Seq(Int) : s = SubSeq(buf, k, l)
    BY <2>c
  <2>2. Len(s) = m /\ \A j \in 1..m : s[j] = buf[k + j - 1]
    BY <1>1, <2>0, <2>b, <2>1, SubSeqProperties
  <2>3. s = t <=> \A j \in 1..m : s[j] = t[j]
    BY <2>2, SeqEqual
  <2>4. StartsAt(buf, k, t) <=> s = t
    BY <1>1, <2>0, <2>1, Zenon DEF StartsAt
  <2>5. QED BY <1>1, <2>2, <2>3, <2>4 DEF Agree
<1>2. CASE ~ (k + m - 1 <= n)
  BY <1>2 DEF StartsAt, Agree
<1>3. QED BY <1>1, <1>2

TwoAt(buf, n, k, x, y) == k + 1 <= n /\ buf[k] = x /\ buf[k + 1] = y
ThreeAt(buf, n, k, x, y, z) == k + 2 <= n /\ buf[k] = x /\ buf[k + 1] = y /\ buf[k + 2] = z
FourAt(buf, n, k, x, y, z, v) ==
  k + 3 <= n /\ buf[k] = x /\ buf[k + 1] = y /\ buf[k + 2] = z /\ buf[k + 3] = v

LEMMA StartsWithTwo ==
  ASSUME NEW buf \in Seq(Int), NEW n \in Nat, n = Len(buf), NEW k \in Nat \ {0},
         NEW x \in Int, NEW y \in Int
  PROVE  StartsAt(buf, k, <<x, y>>) <=> TwoAt(buf, n, k, x, y)
<1>0. <<x, y>> \in Seq(Int)
  OBVIOUS
<1>1. PICK t \in Seq(Int) : t = <<x, y>>
  BY <1>0
<1>a. PICK m \in Nat : m = 2
  OBVIOUS
<1>2. Len(t) = m /\ t[1] = x /\ t[2] = y
  BY <1>1, <1>a
<1>3. StartsAt(buf, k, t) <=> Agree(buf, k, n, t, m)
  BY <1>2, StartsWith
<1>4. \A j : j \in 1..m <=> j = 1 \/ j = 2
  BY <1>a
<1>5. QED BY <1>1, <1>2, <1>3, <1>4, <1>a DEF Agree, TwoAt

LEMMA StartsWithThree ==
  ASSUME NEW buf \in Seq(Int), NEW n \in Nat, n = Len(buf), NEW k \in Nat \ {0},
         NEW x \in Int, NEW y \in Int, NEW z \in Int
  PROVE  StartsAt(buf, k, <<x, y, z>>) <=> ThreeAt(buf, n, k, x, y, z)
<1>0. <<x, y, z>> \in Seq(Int)
  OBVIOUS
<1>1. PICK t \in Seq(Int) : t = <<x, y, z>>
  BY <1>0
<1>a. PICK m \in Nat : m = 3
  OBVIOUS
<1>2. Len(t) = m /\ t[1] = x /\ t[2] = y /\ t[3] = z
  BY <1>1, <1>a
<1>3. StartsAt(buf, k, t) <=> Agree(buf, k, n, t, m)
  BY <1>2, StartsWith
<1>4. \A j : j \in 1..m <=> j = 1 \/ j = 2 \/ j = 3
  BY <1>a
<1>5. QED BY <1>1, <1>2, <1>3, <1>4, <1>a DEF Agree, ThreeAt

LEMMA StartsWithFour ==
  ASSUME NEW buf \in Seq(Int), NEW n \in Nat, n = Len(buf), NEW k \in Nat \ {0},
         NEW x \in Int, NEW y \in Int, NEW z \in Int, NEW v \in Int
  PROVE  StartsAt(buf, k, <<x, y, z, v>>) <=> FourAt(buf, n, k, x, y, z, v)
<1>0. <<x, y, z, v>> \in Seq(Int)
  OBVIOUS
<1>1. PICK t \in Seq(Int) : t = <<x, y, z, v>>
  BY <1>0
<1>a. PICK m \in Nat : m = 4
  OBVIOUS
<1>2. Len(t) = m /\ t[1] = x /\ t[2] = y /\ t[3] = z /\ t[4] = v
  BY <1>1, <1>a
<1>3. StartsAt(buf, k, t) <=> Agree(buf, k, n, t, m)
  BY <1>2, StartsWith
<1>4. \A j : j \in 1..m <=> j = 1 \/ j = 2 \/ j = 3 \/ j = 4
  BY <1>a
<1>5. QED BY <1>1, <1>2, <1>3, <1>4, <1>a DEF Agree, FourAt

---------------------------------------------------------------------------
(* next_frame on the first bytes of a message.                              *)

(* What next_frame answers once it knows where the body is                  *)
BodyAnswer(buf, n, length, end) ==
  IF end > n
  THEN IF \E k \in (length + 1)..n : StartsAt(buf, k, <<SOH>> \o ChecksumTag)
       THEN [kind |-> "error"] ELSE [kind |-> "more"]
  ELSE IF end = n THEN [kind |-> "more"]
  ELSE IF ~ StartsAt(buf, end + 1, ChecksumTag) THEN [kind |-> "error"]
  ELSE IF n < end + 7 THEN [kind |-> "more"]
  ELSE IF IsTrailer(buf, end + 7) /\ HasMsgType(SubSeq(buf, length + 1, end))
  THEN [kind |-> "frame", body |-> SubSeq(buf, length + 1, end)] ELSE [kind |-> "error"]

HeadAnswer(buf, n, begin, length, digits) ==
  IF buf = <<>> THEN [kind |-> "more"]
  ELSE IF ~ StartsAt(buf, 1, <<56, Equals>>) THEN [kind |-> "error"]
  ELSE IF begin = 0 THEN [kind |-> "more"]
  ELSE IF ~ StartsAt(buf, begin + 1, <<57, Equals>>) THEN [kind |-> "error"]
  ELSE IF length = 0 THEN [kind |-> "more"]
  ELSE IF ~ IsNumber(digits) THEN [kind |-> "error"]
  ELSE BodyAnswer(buf, n, length, length + ParseU32(digits))

LEMMA AnswerUnfolds ==
  ASSUME NEW buf, NEW n, n = Len(buf), NEW begin, begin = FindSOH(buf, 1),
         NEW length, length = FindSOH(buf, begin + 3),
         NEW digits, digits = SubSeq(buf, begin + 3, length - 1)
  PROVE  NextFrameOf(buf) = HeadAnswer(buf, n, begin, length, digits)
BY Zenon DEF NextFrameOf, HeadAnswer, BodyAnswer

(* The bytes of a message w with a BodyLength that says m, a body b that     *)
(* begins behind s and ends with e, and a checksum that says c              *)
WireBytes(w, b, m, c, s, e) ==
  /\ w \in Seq(Int) /\ b \in Seq(Int)
  /\ s = 7 + Len(DigitsOf(m)) /\ e = s + Len(b) /\ Len(w) = e + 7
  /\ w[1] = 56 /\ w[2] = Equals /\ w[3] = 70 /\ w[4] = SOH /\ w[5] = 57 /\ w[6] = Equals
  /\ \A j \in 1..Len(DigitsOf(m)) : w[6 + j] = DigitsOf(m)[j]
  /\ w[s] = SOH
  /\ \A j \in 1..Len(b) : w[s + j] = b[j]
  /\ w[e + 1] = 49 /\ w[e + 2] = 48 /\ w[e + 3] = Equals
  /\ \A j \in 1..3 : w[e + 3 + j] = Padded(c, 3)[j]
  /\ w[e + 7] = SOH

(* The first n bytes of w                                                   *)
FirstOfWire(buf, n, w) ==
  /\ buf \in Seq(Int) /\ n = Len(buf) /\ n <= Len(w)
  /\ \A i \in 1..n : buf[i] = w[i]

LEMMA WireIsCut ==
  ASSUME NEW w \in Seq(Int), NEW n \in 0..Len(w)
  PROVE  FirstOfWire(SubSeq(w, 1, n), n, w)
<1>1. \A i \in 1..n : w[i] \in Int
  OBVIOUS
<1>2. n \in Int
  OBVIOUS
<1>3. PICK t : t = SubSeq(w, 1, n)
  OBVIOUS
<1>4. t \in Seq(Int) /\ Len(t) = (IF 1 <= n THEN n - 1 + 1 ELSE 0)
      /\ \A i \in 1..(n - 1 + 1) : t[i] = w[1 + i - 1]
  BY <1>1, <1>2, <1>3, SubSeqProperties
<1>5. FirstOfWire(t, n, w)
  BY <1>4 DEF FirstOfWire
<1>6. QED BY <1>3, <1>5

LEMMA ByteTests ==
  /\ SOH \in Int /\ Equals \in Int /\ SOH # 56 /\ SOH # 57 /\ SOH # Equals /\ SOH # 70
  /\ SOH # 48 /\ SOH # 49 /\ SOH \notin Digits /\ Equals \notin Digits /\ Digits \subseteq Int
BY DEF SOH, Equals, Digits, Zero

LEMMA DigitsAre ==
  ASSUME NEW m \in Nat
  PROVE  /\ Len(DigitsOf(m)) \in Nat \ {0}
         /\ DigitsOf(m) \in Seq(Int)
         /\ \A j \in 1..Len(DigitsOf(m)) : DigitsOf(m)[j] \in Digits
<1>1. PICK t \in DigitTexts : t = DigitsOf(m) /\ t # <<>>
  BY DigitsTellAll DEF DigitsTell
<1>2. t \in Seq(Int)
  BY DigitTextsAre
<1>3. Len(t) \in Nat \ {0} /\ \A j \in 1..Len(t) : t[j] \in Digits
  BY <1>1 DEF DigitTexts
<1>4. QED BY <1>1, <1>2, <1>3

(* As far as the body's first byte                                          *)
HeadRead(answered, buf, n, m, s) ==
  /\ n = 0 \/ n \in 2..3 \/ n \in 6..(s - 1) => answered = [kind |-> "more"]
  /\ n = 1 \/ n \in 4..5 => answered = [kind |-> "error"]
  /\ n >= s => answered = BodyAnswer(buf, n, s, s + m)

LEMMA HeadIsRead ==
  ASSUME NEW w, NEW b, NEW m \in Nat, NEW c, NEW s \in Nat, NEW e \in Nat, WireBytes(w, b, m, c, s, e),
         NEW buf, NEW n \in Nat, FirstOfWire(buf, n, w)
  PROVE  HeadRead(NextFrameOf(buf), buf, n, m, s)
<1>1. buf \in Seq(Int) /\ n = Len(buf) /\ n <= e + 7 /\ \A i \in 1..n : buf[i] = w[i]
  BY DEF FirstOfWire, WireBytes
<1>2. PICK d \in Nat \ {0} : d = Len(DigitsOf(m)) /\ s = 7 + d /\ s <= e
  <2>1. PICK d \in Nat \ {0} : d = Len(DigitsOf(m))
    BY DigitsAre
  <2>2. PICK l \in Nat : l = Len(b)
    BY LenProperties DEF WireBytes
  <2>3. s = 7 + d /\ e = s + l
    BY <2>1, <2>2 DEF WireBytes
  <2>4. QED BY <2>1, <2>3
<1>3. PICK begin : begin = FindSOH(buf, 1)
  OBVIOUS
<1>4. PICK length : length = FindSOH(buf, begin + 3)
  OBVIOUS
<1>5. PICK digits : digits = SubSeq(buf, begin + 3, length - 1)
  OBVIOUS
<1>6. NextFrameOf(buf) = HeadAnswer(buf, n, begin, length, digits)
  BY <1>1, <1>3, <1>4, <1>5, AnswerUnfolds
<1>7. CASE n = 0
  <2>1. buf = <<>>
    BY <1>1, <1>7, EmptySeq
  <2>2. QED BY <1>2, <1>6, <1>7, <2>1 DEF HeadAnswer, HeadRead
<1>a. n # 0 => buf # <<>>
  BY <1>1
<1>b. /\ n >= 1 => buf[1] = 56
      /\ n >= 2 => buf[2] = Equals
      /\ n >= 3 => buf[3] = 70
      /\ n >= 4 => buf[4] = SOH
      /\ n >= 5 => buf[5] = 57
      /\ n >= 6 => buf[6] = Equals
  <2>1. /\ w[1] = 56 /\ w[2] = Equals /\ w[3] = 70
        /\ w[4] = SOH /\ w[5] = 57 /\ w[6] = Equals
    BY Zenon DEF WireBytes
  <2>2. \A i \in 1..6 : n >= i => buf[i] = w[i]
    BY <1>1
  <2>3. QED BY <2>1, <2>2
<1>c. StartsAt(buf, 1, <<56, Equals>>) <=> n >= 2
  <2>1. StartsAt(buf, 1, <<56, Equals>>) <=> TwoAt(buf, n, 1, 56, Equals)
    BY <1>1, ByteTests, StartsWithTwo
  <2>2. QED BY <1>b, <2>1 DEF TwoAt
<1>8. CASE n = 1
  BY <1>2, <1>6, <1>8, <1>a, <1>c DEF HeadAnswer, HeadRead
<1>9. CASE n \in 2..3
  <2>1. \A j \in 1..n : buf[j] # SOH
    <3>1. \A j \in 1..n : j = 1 \/ j = 2 \/ (j = 3 /\ n >= 3)
      BY <1>9
    <3>2. QED BY <1>9, <1>b, <3>1, ByteTests
  <2>2. begin = 0
    BY <1>1, <1>3, <2>1, NoSOH
  <2>3. QED BY <1>2, <1>6, <1>9, <1>a, <1>c, <2>2 DEF HeadAnswer, HeadRead
<1>10. CASE n >= 4
  <2>1. begin = 4
    <3>1. \A j \in 1..(4 - 1) : buf[j] # SOH
      <4>1. \A j \in 1..(4 - 1) : j = 1 \/ j = 2 \/ j = 3
        OBVIOUS
      <4>2. QED BY <1>10, <1>b, <4>1, ByteTests
    <3>2. 4 \in 1..n /\ buf[4] = SOH
      BY <1>10, <1>b
    <3>3. QED BY <1>1, <1>3, <3>1, <3>2, FoundSOH
  <2>2. StartsAt(buf, 5, <<57, Equals>>) <=> n >= 6
    <3>1. StartsAt(buf, 5, <<57, Equals>>) <=> TwoAt(buf, n, 5, 57, Equals)
      BY <1>1, ByteTests, StartsWithTwo
    <3>2. QED BY <1>b, <3>1 DEF TwoAt
  <2>3. CASE n \in 4..5
    BY <1>2, <1>6, <1>10, <1>a, <1>c, <2>1, <2>2, <2>3 DEF HeadAnswer, HeadRead
  <2>4. ASSUME n >= 6, NEW j \in 7..(s - 1), j <= n PROVE buf[j] = DigitsOf(m)[j - 6] /\ buf[j] \in Digits
    <3>1. j - 6 \in 1..d /\ 6 + (j - 6) = j /\ j \in 1..n
      BY <1>2, <2>4
    <3>2. w[6 + (j - 6)] = DigitsOf(m)[j - 6]
      BY <1>2, <3>1 DEF WireBytes
    <3>3. QED BY <1>1, <1>2, <3>1, <3>2, DigitsAre
  <2>5. CASE n \in 6..(s - 1)
    <3>1. \A j \in 7..n : buf[j] # SOH
      BY <2>4, <2>5, ByteTests
    <3>2. length = 0
      BY <1>1, <1>4, <2>1, <3>1, NoSOH
    <3>3. QED BY <1>2, <1>6, <1>10, <1>a, <1>c, <2>1, <2>2, <2>5, <3>2 DEF HeadAnswer, HeadRead
  <2>6. CASE n >= s
    <3>1. \A j \in 7..(s - 1) : buf[j] # SOH
      BY <1>2, <2>4, <2>6, ByteTests
    <3>2. buf[s] = SOH
      <4>1. w[s] = SOH
        BY Zenon DEF WireBytes
      <4>2. s \in 1..n
        BY <1>2, <2>6
      <4>3. QED BY <1>1, <4>1, <4>2
    <3>a. PICK k \in Nat : k = 7
      OBVIOUS
    <3>b. FindSOH(buf, k) = s
      <4>1. s \in k..n
        BY <1>2, <2>6, <3>a
      <4>2. QED BY <1>1, <3>1, <3>2, <3>a, <4>1, FoundSOH
    <3>3. length = s
      <4>1. begin + 3 = k
        BY <2>1, <3>a
      <4>2. QED BY <1>4, <3>b, <4>1
    <3>4. digits = DigitsOf(m)
      <4>1. PICK t \in Seq(Int) : t = DigitsOf(m)
        BY DigitsAre
      <4>2. \A i \in 7..(s - 1) : buf[i] \in Int
        BY <1>1, <1>2, <2>6
      <4>a. s - 1 \in Int /\ 7 \in Int /\ s - 1 - 7 + 1 = d
        BY <1>2
      <4>3. digits = SubSeq(buf, 7, s - 1)
        BY <1>5, <2>1, <3>3
      <4>b. PICK l \in Int, g \in Int : l = s - 1 /\ g = 7
        BY <4>a
      <4>c. \A i \in g..l : buf[i] \in Int
        BY <4>2, <4>b
      <4>d. digits = SubSeq(buf, g, l)
        BY <4>3, <4>b
      <4>e. /\ digits \in Seq(Int) /\ Len(digits) = (IF g <= l THEN l - g + 1 ELSE 0)
            /\ \A i \in 1..(l - g + 1) : digits[i] = buf[g + i - 1]
        BY <4>c, <4>d, SubSeqProperties
      <4>4. digits \in Seq(Int) /\ Len(digits) = d /\ \A i \in 1..d : digits[i] = buf[7 + i - 1]
        BY <1>2, <4>a, <4>b, <4>e
      <4>5. ASSUME NEW i \in 1..d PROVE digits[i] = t[i]
        <5>1. 6 + i \in 7..(s - 1) /\ 7 + i - 1 = 6 + i /\ (6 + i) - 6 = i /\ n >= 6 /\ 6 + i <= n
          BY <1>2, <2>6
        <5>2. buf[6 + i] = DigitsOf(m)[i]
          BY <2>4, <5>1
        <5>3. QED BY <4>1, <4>4, <5>1, <5>2
      <4>6. QED BY <1>2, <4>1, <4>4, <4>5, SeqEqual
    <3>5. IsNumber(digits) /\ ParseU32(digits) = m
      BY <3>4, NumbersAreRead
    <3>6. QED
      BY <1>2, <1>6, <1>10, <1>a, <1>c, <2>1, <2>2, <2>6, <3>3, <3>5 DEF HeadAnswer, HeadRead
  <2>7. QED BY <1>2, <1>10, <2>3, <2>5, <2>6 DEF HeadRead
<1>11. QED BY <1>2, <1>7, <1>8, <1>9, <1>10 DEF HeadRead

(* A body as the encoder builds it: it starts with a MsgType, ends with a   *)
(* separator, and no field in it is a checksum                              *)
SoundBody(b, l) ==
  /\ b \in Seq(Int) /\ l = Len(b) /\ l >= 5
  /\ b[1] = 51 /\ b[2] = 53 /\ b[3] = Equals /\ b[4] # SOH /\ b[l] = SOH
  /\ \A p \in 1..(l - 1) : b[p] = SOH =>
       p + 3 <= l /\ ~ (b[p + 1] = 49 /\ b[p + 2] = 48 /\ b[p + 3] = Equals)

LEMMA FoundIsSOH ==
  ASSUME NEW buf, NEW from \in Nat, NEW n \in Nat, n = Len(buf), FindSOH(buf, from) # 0
  PROVE  buf[FindSOH(buf, from)] = SOH
<1> DEFINE S == {i \in from..n : buf[i] = SOH}
<1>1. FindSOH(buf, from) = IF S # {} THEN Min(S) ELSE 0
  BY Zenon DEF FindSOH, SelectInSubSeq
<1>2. S # {}
  BY <1>1, Zenon
<1>3. S \in SUBSET Nat
  OBVIOUS
<1>4. \E p \in S : \A i \in S : p <= i
  BY <1>2, <1>3, LeastNatural
<1>5. Min(S) \in S
  BY <1>4 DEF Min
<1>6. QED BY <1>1, <1>2, <1>5

LEMMA TypeIsRead ==
  ASSUME NEW b, NEW l \in Nat, SoundBody(b, l)
  PROVE  HasMsgType(b) <=> b[5] = SOH
<1>1. b \in Seq(Int) /\ l = Len(b) /\ l >= 5
  BY DEF SoundBody
<1>2. b[1] = 51 /\ b[2] = 53 /\ b[3] = Equals /\ b[4] # SOH
  BY DEF SoundBody
<1>3. PICK starts : starts = {k \in 1..Len(b) : (k = 1 \/ b[k - 1] = SOH) /\ StartsAt(b, k, <<51, 53, Equals>>)}
  OBVIOUS
<1>4. PICK first : first = CHOOSE k \in starts : \A j \in starts : k <= j
  OBVIOUS
<1>5. HasMsgType(b) <=> starts # {} /\ FindSOH(b, first) = first + 4
  BY <1>3, <1>4, Zenon DEF HasMsgType
<1>6. 1 \in starts
  <2>1. StartsAt(b, 1, <<51, 53, Equals>>) <=> ThreeAt(b, l, 1, 51, 53, Equals)
    BY <1>1, ByteTests, StartsWithThree
  <2>2. QED BY <1>1, <1>2, <1>3, <2>1 DEF ThreeAt
<1>7. first = 1
  <2>1. starts \subseteq Int /\ \A j \in starts : 1 <= j
    BY <1>1, <1>3
  <2>2. first \in starts /\ \A j \in starts : first <= j
    BY <1>4, <1>6, <2>1
  <2>3. first <= 1 /\ 1 <= first /\ first \in Int
    BY <1>6, <2>1, <2>2
  <2>4. QED BY <2>3
<1>8. \A j \in 1..(5 - 1) : b[j] # SOH
  <2>1. \A j \in 1..(5 - 1) : j = 1 \/ j = 2 \/ j = 3 \/ j = 4
    OBVIOUS
  <2>2. 51 # SOH /\ 53 # SOH
    BY DEF SOH
  <2>3. QED BY <1>2, <2>1, <2>2, ByteTests
<1>9. FindSOH(b, 1) = 5 <=> b[5] = SOH
  <2>1. ASSUME b[5] = SOH PROVE FindSOH(b, 1) = 5
    <3>1. 5 \in 1..l /\ 1 \in Nat
      BY <1>1
    <3>2. QED BY <1>1, <1>8, <2>1, <3>1, FoundSOH
  <2>2. ASSUME FindSOH(b, 1) = 5 PROVE b[5] = SOH
    <3>1. b[FindSOH(b, 1)] = SOH
      BY <1>1, <2>2, FoundIsSOH
    <3>2. QED BY <2>2, <3>1
  <2>3. QED BY <2>1, <2>2
<1>10. QED BY <1>5, <1>6, <1>7, <1>9

LEMMA TagBytes == <<SOH>> \o ChecksumTag = <<SOH, 49, 48, Equals>>
<1>0. SOH \in Int /\ Equals \in Int
  BY ByteTests
<1>1. <<SOH>> \in Seq(Int) /\ <<49, 48, Equals>> \in Seq(Int) /\ <<SOH, 49, 48, Equals>> \in Seq(Int)
  BY <1>0
<1>2. PICK a \in Seq(Int), z \in Seq(Int), u \in Seq(Int) :
        a = <<SOH>> /\ z = <<49, 48, Equals>> /\ u = <<SOH, 49, 48, Equals>>
  BY <1>1
<1>3. /\ Len(a) = 1 /\ a[1] = SOH
      /\ Len(z) = 3 /\ z[1] = 49 /\ z[2] = 48 /\ z[3] = Equals
      /\ Len(u) = 4 /\ u[1] = SOH /\ u[2] = 49 /\ u[3] = 48 /\ u[4] = Equals
  BY <1>2
<1>4. PICK t : t = a \o z /\ IsConcat(t, a, 1, z, 3)
  BY <1>3, Concat
<1>a. /\ t \in Seq(Int) /\ Len(t) = 1 + 3
      /\ \A k \in 1..1 : t[k] = a[k]
      /\ \A k \in 1..3 : t[1 + k] = z[k]
  BY <1>4, Zenon DEF IsConcat
<1>b. 1 + 3 = 4
  OBVIOUS
<1>5. /\ t \in Seq(Int) /\ Len(t) = 4
      /\ \A k \in 1..1 : t[k] = a[k]
      /\ \A k \in 1..3 : t[1 + k] = z[k]
  BY <1>a, <1>b, Zenon
<1>6. \A k \in 1..4 : t[k] = u[k]
  <2>1. t[1] = a[1] /\ t[1 + 1] = z[1] /\ t[1 + 2] = z[2] /\ t[1 + 3] = z[3]
    BY <1>5
  <2>2. \A k \in 1..4 : k = 1 \/ k = 1 + 1 \/ k = 1 + 2 \/ k = 1 + 3
    OBVIOUS
  <2>3. QED BY <1>3, <2>1, <2>2
<1>7. t = u
  <2>1. Len(t) = Len(u) /\ \A k \in 1..Len(t) : t[k] = u[k]
    BY <1>3, <1>5, <1>6
  <2>2. QED BY <1>2, <1>5, <2>1, SeqEqual
<1>8. QED BY <1>2, <1>4, <1>7 DEF ChecksumTag

(* The bytes of a message that are in the buffer                            *)
Arrived(buf, n, b, l, c, s, e) ==
  /\ buf \in Seq(Int) /\ n = Len(buf) /\ n <= e + 7 /\ e = s + l /\ l >= 5
  /\ \A j \in 1..l : s + j <= n => buf[s + j] = b[j]
  /\ n >= e + 1 => buf[e + 1] = 49
  /\ n >= e + 2 => buf[e + 2] = 48
  /\ n >= e + 3 => buf[e + 3] = Equals
  /\ \A j \in 1..3 : n >= e + 3 + j => buf[e + 3 + j] = Padded(c, 3)[j]
  /\ n >= e + 7 => buf[e + 7] = SOH

LEMMA WireIsRead ==
  ASSUME NEW w, NEW b, NEW l \in Nat, NEW m \in Nat, NEW c, NEW s \in Nat, NEW e \in Nat,
         WireBytes(w, b, m, c, s, e), SoundBody(b, l),
         NEW buf, NEW n \in Nat, FirstOfWire(buf, n, w)
  PROVE  Arrived(buf, n, b, l, c, s, e)
<1>1. buf \in Seq(Int) /\ n = Len(buf) /\ n <= e + 7 /\ \A i \in 1..n : buf[i] = w[i]
  BY DEF FirstOfWire, WireBytes
<1>2. e = s + l /\ l >= 5 /\ l = Len(b)
  BY DEF WireBytes, SoundBody
<1>3. \A j \in 1..l : s + j <= n => buf[s + j] = b[j]
  <2>1. \A j \in 1..l : w[s + j] = b[j]
    BY <1>2 DEF WireBytes
  <2>2. QED BY <1>1, <2>1
<1>4. w[e + 1] = 49 /\ w[e + 2] = 48 /\ w[e + 3] = Equals /\ w[e + 7] = SOH
  BY Zenon DEF WireBytes
<1>5. \A j \in 1..7 : n >= e + j => buf[e + j] = w[e + j]
  BY <1>1
<1>6. /\ n >= e + 1 => buf[e + 1] = 49
      /\ n >= e + 2 => buf[e + 2] = 48
      /\ n >= e + 3 => buf[e + 3] = Equals
      /\ n >= e + 7 => buf[e + 7] = SOH
  BY <1>4, <1>5
<1>7. \A j \in 1..3 : n >= e + 3 + j => buf[e + 3 + j] = Padded(c, 3)[j]
  <2>1. \A j \in 1..3 : w[e + 3 + j] = Padded(c, 3)[j]
    BY Zenon DEF WireBytes
  <2>2. \A j \in 1..3 : n >= e + 3 + j => e + 3 + j \in 1..n
    OBVIOUS
  <2>3. QED BY <1>1, <2>1, <2>2, Zenon
<1>8. QED BY <1>1, <1>2, <1>3, <1>6, <1>7 DEF Arrived

(* No checksum is found before the message's own                            *)
LEMMA NoTagInBody ==
  ASSUME NEW w, NEW b, NEW l \in Nat, NEW m \in Nat, NEW c, NEW s \in Nat, NEW e \in Nat,
         WireBytes(w, b, m, c, s, e), SoundBody(b, l),
         NEW buf, NEW n \in Nat, FirstOfWire(buf, n, w),
         NEW k \in (s + 1)..n, n <= e + 2
  PROVE  ~ StartsAt(buf, k, <<SOH>> \o ChecksumTag)
<1>0. Arrived(buf, n, b, l, c, s, e)
  BY WireIsRead
<1>1. buf \in Seq(Int) /\ n = Len(buf) /\ e = s + l
  BY <1>0 DEF Arrived
<1>2. \A j \in 1..l : s + j <= n => buf[s + j] = b[j]
  BY <1>0 DEF Arrived
<1>3. SUFFICES ASSUME FourAt(buf, n, k, SOH, 49, 48, Equals) PROVE FALSE
  <2>1. k \in Nat \ {0}
    OBVIOUS
  <2>2. StartsAt(buf, k, <<SOH, 49, 48, Equals>>) <=> FourAt(buf, n, k, SOH, 49, 48, Equals)
    BY <1>1, <2>1, ByteTests, StartsWithFour
  <2>3. QED BY <2>2, TagBytes
<1>4. k + 3 <= n /\ buf[k] = SOH /\ buf[k + 1] = 49 /\ buf[k + 2] = 48 /\ buf[k + 3] = Equals
  BY <1>3 DEF FourAt
<1>5. PICK p \in 1..(l - 1) : k = s + p
  <2>1. k - s \in 1..(l - 1) /\ k = s + (k - s)
    BY <1>1, <1>4
  <2>2. QED BY <2>1
<1>6. b[p] = SOH
  BY <1>2, <1>4, <1>5
<1>7. p + 3 <= l /\ ~ (b[p + 1] = 49 /\ b[p + 2] = 48 /\ b[p + 3] = Equals)
  BY <1>6 DEF SoundBody
<1>8. b[p + 1] = buf[k + 1] /\ b[p + 2] = buf[k + 2] /\ b[p + 3] = buf[k + 3]
  <2>1. \A i \in 1..3 : p + i \in 1..l /\ s + (p + i) = k + i /\ s + (p + i) <= n
    BY <1>4, <1>5, <1>7
  <2>2. \A i \in 1..3 : b[p + i] = buf[k + i]
    BY <1>2, <2>1
  <2>3. QED BY <2>2
<1>9. QED BY <1>4, <1>7, <1>8

(* A part of a text is known by its bytes                                   *)
HasPart(t, i, l, b) == l = Len(b) /\ i + l <= Len(t) /\ \A j \in 1..l : t[i + j] = b[j]

LEMMA PartIs ==
  ASSUME NEW t \in Seq(Int), NEW b \in Seq(Int), NEW i \in Nat, NEW l \in Nat, HasPart(t, i, l, b)
  PROVE  SubSeq(t, i + 1, i + l) = b
<1>a. l = Len(b) /\ i + l <= Len(t) /\ \A j \in 1..l : t[i + j] = b[j]
  BY DEF HasPart
<1>0. i + 1 \in Int /\ i + l \in Int
  OBVIOUS
<1>1. PICK x \in Int, y \in Int : x = i + 1 /\ y = i + l
  BY <1>0
<1>2. ASSUME NEW j \in x..y PROVE t[j] \in Int
  <2>1. j \in 1..Len(t)
    BY <1>a, <1>1
  <2>2. QED BY <2>1, ElementOfSeq
<1>3. PICK u : u = SubSeq(t, x, y)
  OBVIOUS
<1>4. /\ u \in Seq(Int) /\ Len(u) = (IF x <= y THEN y - x + 1 ELSE 0)
      /\ \A j \in 1..(y - x + 1) : u[j] = t[x + j - 1]
  BY <1>1, <1>2, <1>3, SubSeqProperties
<1>5. Len(u) = l /\ \A j \in 1..l : u[j] = t[i + j]
  BY <1>1, <1>4
<1>6. \A j \in 1..l : u[j] = b[j]
  BY <1>5, <1>a
<1>7. u = b
  BY <1>a, <1>4, <1>5, <1>6, SeqEqual
<1>8. QED BY <1>1, <1>3, <1>7

(* A message that is all there                                              *)
AllRead(w, b, c, s, e) ==
  /\ SubSeq(w, s + 1, e) = b
  /\ IsTrailer(w, e + 7) <=> c = Checksum(SubSeq(w, 1, e))

LEMMA AllIsRead ==
  ASSUME NEW w, NEW b, NEW l \in Nat, NEW m \in Nat, NEW c \in 0..255, NEW s \in Nat, NEW e \in Nat,
         WireBytes(w, b, m, c, s, e), SoundBody(b, l)
  PROVE  AllRead(w, b, c, s, e)
<1>1. /\ w \in Seq(Int) /\ b \in Seq(Int) /\ l = Len(b) /\ e = s + l /\ Len(w) = e + 7 /\ w[e + 7] = SOH
      /\ \A j \in 1..l : w[s + j] = b[j]
      /\ \A j \in 1..3 : w[e + 3 + j] = Padded(c, 3)[j]
  <2>1. /\ w \in Seq(Int) /\ b \in Seq(Int) /\ e = s + Len(b) /\ Len(w) = e + 7 /\ w[e + 7] = SOH
        /\ \A j \in 1..Len(b) : w[s + j] = b[j]
        /\ \A j \in 1..3 : w[e + 3 + j] = Padded(c, 3)[j]
    BY Zenon DEF WireBytes
  <2>2. l = Len(b)
    BY DEF SoundBody
  <2>3. QED BY <2>1, <2>2, Zenon
<1>2. SubSeq(w, s + 1, e) = b
  <2>1. s + l <= Len(w)
    BY <1>1
  <2>2. HasPart(w, s, l, b)
    BY <1>1, <2>1, Zenon DEF HasPart
  <2>3. SubSeq(w, s + 1, s + l) = b
    BY <1>1, <2>2, PartIs
  <2>4. QED BY <1>1, <2>3
<1>3. PICK t \in Seq(Int) : t = Padded(c, 3) /\ Len(t) = 3 /\ IsNumber(t) /\ ParseU32(t) = c
  <2>1. PICK u \in DigitTexts : u = Padded(c, 3)
    BY SumsAreRead
  <2>2. u \in Seq(Int)
    BY DigitTextsAre
  <2>3. QED BY <2>1, <2>2, SumsAreRead
<1>4. PICK i \in Nat : i = e + 3
  OBVIOUS
<1>5. SubSeq(w, i + 1, i + 3) = t
  <2>1. i + 3 <= Len(w)
    BY <1>1, <1>4
  <2>a. \A j \in 1..3 : w[i + j] = t[j]
    BY <1>1, <1>3, <1>4, Zenon
  <2>2. PICK k \in Nat : k = 3
    OBVIOUS
  <2>b. HasPart(w, i, k, t)
    BY <1>3, <2>1, <2>2, <2>a DEF HasPart
  <2>3. SubSeq(w, i + 1, i + k) = t
    BY <1>1, <2>b, PartIs
  <2>4. QED BY <2>2, <2>3
<1>6. PICK n : n = e + 7 /\ n - 3 = i + 1 /\ n - 1 = i + 3 /\ n - 7 = e
  BY <1>4
<1>7. IsTrailer(w, n) <=> c = Checksum(SubSeq(w, 1, e))
  BY <1>1, <1>3, <1>5, <1>6, Zenon DEF IsTrailer
<1>8. QED BY <1>2, <1>6, <1>7 DEF AllRead

LEMMA ChecksumTagAt ==
  ASSUME NEW w, NEW b, NEW l \in Nat, NEW m \in Nat, NEW c, NEW s \in Nat, NEW e \in Nat,
         WireBytes(w, b, m, c, s, e), SoundBody(b, l),
         NEW buf, NEW n \in Nat, FirstOfWire(buf, n, w)
  PROVE  /\ StartsAt(buf, e + 1, ChecksumTag) <=> n >= e + 3
         /\ n >= e + 3 => StartsAt(buf, e, <<SOH>> \o ChecksumTag)
<1>1. Arrived(buf, n, b, l, c, s, e)
  BY WireIsRead
<1>2. /\ buf \in Seq(Int) /\ n = Len(buf) /\ e = s + l /\ l >= 5
      /\ n >= e + 1 => buf[e + 1] = 49
      /\ n >= e + 2 => buf[e + 2] = 48
      /\ n >= e + 3 => buf[e + 3] = Equals
  BY <1>1 DEF Arrived
<1>3. StartsAt(buf, e + 1, ChecksumTag) <=> n >= e + 3
  <2>1. PICK k \in Nat \ {0} : k = e + 1
    OBVIOUS
  <2>2. StartsAt(buf, k, <<49, 48, Equals>>) <=> ThreeAt(buf, n, k, 49, 48, Equals)
    BY <1>2, ByteTests, StartsWithThree
  <2>3. ThreeAt(buf, n, k, 49, 48, Equals) <=> n >= e + 3
    <3>1. k = e + 1 /\ k + 1 = e + 2 /\ k + 2 = e + 3 /\ (k + 2 <= n <=> n >= e + 3)
          /\ (n >= e + 3 => n >= e + 1 /\ n >= e + 2)
      BY <2>1
    <3>2. QED BY <1>2, <3>1, Zenon DEF ThreeAt
  <2>4. QED BY <2>1, <2>2, <2>3, Zenon DEF ChecksumTag
<1>4. ASSUME n >= e + 3 PROVE StartsAt(buf, e, <<SOH>> \o ChecksumTag)
  <2>1. e \in Nat \ {0} /\ s + l <= n /\ l \in 1..l
    BY <1>2, <1>4
  <2>2. buf[e] = SOH
    <3>1. buf[s + l] = b[l]
      BY <1>1, <2>1 DEF Arrived
    <3>2. b[l] = SOH
      BY DEF SoundBody
    <3>3. QED BY <1>2, <3>1, <3>2
  <2>3. StartsAt(buf, e, <<SOH, 49, 48, Equals>>) <=> FourAt(buf, n, e, SOH, 49, 48, Equals)
    <3>1. PICK k \in Nat \ {0} : k = e
      BY <2>1
    <3>2. StartsAt(buf, k, <<SOH, 49, 48, Equals>>) <=> FourAt(buf, n, k, SOH, 49, 48, Equals)
      BY <1>2, ByteTests, StartsWithFour
    <3>3. QED BY <3>1, <3>2
  <2>4. FourAt(buf, n, e, SOH, 49, 48, Equals)
    <3>1. e + 3 <= n /\ n >= e + 1 /\ n >= e + 2
      BY <1>4
    <3>2. QED BY <1>2, <1>4, <2>2, <3>1, Zenon DEF FourAt
  <2>5. QED BY <2>3, <2>4, TagBytes
<1>5. QED BY <1>3, <1>4

(* The length says where the body ends                                      *)
BodyRead(answered, b, n, w, c, s, e) ==
  /\ n \in s..e \/ n \in (e + 3)..(e + 6) => answered = [kind |-> "more"]
  /\ n \in (e + 1)..(e + 2) => answered = [kind |-> "error"]
  /\ n >= e + 7 => answered = IF c = Checksum(SubSeq(w, 1, e)) /\ b[5] = SOH
                              THEN [kind |-> "frame", body |-> b] ELSE [kind |-> "error"]

LEMMA BodyIsRead ==
  ASSUME NEW w, NEW b, NEW l \in Nat, NEW m \in Nat, NEW c \in 0..255, NEW s \in Nat, NEW e \in Nat,
         WireBytes(w, b, m, c, s, e), SoundBody(b, l),
         NEW buf, NEW n \in Nat, FirstOfWire(buf, n, w)
  PROVE  BodyRead(BodyAnswer(buf, n, s, e), b, n, w, c, s, e)
<1>1. Arrived(buf, n, b, l, c, s, e)
  BY WireIsRead
<1>2. n <= e + 7 /\ e = s + l /\ l >= 5 /\ buf \in Seq(Int) /\ n = Len(buf)
  BY <1>1 DEF Arrived
<1>3. StartsAt(buf, e + 1, ChecksumTag) <=> n >= e + 3
  BY ChecksumTagAt
<1>4. CASE n \in s..e
  <2>1. \A k \in (s + 1)..n : ~ StartsAt(buf, k, <<SOH>> \o ChecksumTag)
    BY <1>4, NoTagInBody
  <2>2. (e > n \/ e = n) /\ ~ (n \in (e + 1)..(e + 2)) /\ ~ (n >= e + 7)
    BY <1>4
  <2>3. BodyAnswer(buf, n, s, e) = [kind |-> "more"]
    BY <2>1, <2>2, Zenon DEF BodyAnswer
  <2>4. QED BY <2>2, <2>3 DEF BodyRead
<1>5. CASE n \in (e + 1)..(e + 2)
  <2>1. ~ (e > n) /\ e # n /\ ~ (n >= e + 3) /\ ~ (n \in s..e) /\ ~ (n \in (e + 3)..(e + 6)) /\ ~ (n >= e + 7)
    BY <1>5
  <2>2. BodyAnswer(buf, n, s, e) = [kind |-> "error"]
    BY <1>3, <2>1, Zenon DEF BodyAnswer
  <2>3. QED BY <2>1, <2>2 DEF BodyRead
<1>6. CASE n \in (e + 3)..(e + 6)
  <2>1. ~ (e > n) /\ e # n /\ n >= e + 3 /\ n < e + 7 /\ ~ (n \in (e + 1)..(e + 2)) /\ ~ (n >= e + 7)
    BY <1>6
  <2>2. BodyAnswer(buf, n, s, e) = [kind |-> "more"]
    BY <1>3, <2>1, Zenon DEF BodyAnswer
  <2>3. QED BY <2>1, <2>2 DEF BodyRead
<1>7. CASE n = e + 7
  <2>1. ~ (e > n) /\ e # n /\ n >= e + 3 /\ ~ (n < e + 7) /\ ~ (n \in s..e)
        /\ ~ (n \in (e + 1)..(e + 2)) /\ ~ (n \in (e + 3)..(e + 6))
    BY <1>2, <1>7
  <2>2. buf = w
    <3>1. w \in Seq(Int) /\ Len(w) = e + 7
      BY Zenon DEF WireBytes
    <3>2. Len(buf) = Len(w) /\ \A i \in 1..Len(buf) : buf[i] = w[i]
      BY <1>7, <3>1 DEF FirstOfWire
    <3>3. QED BY <1>2, <3>1, <3>2, SeqEqual
  <2>3. SubSeq(buf, s + 1, e) = b /\ (IsTrailer(buf, e + 7) <=> c = Checksum(SubSeq(w, 1, e)))
    <3>1. AllRead(w, b, c, s, e)
      BY AllIsRead
    <3>2. QED BY <2>2, <3>1, Zenon DEF AllRead
  <2>4. HasMsgType(b) <=> b[5] = SOH
    BY TypeIsRead
  <2>5. BodyAnswer(buf, n, s, e) =
          IF c = Checksum(SubSeq(w, 1, e)) /\ b[5] = SOH
          THEN [kind |-> "frame", body |-> b] ELSE [kind |-> "error"]
    BY <1>3, <2>1, <2>3, <2>4, Zenon DEF BodyAnswer
  <2>6. QED BY <2>1, <2>5 DEF BodyRead
<1>a. CASE n < s
  BY <1>2, <1>a DEF BodyRead
<1>8. QED BY <1>2, <1>4, <1>5, <1>6, <1>7, <1>a

(* The length says the body ends behind the message                         *)
LongRead(answered, n, s, e) ==
  /\ n \in s..(e + 2) => answered = [kind |-> "more"]
  /\ n >= e + 3 => answered = [kind |-> "error"]

LEMMA TooLongIsRead ==
  ASSUME NEW w, NEW b, NEW l \in Nat, NEW m \in Nat, NEW c \in 0..255, NEW s \in Nat, NEW e \in Nat,
         WireBytes(w, b, m, c, s, e), SoundBody(b, l),
         NEW buf, NEW n \in Nat, FirstOfWire(buf, n, w)
  PROVE  LongRead(BodyAnswer(buf, n, s, e + 8), n, s, e)
<1>1. Arrived(buf, n, b, l, c, s, e)
  BY WireIsRead
<1>2. n <= e + 7 /\ e = s + l /\ l >= 5
  BY <1>1 DEF Arrived
<1>3. e + 8 > n
  BY <1>2
<1>4. CASE n \in s..(e + 2)
  <2>1. \A k \in (s + 1)..n : ~ StartsAt(buf, k, <<SOH>> \o ChecksumTag)
    BY <1>4, NoTagInBody
  <2>2. ~ (n >= e + 3)
    BY <1>4
  <2>3. BodyAnswer(buf, n, s, e + 8) = [kind |-> "more"]
    BY <1>3, <2>1, Zenon DEF BodyAnswer
  <2>4. QED BY <2>2, <2>3 DEF LongRead
<1>5. CASE n >= e + 3
  <2>1. e \in (s + 1)..n /\ ~ (n \in s..(e + 2))
    BY <1>2, <1>5
  <2>2. StartsAt(buf, e, <<SOH>> \o ChecksumTag)
    BY <1>5, ChecksumTagAt
  <2>3. BodyAnswer(buf, n, s, e + 8) = [kind |-> "error"]
    BY <1>3, <2>1, <2>2, Zenon DEF BodyAnswer
  <2>4. QED BY <2>1, <2>3 DEF LongRead
<1>6. CASE n < s
  BY <1>2, <1>6 DEF LongRead
<1>7. QED BY <1>4, <1>5, <1>6

---------------------------------------------------------------------------
(* Its answer is the one FixFramer counts.                                  *)

(* What FixFramer counts of a frame whose body ends with byte e             *)
LEMMA CountedIs ==
  ASSUME NEW f, NEW n \in Nat, NEW e \in Nat, e >= 7, e = Counted!BodyEnd(f), n <= e + 7
  PROVE  Counted!NextFrame(f, n) =
           IF n \in {1, 4, 5} THEN "error"
           ELSE IF n <= e THEN "more"
           ELSE IF n <= e + 2 THEN (IF f.fault = "length" THEN "more" ELSE "error")
           ELSE IF n <= e + 6 THEN (IF f.fault = "length" THEN "error" ELSE "more")
           ELSE IF f.fault = "none" THEN "frame" ELSE "error"
<1>1. Counted!NextFrame(f, n) =
        CASE n = 0                 -> "more"
          [] n \in 1..1            -> "error"
          [] n \in 2..(4 - 1)      -> "more"
          [] n \in 4..(4 + 1)      -> "error"
          [] n \in (4 + 2)..e      -> "more"
          [] n \in (e + 1)..(e + 2) -> IF f.fault = "length" THEN "more" ELSE "error"
          [] n \in (e + 3)..(e + 7 - 1) -> IF f.fault = "length" THEN "error" ELSE "more"
          [] n >= e + 7            -> IF f.fault = "none" THEN "frame" ELSE "error"
  BY DEF Counted!NextFrame, Counted!Size
<1>2. CASE n = 0
  BY <1>1, <1>2
<1>3. CASE n \in 1..1
  BY <1>1, <1>3
<1>4. CASE n \in 2..(4 - 1)
  BY <1>1, <1>4
<1>5. CASE n \in 4..(4 + 1)
  BY <1>1, <1>5
<1>6. CASE n \in (4 + 2)..e
  BY <1>1, <1>6
<1>7. CASE n \in (e + 1)..(e + 2)
  BY <1>1, <1>7
<1>8. CASE n \in (e + 3)..(e + 7 - 1)
  BY <1>1, <1>8
<1>9. CASE n >= e + 7
  BY <1>1, <1>9
<1>10. QED BY <1>2, <1>3, <1>4, <1>5, <1>6, <1>7, <1>8, <1>9

(* A frame f that counts the message w                                      *)
CountsWire(f, w, b, l, m, c, e) ==
  /\ f.digits = Len(DigitsOf(m)) /\ f.body = l
  /\ f.fault \in {"none", "checksum", "length", "type"}
  /\ m = IF f.fault = "length" THEN l + 8 ELSE l
  /\ c = Checksum(SubSeq(w, 1, e)) <=> f.fault # "checksum"
  /\ b[5] = SOH <=> f.fault # "type"

(* What next_frame answers, kind and body                                   *)
AnswersAs(answered, f, b, n, e) ==
  /\ answered.kind = Counted!NextFrame(f, n)
  /\ n = e + 7 => answered.kind = (IF f.fault = "none" THEN "frame" ELSE "error")
  /\ answered.kind = "frame" => n = e + 7 /\ f.fault = "none" /\ answered.body = b

LEMMA KindIsCounted ==
  ASSUME NEW w, NEW b, NEW l \in Nat, NEW m \in Nat, NEW c \in 0..255, NEW s \in Nat, NEW e \in Nat,
         WireBytes(w, b, m, c, s, e), SoundBody(b, l), NEW f, CountsWire(f, w, b, l, m, c, e),
         NEW buf, NEW n \in Nat, FirstOfWire(buf, n, w)
  PROVE  AnswersAs(NextFrameOf(buf), f, b, n, e)
<1>1. Arrived(buf, n, b, l, c, s, e)
  BY WireIsRead
<1>2. n <= e + 7 /\ e = s + l /\ l >= 5
  BY <1>1 DEF Arrived
<1>3. PICK d \in Nat \ {0} : d = Len(DigitsOf(m)) /\ s = 7 + d
  <2>1. PICK d \in Nat \ {0} : d = Len(DigitsOf(m))
    BY DigitsAre
  <2>2. s = 7 + Len(DigitsOf(m))
    BY Zenon DEF WireBytes
  <2>3. QED BY <2>1, <2>2
<1>4. f.digits = d /\ f.body = l /\ f.fault \in {"none", "checksum", "length", "type"}
  BY <1>3, Zenon DEF CountsWire
<1>5. e = Counted!BodyEnd(f) /\ e >= 7
  BY <1>2, <1>3, <1>4 DEF Counted!BodyEnd, Counted!BodyStart
<1>6. Counted!NextFrame(f, n) =
        IF n \in {1, 4, 5} THEN "error"
        ELSE IF n <= e THEN "more"
        ELSE IF n <= e + 2 THEN (IF f.fault = "length" THEN "more" ELSE "error")
        ELSE IF n <= e + 6 THEN (IF f.fault = "length" THEN "error" ELSE "more")
        ELSE IF f.fault = "none" THEN "frame" ELSE "error"
  BY <1>2, <1>5, CountedIs
<1>7. PICK a : a = NextFrameOf(buf)
  OBVIOUS
<1>h. HeadRead(a, buf, n, m, s)
  BY <1>7, HeadIsRead
<1>8. CASE n < s
  <2>1. n = 0 \/ n \in 2..3 \/ n \in 6..(s - 1) => a = [kind |-> "more"]
    BY <1>h DEF HeadRead
  <2>2. n = 1 \/ n \in 4..5 => a = [kind |-> "error"]
    BY <1>h DEF HeadRead
  <2>3. Counted!NextFrame(f, n) = IF n \in {1, 4, 5} THEN "error" ELSE "more"
    BY <1>2, <1>6, <1>8
  <2>4. n = 1 \/ n \in 4..5 <=> n \in {1, 4, 5}
    OBVIOUS
  <2>5. n \notin {1, 4, 5} => n = 0 \/ n \in 2..3 \/ n \in 6..(s - 1)
    BY <1>8
  <2>6. a.kind = Counted!NextFrame(f, n) /\ a.kind # "frame"
    BY <2>1, <2>2, <2>3, <2>4, <2>5
  <2>7. n # e + 7
    BY <1>2, <1>8
  <2>8. QED BY <1>7, <2>6, <2>7 DEF AnswersAs
<1>9. CASE n >= s
  <2>1. a = BodyAnswer(buf, n, s, s + m)
    BY <1>9, <1>h DEF HeadRead
  <2>2. n \notin {1, 4, 5}
    BY <1>3, <1>9
  <2>3. CASE f.fault = "length"
    <3>1. s + m = e + 8
      BY <1>2, <2>3 DEF CountsWire
    <3>2. /\ n \in s..(e + 2) => a = [kind |-> "more"]
          /\ n >= e + 3 => a = [kind |-> "error"]
      <4>1. LongRead(BodyAnswer(buf, n, s, e + 8), n, s, e)
        BY TooLongIsRead
      <4>2. QED BY <2>1, <3>1, <4>1 DEF LongRead
    <3>3. Counted!NextFrame(f, n) = IF n <= e + 2 THEN "more" ELSE "error"
      BY <1>2, <1>6, <2>2, <2>3
    <3>4. a.kind = Counted!NextFrame(f, n) /\ a.kind # "frame" /\ (n = e + 7 => a.kind = "error")
      BY <1>2, <1>9, <3>2, <3>3
    <3>5. QED BY <1>7, <2>3, <3>4 DEF AnswersAs
  <2>4. CASE f.fault # "length"
    <3>1. s + m = e
      BY <1>2, <2>4 DEF CountsWire
    <3>r. BodyRead(a, b, n, w, c, s, e)
      <4>1. BodyRead(BodyAnswer(buf, n, s, e), b, n, w, c, s, e)
        BY BodyIsRead
      <4>2. QED BY <2>1, <3>1, <4>1
    <3>a. n \in s..e \/ n \in (e + 3)..(e + 6) => a = [kind |-> "more"]
      BY <3>r DEF BodyRead
    <3>b. n \in (e + 1)..(e + 2) => a = [kind |-> "error"]
      BY <3>r DEF BodyRead
    <3>c. n >= e + 7 => a = IF c = Checksum(SubSeq(w, 1, e)) /\ b[5] = SOH
                            THEN [kind |-> "frame", body |-> b] ELSE [kind |-> "error"]
      BY <3>r DEF BodyRead
    <3>2. CASE n = e + 7
      <4>1. a = IF f.fault = "none" THEN [kind |-> "frame", body |-> b] ELSE [kind |-> "error"]
        <5>1. c = Checksum(SubSeq(w, 1, e)) /\ b[5] = SOH <=> f.fault = "none"
          BY <1>4, <2>4, Zenon DEF CountsWire
        <5>2. n >= e + 7
          BY <3>2
        <5>3. QED BY <3>c, <5>1, <5>2, Zenon
      <4>2. Counted!NextFrame(f, n) = IF f.fault = "none" THEN "frame" ELSE "error"
        BY <1>2, <1>6, <2>2, <3>2
      <4>3. f.fault = "none" => a.kind = "frame" /\ a.body = b
        BY <4>1
      <4>4. f.fault # "none" => a.kind = "error" /\ a.kind # "frame"
        BY <4>1
      <4>5. QED BY <1>7, <3>2, <4>2, <4>3, <4>4 DEF AnswersAs
    <3>3. CASE n # e + 7
      <4>1. Counted!NextFrame(f, n) = IF n \in (e + 1)..(e + 2) THEN "error" ELSE "more"
        BY <1>2, <1>6, <2>2, <2>4, <3>3
      <4>2. a.kind = Counted!NextFrame(f, n) /\ a.kind # "frame"
        <5>1. CASE n \in (e + 1)..(e + 2)
          BY <3>b, <4>1, <5>1
        <5>2. CASE n \notin (e + 1)..(e + 2)
          <6>1. n \in s..e \/ n \in (e + 3)..(e + 6)
            BY <1>2, <1>9, <3>3, <5>2
          <6>2. QED BY <3>a, <4>1, <5>2, <6>1
        <5>3. QED BY <5>1, <5>2
      <4>3. QED BY <1>7, <3>3, <4>2 DEF AnswersAs
    <3>4. QED BY <3>2, <3>3
  <2>5. QED BY <2>3, <2>4
<1>10. QED BY <1>8, <1>9

---------------------------------------------------------------------------
(* Fields, one behind the other, make a sound body.                         *)

(* The fields an encoder pushes: no value has a separator in it, and the    *)
(* checksum is not one of them                                              *)
Values == Seq((0..255) \ {SOH})
AnyFields == Nat \X Values
Fields == {f \in AnyFields : f[1] # 10}

LEMMA FieldParts ==
  ASSUME NEW f \in AnyFields
  PROVE  /\ f[1] \in Nat /\ f = <<f[1], f[2]>>
         /\ f[2] \in Seq(Int) /\ Len(f[2]) \in Nat
         /\ \A j \in 1..Len(f[2]) : f[2][j] \in 0..255 /\ f[2][j] # SOH
<1>1. f[1] \in Nat /\ f = <<f[1], f[2]>> /\ f[2] \in Values
  BY DEF AnyFields
<1>2. PICK v \in Seq((0..255) \ {SOH}) : v = f[2]
  BY <1>1 DEF Values
<1>3. (0..255) \ {SOH} \subseteq Int
  <2>1. 0..255 \subseteq Int
    OBVIOUS
  <2>2. QED BY <2>1, Zenon
<1>4. v \in Seq(Int)
  BY <1>3, Widened DEF Wider
<1>5. Len(v) \in Nat /\ \A j \in 1..Len(v) : v[j] \in (0..255) \ {SOH}
  BY ElementOfSeq, LenProperties
<1>6. \A j \in 1..Len(v) : v[j] \in 0..255 /\ v[j] # SOH
  BY <1>5
<1>7. QED BY <1>1, <1>2, <1>4, <1>5, <1>6

(* Behind the first o bytes of b field f stands, up to byte p               *)
FieldAt(b, o, p, f) ==
  LET d == Len(DigitsOf(f[1]))
      k == Len(f[2])
  IN  /\ p = o + d + k + 2
      /\ \A j \in 1..d : b[o + j] = DigitsOf(f[1])[j]
      /\ b[o + d + 1] = Equals
      /\ \A j \in 1..k : b[o + d + 1 + j] = f[2][j]
      /\ b[p] = SOH

LEMMA FieldBytes ==
  ASSUME NEW f \in AnyFields
  PROVE  \E t \in Seq(0..255), p \in Nat : t = Field(f) /\ p = Len(t) /\ FieldAt(t, 0, p, f)
<1>1. PICK ds \in Seq(Int) : ds = DigitsOf(f[1]) /\ \A j \in 1..Len(ds) : ds[j] \in Digits
  BY FieldParts, DigitsAre
<1>2. PICK d \in Nat : d = Len(ds)
  BY LenProperties
<1>3. PICK v \in Seq(Int) : v = f[2] /\ \A j \in 1..Len(v) : v[j] \in 0..255
  BY FieldParts
<1>4. PICK k \in Nat : k = Len(v)
  BY LenProperties
<1>5. PICK q \in Seq(Int) : q = <<Equals>> /\ Len(q) = 1 /\ q[1] = Equals
  <2>1. <<Equals>> \in Seq(Int)
    BY ByteTests
  <2>2. QED BY <2>1
<1>6. PICK z \in Seq(Int) : z = <<SOH>> /\ Len(z) = 1 /\ z[1] = SOH
  <2>1. <<SOH>> \in Seq(Int)
    BY ByteTests
  <2>2. QED BY <2>1
<1>7. PICK r \in Seq(Int) : r = v \o z
  BY ConcatProperties
<1>8. Len(r) = k + 1 /\ r[k + 1] = SOH /\ \A j \in 1..k : r[j] = v[j]
  <2>1. PICK i \in Nat : i = 1
    OBVIOUS
  <2>2. IsConcat(v \o z, v, k, z, i)
    BY <1>4, <1>6, <2>1, Concat
  <2>3. /\ Len(r) = k + i
        /\ \A j \in 1..k : r[j] = v[j]
        /\ \A j \in 1..i : r[k + j] = z[j]
    BY <1>7, <2>2, Zenon DEF IsConcat
  <2>4. i \in 1..i /\ r[k + i] = z[i]
    BY <2>1, <2>3
  <2>5. QED BY <1>6, <2>1, <2>3, <2>4
<1>9. PICK x \in Seq(Int) : x = q \o r
  BY ConcatProperties
<1>10. Len(x) = k + 2 /\ x[1] = Equals /\ \A j \in 1..(k + 1) : x[1 + j] = r[j]
  <2>1. PICK i \in Nat, j \in Nat : i = 1 /\ j = k + 1
    OBVIOUS
  <2>2. IsConcat(q \o r, q, i, r, j)
    BY <1>5, <1>8, <2>1, Concat
  <2>3. QED BY <1>5, <1>9, <2>1, <2>2 DEF IsConcat
<1>11. PICK t \in Seq(Int) : t = ds \o x
  BY ConcatProperties
<1>12. Len(t) = d + (k + 2) /\ (\A j \in 1..d : t[j] = ds[j]) /\ (\A j \in 1..(k + 2) : t[d + j] = x[j])
  <2>1. PICK j \in Nat : j = k + 2
    OBVIOUS
  <2>2. IsConcat(ds \o x, ds, d, x, j)
    BY <1>2, <1>10, <2>1, Concat
  <2>3. QED BY <1>11, <2>1, <2>2 DEF IsConcat
<1>13. t = Field(f)
  <2>1. Field(f) = ds \o q \o v \o z
    BY <1>1, <1>3, <1>5, <1>6, Zenon DEF Field
  <2>2. ds \o q \o v \o z = ds \o (q \o (v \o z))
    <3>1. AllRegroup(ds, q, v, z)
      BY <1>1, <1>3, <1>5, <1>6, FourTexts
    <3>2. QED BY <3>1 DEF AllRegroup
  <2>3. QED BY <1>7, <1>9, <1>11, <2>1, <2>2
<1>14. t[d + 1] = Equals
  <2>1. 1 \in 1..(k + 2)
    OBVIOUS
  <2>2. QED BY <1>10, <1>12, <2>1
<1>15. ASSUME NEW j \in 1..k PROVE t[d + 1 + j] = v[j]
  <2>1. 1 + j \in 1..(k + 2) /\ j \in 1..(k + 1) /\ d + (1 + j) = d + 1 + j
    OBVIOUS
  <2>2. t[d + (1 + j)] = x[1 + j] /\ x[1 + j] = r[j] /\ r[j] = v[j]
    BY <1>8, <1>10, <1>12, <2>1
  <2>3. QED BY <2>1, <2>2
<1>16. t[d + k + 2] = SOH
  <2>1. k + 2 \in 1..(k + 2) /\ k + 1 \in 1..(k + 1) /\ d + (k + 2) = d + k + 2 /\ 1 + (k + 1) = k + 2
    OBVIOUS
  <2>2. QED BY <1>8, <1>10, <1>12, <2>1
<1>17. PICK p \in Nat : p = Len(t) /\ p = d + k + 2
  <2>1. d + k + 2 \in Nat /\ Len(t) = d + k + 2
    BY <1>12
  <2>2. QED BY <2>1
<1>18. FieldAt(t, 0, p, f)
  <2>1. p = 0 + d + k + 2 /\ 0 + d + 1 = d + 1 /\ (\A j \in 1..d : 0 + j = j)
        /\ (\A j \in 1..k : 0 + d + 1 + j = d + 1 + j)
    BY <1>17
  <2>2. /\ \A j \in 1..d : t[0 + j] = ds[j]
        /\ t[0 + d + 1] = Equals
        /\ \A j \in 1..k : t[0 + d + 1 + j] = v[j]
        /\ t[p] = SOH
    BY <1>12, <1>14, <1>15, <1>16, <1>17, <2>1
  <2>3. d = Len(DigitsOf(f[1])) /\ k = Len(f[2]) /\ ds = DigitsOf(f[1]) /\ v = f[2]
    BY <1>1, <1>2, <1>3, <1>4
  <2>4. QED BY <2>1, <2>2, <2>3, Zenon DEF FieldAt
<1>19. t \in Seq(0..255)
  <2>1. ASSUME NEW j \in 1..p PROVE t[j] \in 0..255
    <3>1. CASE j \in 1..d
      <4>1. t[j] \in Digits
        BY <1>1, <1>2, <1>12, <3>1
      <4>2. QED BY <4>1 DEF Digits, Zero
    <3>2. CASE j = d + 1
      BY <1>14, <3>2 DEF Equals
    <3>3. CASE j \in (d + 2)..(d + 1 + k)
      <4>1. PICK i \in 1..k : j = d + 1 + i
        <5>1. j - d - 1 \in 1..k /\ j = d + 1 + (j - d - 1)
          BY <3>3
        <5>2. QED BY <5>1
      <4>2. t[j] = v[i]
        BY <1>15, <4>1
      <4>3. QED BY <1>3, <1>4, <4>1, <4>2
    <3>4. CASE j = d + k + 2
      BY <1>16, <3>4 DEF SOH
    <3>5. QED BY <1>17, <3>1, <3>2, <3>3, <3>4
  <2>2. t \in [1..p -> Int]
    BY <1>17, LenProperties
  <2>3. t \in [1..p -> 0..255]
    BY <2>1, <2>2
  <2>4. QED BY <2>3, SeqDef
<1>20. QED BY <1>13, <1>17, <1>18, <1>19

(* A field ends with its first separator, and is not a checksum             *)
FieldTold(b, o, p) ==
  /\ p >= o + 3 /\ b[p] = SOH
  /\ \A j \in (o + 1)..(p - 1) : b[j] # SOH
  /\ ~ (b[o + 1] = 49 /\ b[o + 2] = 48 /\ b[o + 3] = Equals)

LEMMA FieldTells ==
  ASSUME NEW f \in Fields, NEW b, NEW o \in Nat, NEW p \in Nat, FieldAt(b, o, p, f)
  PROVE  FieldTold(b, o, p)
<1>0. f \in AnyFields /\ f[1] # 10
  BY DEF Fields
<1>1. PICK ds \in Seq(Int) : ds = DigitsOf(f[1]) /\ \A j \in 1..Len(ds) : ds[j] \in Digits
  BY <1>0, FieldParts, DigitsAre
<1>2. PICK d \in Nat \ {0} : d = Len(ds)
  BY <1>0, <1>1, FieldParts, DigitsAre
<1>3. PICK v \in Seq(Int) : v = f[2] /\ \A j \in 1..Len(v) : v[j] # SOH
  BY <1>0, FieldParts
<1>4. PICK k \in Nat : k = Len(v)
  BY LenProperties
<1>5. /\ p = o + d + k + 2
      /\ \A j \in 1..d : b[o + j] = ds[j]
      /\ b[o + d + 1] = Equals
      /\ \A j \in 1..k : b[o + d + 1 + j] = v[j]
      /\ b[p] = SOH
  BY <1>1, <1>2, <1>3, <1>4, Zenon DEF FieldAt
<1>6. ASSUME NEW j \in (o + 1)..(p - 1) PROVE b[j] # SOH
  <2>1. CASE j \in (o + 1)..(o + d)
    <3>1. j - o \in 1..d /\ o + (j - o) = j
      BY <2>1
    <3>2. b[o + (j - o)] = ds[j - o] /\ ds[j - o] \in Digits
      BY <1>1, <1>2, <1>5, <3>1
    <3>3. QED BY <3>1, <3>2, ByteTests
  <2>2. CASE j = o + d + 1
    BY <1>5, <2>2, ByteTests
  <2>3. CASE j \in (o + d + 2)..(p - 1)
    <3>1. PICK i \in 1..k : j = o + d + 1 + i
      <4>1. j - o - d - 1 \in 1..k /\ j = o + d + 1 + (j - o - d - 1)
        BY <1>5, <2>3
      <4>2. QED BY <4>1
    <3>2. QED BY <1>3, <1>4, <1>5, <3>1
  <2>4. QED BY <2>1, <2>2, <2>3
<1>7. ASSUME b[o + 1] = 49, b[o + 2] = 48, b[o + 3] = Equals PROVE FALSE
  <2>1. b[o + 1] = ds[1]
    <3>1. 1 \in 1..d
      OBVIOUS
    <3>2. QED BY <1>5, <3>1
  <2>2. CASE d = 1
    <3>1. o + d + 1 = o + 2
      BY <2>2
    <3>2. QED BY <1>5, <1>7, <3>1 DEF Equals
  <2>3. CASE d >= 3
    <3>1. 3 \in 1..d
      BY <2>3
    <3>2. b[o + 3] = ds[3] /\ ds[3] \in Digits
      BY <1>1, <1>2, <1>5, <3>1
    <3>3. QED BY <1>7, <3>2, ByteTests
  <2>4. CASE d = 2
    <3>1. 2 \in 1..d
      BY <2>4
    <3>2. b[o + 2] = ds[2]
      BY <1>5, <3>1
    <3>3. ds[1] = 49 /\ ds[2] = 48 /\ Len(ds) = 2
      BY <1>2, <1>7, <2>1, <2>4, <3>2
    <3>4. ds = <<49, 48>>
      BY <3>3
    <3>5. f[1] = 10
      BY <1>0, <1>1, <3>4, FieldParts, OnlyTen
    <3>6. QED BY <1>0, <3>5
  <2>5. QED BY <2>2, <2>3, <2>4
<1>8. p >= o + 3
  BY <1>5
<1>9. QED BY <1>5, <1>6, <1>7, <1>8 DEF FieldTold

(* The fields fs make up b, the first i of them its first e[i] bytes        *)
Laid(e, fs, b) ==
  /\ fs \in Seq(Fields) /\ b \in Seq(0..255)
  /\ e \in [0..Len(fs) -> 0..Len(b)] /\ e[0] = 0 /\ e[Len(fs)] = Len(b)
  /\ \A i \in 1..Len(fs) : FieldAt(b, e[i - 1], e[i], fs[i])

LEMMA NothingLaid == \E e : Laid(e, <<>>, <<>>)
<1>1. PICK e : e = [i \in 0..0 |-> 0]
  OBVIOUS
<1>2. e \in [0..0 -> 0..0] /\ e[0] = 0
  BY <1>1
<1>3. <<>> \in Seq(Fields) /\ <<>> \in Seq(0..255) /\ Len(<<>>) = 0
  BY EmptySeq
<1>4. Laid(e, <<>>, <<>>)
  BY <1>2, <1>3 DEF Laid
<1>5. QED BY <1>4

(* A field keeps its place in a longer text                                 *)
LEMMA FieldStays ==
  ASSUME NEW b, NEW u, NEW o \in Nat, NEW p \in Nat, NEW q \in Nat, NEW f \in AnyFields, FieldAt(b, o, p, f),
         \A j \in (o + 1)..p : u[q + j] = b[j]
  PROVE  FieldAt(u, q + o, q + p, f)
<1>a. PICK d \in Nat : d = Len(DigitsOf(f[1]))
  BY FieldParts, DigitsAre
<1>1. PICK ds : ds = DigitsOf(f[1]) /\ d = Len(ds)
  BY <1>a
<1>b. PICK k \in Nat : k = Len(f[2])
  BY FieldParts
<1>2. PICK v : v = f[2] /\ k = Len(v)
  BY <1>b
<1>3. /\ p = o + d + k + 2
      /\ \A j \in 1..d : b[o + j] = ds[j]
      /\ b[o + d + 1] = Equals
      /\ \A j \in 1..k : b[o + d + 1 + j] = v[j]
      /\ b[p] = SOH
  BY <1>1, <1>2, Zenon DEF FieldAt
<1>4. PICK r \in Nat : r = q + o
  OBVIOUS
<1>5. q + p = r + d + k + 2
  BY <1>3, <1>4
<1>6. ASSUME NEW j \in 1..d PROVE u[r + j] = ds[j]
  <2>1. o + j \in (o + 1)..p /\ q + (o + j) = r + j
    BY <1>3, <1>4
  <2>2. QED BY <1>3, <2>1
<1>7. u[r + d + 1] = Equals
  <2>1. o + d + 1 \in (o + 1)..p /\ q + (o + d + 1) = r + d + 1
    BY <1>3, <1>4
  <2>2. QED BY <1>3, <2>1
<1>8. ASSUME NEW j \in 1..k PROVE u[r + d + 1 + j] = v[j]
  <2>1. o + d + 1 + j \in (o + 1)..p /\ q + (o + d + 1 + j) = r + d + 1 + j
    BY <1>3, <1>4
  <2>2. QED BY <1>3, <2>1
<1>9. u[q + p] = SOH
  <2>1. p \in (o + 1)..p
    BY <1>3
  <2>2. QED BY <1>3, <2>1
<1>10. FieldAt(u, r, q + p, f)
  BY <1>1, <1>2, <1>5, <1>6, <1>7, <1>8, <1>9, Zenon DEF FieldAt
<1>11. QED BY <1>4, <1>10

LEMMA BytesAreTexts ==
  ASSUME NEW b \in Seq(0..255)
  PROVE  b \in Seq(Int) /\ Len(b) \in Nat
<1>1. 0..255 \subseteq Int
  OBVIOUS
<1>2. b \in Seq(Int)
  BY <1>1, Widened DEF Wider
<1>3. QED BY <1>2, LenProperties

(* A field more                                                             *)
LEMMA OneMoreLaid ==
  ASSUME NEW e, NEW fs \in Seq(Fields), NEW b \in Seq(0..255), Laid(e, fs, b), NEW f \in Fields
  PROVE  \E g : Laid(g, Append(fs, f), b \o Field(f))
<1>0. Fields \subseteq AnyFields
  BY DEF Fields
<1>1. PICK t \in Seq(0..255), p \in Nat : t = Field(f) /\ p = Len(t) /\ FieldAt(t, 0, p, f)
  BY <1>0, FieldBytes
<1>2. PICK l \in Nat : l = Len(b)
  BY LenProperties
<1>3. PICK n \in Nat : n = Len(fs)
  BY LenProperties
<1>4. PICK u : u = b \o t
  OBVIOUS
<1>5. u \in Seq(0..255) /\ Len(u) = l + p /\ (\A j \in 1..l : u[j] = b[j]) /\ (\A j \in 1..p : u[l + j] = t[j])
  <2>1. u \in Seq(0..255)
    BY <1>4, ConcatProperties
  <2>2. b \in Seq(Int) /\ t \in Seq(Int)
    BY BytesAreTexts
  <2>3. IsConcat(u, b, l, t, p)
    BY <1>1, <1>2, <1>4, <2>2, Concat
  <2>4. QED BY <2>1, <2>3 DEF IsConcat
<1>6. PICK gs \in Seq(Fields) : gs = Append(fs, f) /\ Len(gs) = n + 1 /\ gs[n + 1] = f
                               /\ \A i \in 1..n : gs[i] = fs[i]
  <2>1. PICK gs \in Seq(Fields) : gs = Append(fs, f)
    BY AppendProperties
  <2>2. Len(gs) = n + 1 /\ gs[n + 1] = f /\ \A i \in 1..n : gs[i] = fs[i]
    BY <1>3, <2>1
  <2>3. QED BY <2>1, <2>2
<1>7. PICK m \in Nat : m = n + 1
  OBVIOUS
<1>8. PICK g : g = [i \in 0..m |-> IF i = m THEN l + p ELSE e[i]]
  OBVIOUS
<1>9. e \in [0..n -> 0..l] /\ e[0] = 0 /\ e[n] = l /\ \A i \in 1..n : FieldAt(b, e[i - 1], e[i], fs[i])
  BY <1>2, <1>3, Zenon DEF Laid
<1>10. g \in [0..m -> 0..(l + p)] /\ g[0] = 0 /\ g[m] = l + p /\ g[m - 1] = l
  <2>1. ASSUME NEW i \in 0..m PROVE g[i] \in 0..(l + p)
    <3>1. CASE i = m
      BY <1>8, <3>1
    <3>2. CASE i # m
      <4>1. i \in 0..n
        BY <1>7, <3>2
      <4>2. g[i] = e[i] /\ e[i] \in 0..l
        BY <1>8, <1>9, <3>2, <4>1
      <4>3. QED BY <4>2
    <3>3. QED BY <3>1, <3>2
  <2>2. 0 \in 0..m /\ 0 # m /\ m \in 0..m /\ m - 1 \in 0..m /\ m - 1 # m /\ m - 1 = n
    BY <1>7
  <2>3. QED BY <1>8, <1>9, <2>1, <2>2
<1>11. ASSUME NEW i \in 1..m PROVE FieldAt(u, g[i - 1], g[i], gs[i])
  <2>1. CASE i = m
    <3>1. PICK o \in Nat : o = 0
      OBVIOUS
    <3>2. \A j \in (o + 1)..p : u[l + j] = t[j]
      BY <1>5, <3>1
    <3>3. FieldAt(u, l + o, l + p, f)
      BY <1>0, <1>1, <3>1, <3>2, FieldStays
    <3>4. l + o = l
      BY <3>1
    <3>5. QED BY <1>6, <1>7, <1>10, <2>1, <3>3, <3>4
  <2>2. CASE i # m
    <3>1. i \in 1..n /\ i - 1 \in 0..n /\ i \in 0..n /\ i - 1 \in 0..m /\ i - 1 # m
      BY <1>7, <2>2
    <3>2. PICK o \in Nat, q \in Nat : o = e[i - 1] /\ q = e[i] /\ q <= l
      <4>1. e[i - 1] \in 0..l /\ e[i] \in 0..l
        BY <1>9, <3>1
      <4>2. QED BY <4>1
    <3>3. PICK h \in Fields : h = fs[i]
      BY <1>3, <3>1, ElementOfSeq
    <3>4. FieldAt(b, o, q, h)
      BY <1>9, <3>1, <3>2, <3>3
    <3>5. PICK z \in Nat : z = 0
      OBVIOUS
    <3>6. \A j \in (o + 1)..q : u[z + j] = b[j]
      <4>1. \A j \in (o + 1)..q : j \in 1..l /\ z + j = j
        BY <3>2, <3>5
      <4>2. QED BY <1>5, <4>1
    <3>7. FieldAt(u, z + o, z + q, h)
      BY <1>0, <3>4, <3>6, FieldStays
    <3>8. z + o = o /\ z + q = q
      BY <3>2, <3>5
    <3>9. g[i - 1] = o /\ g[i] = q /\ gs[i] = h
      BY <1>6, <1>8, <2>2, <3>1, <3>2, <3>3
    <3>10. QED BY <3>7, <3>8, <3>9
  <2>3. QED BY <2>1, <2>2
<1>12. Laid(g, gs, u)
  <2>1. Len(gs) = m /\ Len(u) = l + p
    BY <1>5, <1>6, <1>7
  <2>2. QED BY <1>5, <1>6, <1>10, <1>11, <2>1, Zenon DEF Laid
<1>13. QED BY <1>1, <1>4, <1>6, <1>12

(* The field a byte belongs to                                              *)
InField(e, fs, b, i, p) ==
  /\ i \in 1..Len(fs) /\ e[i - 1] < p /\ p <= e[i]
  /\ fs[i] \in Fields /\ e[i - 1] \in Nat /\ e[i] \in Nat /\ FieldTold(b, e[i - 1], e[i])

LEMMA FieldsTell ==
  ASSUME NEW e, NEW fs, NEW b, Laid(e, fs, b)
  PROVE  \A i \in 1..Len(fs) :
           /\ fs[i] \in Fields /\ e[i - 1] \in Nat /\ e[i] \in Nat /\ e[i] <= Len(b)
           /\ FieldAt(b, e[i - 1], e[i], fs[i]) /\ FieldTold(b, e[i - 1], e[i])
<1>1. /\ fs \in Seq(Fields) /\ b \in Seq(0..255) /\ e \in [0..Len(fs) -> 0..Len(b)]
      /\ \A i \in 1..Len(fs) : FieldAt(b, e[i - 1], e[i], fs[i])
  BY DEF Laid
<1> SUFFICES ASSUME NEW i \in 1..Len(fs)
             PROVE  /\ fs[i] \in Fields /\ e[i - 1] \in Nat /\ e[i] \in Nat /\ e[i] <= Len(b)
                    /\ FieldAt(b, e[i - 1], e[i], fs[i]) /\ FieldTold(b, e[i - 1], e[i])
  OBVIOUS
<1>2. PICK n \in Nat, l \in Nat : n = Len(fs) /\ l = Len(b)
  BY <1>1, LenProperties
<1>3. i - 1 \in 0..n /\ i \in 0..n
  BY <1>2
<1>4. e[i - 1] \in 0..l /\ e[i] \in 0..l
  BY <1>1, <1>2, <1>3
<1>5. PICK o \in Nat, p \in Nat : o = e[i - 1] /\ p = e[i] /\ p <= l
  BY <1>4
<1>6. PICK f \in Fields : f = fs[i]
  BY <1>1, ElementOfSeq
<1>7. FieldAt(b, o, p, f)
  BY <1>1, <1>5, <1>6
<1>8. FieldTold(b, o, p)
  BY <1>7, FieldTells
<1>9. QED BY <1>2, <1>5, <1>6, <1>7, <1>8

LEMMA ByteHasField ==
  ASSUME NEW e, NEW fs, NEW b, Laid(e, fs, b), NEW p \in 1..Len(b)
  PROVE  \E i : InField(e, fs, b, i, p)
<1>1. PICK n \in Nat, l \in Nat : n = Len(fs) /\ l = Len(b)
  BY LenProperties DEF Laid
<1>2. e \in [0..n -> 0..l] /\ e[0] = 0 /\ e[n] = l
  BY <1>1 DEF Laid
<1> DEFINE S == {i \in 0..n : p <= e[i]}
<1>3. n \in S /\ S \in SUBSET Nat
  BY <1>1, <1>2
<1>4. PICK i \in S : \A j \in S : i <= j
  BY <1>3, LeastNatural
<1>5. i # 0
  BY <1>2, <1>4
<1>6. i \in 1..n /\ i - 1 \in 0..n /\ ~ (i <= i - 1) /\ p <= e[i]
  BY <1>4, <1>5
<1>7. e[i - 1] \in 0..l /\ ~ (p <= e[i - 1])
  BY <1>2, <1>4, <1>6
<1>8. e[i - 1] < p
  BY <1>7
<1>9. fs[i] \in Fields /\ e[i - 1] \in Nat /\ e[i] \in Nat /\ FieldTold(b, e[i - 1], e[i])
  BY <1>1, <1>6, FieldsTell
<1>10. QED BY <1>1, <1>6, <1>8, <1>9 DEF InField

(* The separators are the fields' last bytes, hence the body is sound       *)
LEMMA SeparatorsTell ==
  ASSUME NEW e, NEW fs, NEW b, Laid(e, fs, b), NEW l \in Nat, l = Len(b),
         NEW p \in 1..(l - 1), b[p] = SOH
  PROVE  p + 3 <= l /\ ~ (b[p + 1] = 49 /\ b[p + 2] = 48 /\ b[p + 3] = Equals)
<1>1. p \in 1..Len(b)
  OBVIOUS
<1>2. PICK i : InField(e, fs, b, i, p)
  BY <1>1, ByteHasField
<1>3. /\ i \in 1..Len(fs) /\ e[i - 1] < p /\ p <= e[i] /\ e[i - 1] \in Nat /\ e[i] \in Nat
      /\ \A j \in (e[i - 1] + 1)..(e[i] - 1) : b[j] # SOH
  BY <1>2 DEF InField, FieldTold
<1>4. e[i] = p
  BY <1>3
<1>5. PICK n \in Nat : n = Len(fs) /\ e[n] = l
  BY LenProperties DEF Laid
<1>6. i # n
  BY <1>4, <1>5
<1>7. PICK k \in 1..n : k = i + 1 /\ k - 1 = i
  <2>1. i + 1 \in 1..n /\ (i + 1) - 1 = i
    BY <1>3, <1>5, <1>6
  <2>2. QED BY <2>1
<1>8. e[k] \in Nat /\ e[k] <= l /\ FieldTold(b, p, e[k])
  BY <1>4, <1>5, <1>7, FieldsTell
<1>9. QED BY <1>8 DEF FieldTold

(* The first field is a MsgType of one character                            *)
Opens(fs) == fs # <<>> /\ \E x \in (0..255) \ {SOH} : fs[1] = <<35, <<x>>>>

LEMMA OpeningBytes ==
  ASSUME NEW e, NEW fs, NEW b, Laid(e, fs, b), Opens(fs), NEW l \in Nat, l = Len(b)
  PROVE  l >= 5 /\ b[1] = 51 /\ b[2] = 53 /\ b[3] = Equals /\ b[4] # SOH /\ b[5] = SOH
<1>1. PICK n \in Nat : n = Len(fs) /\ n # 0 /\ e[0] = 0
  <2>1. fs \in Seq(Fields) /\ fs # <<>> /\ e[0] = 0
    BY DEF Laid, Opens
  <2>2. QED BY <2>1, EmptySeq
<1>2. PICK x \in (0..255) \ {SOH} : fs[1] = <<35, <<x>>>>
  BY DEF Opens
<1>3. 1 \in 1..n
  BY <1>1
<1>a. PICK f : f = fs[1]
  OBVIOUS
<1>4. PICK p \in Nat : p = e[1] /\ f = fs[1] /\ p <= l /\ FieldAt(b, 0, p, f)
  <2>1. e[1] \in Nat /\ e[1] <= l /\ FieldAt(b, e[1 - 1], e[1], fs[1])
    BY <1>1, <1>3, FieldsTell
  <2>2. e[1 - 1] = 0
    BY <1>1
  <2>3. QED BY <1>a, <2>1, <2>2
<1>5. f[1] = 35 /\ f[2] = <<x>>
  BY <1>2, <1>4
<1>6. PICK ds : ds = DigitsOf(f[1]) /\ ds[1] = 51 /\ ds[2] = 53 /\ Len(ds) = 2
  <2>1. DigitsOf(35) = <<51, 53>>
    BY SmallNumbers
  <2>2. QED BY <1>5, <2>1
<1>7. PICK v : v = f[2] /\ v[1] = x /\ Len(v) = 1
  <2>1. PICK v : v = <<x>>
    OBVIOUS
  <2>2. v[1] = x /\ Len(v) = 1
    BY <2>1
  <2>3. QED BY <1>5, <2>1, <2>2
<1>8. /\ p = 0 + 2 + 1 + 2
      /\ \A j \in 1..2 : b[0 + j] = ds[j]
      /\ b[0 + 2 + 1] = Equals
      /\ \A j \in 1..1 : b[0 + 2 + 1 + j] = v[j]
      /\ b[p] = SOH
  BY <1>4, <1>6, <1>7, Zenon DEF FieldAt
<1>9. b[0 + 1] = ds[1] /\ b[0 + 2] = ds[2] /\ b[0 + 2 + 1 + 1] = v[1]
  BY <1>8
<1>10. p = 5 /\ b[1] = 51 /\ b[2] = 53 /\ b[3] = Equals /\ b[4] = x
  BY <1>6, <1>7, <1>8, <1>9
<1>11. x # SOH
  BY <1>2
<1>12. QED BY <1>4, <1>8, <1>10, <1>11

LEMMA LaidIsSound ==
  ASSUME NEW e, NEW fs, NEW b, Laid(e, fs, b), Opens(fs), NEW l \in Nat, l = Len(b)
  PROVE  SoundBody(b, l) /\ b[5] = SOH
<1>1. l >= 5 /\ b[1] = 51 /\ b[2] = 53 /\ b[3] = Equals /\ b[4] # SOH /\ b[5] = SOH
  BY OpeningBytes
<1>2. b \in Seq(Int)
  BY BytesAreTexts DEF Laid
<1>3. PICK n \in Nat : n = Len(fs) /\ n # 0 /\ e[n] = l
  <2>1. fs \in Seq(Fields) /\ fs # <<>> /\ e[Len(fs)] = Len(b)
    BY DEF Laid, Opens
  <2>2. QED BY <2>1, EmptySeq
<1>4. b[l] = SOH
  <2>1. n \in 1..n
    BY <1>3
  <2>2. FieldTold(b, e[n - 1], e[n])
    BY <1>3, <2>1, FieldsTell
  <2>3. QED BY <1>3, <2>2 DEF FieldTold
<1>5. ASSUME NEW p \in 1..(l - 1), b[p] = SOH
      PROVE  p + 3 <= l /\ ~ (b[p + 1] = 49 /\ b[p + 2] = 48 /\ b[p + 3] = Equals)
  BY <1>5, SeparatorsTell
<1>6. QED BY <1>1, <1>2, <1>4, <1>5, Zenon DEF SoundBody

(* A MsgType of two characters                                              *)
LEMMA LongTypeBytes ==
  \E t \in Seq(0..255) :
    /\ t = Field(<<35, <<85, 55>>>>) /\ Len(t) = 6
    /\ t[1] = 51 /\ t[2] = 53 /\ t[3] = Equals /\ t[4] = 85 /\ t[5] = 55 /\ t[6] = SOH
<1>1. PICK v : v = <<85, 55>> /\ v[1] = 85 /\ v[2] = 55 /\ Len(v) = 2 /\ v \in Values
  <2>1. PICK v : v = <<85, 55>>
    OBVIOUS
  <2>2. v[1] = 85 /\ v[2] = 55 /\ Len(v) = 2
    BY <2>1
  <2>3. 85 \in (0..255) \ {SOH} /\ 55 \in (0..255) \ {SOH}
    BY DEF SOH
  <2>4. v \in Seq((0..255) \ {SOH})
    BY <2>1, <2>3
  <2>5. QED BY <2>1, <2>2, <2>4 DEF Values
<1>2. PICK f \in AnyFields : f = <<35, v>> /\ f[1] = 35 /\ f[2] = v
  <2>1. PICK f : f = <<35, v>>
    OBVIOUS
  <2>2. f \in AnyFields
    BY <1>1, <2>1 DEF AnyFields
  <2>3. f[1] = 35 /\ f[2] = v
    BY <2>1
  <2>4. QED BY <2>1, <2>2, <2>3
<1>3. PICK ds : ds = DigitsOf(35) /\ ds[1] = 51 /\ ds[2] = 53 /\ Len(ds) = 2
  <2>1. DigitsOf(35) = <<51, 53>>
    BY SmallNumbers
  <2>2. QED BY <2>1
<1>4. PICK t \in Seq(0..255), p \in Nat : t = Field(f) /\ p = Len(t) /\ FieldAt(t, 0, p, f)
  BY FieldBytes
<1>5. /\ p = 0 + 2 + 2 + 2
      /\ \A j \in 1..2 : t[0 + j] = ds[j]
      /\ t[0 + 2 + 1] = Equals
      /\ \A j \in 1..2 : t[0 + 2 + 1 + j] = v[j]
      /\ t[p] = SOH
  <2>1. ds = DigitsOf(f[1]) /\ 2 = Len(DigitsOf(f[1])) /\ 2 = Len(f[2]) /\ v = f[2]
    BY <1>1, <1>2, <1>3
  <2>2. QED BY <1>4, <2>1, Zenon DEF FieldAt
<1>6. t[0 + 1] = ds[1] /\ t[0 + 2] = ds[2] /\ t[0 + 2 + 1 + 1] = v[1] /\ t[0 + 2 + 1 + 2] = v[2]
  BY <1>5
<1>7. p = 6 /\ t[1] = 51 /\ t[2] = 53 /\ t[3] = Equals /\ t[4] = 85 /\ t[5] = 55 /\ t[6] = SOH
  BY <1>1, <1>3, <1>5, <1>6
<1>8. QED BY <1>1, <1>2, <1>4, <1>7

IsLonger(u, n, b) ==
  /\ Len(u) = n
  /\ u[1] = 51 /\ u[2] = 53 /\ u[3] = Equals /\ u[4] = 85 /\ u[5] = 55 /\ u[6] = SOH
  /\ \A k \in 6..n : u[k] = b[k - 1]

LEMMA LongerIsSound ==
  ASSUME NEW b \in Seq(0..255), NEW l \in Nat, SoundBody(b, l),
         NEW u \in Seq(0..255), NEW n \in Nat, n = l + 1, IsLonger(u, n, b)
  PROVE  SoundBody(u, n) /\ u[5] # SOH
<1>0. /\ Len(u) = n
      /\ u[1] = 51 /\ u[2] = 53 /\ u[3] = Equals /\ u[4] = 85 /\ u[5] = 55 /\ u[6] = SOH
      /\ \A k \in 6..n : u[k] = b[k - 1]
  BY DEF IsLonger
<1>1. /\ l = Len(b) /\ l >= 5 /\ b[l] = SOH
      /\ \A p \in 1..(l - 1) : b[p] = SOH =>
           p + 3 <= l /\ ~ (b[p + 1] = 49 /\ b[p + 2] = 48 /\ b[p + 3] = Equals)
  BY DEF SoundBody
<1>2. u \in Seq(Int)
  BY BytesAreTexts
<1>3. u[n] = SOH
  <2>1. n \in 6..n /\ n - 1 = l
    BY <1>1
  <2>2. QED BY <1>0, <1>1, <2>1
<1>4. \A j \in 1..5 : u[j] # SOH
  <2>1. \A j \in 1..5 : j = 1 \/ j = 2 \/ j = 3 \/ j = 4 \/ j = 5
    OBVIOUS
  <2>2. QED BY <1>0, <2>1 DEF SOH, Equals
<1>5. ASSUME NEW k \in 1..(n - 1), u[k] = SOH
      PROVE  k + 3 <= n /\ ~ (u[k + 1] = 49 /\ u[k + 2] = 48 /\ u[k + 3] = Equals)
  <2>1. k >= 6
    <3>1. k \notin 1..5
      BY <1>4, <1>5
    <3>2. QED BY <3>1
  <2>2. PICK m \in 1..(l - 1) : m = k - 1
    BY <2>1
  <2>3. b[m] = SOH
    <3>1. k \in 6..n
      BY <2>1
    <3>2. u[k] = b[k - 1]
      BY <1>0, <3>1
    <3>3. QED BY <1>5, <2>2, <3>2
  <2>4. m + 3 <= l /\ ~ (b[m + 1] = 49 /\ b[m + 2] = 48 /\ b[m + 3] = Equals)
    BY <1>1, <2>3
  <2>5. \A r \in 1..3 : k + r \in 6..n /\ (k + r) - 1 = m + r
    BY <2>1, <2>2, <2>4
  <2>6. \A r \in 1..3 : u[k + r] = b[m + r]
    BY <1>0, <2>5
  <2>7. k + 3 <= n /\ u[k + 1] = b[m + 1] /\ u[k + 2] = b[m + 2] /\ u[k + 3] = b[m + 3]
    BY <2>2, <2>4, <2>6
  <2>8. QED BY <2>4, <2>7
<1>6. n >= 5 /\ u[4] # SOH /\ u[5] # SOH
  BY <1>1, <1>4
<1>7. QED BY <1>0, <1>2, <1>3, <1>5, <1>6, Zenon DEF SoundBody

LEMMA LongTypeIsSound ==
  ASSUME NEW b \in Seq(0..255), NEW l \in Nat, SoundBody(b, l), b[5] = SOH
  PROVE  \E u \in Seq(0..255) : /\ u = Field(<<35, <<85, 55>>>>) \o SubSeq(b, 6, Len(b))
                                /\ Len(u) = l + 1 /\ SoundBody(u, l + 1) /\ u[5] # SOH
<1>1. l = Len(b) /\ l >= 5
  BY DEF SoundBody
<1>2. PICK t \in Seq(0..255) :
        /\ t = Field(<<35, <<85, 55>>>>) /\ Len(t) = 6
        /\ t[1] = 51 /\ t[2] = 53 /\ t[3] = Equals /\ t[4] = 85 /\ t[5] = 55 /\ t[6] = SOH
  BY LongTypeBytes
<1>3. PICK i \in Int, j \in Int : i = 6 /\ j = l
  OBVIOUS
<1>4. ASSUME NEW k \in i..j PROVE b[k] \in 0..255
  <2>1. k \in 1..Len(b)
    BY <1>1, <1>3
  <2>2. QED BY <2>1, ElementOfSeq
<1>5. PICK s : s = SubSeq(b, i, j)
  OBVIOUS
<1>6. /\ s \in Seq(0..255) /\ Len(s) = (IF i <= j THEN j - i + 1 ELSE 0)
      /\ \A k \in 1..(j - i + 1) : s[k] = b[i + k - 1]
  <2>1. PICK S : S = 0..255
    OBVIOUS
  <2>2. \A k \in i..j : b[k] \in S
    BY <1>4, <2>1
  <2>3. /\ s \in Seq(S) /\ Len(s) = (IF i <= j THEN j - i + 1 ELSE 0)
        /\ \A k \in 1..(j - i + 1) : s[k] = b[i + k - 1]
    BY <1>5, <2>2, SubSeqProperties
  <2>4. QED BY <2>1, <2>3
<1>a. l - 5 \in Nat
  BY <1>1
<1>7. PICK q \in Nat : q = l - 5
  BY <1>a
<1>8. Len(s) = q
  BY <1>1, <1>3, <1>6, <1>7
<1>9. ASSUME NEW k \in 1..q PROVE s[k] = b[5 + k]
  <2>1. k \in 1..(j - i + 1) /\ i + k - 1 = 5 + k
    BY <1>3, <1>7
  <2>2. QED BY <1>6, <2>1
<1>10. PICK u : u = t \o s
  OBVIOUS
<1>11. u \in Seq(0..255)
  BY <1>2, <1>6, <1>10, ConcatProperties
<1>b. PICK p \in Nat : p = 6
  OBVIOUS
<1>12. IsConcat(u, t, p, s, q)
  <2>1. t \in Seq(Int) /\ s \in Seq(Int)
    BY <1>2, <1>6, BytesAreTexts
  <2>2. QED BY <1>2, <1>8, <1>10, <1>b, <2>1, Concat
<1>13. /\ Len(u) = p + q
       /\ \A k \in 1..p : u[k] = t[k]
       /\ \A k \in 1..q : u[p + k] = s[k]
  BY <1>12, Zenon DEF IsConcat
<1>14. PICK n \in Nat : n = l + 1
  OBVIOUS
<1>15. Len(u) = n
  BY <1>1, <1>7, <1>13, <1>14, <1>b
<1>16. u[1] = 51 /\ u[2] = 53 /\ u[3] = Equals /\ u[4] = 85 /\ u[5] = 55 /\ u[6] = SOH
  BY <1>2, <1>13, <1>b
<1>17. ASSUME NEW k \in 6..n PROVE u[k] = b[k - 1]
  <2>1. CASE k = 6
    <3>1. k - 1 = 5
      BY <2>1
    <3>2. QED BY <1>16, <2>1, <3>1
  <2>2. CASE k # 6
    <3>1. PICK r \in 1..q : r = k - 6 /\ p + r = k /\ 5 + r = k - 1
      <4>1. k - 6 \in 1..q /\ p + (k - 6) = k /\ 5 + (k - 6) = k - 1
        BY <1>7, <1>14, <1>b, <2>2
      <4>2. QED BY <4>1
    <3>2. u[p + r] = s[r] /\ s[r] = b[5 + r]
      BY <1>9, <1>13, <3>1
    <3>3. QED BY <3>1, <3>2
  <2>3. QED BY <2>1, <2>2
<1>18. SoundBody(u, n) /\ u[5] # SOH
  <2>1. IsLonger(u, n, b)
    BY <1>15, <1>16, <1>17, Zenon DEF IsLonger
  <2>2. QED BY <1>11, <1>14, <2>1, LongerIsSound
<1>19. u = Field(<<35, <<85, 55>>>>) \o SubSeq(b, 6, Len(b))
  BY <1>1, <1>2, <1>3, <1>5, <1>10
<1>20. QED BY <1>11, <1>14, <1>15, <1>18, <1>19

---------------------------------------------------------------------------
(* The message around a body.                                               *)

LEMMA DigitsAreValues ==
  ASSUME NEW t \in DigitTexts
  PROVE  t \in Values
<1>1. Digits \subseteq (0..255) \ {SOH}
  BY DEF Digits, Zero, SOH
<1>2. t \in Seq(Digits)
  BY DEF DigitTexts
<1>3. PICK S, T : S = Digits /\ T = (0..255) \ {SOH} /\ S \subseteq T
  BY <1>1
<1>4. Wider(S, T)
  BY <1>3, Widened
<1>5. t \in Seq(T)
  BY <1>2, <1>3, <1>4, Zenon DEF Wider
<1>6. QED BY <1>3, <1>5 DEF Values

LEMMA AField ==
  ASSUME NEW n \in Nat, NEW v \in Values
  PROVE  \E f \in AnyFields : f = <<n, v>> /\ f[1] = n /\ f[2] = v
<1>1. PICK f : f = <<n, v>>
  OBVIOUS
<1>2. f \in AnyFields
  BY <1>1 DEF AnyFields
<1>3. f[1] = n /\ f[2] = v
  BY <1>1
<1>4. QED BY <1>1, <1>2, <1>3

(* The bytes of the three fields around a body: 8=, 9= and 10=              *)
Begins(t) == Len(t) = 4 /\ t[1] = 56 /\ t[2] = Equals /\ t[3] = 70 /\ t[4] = SOH
Counts(t, d, ds) ==
  /\ Len(t) = d + 3 /\ t[1] = 57 /\ t[2] = Equals /\ t[d + 3] = SOH
  /\ \A j \in 1..d : t[2 + j] = ds[j]
EndsWith(t, ds) ==
  /\ Len(t) = 7 /\ t[1] = 49 /\ t[2] = 48 /\ t[3] = Equals /\ t[7] = SOH
  /\ \A j \in 1..3 : t[3 + j] = ds[j]

LEMMA BeginBytes == \E t \in Seq(0..255) : t = Field(<<8, <<70>>>>) /\ Begins(t)
<1>1. PICK v \in Values : v = <<70>> /\ v[1] = 70 /\ Len(v) = 1
  <2>1. PICK v : v = <<70>>
    OBVIOUS
  <2>2. v[1] = 70 /\ Len(v) = 1
    BY <2>1
  <2>3. 70 \in (0..255) \ {SOH}
    BY DEF SOH
  <2>4. v \in Seq((0..255) \ {SOH})
    BY <2>1, <2>3
  <2>5. QED BY <2>1, <2>2, <2>4 DEF Values
<1>2. PICK f \in AnyFields : f = <<8, v>> /\ f[1] = 8 /\ f[2] = v
  <2>1. PICK n \in Nat : n = 8
    OBVIOUS
  <2>2. QED BY <2>1, AField
<1>3. PICK ds : ds = DigitsOf(8) /\ ds[1] = 56 /\ Len(ds) = 1
  <2>1. DigitsOf(8) = <<56>>
    BY SmallNumbers
  <2>2. QED BY <2>1
<1>4. PICK t \in Seq(0..255), p \in Nat : t = Field(f) /\ p = Len(t) /\ FieldAt(t, 0, p, f)
  BY FieldBytes
<1>5. /\ p = 0 + 1 + 1 + 2
      /\ \A j \in 1..1 : t[0 + j] = ds[j]
      /\ t[0 + 1 + 1] = Equals
      /\ \A j \in 1..1 : t[0 + 1 + 1 + j] = v[j]
      /\ t[p] = SOH
  <2>1. ds = DigitsOf(f[1]) /\ 1 = Len(DigitsOf(f[1])) /\ 1 = Len(f[2]) /\ v = f[2]
    BY <1>1, <1>2, <1>3
  <2>2. QED BY <1>4, <2>1, Zenon DEF FieldAt
<1>6. t[0 + 1] = ds[1] /\ t[0 + 1 + 1 + 1] = v[1]
  BY <1>5
<1>7. p = 4 /\ t[1] = 56 /\ t[2] = Equals /\ t[3] = 70 /\ t[4] = SOH
  BY <1>1, <1>3, <1>5, <1>6
<1>8. QED BY <1>1, <1>2, <1>4, <1>7 DEF Begins

LEMMA LengthBytes ==
  ASSUME NEW m \in Nat
  PROVE  \E t \in Seq(0..255) :
           t = Field(<<9, DigitsOf(m)>>) /\ Counts(t, Len(DigitsOf(m)), DigitsOf(m))
<1>1. PICK v \in Values : v = DigitsOf(m)
  <2>1. DigitsOf(m) \in DigitTexts
    BY DigitsTellAll DEF DigitsTell
  <2>2. QED BY <2>1, DigitsAreValues
<1>0. PICK d \in Nat : d = Len(v)
  BY <1>1, DigitsAre
<1>2. PICK f \in AnyFields : f = <<9, v>> /\ f[1] = 9 /\ f[2] = v
  <2>1. PICK n \in Nat : n = 9
    OBVIOUS
  <2>2. QED BY <2>1, AField
<1>3. PICK ds : ds = DigitsOf(9) /\ ds[1] = 57 /\ Len(ds) = 1
  <2>1. DigitsOf(9) = <<57>>
    BY SmallNumbers
  <2>2. QED BY <2>1
<1>4. PICK t \in Seq(0..255), p \in Nat : t = Field(f) /\ p = Len(t) /\ FieldAt(t, 0, p, f)
  BY FieldBytes
<1>5. /\ p = 0 + 1 + d + 2
      /\ \A j \in 1..1 : t[0 + j] = ds[j]
      /\ t[0 + 1 + 1] = Equals
      /\ \A j \in 1..d : t[0 + 1 + 1 + j] = v[j]
      /\ t[p] = SOH
  <2>1. ds = DigitsOf(f[1]) /\ 1 = Len(DigitsOf(f[1])) /\ d = Len(f[2]) /\ v = f[2]
    BY <1>0, <1>1, <1>2, <1>3
  <2>2. QED BY <1>4, <2>1, Zenon DEF FieldAt
<1>6. t[0 + 1] = ds[1]
  BY <1>5
<1>7. p = d + 3 /\ t[1] = 57 /\ t[2] = Equals /\ t[d + 3] = SOH /\ \A j \in 1..d : t[2 + j] = v[j]
  BY <1>3, <1>5, <1>6
<1>8. Counts(t, d, v)
  BY <1>4, <1>7 DEF Counts
<1>9. QED BY <1>0, <1>1, <1>2, <1>4, <1>8

LEMMA SumBytes ==
  ASSUME NEW c \in 0..255
  PROVE  \E t \in Seq(0..255) : t = Field(<<10, Padded(c, 3)>>) /\ EndsWith(t, Padded(c, 3))
<1>1. PICK v \in Values : v = Padded(c, 3) /\ Len(v) = 3
  <2>1. Padded(c, 3) \in DigitTexts /\ Len(Padded(c, 3)) = 3
    BY SumsAreRead
  <2>2. QED BY <2>1, DigitsAreValues
<1>2. PICK f \in AnyFields : f = <<10, v>> /\ f[1] = 10 /\ f[2] = v
  <2>1. PICK n \in Nat : n = 10
    OBVIOUS
  <2>2. QED BY <2>1, AField
<1>3. PICK ds : ds = DigitsOf(10) /\ ds[1] = 49 /\ ds[2] = 48 /\ Len(ds) = 2
  <2>1. DigitsOf(10) = <<49, 48>>
    BY SmallNumbers
  <2>2. QED BY <2>1
<1>4. PICK t \in Seq(0..255), p \in Nat : t = Field(f) /\ p = Len(t) /\ FieldAt(t, 0, p, f)
  BY FieldBytes
<1>5. /\ p = 0 + 2 + 3 + 2
      /\ \A j \in 1..2 : t[0 + j] = ds[j]
      /\ t[0 + 2 + 1] = Equals
      /\ \A j \in 1..3 : t[0 + 2 + 1 + j] = v[j]
      /\ t[p] = SOH
  <2>1. ds = DigitsOf(f[1]) /\ 2 = Len(DigitsOf(f[1])) /\ 3 = Len(f[2]) /\ v = f[2]
    BY <1>1, <1>2, <1>3
  <2>2. QED BY <1>4, <2>1, Zenon DEF FieldAt
<1>6. t[0 + 1] = ds[1] /\ t[0 + 2] = ds[2]
  BY <1>5
<1>7. p = 7 /\ t[1] = 49 /\ t[2] = 48 /\ t[3] = Equals /\ t[7] = SOH /\ \A j \in 1..3 : t[3 + j] = v[j]
  BY <1>3, <1>5, <1>6
<1>8. EndsWith(t, v)
  BY <1>4, <1>7 DEF EndsWith
<1>9. QED BY <1>1, <1>2, <1>4, <1>8

(* What is in front of the checksum                                         *)
FrontBytes(u, b, d, ds) ==
  /\ Len(u) = 7 + d + Len(b)
  /\ u[1] = 56 /\ u[2] = Equals /\ u[3] = 70 /\ u[4] = SOH /\ u[5] = 57 /\ u[6] = Equals
  /\ \A j \in 1..d : u[6 + j] = ds[j]
  /\ u[7 + d] = SOH
  /\ \A j \in 1..Len(b) : u[7 + d + j] = b[j]

LEMMA FrontIs ==
  ASSUME NEW b \in Seq(0..255), NEW m \in Nat
  PROVE  \E u \in Seq(0..255) :
           u = Preamble(m) \o b /\ FrontBytes(u, b, Len(DigitsOf(m)), DigitsOf(m))
<1>1. PICK t \in Seq(0..255) : t = Field(<<8, <<70>>>>) /\ Begins(t)
  BY BeginBytes
<1>c. PICK d \in Nat : d = Len(DigitsOf(m))
  BY DigitsAre
<1>2. PICK ds : ds = DigitsOf(m) /\ d = Len(DigitsOf(m))
  BY <1>c
<1>3. PICK x \in Seq(0..255) : x = Field(<<9, ds>>) /\ Counts(x, d, ds)
  BY <1>2, LengthBytes
<1>4. PICK i \in Nat, k \in Nat : i = 4 /\ k = d + 3 /\ i = Len(t) /\ k = Len(x)
  <2>1. Len(t) = 4 /\ Len(x) = d + 3
    BY <1>1, <1>3, Zenon DEF Begins, Counts
  <2>2. 4 \in Nat /\ d + 3 \in Nat
    OBVIOUS
  <2>3. QED BY <2>1, <2>2
<1>5. t \in Seq(Int) /\ x \in Seq(Int) /\ b \in Seq(Int)
  BY BytesAreTexts
<1>6. PICK p \in Seq(0..255) : p = t \o x
  BY ConcatProperties
<1>7. IsConcat(p, t, i, x, k)
  BY <1>4, <1>5, <1>6, Concat
<1>8. /\ Len(p) = i + k
      /\ \A j \in 1..i : p[j] = t[j]
      /\ \A j \in 1..k : p[i + j] = x[j]
  BY <1>7, Zenon DEF IsConcat
<1>9. p = Preamble(m)
  BY <1>1, <1>2, <1>3, <1>6 DEF Preamble
<1>10. PICK l \in Nat, n \in Nat : l = Len(b) /\ n = 7 + d /\ n = Len(p)
  <2>a. i + k = 7 + d
    BY <1>4
  <2>1. Len(p) = 7 + d
    BY <1>8, <2>a, Zenon
  <2>2. Len(b) \in Nat /\ 7 + d \in Nat
    BY <1>5, LenProperties
  <2>3. QED BY <2>1, <2>2
<1>11. PICK u \in Seq(0..255) : u = p \o b
  BY ConcatProperties
<1>12. p \in Seq(Int)
  BY BytesAreTexts
<1>13. IsConcat(u, p, n, b, l)
  BY <1>5, <1>10, <1>11, <1>12, Concat
<1>14. /\ Len(u) = n + l
       /\ \A j \in 1..n : u[j] = p[j]
       /\ \A j \in 1..l : u[n + j] = b[j]
  BY <1>13, Zenon DEF IsConcat
<1>15. ASSUME NEW j \in 1..4 PROVE u[j] = t[j]
  BY <1>4, <1>8, <1>10, <1>14
<1>16. ASSUME NEW j \in 1..(d + 3) PROVE u[4 + j] = x[j]
  BY <1>4, <1>8, <1>10, <1>14
<1>17. u[1] = t[1] /\ u[2] = t[2] /\ u[3] = t[3] /\ u[4] = t[4]
  BY <1>15
<1>18. u[4 + 1] = x[1] /\ u[4 + 2] = x[2] /\ u[4 + (d + 3)] = x[d + 3]
  <2>1. 1 \in 1..(d + 3) /\ 2 \in 1..(d + 3) /\ d + 3 \in 1..(d + 3)
    OBVIOUS
  <2>2. QED BY <1>16, <2>1
<1>19. ASSUME NEW j \in 1..d PROVE u[6 + j] = ds[j]
  <2>1. 2 + j \in 1..(d + 3) /\ 4 + (2 + j) = 6 + j
    OBVIOUS
  <2>2. u[4 + (2 + j)] = x[2 + j]
    BY <1>16, <2>1
  <2>3. QED BY <1>3, <2>1, <2>2 DEF Counts
<1>20. t[1] = 56 /\ t[2] = Equals /\ t[3] = 70 /\ t[4] = SOH
  BY <1>1 DEF Begins
<1>21. x[1] = 57 /\ x[2] = Equals /\ x[d + 3] = SOH
  BY <1>3 DEF Counts
<1>22. /\ u[1] = 56 /\ u[2] = Equals /\ u[3] = 70 /\ u[4] = SOH /\ u[5] = 57 /\ u[6] = Equals
       /\ u[n] = SOH
  BY <1>10, <1>17, <1>18, <1>20, <1>21
<1>23. FrontBytes(u, b, d, ds)
  BY <1>10, <1>14, <1>19, <1>22 DEF FrontBytes
<1>24. QED BY <1>2, <1>9, <1>11, <1>23

LEMMA PrefixIs ==
  ASSUME NEW w \in Seq(Int), NEW u \in Seq(Int), NEW e \in Nat, e = Len(u), e <= Len(w),
         \A j \in 1..e : w[j] = u[j]
  PROVE  SubSeq(w, 1, e) = u
<1>1. PICK l \in Nat, i \in Nat : l = Len(w) /\ i = 1
  <2>1. Len(w) \in Nat
    BY LenProperties
  <2>2. QED BY <2>1
<1>2. PICK t : t = SubSeq(w, i, e)
  OBVIOUS
<1>3. i \in 1..(l + 1) /\ e \in (i - 1)..l
  BY <1>1
<1>4. t \in Seq(Int) /\ Len(t) = e - i + 1 /\ \A k \in 1..(e - i + 1) : t[k] = w[i + k - 1]
  BY <1>1, <1>2, <1>3, SubSeqProperties
<1>5. e - i + 1 = e /\ \A k \in 1..e : i + k - 1 = k
  BY <1>1
<1>6. \A k \in 1..e : t[k] = u[k]
  BY <1>4, <1>5
<1>7. t = u
  BY <1>4, <1>5, <1>6, SeqEqual
<1>8. QED BY <1>1, <1>2, <1>7

(* The message a body is wrapped into                                       *)
Wired(w, b, m, c, s, e) ==
  /\ WireBytes(w, b, m, c, s, e)
  /\ SubSeq(w, 1, e) = Preamble(m) \o b

LEMMA MessageBytes ==
  ASSUME NEW b \in Seq(0..255), NEW m \in Nat, NEW c \in 0..255
  PROVE  \E w \in Seq(0..255), s \in Nat, e \in Nat :
           w = (Preamble(m) \o b) \o Field(<<10, Padded(c, 3)>>) /\ Wired(w, b, m, c, s, e)
<1>c. PICK d \in Nat : d = Len(DigitsOf(m))
  BY DigitsAre
<1>1. PICK ds : ds = DigitsOf(m) /\ d = Len(DigitsOf(m))
  BY <1>c
<1>2. PICK u \in Seq(0..255) : u = Preamble(m) \o b /\ FrontBytes(u, b, d, ds)
  BY <1>1, FrontIs
<1>3. PICK ps : ps = Padded(c, 3)
  OBVIOUS
<1>4. PICK t \in Seq(0..255) : t = Field(<<10, ps>>) /\ EndsWith(t, ps)
  BY <1>3, SumBytes
<1>5. u \in Seq(Int) /\ t \in Seq(Int) /\ b \in Seq(Int)
  BY BytesAreTexts
<1>6. PICK l \in Nat : l = Len(b)
  BY <1>5, LenProperties
<1>7. PICK s \in Nat : s = 7 + d
  OBVIOUS
<1>8. PICK e \in Nat, k \in Nat : e = s + l /\ k = 7
  OBVIOUS
<1>9. /\ Len(u) = 7 + d + l
      /\ u[1] = 56 /\ u[2] = Equals /\ u[3] = 70 /\ u[4] = SOH /\ u[5] = 57 /\ u[6] = Equals
      /\ \A j \in 1..d : u[6 + j] = ds[j]
      /\ u[7 + d] = SOH
      /\ \A j \in 1..l : u[7 + d + j] = b[j]
  BY <1>2, <1>6, Zenon DEF FrontBytes
<1>a. Len(u) = e
  BY <1>7, <1>8, <1>9
<1>10. /\ Len(t) = 7 /\ t[1] = 49 /\ t[2] = 48 /\ t[3] = Equals /\ t[7] = SOH
       /\ \A j \in 1..3 : t[3 + j] = ps[j]
  BY <1>4, Zenon DEF EndsWith
<1>b. Len(t) = k
  BY <1>8, <1>10
<1>11. PICK w \in Seq(0..255) : w = u \o t
  BY ConcatProperties
<1>12. IsConcat(w, u, e, t, k)
  BY <1>5, <1>11, <1>a, <1>b, Concat
<1>13. /\ w \in Seq(Int) /\ Len(w) = e + k
       /\ \A j \in 1..e : w[j] = u[j]
       /\ \A j \in 1..k : w[e + j] = t[j]
  BY <1>12, Zenon DEF IsConcat
<1>14. /\ w[1] = 56 /\ w[2] = Equals /\ w[3] = 70 /\ w[4] = SOH /\ w[5] = 57 /\ w[6] = Equals
       /\ w[s] = SOH
  <2>1. 1 \in 1..e /\ 2 \in 1..e /\ 3 \in 1..e /\ 4 \in 1..e /\ 5 \in 1..e /\ 6 \in 1..e /\ s \in 1..e
    BY <1>7, <1>8
  <2>2. w[1] = u[1] /\ w[2] = u[2] /\ w[3] = u[3] /\ w[4] = u[4] /\ w[5] = u[5] /\ w[6] = u[6] /\ w[s] = u[s]
    BY <1>13, <2>1
  <2>3. u[s] = SOH
    BY <1>7, <1>9
  <2>4. QED BY <1>9, <2>2, <2>3
<1>15. ASSUME NEW j \in 1..d PROVE w[6 + j] = ds[j]
  <2>1. 6 + j \in 1..e
    BY <1>7, <1>8
  <2>2. QED BY <1>9, <1>13, <2>1
<1>16. ASSUME NEW j \in 1..l PROVE w[s + j] = b[j]
  <2>1. s + j \in 1..e /\ s + j = 7 + d + j
    BY <1>7, <1>8
  <2>2. w[s + j] = u[s + j]
    BY <1>13, <2>1
  <2>3. u[7 + d + j] = b[j]
    BY <1>9
  <2>4. QED BY <2>1, <2>2, <2>3
<1>17. w[e + 1] = 49 /\ w[e + 2] = 48 /\ w[e + 3] = Equals /\ w[e + 7] = SOH
  <2>1. 1 \in 1..k /\ 2 \in 1..k /\ 3 \in 1..k /\ 7 \in 1..k
    BY <1>8
  <2>2. QED BY <1>10, <1>13, <2>1
<1>18. ASSUME NEW j \in 1..3 PROVE w[e + 3 + j] = ps[j]
  <2>1. 3 + j \in 1..k /\ e + (3 + j) = e + 3 + j
    BY <1>8
  <2>2. w[e + (3 + j)] = t[3 + j] /\ t[3 + j] = ps[j]
    BY <1>10, <1>13, <2>1
  <2>3. QED BY <2>1, <2>2
<1>19. s = 7 + d /\ e = s + l /\ Len(w) = e + 7
  BY <1>7, <1>8, <1>13
<1>20. WireBytes(w, b, m, c, s, e)
  BY <1>1, <1>3, <1>5, <1>6, <1>13, <1>14, <1>15, <1>16, <1>17, <1>18, <1>19, Zenon DEF WireBytes
<1>21. SubSeq(w, 1, e) = u
  <2>1. e <= Len(w)
    BY <1>19
  <2>2. QED BY <1>5, <1>13, <1>a, <2>1, PrefixIs
<1>22. Wired(w, b, m, c, s, e)
  BY <1>2, <1>20, <1>21 DEF Wired
<1>23. QED BY <1>2, <1>3, <1>4, <1>11, <1>22

LEMMA FrontIsBytes ==
  ASSUME NEW b \in Seq(0..255), NEW m \in Nat
  PROVE  Preamble(m) \o b \in Seq(0..255) /\ Checksum(Preamble(m) \o b) \in 0..255
<1>1. PICK u \in Seq(0..255) : u = Preamble(m) \o b
  BY FrontIs
<1>2. QED BY <1>1, ChecksumIsByte

---------------------------------------------------------------------------
(* FixFieldIter reads the fields back.                                      *)

(* FixFieldIter::next, once it knows where the field is                     *)
FirstByte(b, from) == SelectInSubSeq(b, from, Len(b), LAMBDA x : x # SOH)
FirstEquals(b, from, to) == SelectInSubSeq(b, from, to, LAMBDA x : x = Equals)
FieldAnswer(b, start, end, eq, tag) ==
  IF start = 0 \/ eq = 0 \/ ~ IsNumber(tag) THEN [kind |-> "none"]
  ELSE [kind |-> "field", end |-> end, field |-> <<ParseU32(tag), SubSeq(b, eq + 1, end - 1)>>]

EndIs(b, start, end) ==
  end = IF FindSOH(b, start) = 0 THEN Len(b) + 1 ELSE FindSOH(b, start)

LEMMA FieldUnfolds ==
  ASSUME NEW b, NEW from, NEW start, start = FirstByte(b, from + 1),
         NEW end, EndIs(b, start, end),
         NEW eq, eq = FirstEquals(b, start, end - 1),
         NEW tag, tag = SubSeq(b, start, eq - 1)
  PROVE  NextFieldOf(b, from) = FieldAnswer(b, start, end, eq, tag)
BY Zenon DEF NextFieldOf, FieldAnswer, EndIs, FirstByte, FirstEquals, SelectInSubSeq

LEMMA NoneUnfolds ==
  ASSUME NEW b, NEW from, FirstByte(b, from + 1) = 0
  PROVE  NextFieldOf(b, from) = [kind |-> "none"]
BY Zenon DEF NextFieldOf, FirstByte, SelectInSubSeq

LEMMA FoundFirstByte ==
  ASSUME NEW b, NEW from \in Nat, NEW n \in Nat, n = Len(b), NEW p \in from..n,
         b[p] # SOH, \A j \in from..(p - 1) : b[j] = SOH
  PROVE  FirstByte(b, from) = p
<1> DEFINE S == {i \in from..n : b[i] # SOH}
<1>1. p \in S /\ S \subseteq Int
  OBVIOUS
<1>2. ASSUME NEW i \in S PROVE p <= i
  <2>1. i \notin from..(p - 1)
    BY <1>2
  <2>2. QED BY <2>1
<1>3. FirstByte(b, from) = IF S # {} THEN Min(S) ELSE 0
  BY Zenon DEF FirstByte, SelectInSubSeq
<1> HIDE DEF S
<1>4. QED BY <1>1, <1>2, <1>3, FirstOf, Zenon

LEMMA NoFirstByte ==
  ASSUME NEW b, NEW from \in Nat, NEW n \in Nat, n = Len(b), from > n
  PROVE  FirstByte(b, from) = 0
<1> DEFINE S == {i \in from..n : b[i] # SOH}
<1>1. S = {}
  OBVIOUS
<1>2. FirstByte(b, from) = IF S # {} THEN Min(S) ELSE 0
  BY Zenon DEF FirstByte, SelectInSubSeq
<1>3. QED BY <1>1, <1>2, Zenon

LEMMA FoundEquals ==
  ASSUME NEW b, NEW from \in Nat, NEW n \in Nat, NEW p \in from..n,
         b[p] = Equals, \A j \in from..(p - 1) : b[j] # Equals
  PROVE  FirstEquals(b, from, n) = p
<1> DEFINE S == {i \in from..n : b[i] = Equals}
<1>1. p \in S /\ S \subseteq Int
  OBVIOUS
<1>2. ASSUME NEW i \in S PROVE p <= i
  <2>1. i \notin from..(p - 1)
    BY <1>2
  <2>2. QED BY <2>1
<1>3. FirstEquals(b, from, n) = IF S # {} THEN Min(S) ELSE 0
  BY Zenon DEF FirstEquals, SelectInSubSeq
<1> HIDE DEF S
<1>4. QED BY <1>1, <1>2, <1>3, FirstOf, Zenon

Yields(answered, f, p) == answered.kind = "field" /\ answered.end = p /\ answered.field = f

LEMMA NextIsField ==
  ASSUME NEW b \in Seq(Int), NEW o \in Nat, NEW p \in Nat, p <= Len(b), NEW f \in AnyFields,
         FieldAt(b, o, p, f), FieldTold(b, o, p)
  PROVE  Yields(NextFieldOf(b, o), f, p)
<1>1. PICK ds \in Seq(Int) : ds = DigitsOf(f[1]) /\ \A j \in 1..Len(ds) : ds[j] \in Digits
  BY FieldParts, DigitsAre
<1>2. PICK d \in Nat \ {0} : d = Len(ds)
  BY <1>1, FieldParts, DigitsAre
<1>3. PICK v \in Seq(Int) : v = f[2]
  BY FieldParts
<1>4. PICK k \in Nat : k = Len(v)
  BY LenProperties
<1>5. /\ p = o + d + k + 2
      /\ \A j \in 1..d : b[o + j] = ds[j]
      /\ b[o + d + 1] = Equals
      /\ \A j \in 1..k : b[o + d + 1 + j] = v[j]
  BY <1>1, <1>2, <1>3, <1>4, Zenon DEF FieldAt
<1>6. PICK n \in Nat : n = Len(b) /\ p <= n
  BY LenProperties
<1>7. b[p] = SOH /\ \A j \in (o + 1)..(p - 1) : b[j] # SOH
  BY DEF FieldTold
<1>8. PICK start \in Nat : start = o + 1
  OBVIOUS
<1>9. FirstByte(b, start) = start
  <2>1. start \in start..n /\ start \in (o + 1)..(p - 1) /\ \A j \in start..(start - 1) : FALSE
    BY <1>5, <1>6, <1>8
  <2>2. b[start] # SOH
    BY <1>7, <2>1
  <2>3. QED BY <1>6, <2>1, <2>2, FoundFirstByte
<1>10. FindSOH(b, start) = p
  <2>1. p \in start..n
    BY <1>5, <1>6, <1>8
  <2>2. \A j \in start..(p - 1) : b[j] # SOH
    BY <1>7, <1>8
  <2>3. QED BY <1>6, <1>7, <2>1, <2>2, FoundSOH
<1>11. PICK eq \in Nat, q \in Nat : eq = o + d + 1 /\ q = p - 1
  <2>1. o + d + 1 \in Nat /\ p - 1 \in Nat
    BY <1>5
  <2>2. QED BY <2>1
<1>12. ASSUME NEW j \in start..(eq - 1) PROVE b[j] # Equals
  <2>1. j - o \in 1..d /\ o + (j - o) = j
    BY <1>8, <1>11
  <2>2. b[o + (j - o)] = ds[j - o] /\ ds[j - o] \in Digits
    BY <1>1, <1>2, <1>5, <2>1
  <2>3. QED BY <2>1, <2>2, ByteTests
<1>13. FirstEquals(b, start, q) = eq
  <2>a. p = o + d + k + 2
    BY <1>5
  <2>1. eq \in start..q
    BY <1>8, <1>11, <2>a
  <2>2. b[eq] = Equals
    BY <1>5, <1>11
  <2>3. QED BY <1>12, <2>1, <2>2, FoundEquals
<1>14. PICK tag : tag = SubSeq(b, start, eq - 1)
  OBVIOUS
<1>15. tag = ds
  <2>1. HasPart(b, o, d, ds)
    BY <1>2, <1>5, <1>6 DEF HasPart
  <2>2. SubSeq(b, o + 1, o + d) = ds
    BY <2>1, PartIs
  <2>3. eq - 1 = o + d
    BY <1>11
  <2>4. QED BY <1>8, <1>14, <2>2, <2>3
<1>16. SubSeq(b, eq + 1, q) = v
  <2>1. HasPart(b, eq, k, v)
    <3>1. eq + k <= n
      BY <1>5, <1>6, <1>11
    <3>2. \A j \in 1..k : b[eq + j] = v[j]
      BY <1>5, <1>11
    <3>3. QED BY <1>4, <1>6, <3>1, <3>2 DEF HasPart
  <2>2. SubSeq(b, eq + 1, eq + k) = v
    BY <2>1, PartIs
  <2>3. q = eq + k
    BY <1>5, <1>11
  <2>4. QED BY <2>2, <2>3
<1>17. p # 0 /\ start # 0 /\ eq # 0
  BY <1>5, <1>8, <1>11
<1>18. NextFieldOf(b, o) = FieldAnswer(b, start, p, eq, tag)
  <2>1. EndIs(b, start, p)
    BY <1>10, <1>17 DEF EndIs
  <2>2. start = FirstByte(b, o + 1) /\ eq = FirstEquals(b, start, p - 1)
    BY <1>8, <1>9, <1>11, <1>13
  <2>3. QED BY <1>14, <2>1, <2>2, FieldUnfolds
<1>19. IsNumber(tag) /\ ParseU32(tag) = f[1] /\ f = <<f[1], f[2]>>
  <2>1. f[1] \in Nat /\ f = <<f[1], f[2]>>
    BY FieldParts
  <2>2. IsNumber(DigitsOf(f[1])) /\ ParseU32(DigitsOf(f[1])) = f[1]
    BY <2>1, NumbersAreRead
  <2>3. QED BY <1>1, <1>15, <2>1, <2>2
<1>20. FieldAnswer(b, start, p, eq, tag) = [kind |-> "field", end |-> p, field |-> f]
  <2>1. SubSeq(b, eq + 1, p - 1) = f[2]
    BY <1>3, <1>11, <1>16
  <2>2. FieldAnswer(b, start, p, eq, tag) =
          [kind |-> "field", end |-> p, field |-> <<ParseU32(tag), SubSeq(b, eq + 1, p - 1)>>]
    BY <1>17, <1>19, Zenon DEF FieldAnswer
  <2>3. <<ParseU32(tag), SubSeq(b, eq + 1, p - 1)>> = f
    BY <1>19, <2>1, Zenon
  <2>4. QED BY <2>2, <2>3, Zenon
<1>21. QED BY <1>18, <1>20 DEF Yields

LEMMA NextIsNone ==
  ASSUME NEW b \in Seq(Int), NEW o \in Nat, o = Len(b)
  PROVE  NextFieldOf(b, o).kind = "none"
<1>a. PICK from \in Nat : from = o + 1
  OBVIOUS
<1>1. PICK start : start = FirstByte(b, from)
  OBVIOUS
<1>2. start = 0
  <2>1. from > o
    BY <1>a
  <2>2. QED BY <1>1, <2>1, NoFirstByte
<1>3. FirstByte(b, o + 1) = 0
  BY <1>a, <1>1, <1>2
<1>4. NextFieldOf(b, o) = [kind |-> "none"]
  BY <1>3, NoneUnfolds
<1>5. QED BY <1>4

(* Behind its first i fields a body has the next one, or none               *)
FieldsFollow(e, fs, b, i) ==
  /\ i < Len(fs) => Yields(NextFieldOf(b, e[i]), fs[i + 1], e[i + 1])
  /\ i = Len(fs) => NextFieldOf(b, e[i]).kind = "none"

LEMMA FieldsAreRead ==
  ASSUME NEW e, NEW fs, NEW b, Laid(e, fs, b), NEW i \in 0..Len(fs)
  PROVE  FieldsFollow(e, fs, b, i)
<1>1. PICK n \in Nat, l \in Nat : n = Len(fs) /\ l = Len(b) /\ e[n] = l
  BY LenProperties DEF Laid
<1>2. b \in Seq(Int)
  BY BytesAreTexts DEF Laid
<1>3. CASE i < n
  <2>1. PICK k \in 1..Len(fs) : k = i + 1 /\ k - 1 = i
    <3>1. i + 1 \in 1..Len(fs) /\ (i + 1) - 1 = i
      BY <1>1, <1>3
    <3>2. QED BY <3>1
  <2>2. /\ fs[k] \in Fields /\ e[k - 1] \in Nat /\ e[k] \in Nat /\ e[k] <= Len(b)
        /\ FieldAt(b, e[k - 1], e[k], fs[k]) /\ FieldTold(b, e[k - 1], e[k])
    BY FieldsTell
  <2>3. PICK f \in AnyFields : f = fs[k]
    BY <2>2 DEF Fields
  <2>4. PICK o \in Nat, p \in Nat : o = e[k - 1] /\ p = e[k]
    BY <2>2
  <2>5. Yields(NextFieldOf(b, o), f, p)
    BY <1>2, <2>2, <2>3, <2>4, NextIsField
  <2>6. Yields(NextFieldOf(b, e[i]), fs[i + 1], e[i + 1])
    BY <2>1, <2>3, <2>4, <2>5
  <2>7. QED BY <1>1, <1>3, <2>6 DEF FieldsFollow
<1>4. CASE i = n
  <2>1. NextFieldOf(b, l).kind = "none"
    BY <1>1, <1>2, NextIsNone
  <2>2. QED BY <1>1, <1>4, <2>1 DEF FieldsFollow
<1>5. QED BY <1>1, <1>3, <1>4

---------------------------------------------------------------------------
(* What the builders push.                                                  *)

(* What the encoder is given to push: fields, a MsgType first               *)
IsMessage(m) == m \in Seq(Fields) /\ Opens(m)

LEMMA AreFields ==
  ASSUME NEW n \in Nat, n # 10, NEW v \in Values
  PROVE  <<n, v>> \in Fields
<1>1. PICK f \in AnyFields : f = <<n, v>> /\ f[1] = n
  BY AField
<1>2. QED BY <1>1 DEF Fields

LEMMA NumbersAreValues ==
  ASSUME NEW n \in Nat
  PROVE  DigitsOf(n) \in Values
<1>1. DigitsOf(n) \in DigitTexts
  BY DigitsTellAll DEF DigitsTell
<1>2. QED BY <1>1, DigitsAreValues

LEMMA OneByteIsValue ==
  ASSUME NEW x \in (0..255) \ {SOH}
  PROVE  <<x>> \in Values
<1>1. <<x>> \in Seq((0..255) \ {SOH})
  OBVIOUS
<1>2. QED BY <1>1 DEF Values

LEMMA MoreFields ==
  ASSUME NEW m, IsMessage(m), NEW y \in Seq(Fields)
  PROVE  IsMessage(m \o y)
<1>1. m \in Seq(Fields) /\ m # <<>>
  BY DEF IsMessage, Opens
<1>2. PICK x \in (0..255) \ {SOH} : m[1] = <<35, <<x>>>>
  BY DEF IsMessage, Opens
<1>3. PICK z \in Seq(Fields) : z = m \o y
  BY <1>1, ConcatProperties
<1>4. Len(m) \in Nat /\ Len(m) # 0 /\ Len(y) \in Nat
  BY <1>1, EmptySeq, LenProperties
<1>5. Len(z) # 0 /\ z[1] = m[1]
  BY <1>1, <1>3, <1>4, ConcatProperties
<1>6. z # <<>>
  BY <1>5
<1>7. QED BY <1>2, <1>3, <1>5, <1>6 DEF IsMessage, Opens

LEMMA StandardIsMessage ==
  ASSUME NEW x \in (0..255) \ {SOH}, NEW n \in Nat, NEW t \in Values
  PROVE  IsMessage(StandardBody(x, n, t))
<1>1. <<x>> \in Values /\ DigitsOf(n) \in Values
  BY OneByteIsValue, NumbersAreValues
<1>2. PICK f1 \in Fields, f2 \in Fields, f3 \in Fields, f4 \in Fields, f5 \in Fields :
        f1 = <<35, <<x>>>> /\ f2 = <<34, DigitsOf(n)>> /\ f3 = <<49, t>> /\ f4 = <<52, t>> /\ f5 = <<56, t>>
  <2>1. 35 \in Nat /\ 35 # 10 /\ 34 \in Nat /\ 34 # 10 /\ 49 \in Nat /\ 49 # 10 /\ 52 \in Nat /\ 52 # 10 /\ 56 \in Nat /\ 56 # 10
    OBVIOUS
  <2>2. <<35, <<x>>>> \in Fields /\ <<34, DigitsOf(n)>> \in Fields /\ <<49, t>> \in Fields /\ <<52, t>> \in Fields /\ <<56, t>> \in Fields
    BY <1>1, <2>1, AreFields, Zenon
  <2>3. QED BY <2>2, Zenon
<1>3. PICK m : m = <<f1, f2, f3, f4, f5>>
  OBVIOUS
<1>4. m \in Seq(Fields) /\ m # <<>> /\ m[1] = f1
  BY <1>3
<1>5. m = StandardBody(x, n, t)
  BY <1>2, <1>3 DEF StandardBody
<1>6. QED BY <1>2, <1>4, <1>5 DEF IsMessage, Opens

LEMMA ChosenAreFields ==
  ASSUME NEW f \in Fields, NEW y \in Chosen({f})
  PROVE  y \in Seq(Fields)
<1>1. y = <<>> \/ y = <<f>>
  BY DEF Chosen
<1>2. <<>> \in Seq(Fields) /\ <<f>> \in Seq(Fields)
  OBVIOUS
<1>3. QED BY <1>1, <1>2

LEMMA HeartbeatsAre ==
  ASSUME NEW n \in Nat, NEW t \in Values, NEW m \in Heartbeats(n, t)
  PROVE  IsMessage(m)
<1>1. PICK f \in Fields :
        f = <<112, t>>
  <2>1. 112 \in Nat /\ 112 # 10
    OBVIOUS
  <2>2. <<112, t>> \in Fields
    BY <2>1, AreFields, Zenon
  <2>3. QED BY <2>2, Zenon
<1>2. PICK y \in Chosen({f}) : m = StandardBody(48, n, t) \o y
  BY <1>1 DEF Heartbeats
<1>3. 48 \in (0..255) \ {SOH}
  BY DEF SOH
<1>4. IsMessage(StandardBody(48, n, t))
  BY <1>3, StandardIsMessage
<1>5. QED BY <1>2, <1>4, ChosenAreFields, MoreFields

LEMMA LogonIs ==
  ASSUME NEW n \in Nat, NEW t \in Values
  PROVE  IsMessage(Logon(n, t))
<1>1. DigitsOf(0) \in Values /\ DigitsOf(10) \in Values
  BY NumbersAreValues
<1>2. PICK f \in Fields, g \in Fields :
        f = <<98, DigitsOf(0)>> /\ g = <<108, DigitsOf(10)>>
  <2>1. 98 \in Nat /\ 98 # 10 /\ 108 \in Nat /\ 108 # 10
    OBVIOUS
  <2>2. <<98, DigitsOf(0)>> \in Fields /\ <<108, DigitsOf(10)>> \in Fields
    BY <1>1, <2>1, AreFields, Zenon
  <2>3. QED BY <2>2, Zenon
<1>3. PICK y \in Seq(Fields) : y = <<f, g>>
  <2>1. <<f, g>> \in Seq(Fields)
    OBVIOUS
  <2>2. QED BY <2>1, Zenon
<1>4. 65 \in (0..255) \ {SOH}
  BY DEF SOH
<1>5. IsMessage(StandardBody(65, n, t))
  BY <1>4, StandardIsMessage
<1>6. Logon(n, t) = StandardBody(65, n, t) \o y
  BY <1>2, <1>3 DEF Logon
<1>7. QED BY <1>5, <1>6, MoreFields

LEMMA CoinbaseLogonsAre ==
  ASSUME NEW n \in Nat, NEW t \in Values, NEW m \in CoinbaseLogons(n, t)
  PROVE  IsMessage(m)
<1>0. Len(t) \in Nat
  BY LenProperties DEF Values
<1>1. DigitsOf(Len(t)) \in Values /\ DigitsOf(9) \in Values
  BY <1>0, NumbersAreValues
<1>2. PICK f1 \in Fields, f2 \in Fields, f3 \in Fields, f4 \in Fields, f5 \in Fields :
        /\ f1 = <<553, t>> /\ f2 = <<554, t>> /\ f3 = <<95, DigitsOf(Len(t))>>
        /\ f4 = <<96, t>> /\ f5 = <<1137, DigitsOf(9)>>
  <2>1. PICK k1 \in Nat, k2 \in Nat, k3 \in Nat, k4 \in Nat, k5 \in Nat :
          k1 = 553 /\ k1 # 10 /\ k2 = 554 /\ k2 # 10 /\ k3 = 95 /\ k3 # 10 /\ k4 = 96 /\ k4 # 10 /\ k5 = 1137 /\ k5 # 10
    OBVIOUS
  <2>b. k1 # 10 /\ k2 # 10 /\ k3 # 10 /\ k4 # 10 /\ k5 # 10
    BY <2>1
  <2>2. <<k1, t>> \in Fields /\ <<k2, t>> \in Fields /\ <<k3, DigitsOf(Len(t))>> \in Fields /\ <<k4, t>> \in Fields /\ <<k5, DigitsOf(9)>> \in Fields
    BY <1>1, <2>b, AreFields, Zenon
  <2>3. QED BY <2>1, <2>2
<1>3. PICK y \in Seq(Fields) : y = <<f1, f2, f3, f4, f5>>
  <2>1. <<f1, f2, f3, f4, f5>> \in Seq(Fields)
    OBVIOUS
  <2>2. QED BY <2>1, Zenon
<1>4. 89 \in (0..255) \ {SOH}
  BY DEF SOH
<1>5. PICK f \in Fields :
        f = <<8013, <<89>>>>
  <2>a. <<89>> \in Values
    BY <1>4, OneByteIsValue
  <2>1. PICK k1 \in Nat :
          k1 = 8013 /\ k1 # 10
    OBVIOUS
  <2>b. k1 # 10
    BY <2>1
  <2>2. <<k1, <<89>>>> \in Fields
    BY <2>a, <2>b, AreFields, Zenon
  <2>3. QED BY <2>1, <2>2
<1>6. PICK z \in Chosen({f}) : m = Logon(n, t) \o y \o z
  <2>1. CoinbaseLogons(n, t) = {Logon(n, t) \o y \o z : z \in Chosen({f})}
    BY <1>2, <1>3, <1>5 DEF CoinbaseLogons
  <2>2. QED BY <2>1
<1>7. PICK x : x = Logon(n, t) \o y
  OBVIOUS
<1>8. IsMessage(x)
  BY <1>7, LogonIs, MoreFields
<1>9. QED BY <1>6, <1>7, <1>8, ChosenAreFields, MoreFields

LEMMA MarketDataRequestIs ==
  ASSUME NEW n \in Nat, NEW t \in Values, NEW k \in 0..2
  PROVE  IsMessage(MarketDataRequest(n, t, k))
<1>1. k \in Nat /\ 1 \in Nat
  OBVIOUS
<1>2. DigitsOf(1) \in Values /\ DigitsOf(k) \in Values
  BY <1>1, NumbersAreValues
<1>3. PICK f1 \in Fields, f2 \in Fields, f3 \in Fields, f4 \in Fields :
        /\ f1 = <<262, t>> /\ f2 = <<263, DigitsOf(1)>> /\ f3 = <<264, DigitsOf(1)>>
        /\ f4 = <<146, DigitsOf(k)>>
  <2>1. PICK k1 \in Nat, k2 \in Nat, k3 \in Nat, k4 \in Nat :
          k1 = 262 /\ k1 # 10 /\ k2 = 263 /\ k2 # 10 /\ k3 = 264 /\ k3 # 10 /\ k4 = 146 /\ k4 # 10
    OBVIOUS
  <2>b. k1 # 10 /\ k2 # 10 /\ k3 # 10 /\ k4 # 10
    BY <2>1
  <2>2. <<k1, t>> \in Fields /\ <<k2, DigitsOf(1)>> \in Fields /\ <<k3, DigitsOf(1)>> \in Fields /\ <<k4, DigitsOf(k)>> \in Fields
    BY <1>2, <2>b, AreFields, Zenon
  <2>3. QED BY <2>1, <2>2
<1>4. PICK y \in Seq(Fields) : y = <<f1, f2, f3, f4>>
  <2>1. <<f1, f2, f3, f4>> \in Seq(Fields)
    OBVIOUS
  <2>2. QED BY <2>1, Zenon
<1>5. PICK g \in Fields :
        g = <<55, t>>
  <2>1. 55 \in Nat /\ 55 # 10
    OBVIOUS
  <2>2. <<55, t>> \in Fields
    BY <2>1, AreFields, Zenon
  <2>3. QED BY <2>2, Zenon
<1>6. PICK z : z = [i \in 1..k |-> g]
  OBVIOUS
<1>7. z \in Seq(Fields)
  <2>1. z \in [1..k -> Fields]
    BY <1>6
  <2>2. QED BY <1>1, <2>1, SeqDef
<1>8. 86 \in (0..255) \ {SOH}
  BY DEF SOH
<1>9. PICK x : x = StandardBody(86, n, t) \o y
  OBVIOUS
<1>10. IsMessage(x)
  BY <1>8, <1>9, StandardIsMessage, MoreFields
<1>11. MarketDataRequest(n, t, k) = x \o z
  BY <1>3, <1>4, <1>5, <1>6, <1>9 DEF MarketDataRequest
<1>12. QED BY <1>7, <1>10, <1>11, MoreFields

LEMMA NewOrdersAre ==
  ASSUME NEW n \in Nat, NEW t \in Values, NEW m \in NewOrders(n, t)
  PROVE  IsMessage(m)
<1>1. DigitsOf(1) \in Values /\ DigitsOf(2) \in Values /\ DigitsOf(3) \in Values
      /\ DigitsOf(4) \in Values /\ DigitsOf(6) \in Values
  BY NumbersAreValues
<1> DEFINE F(side, p, i) ==
             StandardBody(68, n, t) \o << <<11, t>>, <<55, t>>, <<54, DigitsOf(side)>>, <<38, t>>,
                                          <<40, DigitsOf(2)>>, <<44, t>> >> \o p \o i
           P == Chosen({<<18, DigitsOf(6)>>})
           I == Chosen({<<59, DigitsOf(3)>>, <<59, DigitsOf(4)>>})
<1>2. PICK side \in {1, 2}, p \in P, i \in I : m = F(side, p, i)
  <2>1. NewOrders(n, t) = {F(side, p, i) : side \in {1, 2}, p \in P, i \in I}
    BY DEF NewOrders
  <2> HIDE DEF F, P, I
  <2>2. QED BY <2>1
<1>3. PICK f1 \in Fields, f2 \in Fields, f3 \in Fields, f4 \in Fields, f5 \in Fields, f6 \in Fields :
        /\ f1 = <<11, t>> /\ f2 = <<55, t>> /\ f3 = <<54, DigitsOf(side)>> /\ f4 = <<38, t>>
        /\ f5 = <<40, DigitsOf(2)>> /\ f6 = <<44, t>>
  <2>a. DigitsOf(side) \in Values
    BY <1>1
  <2>1. 11 \in Nat /\ 11 # 10 /\ 55 \in Nat /\ 55 # 10 /\ 54 \in Nat /\ 54 # 10 /\ 38 \in Nat /\ 38 # 10 /\ 40 \in Nat /\ 40 # 10 /\ 44 \in Nat /\ 44 # 10
    OBVIOUS
  <2>2. <<11, t>> \in Fields /\ <<55, t>> \in Fields /\ <<54, DigitsOf(side)>> \in Fields /\ <<38, t>> \in Fields /\ <<40, DigitsOf(2)>> \in Fields /\ <<44, t>> \in Fields
    BY <1>1, <2>a, <2>1, AreFields, Zenon
  <2>3. QED BY <2>2, Zenon
<1>4. PICK y \in Seq(Fields) : y = <<f1, f2, f3, f4, f5, f6>>
  <2>1. <<f1, f2, f3, f4, f5, f6>> \in Seq(Fields)
    OBVIOUS
  <2>2. QED BY <2>1, Zenon
<1>5. <<18, DigitsOf(6)>> \in Fields /\ <<59, DigitsOf(3)>> \in Fields /\ <<59, DigitsOf(4)>> \in Fields
  BY <1>1, AreFields
<1>6. p \in Seq(Fields)
  BY <1>5, ChosenAreFields
<1>7. i \in Seq(Fields)
  <2>1. i \in Chosen({<<59, DigitsOf(3)>>}) \/ i \in Chosen({<<59, DigitsOf(4)>>})
    BY <1>2, Zenon DEF Chosen
  <2>2. QED BY <1>5, <2>1, ChosenAreFields
<1>8. 68 \in (0..255) \ {SOH}
  BY DEF SOH
<1>9. PICK x : x = StandardBody(68, n, t) \o y
  OBVIOUS
<1>10. IsMessage(x)
  BY <1>8, <1>9, StandardIsMessage, MoreFields
<1>11. PICK z : z = x \o p
  OBVIOUS
<1>12. IsMessage(z)
  BY <1>6, <1>10, <1>11, MoreFields
<1>13. m = z \o i
  BY <1>2, <1>3, <1>4, <1>9, <1>11
<1>14. QED BY <1>7, <1>12, <1>13, MoreFields

LEMMA CancelsAre ==
  ASSUME NEW n \in Nat, NEW t \in Values, NEW m \in Cancels(n, t)
  PROVE  IsMessage(m)
<1>1. DigitsOf(1) \in Values /\ DigitsOf(2) \in Values
  BY NumbersAreValues
<1>2. PICK side \in {1, 2} :
        m = StandardBody(70, n, t) \o << <<11, t>>, <<41, t>>, <<55, t>>, <<54, DigitsOf(side)>> >>
  BY Zenon DEF Cancels
<1>3. PICK f1 \in Fields, f2 \in Fields, f3 \in Fields, f4 \in Fields :
        f1 = <<11, t>> /\ f2 = <<41, t>> /\ f3 = <<55, t>> /\ f4 = <<54, DigitsOf(side)>>
  <2>a. DigitsOf(side) \in Values
    BY <1>1
  <2>1. 11 \in Nat /\ 11 # 10 /\ 41 \in Nat /\ 41 # 10 /\ 55 \in Nat /\ 55 # 10 /\ 54 \in Nat /\ 54 # 10
    OBVIOUS
  <2>2. <<11, t>> \in Fields /\ <<41, t>> \in Fields /\ <<55, t>> \in Fields /\ <<54, DigitsOf(side)>> \in Fields
    BY <1>1, <2>a, <2>1, AreFields, Zenon
  <2>3. QED BY <2>2, Zenon
<1>4. PICK y \in Seq(Fields) : y = <<f1, f2, f3, f4>>
  <2>1. <<f1, f2, f3, f4>> \in Seq(Fields)
    OBVIOUS
  <2>2. QED BY <2>1, Zenon
<1>5. 70 \in (0..255) \ {SOH}
  BY DEF SOH
<1>6. m = StandardBody(70, n, t) \o y
  BY <1>2, <1>3, <1>4
<1>7. QED BY <1>5, <1>6, StandardIsMessage, MoreFields

(* Every builder of the encoder makes such a message                        *)
LEMMA MessagesAre ==
  ASSUME NEW m \in Messages
  PROVE  IsMessage(m)
<1>1. PICK n \in SeqNums, t \in Texts :
        m \in Heartbeats(n, t) \cup {Logon(n, t)} \cup CoinbaseLogons(n, t)
                \cup {MarketDataRequest(n, t, k) : k \in 0..2}
                \cup NewOrders(n, t) \cup Cancels(n, t)
  BY DEF Messages
<1>2. n \in Nat /\ t \in Values
  BY MessagesAssumption DEF Values
<1>3. CASE m \in Heartbeats(n, t)
  BY <1>2, <1>3, HeartbeatsAre
<1>4. CASE m = Logon(n, t)
  BY <1>2, <1>4, LogonIs
<1>5. CASE m \in CoinbaseLogons(n, t)
  BY <1>2, <1>5, CoinbaseLogonsAre
<1>6. CASE \E k \in 0..2 : m = MarketDataRequest(n, t, k)
  BY <1>2, <1>6, MarketDataRequestIs
<1>7. CASE m \in NewOrders(n, t)
  BY <1>2, <1>7, NewOrdersAre
<1>8. CASE m \in Cancels(n, t)
  BY <1>2, <1>8, CancelsAre
<1>9. QED BY <1>1, <1>3, <1>4, <1>5, <1>6, <1>7, <1>8, Zenon

---------------------------------------------------------------------------
(* A message sent, read byte by byte, and its fields.                       *)

(* The bytes sent are a message for frame f, and the answer on the first g  *)
(* of them is the one FixFramer counts                                      *)
Sending(w, b, f, g, a, l, m, c, s, e) ==
  /\ WireBytes(w, b, m, c, s, e) /\ SoundBody(b, l) /\ CountsWire(f, w, b, l, m, c, e)
  /\ g \in 0..(e + 7) /\ AnswersAs(a, f, b, g, e)
SentAs(w, b, f, g, a) ==
  \E l \in Nat, m \in Nat, c \in 0..255, s \in Nat, e \in Nat : Sending(w, b, f, g, a, l, m, c, s, e)

FrameOf(m, l, fault0) == [digits |-> Len(DigitsOf(m)), body |-> l, fault |-> fault0]
Suits(m, c, l, b, fault0) ==
  /\ fault0 \in {"none", "checksum", "length", "type"}
  /\ m = IF fault0 = "length" THEN l + 8 ELSE l
  /\ c = Checksum(Preamble(m) \o b) <=> fault0 # "checksum"
  /\ b[5] = SOH <=> fault0 # "type"

LEMMA NothingAnswered ==
  ASSUME NEW f, NEW b, NEW e \in Nat, e >= 7, e = Counted!BodyEnd(f)
  PROVE  AnswersAs([kind |-> "more"], f, b, 0, e)
<1>1. PICK n \in Nat : n = 0 /\ n <= e + 7 /\ n <= e /\ n # e + 7 /\ n \notin {1, 4, 5}
  <2>1. 0 \in Nat /\ 0 <= e + 7 /\ 0 <= e /\ 0 # e + 7 /\ 0 \notin {1, 4, 5}
    OBVIOUS
  <2>2. QED BY <2>1
<1>2. Counted!NextFrame(f, n) = "more"
  BY <1>1, CountedIs
<1>3. PICK a : a = [kind |-> "more"]
  OBVIOUS
<1>4. a.kind = "more" /\ a.kind # "frame"
  BY <1>3
<1>5. AnswersAs(a, f, b, n, e)
  BY <1>1, <1>2, <1>4, Zenon DEF AnswersAs
<1>6. QED BY <1>1, <1>3, <1>5

LEMMA SentIs ==
  ASSUME NEW b \in Seq(0..255), NEW l \in Nat, SoundBody(b, l), NEW m \in Nat, NEW c \in 0..255,
         NEW fault0, Suits(m, c, l, b, fault0),
         NEW w, w = (Preamble(m) \o b) \o Field(<<10, Padded(c, 3)>>)
  PROVE  w # <<>> /\ SentAs(w, b, FrameOf(m, l, fault0), 0, [kind |-> "more"])
<1>1. PICK x \in Seq(0..255), s \in Nat, e \in Nat :
        x = (Preamble(m) \o b) \o Field(<<10, Padded(c, 3)>>) /\ Wired(x, b, m, c, s, e)
  BY MessageBytes
<1>2. x = w
  BY <1>1
<1>3. WireBytes(w, b, m, c, s, e) /\ SubSeq(w, 1, e) = Preamble(m) \o b
  BY <1>1, <1>2 DEF Wired
<1>4. s = 7 + Len(DigitsOf(m)) /\ e = s + Len(b) /\ Len(w) = e + 7 /\ l = Len(b)
  BY <1>3, Zenon DEF WireBytes, SoundBody
<1>5. w # <<>>
  BY <1>4
<1>6. PICK f : f = FrameOf(m, l, fault0)
  OBVIOUS
<1>7. f.digits = Len(DigitsOf(m)) /\ f.body = l /\ f.fault = fault0
  BY <1>6 DEF FrameOf
<1>8. PICK d \in Nat : d = Len(DigitsOf(m))
  BY DigitsAre
<1>9. e = Counted!BodyEnd(f) /\ e >= 7
  <2>1. Counted!BodyEnd(f) = 4 + 2 + d + 1 + l
    BY <1>7, <1>8 DEF Counted!BodyEnd, Counted!BodyStart
  <2>2. QED BY <1>4, <1>8, <2>1
<1>10. AnswersAs([kind |-> "more"], f, b, 0, e)
  BY <1>9, NothingAnswered
<1>11. CountsWire(f, w, b, l, m, c, e)
  BY <1>3, <1>7, Zenon DEF CountsWire, Suits
<1>12. 0 \in 0..(e + 7)
  OBVIOUS
<1>13. Sending(w, b, f, 0, [kind |-> "more"], l, m, c, s, e)
  BY <1>3, <1>10, <1>11, <1>12, Zenon DEF Sending
<1>14. SentAs(w, b, f, 0, [kind |-> "more"])
  BY <1>13, Zenon DEF SentAs
<1>15. QED BY <1>5, <1>6, <1>14

LEMMA OneMoreSent ==
  ASSUME NEW w, NEW b, NEW f, NEW g, NEW a, SentAs(w, b, f, g, a), g < Len(w)
  PROVE  SentAs(w, b, f, g + 1, NextFrameOf(SubSeq(w, 1, g + 1)))
<1>1. PICK l \in Nat, m \in Nat, c \in 0..255, s \in Nat, e \in Nat : Sending(w, b, f, g, a, l, m, c, s, e)
  BY Zenon DEF SentAs
<1>2. /\ WireBytes(w, b, m, c, s, e) /\ SoundBody(b, l) /\ CountsWire(f, w, b, l, m, c, e)
      /\ g \in 0..(e + 7)
  BY <1>1, Zenon DEF Sending
<1>3. w \in Seq(Int) /\ Len(w) = e + 7
  BY <1>2, Zenon DEF WireBytes
<1>4. PICK n \in Nat : n = g + 1 /\ n \in 0..(e + 7)
  <2>1. g + 1 \in Nat /\ g + 1 \in 0..(e + 7)
    BY <1>2, <1>3
  <2>2. QED BY <2>1
<1>5. n \in 0..Len(w)
  BY <1>3, <1>4
<1>6. FirstOfWire(SubSeq(w, 1, n), n, w)
  BY <1>3, <1>5, WireIsCut
<1>7. AnswersAs(NextFrameOf(SubSeq(w, 1, n)), f, b, n, e)
  BY <1>2, <1>6, KindIsCounted
<1>8. Sending(w, b, f, n, NextFrameOf(SubSeq(w, 1, n)), l, m, c, s, e)
  BY <1>2, <1>4, <1>7, Zenon DEF Sending
<1>9. SentAs(w, b, f, n, NextFrameOf(SubSeq(w, 1, n)))
  BY <1>8, Zenon DEF SentAs
<1>10. QED BY <1>4, <1>9

(* What a message that is being read has to do with the answer              *)
AnswerTells(w, b, f, g, a) ==
  /\ a.kind = Counted!NextFrame(f, g)
  /\ g = Len(w) => a.kind = (IF f.fault = "none" THEN "frame" ELSE "error")
  /\ a.kind = "frame" => f.fault = "none" /\ a.body = b

LEMMA SentTells ==
  ASSUME NEW w, NEW b, NEW f, NEW g, NEW a, SentAs(w, b, f, g, a)
  PROVE  AnswerTells(w, b, f, g, a)
<1>1. PICK l \in Nat, m \in Nat, c \in 0..255, s \in Nat, e \in Nat : Sending(w, b, f, g, a, l, m, c, s, e)
  BY Zenon DEF SentAs
<1>2. WireBytes(w, b, m, c, s, e) /\ AnswersAs(a, f, b, g, e)
  BY <1>1, Zenon DEF Sending
<1>3. Len(w) = e + 7
  BY <1>2, Zenon DEF WireBytes
<1>4. QED BY <1>2, <1>3, Zenon DEF AnswersAs, AnswerTells

(* The fields read so far are the first ones pushed                         *)
ReadTo(e, fs, r, o) ==
  /\ r \in Seq(Fields) /\ Len(r) <= Len(fs) /\ o = e[Len(r)]
  /\ \A j \in 1..Len(r) : r[j] = fs[j]
IsLaid(fs, b) == \E e : Laid(e, fs, b)
ReadAs(fs, b, r, o) == \E e : Laid(e, fs, b) /\ ReadTo(e, fs, r, o)

LEMMA NothingIsRead ==
  ASSUME NEW fs, NEW b, IsLaid(fs, b)
  PROVE  ReadAs(fs, b, <<>>, 0)
<1>1. PICK e : Laid(e, fs, b)
  BY DEF IsLaid
<1>2. fs \in Seq(Fields) /\ e[0] = 0
  BY <1>1, Zenon DEF Laid
<1>3. PICK r : r = <<>>
  OBVIOUS
<1>4. r \in Seq(Fields) /\ Len(r) = 0 /\ Len(fs) \in Nat
  BY <1>2, <1>3, LenProperties
<1>5. Len(r) <= Len(fs) /\ \A j \in 1..Len(r) : r[j] = fs[j]
  BY <1>4
<1>6. ReadTo(e, fs, r, 0)
  BY <1>2, <1>4, <1>5 DEF ReadTo
<1>7. QED BY <1>1, <1>3, <1>6 DEF ReadAs

LEMMA OneMoreRead ==
  ASSUME NEW fs, NEW b, NEW r, NEW o, ReadAs(fs, b, r, o), NextFieldOf(b, o).kind = "field"
  PROVE  ReadAs(fs, b, Append(r, NextFieldOf(b, o).field), NextFieldOf(b, o).end)
<1>1. PICK e : Laid(e, fs, b) /\ ReadTo(e, fs, r, o)
  BY DEF ReadAs
<1>2. r \in Seq(Fields) /\ Len(r) <= Len(fs) /\ o = e[Len(r)] /\ \A j \in 1..Len(r) : r[j] = fs[j]
  BY <1>1, Zenon DEF ReadTo
<1>3. fs \in Seq(Fields)
  BY <1>1, Zenon DEF Laid
<1>4. PICK i \in Nat, n \in Nat : i = Len(r) /\ n = Len(fs) /\ i <= n
  BY <1>2, <1>3, LenProperties
<1>5. i \in 0..Len(fs)
  BY <1>4
<1>6. FieldsFollow(e, fs, b, i)
  BY <1>1, <1>5, FieldsAreRead
<1>7. PICK x : x = NextFieldOf(b, o)
  OBVIOUS
<1>8. x.kind # "none" /\ o = e[i]
  BY <1>2, <1>4, <1>7
<1>9. i # n
  BY <1>4, <1>6, <1>7, <1>8 DEF FieldsFollow
<1>10. i < n
  BY <1>4, <1>9
<1>11. x.field = fs[i + 1] /\ x.end = e[i + 1]
  BY <1>4, <1>6, <1>7, <1>8, <1>10 DEF FieldsFollow, Yields
<1>12. PICK f \in Fields : f = fs[i + 1]
  <2>1. i + 1 \in 1..Len(fs)
    BY <1>4, <1>10
  <2>2. QED BY <1>3, <2>1, ElementOfSeq
<1>13. PICK z \in Seq(Fields) : z = Append(r, f) /\ Len(z) = i + 1 /\ z[i + 1] = f /\ \A j \in 1..i : z[j] = r[j]
  <2>1. PICK z \in Seq(Fields) : z = Append(r, f)
    BY <1>2, AppendProperties
  <2>2. Len(z) = i + 1 /\ z[i + 1] = f /\ \A j \in 1..i : z[j] = r[j]
    BY <1>2, <1>4, <2>1
  <2>3. QED BY <2>1, <2>2
<1>14. ASSUME NEW j \in 1..(i + 1) PROVE z[j] = fs[j]
  <2>1. CASE j \in 1..i
    BY <1>2, <1>4, <1>13, <2>1
  <2>2. CASE j = i + 1
    BY <1>12, <1>13, <2>2
  <2>3. QED BY <2>1, <2>2
<1>15. i + 1 <= n
  BY <1>4, <1>10
<1>16. ReadTo(e, fs, z, x.end)
  BY <1>4, <1>11, <1>13, <1>14, <1>15 DEF ReadTo
<1>17. z = Append(r, x.field)
  BY <1>11, <1>12, <1>13
<1>18. QED BY <1>1, <1>7, <1>16, <1>17 DEF ReadAs

LEMMA ReadTells ==
  ASSUME NEW fs, NEW b, NEW r, NEW o, ReadAs(fs, b, r, o)
  PROVE  IsPrefix(r, fs) /\ (NextFieldOf(b, o).kind = "none" => r = fs)
<1>1. PICK e : Laid(e, fs, b) /\ ReadTo(e, fs, r, o)
  BY DEF ReadAs
<1>2. r \in Seq(Fields) /\ Len(r) <= Len(fs) /\ o = e[Len(r)] /\ \A j \in 1..Len(r) : r[j] = fs[j]
  BY <1>1, Zenon DEF ReadTo
<1>3. fs \in Seq(Fields)
  BY <1>1, Zenon DEF Laid
<1>4. PICK i \in Nat, n \in Nat : i = Len(r) /\ n = Len(fs) /\ i <= n
  BY <1>2, <1>3, LenProperties
<1>5. PICK k \in Nat : k = 1
  OBVIOUS
<1>6. PICK x, y : x = SubSeq(r, k, i) /\ y = SubSeq(fs, k, i)
  OBVIOUS
<1>7. k \in 1..(i + 1) /\ k \in 1..(n + 1) /\ i \in (k - 1)..i /\ i \in (k - 1)..n /\ i - k + 1 = i
  BY <1>4, <1>5
<1>8. x \in Seq(Fields) /\ Len(x) = i /\ \A j \in 1..i : x[j] = r[k + j - 1]
  BY <1>2, <1>4, <1>6, <1>7, SubSeqProperties
<1>9. y \in Seq(Fields) /\ Len(y) = i /\ \A j \in 1..i : y[j] = fs[k + j - 1]
  BY <1>3, <1>4, <1>6, <1>7, SubSeqProperties
<1>10. \A j \in 1..i : x[j] = y[j]
  <2>1. \A j \in 1..i : k + j - 1 = j
    BY <1>5
  <2>2. QED BY <1>2, <1>4, <1>8, <1>9, <2>1
<1>11. x = y
  BY <1>8, <1>9, <1>10, SeqEqual
<1>12. IsPrefix(r, fs)
  BY <1>2, <1>4, <1>5, <1>6, <1>11 DEF IsPrefix
<1>13. ASSUME NextFieldOf(b, o).kind = "none" PROVE r = fs
  <2>1. i \in 0..Len(fs)
    BY <1>4
  <2>2. FieldsFollow(e, fs, b, i)
    BY <1>1, <2>1, FieldsAreRead
  <2>3. ~ (i < n)
    BY <1>2, <1>4, <1>13, <2>2 DEF FieldsFollow, Yields
  <2>4. Len(r) = Len(fs)
    BY <1>4, <2>3
  <2>5. QED BY <1>2, <1>3, <2>4, SeqEqual
<1>14. QED BY <1>12, <1>13

Built ==
  /\ fault \in {"none", "checksum", "length", "type"}
  /\ todo \in Seq(Fields) /\ pushed \in Seq(Fields)
  /\ IF pushed = <<>> THEN Opens(todo) ELSE Opens(pushed)
Unsent == wire = <<>> => IsLaid(pushed, body) /\ got = 0 /\ answer = [kind |-> "more"]
Sent ==
  wire # <<>> =>
    /\ todo = <<>> /\ SentAs(wire, body, AsFrame, got, answer)
    /\ fault = "none" => IsLaid(pushed, body)
ReadInOrder ==
  IF answer.kind = "frame" THEN ReadAs(pushed, answer.body, read, offset)
  ELSE offset = 0 /\ read = <<>>

(* While the builder pushes, the body is its fields laid one behind the     *)
(* other; once sent, the bytes in the buffer and the last answer are those  *)
(* of a frame; what the iterator has yielded are the first fields pushed.   *)
MessagesInv == Built /\ Unsent /\ Sent /\ ReadInOrder

LEMMA MessagesBegin == MessagesInit => MessagesInv
<1> SUFFICES ASSUME MessagesInit PROVE MessagesInv
  OBVIOUS
<1>1. /\ todo \in Messages /\ pushed = <<>> /\ body = <<>>
      /\ fault \in {"none", "checksum", "length", "type"}
      /\ wire = <<>> /\ got = 0 /\ answer = [kind |-> "more"] /\ offset = 0 /\ read = <<>>
  BY DEF MessagesInit
<1>2. todo \in Seq(Fields) /\ Opens(todo)
  BY <1>1, MessagesAre DEF IsMessage
<1>3. <<>> \in Seq(Fields)
  BY EmptySeq
<1>4. IsLaid(<<>>, <<>>)
  BY NothingLaid DEF IsLaid
<1>5. answer.kind # "frame"
  BY <1>1
<1>6. Built
  BY <1>1, <1>2, <1>3, Zenon DEF Built
<1>7. Unsent /\ Sent
  BY <1>1, <1>4, Zenon DEF Unsent, Sent
<1>8. ReadInOrder
  BY <1>1, <1>5, Zenon DEF ReadInOrder
<1>9. QED BY <1>6, <1>7, <1>8 DEF MessagesInv

LEMMA PushFieldTells == MessagesInv /\ PushField => MessagesInv'
<1> SUFFICES ASSUME MessagesInv, PushField PROVE MessagesInv'
  OBVIOUS
<1>1. /\ todo # <<>> /\ body' = body \o Field(Head(todo)) /\ pushed' = Append(pushed, Head(todo))
      /\ todo' = Tail(todo) /\ UNCHANGED <<fault, wire, got, answer, offset, read>>
  BY DEF PushField, readerVars
<1>2. /\ fault \in {"none", "checksum", "length", "type"}
      /\ todo \in Seq(Fields) /\ pushed \in Seq(Fields)
      /\ IF pushed = <<>> THEN Opens(todo) ELSE Opens(pushed)
  BY DEF MessagesInv, Built
<1>3. wire = <<>> /\ IsLaid(pushed, body) /\ got = 0 /\ answer = [kind |-> "more"]
  BY <1>1, Zenon DEF MessagesInv, Sent, Unsent
<1>4. answer.kind # "frame"
  BY <1>3
<1>5. offset = 0 /\ read = <<>>
  BY <1>4, Zenon DEF MessagesInv, ReadInOrder
<1>6. PICK f \in Fields : f = Head(todo) /\ f = todo[1]
  BY <1>1, <1>2
<1>7. Tail(todo) \in Seq(Fields)
  BY <1>1, <1>2
<1>8. PICK fs \in Seq(Fields) : fs = pushed
  BY <1>2
<1>9. PICK gs \in Seq(Fields) : gs = Append(fs, f)
  BY AppendProperties
<1>10. gs # <<>> /\ gs[1] = IF fs = <<>> THEN f ELSE fs[1]
  BY <1>9
<1>11. Opens(gs)
  <2>1. CASE fs = <<>>
    <3>1. Opens(todo) /\ gs[1] = todo[1]
      BY <1>2, <1>6, <1>8, <1>10, <2>1
    <3>2. QED BY <1>10, <3>1 DEF Opens
  <2>2. CASE fs # <<>>
    <3>1. Opens(fs) /\ gs[1] = fs[1]
      BY <1>2, <1>8, <1>10, <2>2
    <3>2. QED BY <1>10, <3>1 DEF Opens
  <2>3. QED BY <2>1, <2>2
<1>12. PICK e : Laid(e, fs, body)
  BY <1>3, <1>8 DEF IsLaid
<1>13. PICK b \in Seq(0..255) : b = body
  BY <1>12 DEF Laid
<1>14. Laid(e, fs, b)
  BY <1>12, <1>13
<1>15. \E g : Laid(g, Append(fs, f), b \o Field(f))
  BY <1>14, OneMoreLaid
<1>16. pushed' = Append(fs, f) /\ body' = b \o Field(f)
  BY <1>1, <1>6, <1>8, <1>13
<1>17. IsLaid(pushed', body')
  BY <1>15, <1>16, Zenon DEF IsLaid
<1>18. Built'
  BY <1>1, <1>2, <1>7, <1>9, <1>10, <1>11, <1>16, Zenon DEF Built
<1>19. Unsent' /\ Sent'
  BY <1>1, <1>3, <1>17, Zenon DEF Unsent, Sent
<1>20. ReadInOrder'
  <2>1. answer'.kind # "frame" /\ offset' = 0 /\ read' = <<>>
    BY <1>1, <1>4, <1>5
  <2>2. QED BY <2>1, Zenon DEF ReadInOrder
<1>21. QED BY <1>18, <1>19, <1>20 DEF MessagesInv

LEMMA SmallRemainder ==
  ASSUME NEW k \in Nat, k < 256
  PROVE  k % 256 = k
<1>1. PICK r \in 0..255, q \in Int : r = k % 256 /\ q = k \div 256
  OBVIOUS
<1>2. k = 256 * q + r
  BY <1>1
<1>3. q = 0
  BY <1>2
<1>4. QED BY <1>1, <1>2, <1>3

LEMMA SumsDiffer ==
  ASSUME NEW sum \in 0..255
  PROVE  sum % 256 = sum /\ (sum + 1) % 256 # sum
<1>1. sum % 256 = sum
  BY SmallRemainder
<1>2. CASE sum = 255
  <2>1. (255 + 1) % 256 = 0
    OBVIOUS
  <2>2. QED BY <1>1, <1>2, <2>1
<1>3. CASE sum # 255
  <2>1. PICK k \in Nat : k = sum + 1 /\ k < 256 /\ k # sum
    BY <1>3
  <2>2. k % 256 = k
    BY <2>1, SmallRemainder
  <2>3. (sum + 1) % 256 = k
    BY <2>1, <2>2, Zenon
  <2>4. QED BY <1>1, <2>1, <2>3, Zenon
<1>4. QED BY <1>2, <1>3

LEMMA SendTells == MessagesInv /\ Send => MessagesInv'
<1> SUFFICES ASSUME MessagesInv, Send PROVE MessagesInv'
  OBVIOUS
<1>1. /\ todo = <<>> /\ wire = <<>>
      /\ body' = IF fault = "type" THEN LongType ELSE body
      /\ wire' = IF fault = "none" THEN Wrap(body) ELSE Spoil(body')
      /\ UNCHANGED <<todo, pushed, fault, got, answer, offset, read>>
  BY DEF Send, readerVars
<1>2. /\ fault \in {"none", "checksum", "length", "type"}
      /\ todo \in Seq(Fields) /\ pushed \in Seq(Fields)
      /\ IF pushed = <<>> THEN Opens(todo) ELSE Opens(pushed)
  BY DEF MessagesInv, Built
<1>3. IsLaid(pushed, body) /\ got = 0 /\ answer = [kind |-> "more"]
  BY <1>1, Zenon DEF MessagesInv, Unsent
<1>4. answer.kind # "frame"
  BY <1>3
<1>5. offset = 0 /\ read = <<>>
  BY <1>4, Zenon DEF MessagesInv, ReadInOrder
<1>6. Opens(pushed)
  BY <1>1, <1>2 DEF Opens
<1>7. PICK e : Laid(e, pushed, body)
  BY <1>3 DEF IsLaid
<1>8. PICK b0 \in Seq(0..255) : b0 = body
  BY <1>7 DEF Laid
<1>9. PICK l0 \in Nat : l0 = Len(b0)
  BY LenProperties
<1>10. SoundBody(b0, l0) /\ b0[5] = SOH
  BY <1>6, <1>7, <1>8, <1>9, LaidIsSound
<1>11. PICK b \in Seq(0..255), l \in Nat :
         b = body' /\ l = Len(b) /\ SoundBody(b, l) /\ (b[5] = SOH <=> fault # "type")
  <2>1. CASE fault = "type"
    <3>1. PICK u \in Seq(0..255) : /\ u = Field(<<35, <<85, 55>>>>) \o SubSeq(b0, 6, Len(b0))
                                   /\ Len(u) = l0 + 1 /\ SoundBody(u, l0 + 1) /\ u[5] # SOH
      BY <1>10, LongTypeIsSound
    <3>2. u = body'
      BY <1>1, <1>8, <2>1, <3>1 DEF LongType
    <3>3. PICK l1 \in Nat : l1 = l0 + 1
      OBVIOUS
    <3>4. Len(u) = l1 /\ SoundBody(u, l1) /\ u[5] # SOH
      BY <3>1, <3>3
    <3>5. QED BY <2>1, <3>2, <3>4, Zenon
  <2>2. CASE fault # "type"
    BY <1>1, <1>8, <1>9, <1>10, <2>2
  <2>3. QED BY <2>1, <2>2
<1>12. PICK m \in Nat : m = (IF fault = "length" THEN l + 8 ELSE l)
  OBVIOUS
<1>13. PICK front \in Seq(0..255) : front = Preamble(m) \o b
  BY FrontIsBytes
<1>14. PICK sum \in 0..255 : sum = Checksum(front)
  BY ChecksumIsByte
<1>15. PICK c \in 0..255 : c = (IF fault = "checksum" THEN (sum + 1) % 256 ELSE sum)
  OBVIOUS
<1>a. sum % 256 = sum /\ (sum + 1) % 256 # sum
  BY SumsDiffer
<1>16. c = sum <=> fault # "checksum"
  BY <1>15, <1>a, Zenon
<1>17. Suits(m, c, l, b, fault)
  BY <1>2, <1>11, <1>12, <1>13, <1>14, <1>16, Zenon DEF Suits
<1>18. wire' = front \o Field(<<10, Padded(c, 3)>>)
  <2>1. CASE fault = "none"
    <3>1. body' = body /\ m = Len(body) /\ b = body /\ c = sum
      BY <1>1, <1>11, <1>12, <1>15, <2>1
    <3>2. QED BY <1>1, <1>13, <1>14, <2>1, <3>1 DEF Wrap
  <2>2. CASE fault # "none"
    <3>1. wire' = Spoil(b)
      BY <1>1, <1>11, <2>2
    <3>2. StatedLength(b) = m
      BY <1>11, <1>12 DEF StatedLength
    <3>3. c = (IF fault = "checksum" THEN sum + 1 ELSE sum) % 256
      BY <1>15, <1>a, Zenon
    <3>4. QED BY <1>13, <1>14, <3>1, <3>2, <3>3, Zenon DEF Spoil
  <2>3. QED BY <2>1, <2>2
<1>19. wire' # <<>> /\ SentAs(wire', b, FrameOf(m, l, fault), 0, [kind |-> "more"])
  BY <1>11, <1>13, <1>17, <1>18, SentIs
<1>20. AsFrame' = FrameOf(m, l, fault)
  <2>1. AsFrame' = [digits |-> Len(DigitsOf(IF fault' = "length" THEN Len(body') + 8 ELSE Len(body'))),
                    body |-> Len(body'), fault |-> fault']
    BY DEF AsFrame, StatedLength
  <2>2. Len(body') = l /\ fault' = fault
    BY <1>1, <1>11
  <2>3. QED BY <1>12, <2>1, <2>2 DEF FrameOf
<1>21. fault = "none" => IsLaid(pushed', body')
  BY <1>1, <1>3
<1>22. SentAs(wire', body', AsFrame', got', answer')
  <2>1. body' = b /\ got' = 0 /\ answer' = [kind |-> "more"]
    BY <1>1, <1>3, <1>11
  <2>2. QED BY <1>19, <1>20, <2>1, Zenon
<1>23. Built'
  BY <1>1, <1>2, Zenon DEF Built
<1>24. Unsent' /\ Sent'
  BY <1>1, <1>19, <1>21, <1>22, Zenon DEF Unsent, Sent
<1>25. ReadInOrder'
  <2>1. answer'.kind # "frame" /\ offset' = 0 /\ read' = <<>>
    BY <1>1, <1>4, <1>5
  <2>2. QED BY <2>1, Zenon DEF ReadInOrder
<1>26. QED BY <1>23, <1>24, <1>25 DEF MessagesInv

LEMMA ReceiveTells == MessagesInv /\ Receive => MessagesInv'
<1> SUFFICES ASSUME MessagesInv, Receive PROVE MessagesInv'
  OBVIOUS
<1>1. /\ got < Len(wire) /\ answer.kind # "frame" /\ got' = got + 1
      /\ answer' = NextFrameOf(SubSeq(wire, 1, got'))
      /\ UNCHANGED <<todo, pushed, body, fault, wire, offset, read>>
  BY DEF Receive
<1>2. wire # <<>>
  <2>1. ASSUME wire = <<>> PROVE FALSE
    <3>1. got = 0
      BY <2>1, Zenon DEF MessagesInv, Unsent
    <3>2. QED BY <1>1, <2>1, <3>1
  <2>2. QED BY <2>1
<1>3. todo = <<>> /\ SentAs(wire, body, AsFrame, got, answer) /\ (fault = "none" => IsLaid(pushed, body))
  BY <1>2, Zenon DEF MessagesInv, Sent
<1>4. SentAs(wire, body, AsFrame, got + 1, NextFrameOf(SubSeq(wire, 1, got + 1)))
  BY <1>1, <1>3, OneMoreSent
<1>5. AsFrame' = AsFrame
  BY <1>1 DEF AsFrame, StatedLength
<1>6. SentAs(wire', body', AsFrame', got', answer')
  BY <1>1, <1>4, <1>5, Zenon
<1>7. offset = 0 /\ read = <<>>
  BY <1>1, Zenon DEF MessagesInv, ReadInOrder
<1>8. answer'.kind = "frame" => fault = "none" /\ answer'.body = body
  <2>1. AnswerTells(wire', body', AsFrame', got', answer')
    BY <1>6, SentTells
  <2>2. AsFrame'.fault = fault /\ body' = body
    BY <1>1, <1>5 DEF AsFrame
  <2>3. QED BY <2>1, <2>2, Zenon DEF AnswerTells
<1>9. Built'
  BY <1>1, Zenon DEF MessagesInv, Built
<1>10. Unsent' /\ Sent'
  BY <1>1, <1>2, <1>3, <1>6, Zenon DEF Unsent, Sent
<1>11. ReadInOrder'
  <2>1. CASE answer'.kind = "frame"
    <3>1. ReadAs(pushed, body, <<>>, 0)
      BY <1>3, <1>8, <2>1, NothingIsRead
    <3>2. QED BY <1>1, <1>7, <1>8, <2>1, <3>1, Zenon DEF ReadInOrder
  <2>2. CASE answer'.kind # "frame"
    BY <1>1, <1>7, <2>2, Zenon DEF ReadInOrder
  <2>3. QED BY <2>1, <2>2
<1>12. QED BY <1>9, <1>10, <1>11 DEF MessagesInv

LEMMA NextFieldTells == MessagesInv /\ NextField => MessagesInv'
<1> SUFFICES ASSUME MessagesInv, NextField PROVE MessagesInv'
  OBVIOUS
<1>1. /\ answer.kind = "frame" /\ NextFieldOf(answer.body, offset).kind = "field"
      /\ read' = Append(read, NextFieldOf(answer.body, offset).field)
      /\ offset' = NextFieldOf(answer.body, offset).end
      /\ UNCHANGED <<todo, pushed, body, fault, wire, got, answer>>
  BY Zenon DEF NextField
<1>2. ReadAs(pushed, answer.body, read, offset)
  BY <1>1, Zenon DEF MessagesInv, ReadInOrder
<1>3. ReadAs(pushed, answer.body, Append(read, NextFieldOf(answer.body, offset).field),
             NextFieldOf(answer.body, offset).end)
  BY <1>1, <1>2, OneMoreRead
<1>4. ReadInOrder'
  BY <1>1, <1>3, Zenon DEF ReadInOrder
<1>5. Built'
  BY <1>1, Zenon DEF MessagesInv, Built
<1>6. AsFrame' = AsFrame
  BY <1>1 DEF AsFrame, StatedLength
<1>7. Unsent' /\ Sent'
  BY <1>1, <1>6, Zenon DEF MessagesInv, Unsent, Sent
<1>8. QED BY <1>4, <1>5, <1>7 DEF MessagesInv

LEMMA MessagesStay == MessagesInv /\ UNCHANGED messageVars => MessagesInv'
<1> SUFFICES ASSUME MessagesInv, UNCHANGED messageVars PROVE MessagesInv'
  OBVIOUS
<1>1. UNCHANGED <<todo, pushed, body, fault, wire, got, answer, offset, read>>
  BY DEF messageVars, readerVars
<1>2. AsFrame' = AsFrame
  BY <1>1 DEF AsFrame, StatedLength
<1>3. QED BY <1>1, <1>2, Zenon DEF MessagesInv, Built, Unsent, Sent, ReadInOrder

LEMMA MessagesStep == MessagesInv /\ [MessagesNext]_messageVars => MessagesInv'
BY PushFieldTells, SendTells, ReceiveTells, NextFieldTells, MessagesStay DEF MessagesNext

LEMMA MessagesTell == MessagesInv => EncodedIsRead
<1> SUFFICES ASSUME MessagesInv PROVE EncodedIsRead
  OBVIOUS
<1>1. ASSUME wire # <<>> PROVE AnswerTells(wire, body, AsFrame, got, answer)
  <2>1. SentAs(wire, body, AsFrame, got, answer)
    BY <1>1, Zenon DEF MessagesInv, Sent
  <2>2. QED BY <2>1, SentTells
<1>2. wire # <<>> => answer.kind = Counted!NextFrame(AsFrame, got)
  BY <1>1, Zenon DEF AnswerTells
<1>3. ASSUME got > 0, got = Len(wire) PROVE answer.kind = (IF fault = "none" THEN "frame" ELSE "error")
  <2>1. wire # <<>>
    BY <1>3
  <2>2. AsFrame.fault = fault
    BY DEF AsFrame
  <2>3. QED BY <1>1, <1>3, <2>1, <2>2, Zenon DEF AnswerTells
<1>4. pushed \in Seq(Fields)
  BY DEF MessagesInv, Built
<1>5. CASE answer.kind = "frame"
  <2>1. ReadAs(pushed, answer.body, read, offset)
    BY <1>5, Zenon DEF MessagesInv, ReadInOrder
  <2>2. IsPrefix(read, pushed) /\ (NextFieldOf(answer.body, offset).kind = "none" => read = pushed)
    BY <2>1, ReadTells
  <2>3. QED BY <1>2, <1>3, <2>2, Zenon DEF EncodedIsRead
<1>6. CASE answer.kind # "frame"
  <2>1. read = <<>>
    BY <1>6, Zenon DEF MessagesInv, ReadInOrder
  <2>2. IsPrefix(<<>>, pushed)
    BY <1>4, LenProperties DEF IsPrefix
  <2>3. QED BY <1>2, <1>3, <1>6, <2>1, <2>2, Zenon DEF EncodedIsRead
<1>7. QED BY <1>5, <1>6

(* Whatever the encoder is given, its message and every spoiled one are     *)
(* read back as FixFramer counts them, field by field and in order.         *)
THEOREM MessagesAreRead == MessagesSpec => []EncodedIsRead
<1>1. MessagesInit => MessagesInv
  BY MessagesBegin
<1>2. MessagesInv /\ [MessagesNext]_messageVars => MessagesInv'
  BY MessagesStep
<1>3. MessagesInv => EncodedIsRead
  BY MessagesTell
<1>4. QED BY <1>1, <1>2, <1>3, PTL DEF MessagesSpec

---------------------------------------------------------------------------
(* The composition.                                                         *)

(* The parts run as they would alone                                        *)
THEOREM ParsingRunsItsParts ==
  ParsingSpec => FramerSpec /\ DecimalsSpec /\ MessagesSpec
<1>1. ParsingInit => FramerInit /\ DecimalsInit /\ MessagesInit
  BY DEF ParsingInit
<1>2. [ParsingNext]_parsingVars => [FramerNext]_framerVars
  BY DEF ParsingNext, parsingVars
<1>3. [ParsingNext]_parsingVars => [DecimalsNext]_decimalsVars
  BY DEF ParsingNext, parsingVars
<1>4. [ParsingNext]_parsingVars => [MessagesNext]_messageVars
  BY DEF ParsingNext, parsingVars
<1>5. QED
  BY <1>1, <1>2, <1>3, <1>4, PTL DEF ParsingSpec, FramerSpec, DecimalsSpec, MessagesSpec
=============================================================================
