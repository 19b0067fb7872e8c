------------------------ MODULE MarketSession_proofs ------------------------
(***************************************************************************)
(* The market session numbers its messages consecutively and subscribes at  *)
(* most once, whatever frames arrive and whichever write fails; a book      *)
(* shows a top the exchange has had, and its latest when all has been read. *)
(***************************************************************************)
EXTENDS MarketSession, Integers, FiniteSetTheorems, WellFoundedInduction, TLAPS

Sent(what) == \E k \in 1..Len(written) : written[k].what = what

(* What makes it inductive: the flag tells whether the request was written  *)
NumberInv ==
  /\ written \in Seq([what : {"Logon", "Heartbeat", "MarketDataRequest"}, seq : Nat])
  /\ senderSeq \in Nat
  /\ OneCounterOneSubscription
  /\ ~ subscribed => ~ Sent("MarketDataRequest")

(* A message written under the next number                                  *)
LEMMA WriteKeepsNumbers ==
  ASSUME NumberInv, pc # "err",
         NEW what \in {"Logon", "Heartbeat", "MarketDataRequest"}, Write(what),
         what = "MarketDataRequest" => ~ subscribed /\ subscribed',
         what # "MarketDataRequest" => subscribed' = subscribed
  PROVE  NumberInv'
<1> DEFINE m == [what |-> what, seq |-> senderSeq]
<1>1. /\ written' = Append(written, m) /\ senderSeq' = senderSeq + 1
      /\ m \in [what : {"Logon", "Heartbeat", "MarketDataRequest"}, seq : Nat]
      /\ m.what = what /\ m.seq = Len(written) + 1 /\ senderSeq = Len(written) + 1
  BY DEF Write, NumberInv, OneCounterOneSubscription
<1> HIDE DEF m
<1>2. /\ written' \in Seq([what : {"Logon", "Heartbeat", "MarketDataRequest"}, seq : Nat])
      /\ Len(written) \in Nat /\ Len(written') = Len(written) + 1
      /\ \A k \in 1..Len(written) : written'[k] = written[k]
      /\ written'[Len(written) + 1] = m
  BY <1>1 DEF NumberInv
<1>3. \A k \in 1..Len(written') : written'[k].seq = k
  BY <1>1, <1>2 DEF NumberInv, OneCounterOneSubscription
<1>4. senderSeq' = Len(written') + 1 /\ senderSeq' \in Nat
  BY <1>1, <1>2
<1>5. CASE what = "MarketDataRequest"
  <2>1. \A k \in 1..Len(written') :
          written'[k].what = "MarketDataRequest" => k = Len(written')
    BY <1>2, <1>5 DEF NumberInv, Sent
  <2>2. QED BY <1>2, <1>3, <1>4, <1>5, <2>1 DEF NumberInv, OneCounterOneSubscription
<1>6. CASE what # "MarketDataRequest"
  <2>1. \A k \in 1..Len(written') :
          written'[k].what = "MarketDataRequest" => k \in 1..Len(written) /\ written'[k] = written[k]
    BY <1>1, <1>2, <1>6
  <2>2. ~ subscribed' => ~ Sent("MarketDataRequest")'
    BY <1>6, <2>1 DEF NumberInv, Sent
  <2>3. \A j, k \in 1..Len(written') :
          written'[j].what = "MarketDataRequest" /\ written'[k].what = "MarketDataRequest" => j = k
    BY <2>1 DEF NumberInv, OneCounterOneSubscription
  <2>4. QED BY <1>2, <1>3, <1>4, <2>2, <2>3 DEF NumberInv, OneCounterOneSubscription
<1>7. QED BY <1>5, <1>6

(* A step that writes nothing keeps the numbers, if it ends the thread with *)
(* an error or spends no number and brings no ended thread back             *)
LEMMA SilentKeepsNumbers ==
  ASSUME NumberInv, UNCHANGED <<written, subscribed>>, senderSeq' \in Nat,
         pc' = "err" \/ (pc # "err" /\ senderSeq' = senderSeq) \/ UNCHANGED <<pc, senderSeq>>
  PROVE  NumberInv'
  BY DEF NumberInv, OneCounterOneSubscription, Sent

LEMMA NumberStep == NumberInv /\ [MarketNext]_marketVars => NumberInv'
<1> SUFFICES ASSUME NumberInv, [MarketNext]_marketVars PROVE NumberInv'
  OBVIOUS
<1>0. senderSeq \in Nat
  BY DEF NumberInv
<1>1. CASE Connect
  <2>1. CASE Write("Logon")
    BY <1>1, <2>1, WriteKeepsNumbers DEF Connect
  <2>2. CASE pc' = "err" /\ UNCHANGED written /\ senderSeq' \in {senderSeq, senderSeq + 1}
    BY <1>0, <1>1, <2>2, SilentKeepsNumbers DEF Connect
  <2>3. QED BY <1>1, <2>1, <2>2 DEF Connect
<1>2. CASE HandleLogon
  <2>1. CASE ~ subscribed /\ Write("MarketDataRequest") /\ subscribed' = TRUE
    BY <1>2, <2>1, WriteKeepsNumbers DEF HandleLogon, Handling
  <2>2. CASE subscribed /\ UNCHANGED <<pc, written, senderSeq, subscribed>>
    BY <1>0, <2>2, SilentKeepsNumbers
  <2>3. CASE WriteFails /\ UNCHANGED <<written, subscribed>>
    BY <1>0, <2>3, SilentKeepsNumbers DEF WriteFails
  <2>4. QED BY <1>2, <2>1, <2>2, <2>3 DEF HandleLogon
<1>3. CASE HandleTestRequest
  <2>1. CASE Write("Heartbeat")
    BY <1>3, <2>1, WriteKeepsNumbers DEF HandleTestRequest, Handling
  <2>2. CASE WriteFails /\ UNCHANGED written
    BY <1>0, <1>3, <2>2, SilentKeepsNumbers DEF WriteFails, HandleTestRequest
  <2>3. QED BY <1>3, <2>1, <2>2 DEF HandleTestRequest
<1>4. CASE Check \/ Read \/ HandledAll
  BY <1>0, <1>4, SilentKeepsNumbers DEF Check, Read, HandledAll
<1>5. CASE HandleMarketData \/ HandleOther \/ HandleBad
  BY <1>0, <1>5, SilentKeepsNumbers DEF HandleMarketData, HandleOther, HandleBad, Handling
<1>6. CASE StrategyTakes
  BY <1>0, <1>6, SilentKeepsNumbers DEF StrategyTakes
<1>7. CASE ExchangeStep
  BY <1>0, <1>7, SilentKeepsNumbers
  DEF ExchangeStep, SessionFrame, Snapshot, Update, threadVars
<1>8. CASE UNCHANGED marketVars
  BY <1>0, <1>8, SilentKeepsNumbers DEF marketVars
<1>9. QED
  BY <1>1, <1>2, <1>3, <1>4, <1>5, <1>6, <1>7, <1>8 DEF MarketNext, MarketThread

(* run_fix_market_data of src/runtime.rs: one counter numbers Logon,        *)
(* subscription and heartbeats, and no Logon subscribes a second time.      *)
THEOREM MarketOneCounterOneSubscription == MarketSpec => []OneCounterOneSubscription
<1>1. MarketInit => NumberInv
  BY DEF MarketInit, NumberInv, OneCounterOneSubscription, Sent
<1>2. NumberInv => OneCounterOneSubscription
  BY DEF NumberInv
<1>3. QED BY <1>1, <1>2, NumberStep, PTL DEF MarketSpec

---------------------------------------------------------------------------
(* The books.                                                               *)

(* What the exchange sends                                                  *)
Entries == [kind : {"bid", "ask", "trade"}, px : Prices \cup {None}]
Frames == [type : {"Logon", "TestRequest", "Other", "Bad"}]
          \cup [type : {"MarketData"}, symbol : Symbols, seq : Nat,
                entries : Seq(Entries)]

Books == [bid : Prices \cup {None}, ask : Prices \cup {None}, seq : Nat]

(* What the market thread makes of it                                       *)
Events == [kind : {"Trade"}, symbol : Products, seq : Nat]
          \cup [kind : {"L1"}, symbol : Products, seq : Nat, bid : Prices, ask : Prices]

IsData(f) == f.type = "MarketData"
TopOf(e)  == [bid |-> e.bid, ask |-> e.ask]

(* The last whole bid and the last whole ask of f are those of the top t    *)
Shows(f, t) ==
  /\ Whole(f, "bid") # {} => LastPrice(f, "bid") = t.bid
  /\ Whole(f, "ask") # {} => LastPrice(f, "ask") = t.ask

Complete(f) == Whole(f, "bid") # {} /\ Whole(f, "ask") # {}

MarketTypeOK ==
  /\ top \in [Symbols -> Tops] /\ tops \in [Symbols -> SUBSET Tops] /\ frames \in Nat
  /\ inbound \in Seq(Frames) /\ pending \in Seq(Frames) /\ channel \in Seq(Events)
  /\ book \in [Products -> Books]

(* A frame, an event and a book of the past: numbered up to n, they show a  *)
(* top in the history h                                                     *)
PastFrame(f, n, h) == IsData(f) => f.seq \in 1..n /\ \E t \in h[f.symbol] : Shows(f, t)
PastEvent(e, n, h) == e.seq \in 1..n /\ (e.kind = "L1" => TopOf(e) \in h[e.symbol])
PastBook(b, s, n, h) == b.seq \in 0..n /\ (b.seq > 0 => TopOf(b) \in h[s])

PastFrames(fs, n, h) == \A k \in 1..Len(fs) : PastFrame(fs[k], n, h)
PastEvents(es, n, h) == \A k \in 1..Len(es) : PastEvent(es[k], n, h)

PastInv ==
  /\ \A s \in Symbols : top[s] \in tops[s]
  /\ PastFrames(inbound, frames, tops) /\ PastFrames(pending, frames, tops)
  /\ PastEvents(channel, frames, tops)
  /\ \A s \in Products : PastBook(book[s], s, frames, tops)

(* News of s, later than n, after the i-th place of some frames, of some    *)
(* events                                                                   *)
DataOf(f, s)  == IsData(f) /\ f.symbol = s
EventOf(e, s) == e.kind = "L1" /\ e.symbol = s

FrameNews(fs, i, s, n) == \E k \in 1..Len(fs) : k > i /\ DataOf(fs[k], s) /\ fs[k].seq > n
EventNews(es, i, s, n) == \E k \in 1..Len(es) : k > i /\ EventOf(es[k], s) /\ es[k].seq > n

(* What is on its way to the book of s (sent, read, decoded), and the book  *)
(* itself, is the top t of s or has later news of s behind it.              *)
FollowedFrom(sent, read, events, b, t, s) ==
  /\ \A i \in 1..Len(sent) : DataOf(sent[i], s) =>
       Shows(sent[i], t) \/ FrameNews(sent, i, s, sent[i].seq)
  /\ \A i \in 1..Len(read) : DataOf(read[i], s) =>
       \/ Shows(read[i], t)
       \/ FrameNews(read, i, s, read[i].seq) \/ FrameNews(sent, 0, s, read[i].seq)
  /\ \A i \in 1..Len(events) : EventOf(events[i], s) =>
       \/ TopOf(events[i]) = t
       \/ EventNews(events, i, s, events[i].seq)
       \/ FrameNews(read, 0, s, events[i].seq) \/ FrameNews(sent, 0, s, events[i].seq)
  /\ \/ b.seq = 0
     \/ TopOf(b) = t
     \/ EventNews(events, 0, s, b.seq)
     \/ FrameNews(read, 0, s, b.seq) \/ FrameNews(sent, 0, s, b.seq)

(* Frames with both sides                                                   *)
AllComplete(fs) == \A k \in 1..Len(fs) : IsData(fs[k]) => Complete(fs[k])

Followed ==
  /\ AllComplete(inbound) /\ AllComplete(pending)
  /\ \A s \in Products : FollowedFrom(inbound, pending, channel, book[s], top[s], s)

FollowInv == ~ oneSided /\ pc # "err" => Followed

---------------------------------------------------------------------------
(* Decoding a frame.                                                        *)

(* A set of naturals has a least element, a bounded one a greatest          *)
LEMMA LeastNatural ==
  ASSUME NEW S \in SUBSET Nat, S # {}
  PROVE  \E n \in S : \A m \in S : n <= m
<1>1. IsWellFoundedOn(OpToRel(<, Nat), Nat)
  BY NatLessThanWellFounded
<1>2. PICK n \in S : \A m \in S : ~ (<<m, n>> \in OpToRel(<, Nat))
  BY <1>1, WFMin, Zenon
<1>3. \A m \in S : ~ (m < n)
  BY <1>2 DEF OpToRel
<1>4. QED BY <1>3

LEMMA GreatestNatural ==
  ASSUME NEW b \in Nat, NEW S \in SUBSET (0..b), S # {}
  PROVE  \E n \in S : \A m \in S : n >= m
<1> DEFINE T == {k \in Nat : \E m \in S : k = b - m}
<1>1. T \in SUBSET Nat /\ T # {}
  <2>1. PICK m \in S : TRUE OBVIOUS
  <2>2. b - m \in T OBVIOUS
  <2>3. QED BY <2>2
<1>2. PICK k \in T : \A j \in T : k <= j
  BY <1>1, LeastNatural, Zenon
<1>3. PICK n \in S : k = b - n
  OBVIOUS
<1>4. \A m \in S : b - m \in T
  OBVIOUS
<1>5. QED BY <1>2, <1>3, <1>4

LEMMA LastPriceIsWhole ==
  ASSUME NEW f \in Frames, IsData(f), NEW kind, Whole(f, kind) # {}
  PROVE  /\ Max(Whole(f, kind)) \in Whole(f, kind)
         /\ LastPrice(f, kind) \in Prices
<1>1. /\ f.entries \in Seq(Entries)
      /\ Len(f.entries) \in Nat
  BY DEF Frames, IsData
<1>2. Whole(f, kind) \in SUBSET (0..Len(f.entries))
  BY <1>1 DEF Whole
<1>3. \E n \in Whole(f, kind) : \A m \in Whole(f, kind) : n >= m
  BY <1>1, <1>2, GreatestNatural, Zenon
<1>4. Max(Whole(f, kind)) \in Whole(f, kind)
  BY <1>3, Zenon DEF Max
<1>5. ASSUME NEW k \in Whole(f, kind) PROVE f.entries[k].px \in Prices
  <2>1. k \in 1..Len(f.entries) /\ f.entries[k].px # None
    BY DEF Whole
  <2>2. f.entries[k] \in Entries
    BY <1>1, <2>1
  <2>3. QED BY <2>1, <2>2 DEF Entries
<1>6. QED BY <1>4, <1>5, Zenon DEF LastPrice

LEMMA ParsedEvents ==
  ASSUME NEW f \in Frames, IsData(f), f.symbol \in Products
  PROVE  LET events == ParseMarketData(f) IN
         /\ events \in Seq(Events)
         /\ \A k \in 1..Len(events) : events[k].symbol = f.symbol /\ events[k].seq = f.seq
         /\ \A k \in 1..Len(events) : events[k].kind = "L1" =>
              \A t \in Tops : Shows(f, t) => TopOf(events[k]) = t
         /\ Complete(f) => 1 \in 1..Len(events) /\ events[1].kind = "L1"
<1> DEFINE l1     == L1Event(f, LastPrice(f, "bid"), LastPrice(f, "ask"))
           first  == IF Complete(f) THEN <<l1>> ELSE <<>>
           trade  == [kind |-> "Trade", symbol |-> f.symbol, seq |-> f.seq]
           n      == Cardinality(Whole(f, "trade"))
           trades == [k \in 1..n |-> trade]
<1>1. /\ f.entries \in Seq(Entries)
      /\ Len(f.entries) \in Nat /\ f.seq \in Nat
  BY DEF Frames, IsData
<1>2. n \in Nat
  <2>1. IsFiniteSet(1..Len(f.entries))
    BY <1>1, FS_Interval
  <2>2. Whole(f, "trade") \in SUBSET (1..Len(f.entries))
    BY DEF Whole
  <2>3. IsFiniteSet(Whole(f, "trade"))
    BY <2>1, <2>2, FS_Subset, Zenon
  <2>4. QED BY <2>3, FS_CardinalityType, Zenon
<1>3. trade \in Events /\ trade.symbol = f.symbol /\ trade.seq = f.seq /\ trade.kind = "Trade"
  BY <1>1 DEF Events
<1>4. ASSUME Complete(f)
      PROVE  /\ l1 \in Events /\ l1.symbol = f.symbol /\ l1.seq = f.seq /\ l1.kind = "L1"
             /\ \A t \in Tops : Shows(f, t) => TopOf(l1) = t
  <2>1. /\ LastPrice(f, "bid") \in Prices /\ Max(Whole(f, "bid")) \in Whole(f, "bid")
        /\ LastPrice(f, "ask") \in Prices /\ Max(Whole(f, "ask")) \in Whole(f, "ask")
    BY <1>4, LastPriceIsWhole, Zenon DEF Complete
  <2>2. l1 \in Events /\ l1.symbol = f.symbol /\ l1.seq = f.seq /\ l1.kind = "L1"
    BY <1>1, <2>1 DEF Events, L1Event
  <2>3. ASSUME NEW t \in Tops, Shows(f, t)
        PROVE  TopOf(l1) = t
    <3>1. LastPrice(f, "bid") = t.bid /\ LastPrice(f, "ask") = t.ask
      BY <1>4, <2>3, Zenon DEF Shows, Complete
    <3>2. QED BY <3>1 DEF TopOf, L1Event, Tops
  <2>4. QED BY <2>2, <2>3
<1>5. ParseMarketData(f) = first \o trades
  BY DEF ParseMarketData, Complete
<1> HIDE DEF trade, l1, n
<1>6. /\ trades \in Seq(Events) /\ Len(trades) = n /\ \A k \in 1..n : trades[k] = trade
  BY <1>2, <1>3
<1>7. CASE ~ Complete(f)
  <2>1. ParseMarketData(f) = trades
    BY <1>5, <1>6, <1>7
  <2>2. QED BY <2>1, <1>2, <1>3, <1>6, <1>7
<1>8. CASE Complete(f)
  <2>1. ParseMarketData(f) = <<l1>> \o trades
    BY <1>5, <1>8
  <2>2. <<l1>> \in Seq(Events) /\ Len(<<l1>>) = 1 /\ <<l1>>[1] = l1
    BY <1>4, <1>8
  <2> DEFINE events == <<l1>> \o trades
  <2> HIDE DEF trades
  <2>3. /\ events \in Seq(Events) /\ Len(events) = 1 + n /\ events[1] = l1
        /\ \A k \in 2..(1 + n) : events[k] = trades[k - 1]
    BY <2>2, <1>2, <1>6
  <2> HIDE DEF events
  <2>4. \A k \in 1..Len(events) : events[k] = l1 \/ events[k] = trade
    BY <1>2, <1>6, <2>3
  <2>5. \A k \in 1..Len(events) : events[k].symbol = f.symbol /\ events[k].seq = f.seq
    BY <1>3, <1>4, <1>8, <2>4, Zenon
  <2>6. \A k \in 1..Len(events) : events[k].kind = "L1" =>
          \A t \in Tops : Shows(f, t) => TopOf(events[k]) = t
    BY <1>3, <1>4, <1>8, <2>4
  <2>7. 1 \in 1..Len(events) /\ events[1].kind = "L1"
    BY <1>2, <1>4, <1>8, <2>3
  <2>8. ParseMarketData(f) = events
    BY <2>1 DEF events
  <2>9. QED BY <2>3, <2>5, <2>6, <2>7, <2>8, Zenon
<1>9. QED BY <1>7, <1>8

---------------------------------------------------------------------------
(* The frames the exchange makes.                                           *)

DataFrame(s, n, entries) ==
  [type |-> "MarketData", symbol |-> s, seq |-> n, entries |-> entries]

(* Entries whose whole sides are those of t                                 *)
Fit(entries, t) ==
  /\ entries \in Seq(Entries)
  /\ \A k \in 1..Len(entries) :
       entries[k].px # None =>
         /\ entries[k].kind = "bid" => entries[k].px = t.bid
         /\ entries[k].kind = "ask" => entries[k].px = t.ask

(* Every whole side is that of t or has another of its kind behind it       *)
Behind(entries, k) ==
  \E j \in 1..Len(entries) :
    j > k /\ entries[j].kind = entries[k].kind /\ entries[j].px # None

LastFit(entries, t) ==
  /\ entries \in Seq(Entries)
  /\ \A k \in 1..Len(entries) :
       entries[k].px # None =>
         /\ entries[k].kind = "bid" => entries[k].px = t.bid \/ Behind(entries, k)
         /\ entries[k].kind = "ask" => entries[k].px = t.ask \/ Behind(entries, k)

LEMMA FitIsLastFit == ASSUME NEW entries, NEW t, Fit(entries, t) PROVE LastFit(entries, t)
  BY DEF Fit, LastFit

LEMMA Concatenated ==
  ASSUME NEW S, NEW A \in Seq(S), NEW B \in Seq(S)
  PROVE  /\ A \o B \in Seq(S) /\ Len(A) \in Nat /\ Len(B) \in Nat
         /\ Len(A \o B) = Len(A) + Len(B)
         /\ \A k \in 1..Len(A) : (A \o B)[k] = A[k]
         /\ \A k \in 1..Len(B) : (A \o B)[Len(A) + k] = B[k]
         /\ \A k \in 1..Len(A \o B) :
              \/ k \in 1..Len(A) /\ (A \o B)[k] = A[k]
              \/ k - Len(A) \in 1..Len(B) /\ (A \o B)[k] = B[k - Len(A)]
  OBVIOUS

LEMMA OneIsASequence ==
  /\ <<>> \in Seq(Entries) /\ Len(<<>>) = 0
  /\ \A e \in Entries : <<e>> \in Seq(Entries) /\ <<e>> # <<>> /\ Len(<<e>>) = 1 /\ <<e>>[1] = e
  OBVIOUS

(* One element of each of two sequences, or none                            *)
Joined(x, y, b, a) ==
  /\ b \o a \in Seq(Entries)
  /\ \A k \in 1..Len(b \o a) : \/ (b \o a)[k] = x /\ b # <<>>
                               \/ (b \o a)[k] = y /\ a # <<>>
  /\ b # <<>> => \E j \in 1..Len(b \o a) : (b \o a)[j] = x
  /\ a # <<>> => \E j \in 1..Len(b \o a) : (b \o a)[j] = y

LEMMA TwoAtMost ==
  ASSUME NEW x \in Entries, NEW y \in Entries,
         NEW b, b = <<>> \/ b = <<x>>, NEW a, a = <<>> \/ a = <<y>>
  PROVE  Joined(x, y, b, a)
<1> DEFINE S == b \o a
<1>1. /\ b \in Seq(Entries) /\ ((b = <<>> /\ Len(b) = 0) \/ (b # <<>> /\ Len(b) = 1 /\ b[1] = x))
      /\ a \in Seq(Entries) /\ ((a = <<>> /\ Len(a) = 0) \/ (a # <<>> /\ Len(a) = 1 /\ a[1] = y))
  BY OneIsASequence, Zenon
<1>2. /\ S \in Seq(Entries) /\ Len(S) = Len(b) + Len(a)
      /\ \A k \in 1..Len(b) : S[k] = b[k]
      /\ \A k \in 1..Len(a) : S[Len(b) + k] = a[k]
  BY <1>1, Concatenated
<1> HIDE DEF S
<1>3. b # <<>> => 1 \in 1..Len(S) /\ S[1] = x
  BY <1>1, <1>2
<1>4. a # <<>> => Len(b) + 1 \in 1..Len(S) /\ S[Len(b) + 1] = y
  BY <1>1, <1>2
<1>5. \A k \in 1..Len(S) : \/ b # <<>> /\ k = 1
                           \/ a # <<>> /\ k = Len(b) + 1
  BY <1>1, <1>2
<1>6. \A k \in 1..Len(S) : (S[k] = x /\ b # <<>>) \/ (S[k] = y /\ a # <<>>)
  BY <1>3, <1>4, <1>5, Zenon
<1>7. (b # <<>> => \E j \in 1..Len(S) : S[j] = x) /\ (a # <<>> => \E j \in 1..Len(S) : S[j] = y)
  BY <1>3, <1>4, Zenon
<1>8. /\ S \in Seq(Entries)
      /\ \A k \in 1..Len(S) : \/ S[k] = x /\ b # <<>>
                              \/ S[k] = y /\ a # <<>>
      /\ b # <<>> => \E j \in 1..Len(S) : S[j] = x
      /\ a # <<>> => \E j \in 1..Len(S) : S[j] = y
  BY <1>2, <1>6, <1>7, Zenon
<1>9. QED BY <1>8, Zenon DEF S, Joined

LEMMA FitIsConcatenated ==
  ASSUME NEW A, NEW B, NEW t, Fit(A, t), Fit(B, t)
  PROVE  Fit(A \o B, t)
<1> DEFINE C == A \o B
<1>1. A \in Seq(Entries) /\ B \in Seq(Entries)
  BY DEF Fit
<1>2. /\ C \in Seq(Entries)
      /\ \A k \in 1..Len(C) :
           \/ k \in 1..Len(A) /\ C[k] = A[k]
           \/ k - Len(A) \in 1..Len(B) /\ C[k] = B[k - Len(A)]
  BY <1>1, Concatenated
<1> HIDE DEF C
<1>3. ASSUME NEW k \in 1..Len(C), C[k].px # None
      PROVE  /\ C[k].kind = "bid" => C[k].px = t.bid
             /\ C[k].kind = "ask" => C[k].px = t.ask
  <2>1. CASE k \in 1..Len(A) /\ C[k] = A[k]
    BY <1>3, <2>1 DEF Fit
  <2>2. CASE k - Len(A) \in 1..Len(B) /\ C[k] = B[k - Len(A)]
    BY <1>3, <2>2 DEF Fit
  <2>3. QED BY <1>2, <2>1, <2>2
<1>4. Fit(C, t)
  BY <1>2, <1>3 DEF Fit
<1>5. QED BY <1>4 DEF C

(* Whatever is in front of entries that have both kinds it has              *)
LEMMA LastOnesCount ==
  ASSUME NEW A \in Seq(Entries), NEW B, NEW t, Fit(B, t),
         \A k \in 1..Len(A) : \E j \in 1..Len(B) : B[j].kind = A[k].kind /\ B[j].px # None
  PROVE  LastFit(A \o B, t)
<1> DEFINE C == A \o B
<1>1. B \in Seq(Entries)
  BY DEF Fit
<1>2. /\ C \in Seq(Entries) /\ Len(A) \in Nat /\ Len(B) \in Nat /\ Len(C) = Len(A) + Len(B)
      /\ \A k \in 1..Len(B) : C[Len(A) + k] = B[k]
      /\ \A k \in 1..Len(C) :
           \/ k \in 1..Len(A) /\ C[k] = A[k]
           \/ k - Len(A) \in 1..Len(B) /\ C[k] = B[k - Len(A)]
  BY <1>1, Concatenated
<1> HIDE DEF C
<1>3. ASSUME NEW k \in 1..Len(C), C[k].px # None
      PROVE  /\ C[k].kind = "bid" => C[k].px = t.bid \/ Behind(C, k)
             /\ C[k].kind = "ask" => C[k].px = t.ask \/ Behind(C, k)
  <2>1. CASE k \in 1..Len(A) /\ C[k] = A[k]
    <3>1. PICK j \in 1..Len(B) : B[j].kind = C[k].kind /\ B[j].px # None
      BY <2>1
    <3>2. Len(A) + j \in 1..Len(C) /\ Len(A) + j > k /\ C[Len(A) + j] = B[j]
      BY <1>2, <2>1
    <3>3. Behind(C, k)
      BY <3>1, <3>2 DEF Behind
    <3>4. QED BY <3>3
  <2>2. CASE k - Len(A) \in 1..Len(B) /\ C[k] = B[k - Len(A)]
    BY <1>3, <2>2 DEF Fit
  <2>3. QED BY <1>2, <2>1, <2>2
<1>4. LastFit(C, t)
  BY <1>2, <1>3 DEF LastFit
<1>5. QED BY <1>4 DEF C

LEMMA EntryFits ==
  ASSUME NEW t \in Tops, NEW kind \in {"bid", "ask", "trade"}, NEW px \in Prices \cup {None},
         px # None => (kind = "bid" => px = t.bid) /\ (kind = "ask" => px = t.ask)
  PROVE  Fit(<<Entry(kind, px)>>, t)
<1>1. Entry(kind, px) \in Entries /\ Entry(kind, px).kind = kind /\ Entry(kind, px).px = px
  BY DEF Entry, Entries
<1> DEFINE e == Entry(kind, px)
<1> HIDE DEF e
<1>2. <<e>> \in Seq(Entries) /\ Len(<<e>>) = 1 /\ <<e>>[1] = e
  BY <1>1 DEF e
<1>3. Fit(<<e>>, t)
  BY <1>1, <1>2 DEF Fit, e
<1>4. QED BY <1>3 DEF e

LEMMA NothingFits == ASSUME NEW t PROVE Fit(<<>>, t)
  BY DEF Fit

LEMMA FittingFrame ==
  ASSUME NEW s \in Symbols, NEW n \in Nat, NEW entries, NEW t, LastFit(entries, t)
  PROVE  LET f == DataFrame(s, n, entries) IN
         f \in Frames /\ IsData(f) /\ f.symbol = s /\ f.seq = n /\ Shows(f, t)
<1> DEFINE f == DataFrame(s, n, entries)
<1>1. /\ f \in Frames /\ IsData(f) /\ f.symbol = s /\ f.seq = n /\ f.entries = entries
  BY DEF DataFrame, Frames, IsData, LastFit
<1> HIDE DEF f
<1>2. ASSUME NEW kind \in {"bid", "ask"}, Whole(f, kind) # {}
      PROVE  LastPrice(f, kind) = IF kind = "bid" THEN t.bid ELSE t.ask
  <2> DEFINE m == Max(Whole(f, kind))
  <2>1. /\ m \in Whole(f, kind)
        /\ \A k \in Whole(f, kind) : ~ (k > m)
    <3>1. Len(entries) \in Nat
      BY DEF LastFit
    <3>2. Whole(f, kind) \in SUBSET (0..Len(entries))
      BY <1>1, <3>1 DEF Whole
    <3>3. PICK g \in Whole(f, kind) : \A k \in Whole(f, kind) : g >= k
      BY <1>2, <3>1, <3>2, GreatestNatural, Zenon
    <3>4. m \in Whole(f, kind) /\ \A k \in Whole(f, kind) : m >= k
      BY <3>3, Zenon DEF Max
    <3>5. QED BY <3>1, <3>2, <3>4
  <2> HIDE DEF m
  <2>2. m \in 1..Len(entries) /\ entries[m].kind = kind /\ entries[m].px # None
    BY <1>1, <2>1 DEF Whole
  <2>3. ~ Behind(entries, m)
    BY <1>1, <2>1, <2>2 DEF Behind, Whole
  <2>4. entries[m].px = IF kind = "bid" THEN t.bid ELSE t.ask
    BY <2>2, <2>3 DEF LastFit
  <2>5. QED BY <1>1, <2>4 DEF LastPrice, m
<1>3. Shows(f, t)
  BY <1>2 DEF Shows
<1>4. QED BY <1>1, <1>3 DEF f

LEMMA CompleteFrame ==
  ASSUME NEW s, NEW n, NEW entries, NEW i \in 1..Len(entries), NEW j \in 1..Len(entries),
         entries[i].kind = "bid", entries[i].px # None,
         entries[j].kind = "ask", entries[j].px # None
  PROVE  Complete(DataFrame(s, n, entries))
<1> DEFINE f == DataFrame(s, n, entries)
<1>1. f.entries = entries
  BY DEF DataFrame
<1>2. i \in Whole(f, "bid") /\ j \in Whole(f, "ask")
  BY <1>1 DEF Whole
<1>3. QED BY <1>2 DEF Complete

LEMMA SnapshotShows ==
  ASSUME NEW s \in Symbols, NEW n \in Nat, NEW t \in Tops
  PROVE  LET entries == <<Entry("bid", t.bid), Entry("ask", t.ask)>>
             f       == DataFrame(s, n, entries)
         IN  /\ f \in Frames /\ IsData(f) /\ f.symbol = s /\ f.seq = n
             /\ Shows(f, t) /\ Complete(f)
<1> DEFINE b == Entry("bid", t.bid)
           a == Entry("ask", t.ask)
           entries == <<b, a>>
<1>0. t.bid \in Prices /\ t.ask \in Prices /\ t.bid # None /\ t.ask # None
  BY MarketAssumption DEF Tops
<1>1. /\ b \in Entries /\ b.kind = "bid" /\ b.px = t.bid
      /\ a \in Entries /\ a.kind = "ask" /\ a.px = t.ask
  BY <1>0 DEF Entry, Entries
<1> HIDE DEF a, b
<1>2. entries \in Seq(Entries) /\ Len(entries) = 2 /\ entries[1] = b /\ entries[2] = a
  BY <1>1
<1> HIDE DEF entries
<1>3. Fit(entries, t)
  BY <1>1, <1>2 DEF Fit
<1>4. Complete(DataFrame(s, n, entries))
  <2>1. 1 \in 1..Len(entries) /\ 2 \in 1..Len(entries)
    BY <1>2
  <2>2. /\ entries[1].kind = "bid" /\ entries[1].px # None
        /\ entries[2].kind = "ask" /\ entries[2].px # None
    BY <1>0, <1>1, <1>2
  <2>3. QED BY <2>1, <2>2, CompleteFrame, Zenon
<1>5. QED BY <1>3, <1>4, FitIsLastFit, FittingFrame DEF entries, a, b

(* An entry of a kind that counts                                           *)
Sets(entries, kind) == \E j \in 1..Len(entries) : entries[j].kind = kind /\ entries[j].px # None

LEMMA BothSidesComplete ==
  ASSUME NEW s, NEW n, NEW first \in Seq(Entries), NEW sides \in Seq(Entries),
         Sets(sides, "bid"), Sets(sides, "ask")
  PROVE  Complete(DataFrame(s, n, first \o sides))
<1> DEFINE entries == first \o sides
<1>1. /\ Len(first) \in Nat /\ Len(sides) \in Nat /\ Len(entries) = Len(first) + Len(sides)
      /\ \A k \in 1..Len(sides) : entries[Len(first) + k] = sides[k]
  BY Concatenated
<1> HIDE DEF entries
<1>2. PICK i \in 1..Len(sides), j \in 1..Len(sides) :
        /\ sides[i].kind = "bid" /\ sides[i].px # None
        /\ sides[j].kind = "ask" /\ sides[j].px # None
  BY Zenon DEF Sets
<1>3. /\ Len(first) + i \in 1..Len(entries) /\ entries[Len(first) + i] = sides[i]
      /\ Len(first) + j \in 1..Len(entries) /\ entries[Len(first) + j] = sides[j]
  BY <1>1
<1>4. Complete(DataFrame(s, n, entries))
  BY <1>2, <1>3, CompleteFrame, Zenon
<1>5. QED BY <1>4 DEF entries

(* What an update may hold before its sides, and for a side                 *)
TradeEntries(t)       == {<<>>, <<Entry("trade", t.bid)>>, <<Entry("bid", None)>>}
SideEntries(kind, px) == {<<>>, <<Entry(kind, px)>>}

(* Entries that set both sides or, if one is all that changed, that one     *)
LEMMA SidesFit ==
  ASSUME NEW t \in Tops,
         NEW b \in SideEntries("bid", t.bid), NEW a \in SideEntries("ask", t.ask)
  PROVE  /\ Fit(b \o a, t) /\ b \o a \in Seq(Entries)
         /\ b # <<>> => Sets(b \o a, "bid")
         /\ a # <<>> => Sets(b \o a, "ask")
<1> DEFINE sides == b \o a
<1>0. /\ Entry("bid", t.bid) \in Entries /\ Entry("ask", t.ask) \in Entries
      /\ Entry("bid", t.bid).kind = "bid" /\ Entry("ask", t.ask).kind = "ask"
      /\ Entry("bid", t.bid).px = t.bid /\ Entry("ask", t.ask).px = t.ask
      /\ t.bid # None /\ t.ask # None
  BY MarketAssumption DEF Entry, Entries, Tops
<1>1. PICK x \in Entries, y \in Entries :
        /\ x = Entry("bid", t.bid) /\ x.kind = "bid" /\ x.px = t.bid /\ x.px # None
        /\ y = Entry("ask", t.ask) /\ y.kind = "ask" /\ y.px = t.ask /\ y.px # None
  BY <1>0, Zenon
<1>2. (b = <<>> \/ b = <<x>>) /\ (a = <<>> \/ a = <<y>>)
  BY <1>1 DEF SideEntries
<1>3. /\ sides \in Seq(Entries)
      /\ \A k \in 1..Len(sides) : sides[k] = x \/ sides[k] = y
      /\ b # <<>> => \E j \in 1..Len(sides) : sides[j] = x
      /\ a # <<>> => \E j \in 1..Len(sides) : sides[j] = y
  <2>1. Joined(x, y, b, a)
    BY <1>2, TwoAtMost, Zenon
  <2>2. QED BY <2>1, Zenon DEF Joined
<1> HIDE DEF sides
<1>4. Fit(sides, t)
  BY <1>1, <1>3 DEF Fit
<1>5. (b # <<>> => Sets(sides, "bid")) /\ (a # <<>> => Sets(sides, "ask"))
  BY <1>1, <1>3, Zenon DEF Sets
<1>6. QED BY <1>3, <1>4, <1>5 DEF sides

(* A frame of an update: first comes a trade or what is gone of the sides   *)
(* it sets                                                                  *)
LEMMA UpdateShows ==
  ASSUME NEW s \in Symbols, NEW n \in Nat, NEW t \in Tops,
         NEW b \in SideEntries("bid", t.bid), NEW a \in SideEntries("ask", t.ask),
         NEW first \in Seq(Entries),
         \/ first \in TradeEntries(t)
         \/ \A k \in 1..Len(first) : \/ first[k].kind = "bid" /\ b # <<>>
                                     \/ first[k].kind = "ask" /\ a # <<>>
  PROVE  LET f == DataFrame(s, n, first \o (b \o a))
         IN  /\ f \in Frames /\ IsData(f) /\ f.symbol = s /\ f.seq = n
             /\ Shows(f, t)
             /\ b # <<>> /\ a # <<>> => Complete(f)
<1> DEFINE sides == b \o a
<1>0. t.bid \in Prices /\ t.ask \in Prices /\ t.bid # None /\ t.ask # None
  BY MarketAssumption DEF Tops
<1>1. /\ Fit(sides, t) /\ sides \in Seq(Entries)
      /\ b # <<>> => Sets(sides, "bid")
      /\ a # <<>> => Sets(sides, "ask")
  BY SidesFit
<1> HIDE DEF sides
<1>2. ASSUME first \in TradeEntries(t) PROVE LastFit(first \o sides, t)
  <2>1. Fit(<<Entry("trade", t.bid)>>, t) /\ Fit(<<Entry("bid", None)>>, t)
    BY <1>0, EntryFits
  <2>2. Fit(first, t)
    BY <1>2, <2>1, NothingFits, Zenon DEF TradeEntries
  <2>3. Fit(first \o sides, t)
    BY <1>1, <2>2, FitIsConcatenated, Zenon
  <2>4. QED BY <2>3, FitIsLastFit, Zenon
<1>3. ASSUME \A k \in 1..Len(first) : \/ first[k].kind = "bid" /\ b # <<>>
                                      \/ first[k].kind = "ask" /\ a # <<>>
      PROVE  LastFit(first \o sides, t)
  <2>1. \A k \in 1..Len(first) :
          \E j \in 1..Len(sides) : sides[j].kind = first[k].kind /\ sides[j].px # None
    BY <1>1, <1>3, Zenon DEF Sets
  <2>2. QED BY <1>1, <2>1, LastOnesCount, Zenon
<1>4. LastFit(first \o sides, t)
  BY <1>2, <1>3
<1>5. ASSUME b # <<>>, a # <<>>
      PROVE  Complete(DataFrame(s, n, first \o sides))
  BY <1>1, <1>5, BothSidesComplete, Zenon
<1>6. LET f == DataFrame(s, n, first \o sides) IN
      f \in Frames /\ IsData(f) /\ f.symbol = s /\ f.seq = n /\ Shows(f, t)
  BY <1>4, FittingFrame, Zenon
<1>7. QED BY <1>5, <1>6, Zenon DEF sides

---------------------------------------------------------------------------
(* What follows what, step by step of the pipeline.                         *)

LEMMA Shortened ==
  ASSUME NEW S, NEW q \in Seq(S), q # <<>>
  PROVE  /\ Len(q) \in Nat /\ 1 \in 1..Len(q) /\ Head(q) = q[1] /\ q[1] \in S
         /\ Tail(q) \in Seq(S) /\ Len(Tail(q)) = Len(q) - 1
         /\ \A k \in 1..Len(Tail(q)) : Tail(q)[k] = q[k + 1] /\ k + 1 \in 1..Len(q)
         /\ \A k \in 1..Len(q) : k > 1 => k - 1 \in 1..Len(Tail(q)) /\ Tail(q)[k - 1] = q[k]
  OBVIOUS

LEMMA Cut ==
  ASSUME NEW S, NEW q \in Seq(S), NEW n \in 1..Len(q)
  PROVE  LET a == SubSeq(q, 1, n)
             b == SubSeq(q, n + 1, Len(q))
         IN  /\ a \in Seq(S) /\ b \in Seq(S) /\ Len(q) \in Nat
             /\ Len(a) = n /\ Len(b) = Len(q) - n
             /\ \A k \in 1..n : a[k] = q[k]
             /\ \A k \in 1..Len(b) : b[k] = q[n + k] /\ n + k \in 1..Len(q)
             /\ \A k \in 1..Len(q) : k > n => k - n \in 1..Len(b) /\ b[k - n] = q[k]
<1> DEFINE a == SubSeq(q, 1, n)
           b == SubSeq(q, n + 1, Len(q))
<1>1. /\ Len(q) \in Nat /\ a \in Seq(S) /\ Len(a) = n
      /\ \A k \in 1..n : a[k] = q[k]
  OBVIOUS
<1>2. b \in Seq(S) /\ Len(b) = Len(q) - n
  OBVIOUS
<1>3. \A k \in 1..Len(b) : b[k] = q[n + k] /\ n + k \in 1..Len(q)
  OBVIOUS
<1> HIDE DEF a, b
<1>4. ASSUME NEW k \in 1..Len(q), k > n
      PROVE  k - n \in 1..Len(b) /\ b[k - n] = q[k]
  <2>1. k - n \in 1..Len(b) /\ n + (k - n) = k
    BY <1>1, <1>2, <1>4
  <2>2. QED BY <1>3, <2>1
<1>5. QED BY <1>1, <1>2, <1>3, <1>4 DEF a, b

LEMMA Lengthened ==
  ASSUME NEW S, NEW q \in Seq(S), NEW e \in S
  PROVE  /\ Append(q, e) \in Seq(S) /\ Len(q) \in Nat /\ Len(Append(q, e)) = Len(q) + 1
         /\ \A k \in 1..Len(q) : Append(q, e)[k] = q[k] /\ k \in 1..Len(Append(q, e))
         /\ Len(q) + 1 \in 1..Len(Append(q, e)) /\ Append(q, e)[Len(q) + 1] = e
         /\ \A k \in 1..Len(Append(q, e)) : k \in 1..Len(q) \/ k = Len(q) + 1
  OBVIOUS

LEMMA FrameSeq ==
  ASSUME NEW fs \in Seq(Frames), NEW k \in 1..Len(fs), IsData(fs[k])
  PROVE  fs[k].seq \in Nat /\ fs[k].symbol \in Symbols
<1>1. fs[k] \in Frames
  OBVIOUS
<1>2. QED BY <1>1 DEF Frames, IsData

LEMMA EventSeq ==
  ASSUME NEW es \in Seq(Events), NEW k \in 1..Len(es)
  PROVE  es[k].seq \in Nat /\ es[k].symbol \in Products
<1>1. es[k] \in Events
  OBVIOUS
<1>2. QED BY <1>1 DEF Events

(* News stay news when a frame is sent                                      *)
LEMMA SentNewsStay ==
  ASSUME NEW sent \in Seq(Frames), NEW f \in Frames, NEW i \in Nat, NEW s, NEW n,
         FrameNews(sent, i, s, n)
  PROVE  FrameNews(Append(sent, f), i, s, n)
<1> DEFINE q == Append(sent, f)
<1>1. \A k \in 1..Len(sent) : q[k] = sent[k] /\ k \in 1..Len(q)
  BY Lengthened
<1> HIDE DEF q
<1>2. FrameNews(q, i, s, n)
  BY <1>1, Zenon DEF FrameNews
<1>3. QED BY <1>2 DEF q

(* The frame that carries a new top of s is news to all before it           *)
LEMMA NewTopFollows ==
  ASSUME NEW sent \in Seq(Frames), NEW read \in Seq(Frames), NEW events \in Seq(Events),
         NEW b, NEW t, NEW s, NEW f \in Frames, NEW n \in Nat,
         DataOf(f, s), f.seq = n + 1, Shows(f, t),
         \A k \in 1..Len(sent) : IsData(sent[k]) => sent[k].seq \in 0..n,
         \A k \in 1..Len(read) : IsData(read[k]) => read[k].seq \in 0..n,
         \A k \in 1..Len(events) : events[k].seq \in 0..n,
         b.seq \in 0..n
  PROVE  FollowedFrom(Append(sent, f), read, events, b, t, s)
<1> DEFINE q == Append(sent, f)
<1>1. /\ Len(sent) \in Nat
      /\ \A k \in 1..Len(sent) : q[k] = sent[k] /\ k \in 1..Len(q)
      /\ Len(sent) + 1 \in 1..Len(q) /\ q[Len(sent) + 1] = f
      /\ \A k \in 1..Len(q) : k \in 1..Len(sent) \/ k = Len(sent) + 1
  BY Lengthened
<1> HIDE DEF q
<1>2. ASSUME NEW i \in 0..Len(sent), NEW m \in 0..n
      PROVE  FrameNews(q, i, s, m)
  <2>1. Len(sent) + 1 > i /\ q[Len(sent) + 1].seq > m
    BY <1>1
  <2>2. QED BY <1>1, <2>1, Zenon DEF FrameNews
<1>3. 0 \in 0..Len(sent) /\ \A i \in 1..Len(sent) : i \in 0..Len(sent)
  BY <1>1
<1>4. ASSUME NEW i \in 1..Len(q), DataOf(q[i], s)
      PROVE  Shows(q[i], t) \/ FrameNews(q, i, s, q[i].seq)
  <2>1. CASE i = Len(sent) + 1
    BY <1>1, <2>1, Zenon
  <2>2. CASE i \in 1..Len(sent)
    BY <1>1, <1>2, <1>3, <1>4, <2>2, Zenon DEF DataOf
  <2>3. QED BY <1>1, <2>1, <2>2, Zenon
<1>5. \A i \in 1..Len(read) : DataOf(read[i], s) => FrameNews(q, 0, s, read[i].seq)
  BY <1>2, <1>3, Zenon DEF DataOf
<1>6. \A i \in 1..Len(events) : FrameNews(q, 0, s, events[i].seq)
  BY <1>2, <1>3, Zenon
<1>7. FrameNews(q, 0, s, b.seq)
  BY <1>2, <1>3, Zenon
<1>8. FollowedFrom(q, read, events, b, t, s)
  BY <1>4, <1>5, <1>6, <1>7, Zenon DEF FollowedFrom
<1>9. QED BY <1>8 DEF q

(* A frame that shows t, or is not of s, may always be sent                 *)
LEMMA SentFollows ==
  ASSUME NEW sent \in Seq(Frames), NEW read, NEW events, NEW b, NEW t, NEW s,
         NEW f \in Frames, FollowedFrom(sent, read, events, b, t, s),
         DataOf(f, s) => Shows(f, t)
  PROVE  FollowedFrom(Append(sent, f), read, events, b, t, s)
<1> DEFINE q == Append(sent, f)
<1>1. /\ Len(sent) \in Nat
      /\ \A k \in 1..Len(sent) : q[k] = sent[k]
      /\ q[Len(sent) + 1] = f
      /\ \A k \in 1..Len(q) : k \in 1..Len(sent) \/ k = Len(sent) + 1
  BY Lengthened
<1>2. \A i \in Nat : \A n : FrameNews(sent, i, s, n) => FrameNews(q, i, s, n)
  BY SentNewsStay, Zenon
<1> HIDE DEF q
<1>3. 0 \in Nat /\ \A i \in 1..Len(sent) : i \in Nat
  OBVIOUS
<1>4. ASSUME NEW i \in 1..Len(q), DataOf(q[i], s)
      PROVE  Shows(q[i], t) \/ FrameNews(q, i, s, q[i].seq)
  <2>1. CASE i = Len(sent) + 1
    BY <1>1, <1>4, <2>1, Zenon
  <2>2. CASE i \in 1..Len(sent)
    BY <1>1, <1>2, <1>3, <1>4, <2>2, Zenon DEF FollowedFrom
  <2>3. QED BY <1>1, <2>1, <2>2, Zenon
<1>5. FollowedFrom(q, read, events, b, t, s)
  BY <1>2, <1>3, <1>4, Zenon DEF FollowedFrom
<1>6. QED BY <1>5 DEF q

(* Frames read in the order they were sent                                  *)
LEMMA ReadFollows ==
  ASSUME NEW sent \in Seq(Frames), NEW read \in Seq(Frames), NEW events, NEW b, NEW t, NEW s,
         NEW n \in 1..Len(sent), FollowedFrom(sent, read, events, b, t, s)
  PROVE  FollowedFrom(SubSeq(sent, n + 1, Len(sent)), read \o SubSeq(sent, 1, n), events, b, t, s)
<1> DEFINE A == SubSeq(sent, 1, n)
           B == SubSeq(sent, n + 1, Len(sent))
           R == read \o A
<1>1. /\ A \in Seq(Frames) /\ B \in Seq(Frames) /\ Len(sent) \in Nat
      /\ Len(A) = n /\ Len(B) = Len(sent) - n
      /\ \A k \in 1..n : A[k] = sent[k]
      /\ \A k \in 1..Len(B) : B[k] = sent[n + k] /\ n + k \in 1..Len(sent)
      /\ \A k \in 1..Len(sent) : k > n => k - n \in 1..Len(B) /\ B[k - n] = sent[k]
  BY Cut
<1> HIDE DEF A, B
<1>2. /\ Len(read) \in Nat /\ Len(R) = Len(read) + n
      /\ \A k \in 1..Len(read) : R[k] = read[k]
      /\ \A k \in 1..n : R[Len(read) + k] = A[k]
      /\ \A k \in 1..Len(R) : k \in 1..Len(read) \/ k - Len(read) \in 1..n
  <2>0. A \in Seq(Frames)
    BY <1>1
  <2>1. /\ Len(read) \in Nat /\ Len(R) = Len(read) + Len(A)
        /\ \A k \in 1..Len(read) : R[k] = read[k]
        /\ \A k \in 1..Len(A) : R[Len(read) + k] = A[k]
    BY <2>0, Concatenated
  <2> HIDE DEF R
  <2>2. QED BY <1>1, <2>1
<1> HIDE DEF R
<1>3. ASSUME NEW i \in Nat, NEW m, FrameNews(read, i, s, m)
      PROVE  FrameNews(R, i, s, m)
  <2>1. PICK k \in 1..Len(read) : k > i /\ DataOf(read[k], s) /\ read[k].seq > m
    BY <1>3, Zenon DEF FrameNews
  <2>2. k \in 1..Len(R) /\ R[k] = read[k]
    BY <1>2
  <2>3. QED BY <2>1, <2>2, Zenon DEF FrameNews
<1>4. ASSUME NEW i \in 0..n, NEW m, FrameNews(sent, i, s, m)
      PROVE  FrameNews(R, Len(read) + i, s, m) \/ FrameNews(B, 0, s, m)
  <2>1. PICK k \in 1..Len(sent) : k > i /\ DataOf(sent[k], s) /\ sent[k].seq > m
    BY <1>4, Zenon DEF FrameNews
  <2>2. CASE k <= n
    <3>1. /\ Len(read) + k \in 1..Len(R) /\ R[Len(read) + k] = sent[k]
          /\ Len(read) + k > Len(read) + i
      BY <1>1, <1>2, <2>1, <2>2
    <3>2. QED BY <2>1, <3>1, Zenon DEF FrameNews
  <2>3. CASE k > n
    <3>1. k - n \in 1..Len(B) /\ B[k - n] = sent[k] /\ k - n > 0
      BY <1>1, <2>3
    <3>2. QED BY <2>1, <3>1, Zenon DEF FrameNews
  <2>4. QED BY <1>1, <2>2, <2>3
<1>5. ASSUME NEW i \in 1..Len(B), NEW m, FrameNews(sent, n + i, s, m)
      PROVE  FrameNews(B, i, s, m)
  <2>1. PICK k \in 1..Len(sent) : k > n + i /\ DataOf(sent[k], s) /\ sent[k].seq > m
    BY <1>5, Zenon DEF FrameNews
  <2>2. k > n /\ k - n > i
    BY <1>1, <2>1
  <2>3. k - n \in 1..Len(B) /\ B[k - n] = sent[k]
    BY <1>1, <2>2
  <2>4. QED BY <2>1, <2>2, <2>3, Zenon DEF FrameNews
<1>6. ASSUME NEW m, FrameNews(sent, 0, s, m)
      PROVE  FrameNews(R, 0, s, m) \/ FrameNews(B, 0, s, m)
  <2>1. 0 \in 0..n
    OBVIOUS
  <2>2. FrameNews(R, Len(read) + 0, s, m) \/ FrameNews(B, 0, s, m)
    BY <1>4, <1>6, <2>1, Zenon
  <2>3. FrameNews(R, Len(read) + 0, s, m) => FrameNews(R, 0, s, m)
    <3>1. \A k \in 1..Len(R) : k > Len(read) + 0 => k > 0
      BY <1>2
    <3>2. QED BY <3>1, Zenon DEF FrameNews
  <2>4. QED BY <2>2, <2>3, Zenon
<1>7. 0 \in Nat /\ \A i \in 1..Len(read) : i \in Nat
  OBVIOUS
<1>8. ASSUME NEW i \in 1..Len(B), DataOf(B[i], s)
      PROVE  Shows(B[i], t) \/ FrameNews(B, i, s, B[i].seq)
  <2>1. B[i] = sent[n + i] /\ n + i \in 1..Len(sent)
    BY <1>1
  <2>2. Shows(B[i], t) \/ FrameNews(sent, n + i, s, B[i].seq)
    BY <1>8, <2>1, Zenon DEF FollowedFrom
  <2>3. QED BY <1>5, <2>2, Zenon
<1>9. ASSUME NEW i \in 1..Len(R), DataOf(R[i], s)
      PROVE  \/ Shows(R[i], t)
             \/ FrameNews(R, i, s, R[i].seq) \/ FrameNews(B, 0, s, R[i].seq)
  <2>1. CASE i \in 1..Len(read)
    <3>1. R[i] = read[i]
      BY <1>2, <2>1
    <3>2. \/ Shows(R[i], t)
          \/ FrameNews(read, i, s, R[i].seq) \/ FrameNews(sent, 0, s, R[i].seq)
      BY <1>9, <2>1, <3>1, Zenon DEF FollowedFrom
    <3>3. ASSUME FrameNews(sent, 0, s, R[i].seq)
          PROVE  FrameNews(R, i, s, R[i].seq) \/ FrameNews(B, 0, s, R[i].seq)
      <4>1. FrameNews(R, Len(read) + 0, s, R[i].seq) \/ FrameNews(B, 0, s, R[i].seq)
        <5>1. 0 \in 0..n
          OBVIOUS
        <5>2. QED BY <1>4, <3>3, <5>1, Zenon
      <4>2. \A k \in 1..Len(R) : k > Len(read) + 0 => k > i
        BY <1>2, <2>1
      <4>3. QED BY <4>1, <4>2, Zenon DEF FrameNews
    <3>4. QED BY <1>3, <1>7, <2>1, <3>2, <3>3, Zenon
  <2>2. CASE i - Len(read) \in 1..n
    <3> DEFINE j == i - Len(read)
    <3>1. j \in 1..Len(sent) /\ j \in 0..n /\ R[i] = sent[j] /\ Len(read) + j = i
      BY <1>1, <1>2, <2>2
    <3> HIDE DEF j
    <3>2. Shows(R[i], t) \/ FrameNews(sent, j, s, R[i].seq)
      BY <1>9, <3>1, Zenon DEF FollowedFrom
    <3>3. QED BY <1>4, <3>1, <3>2, Zenon
  <2>3. QED BY <1>2, <2>1, <2>2, Zenon
<1>10. ASSUME NEW m, FrameNews(read, 0, s, m) \/ FrameNews(sent, 0, s, m)
       PROVE  FrameNews(R, 0, s, m) \/ FrameNews(B, 0, s, m)
  BY <1>3, <1>6, <1>7, <1>10, Zenon
<1>11. FollowedFrom(B, R, events, b, t, s)
  BY <1>8, <1>9, <1>10, Zenon DEF FollowedFrom
<1>12. QED BY <1>11 DEF A, B, R

(* The first frame read is dropped, if it is not of s                       *)
LEMMA DropFollows ==
  ASSUME NEW sent, NEW read \in Seq(Frames), NEW events, NEW b, NEW t, NEW s,
         read # <<>>, ~ DataOf(Head(read), s), FollowedFrom(sent, read, events, b, t, s)
  PROVE  FollowedFrom(sent, Tail(read), events, b, t, s)
<1> DEFINE q == Tail(read)
<1>1. /\ Len(read) \in Nat /\ Head(read) = read[1]
      /\ \A k \in 1..Len(q) : q[k] = read[k + 1] /\ k + 1 \in 1..Len(read)
      /\ \A k \in 1..Len(read) : k > 1 => k - 1 \in 1..Len(q) /\ q[k - 1] = read[k]
  BY Shortened
<1> HIDE DEF q
<1>2. ASSUME NEW i \in Nat, NEW m, FrameNews(read, i + 1, s, m)
      PROVE  FrameNews(q, i, s, m)
  <2>1. PICK k \in 1..Len(read) : k > i + 1 /\ DataOf(read[k], s) /\ read[k].seq > m
    BY <1>2, Zenon DEF FrameNews
  <2>2. k - 1 \in 1..Len(q) /\ q[k - 1] = read[k] /\ k - 1 > i
    BY <1>1, <2>1
  <2>3. QED BY <2>1, <2>2, Zenon DEF FrameNews
<1>3. ASSUME NEW m, FrameNews(read, 0, s, m)
      PROVE  FrameNews(q, 0, s, m)
  <2>1. PICK k \in 1..Len(read) : DataOf(read[k], s) /\ read[k].seq > m
    BY <1>3, Zenon DEF FrameNews
  <2>2. k # 1
    BY <1>1, <2>1
  <2>3. k - 1 \in 1..Len(q) /\ q[k - 1] = read[k] /\ k - 1 > 0
    BY <1>1, <2>2
  <2>4. QED BY <2>1, <2>3, Zenon DEF FrameNews
<1>4. ASSUME NEW i \in 1..Len(q), DataOf(q[i], s)
      PROVE  \/ Shows(q[i], t)
             \/ FrameNews(q, i, s, q[i].seq) \/ FrameNews(sent, 0, s, q[i].seq)
  <2>1. q[i] = read[i + 1] /\ i + 1 \in 1..Len(read) /\ i \in Nat
    BY <1>1
  <2>2. \/ Shows(q[i], t)
        \/ FrameNews(read, i + 1, s, q[i].seq) \/ FrameNews(sent, 0, s, q[i].seq)
    BY <1>4, <2>1, Zenon DEF FollowedFrom
  <2>3. QED BY <1>2, <2>1, <2>2, Zenon
<1>5. FollowedFrom(sent, q, events, b, t, s)
  BY <1>3, <1>4, Zenon DEF FollowedFrom
<1>6. QED BY <1>5 DEF q

(* The first frame read is decoded to the events ev                         *)
LEMMA DecodeFollows ==
  ASSUME NEW sent, NEW read \in Seq(Frames), NEW events \in Seq(Events), NEW ev \in Seq(Events),
         NEW b, NEW t \in Tops, NEW s, read # <<>>,
         FollowedFrom(sent, read, events, b, t, s), IsData(Head(read)),
         \A k \in 1..Len(ev) : ev[k].symbol = Head(read).symbol /\ ev[k].seq = Head(read).seq,
         \A k \in 1..Len(ev) : ev[k].kind = "L1" => (Shows(Head(read), t) => TopOf(ev[k]) = t),
         1 \in 1..Len(ev) /\ ev[1].kind = "L1"
  PROVE  FollowedFrom(sent, Tail(read), events \o ev, b, t, s)
<1> DEFINE q == Tail(read)
           E == events \o ev
           f == Head(read)
<1>1. /\ Len(read) \in Nat /\ f = read[1] /\ 1 \in 1..Len(read)
      /\ \A k \in 1..Len(q) : q[k] = read[k + 1] /\ k + 1 \in 1..Len(read)
      /\ \A k \in 1..Len(read) : k > 1 => k - 1 \in 1..Len(q) /\ q[k - 1] = read[k]
  BY Shortened
<1>2. /\ Len(events) \in Nat /\ Len(ev) \in Nat /\ Len(E) = Len(events) + Len(ev)
      /\ \A k \in 1..Len(events) : E[k] = events[k]
      /\ \A k \in 1..Len(ev) : E[Len(events) + k] = ev[k]
      /\ \A k \in 1..Len(E) : \/ k \in 1..Len(events) /\ E[k] = events[k]
                              \/ k - Len(events) \in 1..Len(ev) /\ E[k] = ev[k - Len(events)]
  BY Concatenated
<1> HIDE DEF q, E, f
<1>3. ASSUME NEW i \in Nat, NEW m, FrameNews(read, i + 1, s, m)
      PROVE  FrameNews(q, i, s, m)
  <2>1. PICK k \in 1..Len(read) : k > i + 1 /\ DataOf(read[k], s) /\ read[k].seq > m
    BY <1>3, Zenon DEF FrameNews
  <2>2. k - 1 \in 1..Len(q) /\ q[k - 1] = read[k] /\ k - 1 > i
    BY <1>1, <2>1
  <2>3. QED BY <2>1, <2>2, Zenon DEF FrameNews
<1>4. ASSUME NEW i \in 0..Len(events), NEW m, FrameNews(read, 0, s, m)
      PROVE  FrameNews(q, 0, s, m) \/ EventNews(E, i, s, m)
  <2>1. PICK k \in 1..Len(read) : DataOf(read[k], s) /\ read[k].seq > m
    BY <1>4, Zenon DEF FrameNews
  <2>2. CASE k = 1
    <3>1. /\ Len(events) + 1 \in 1..Len(E) /\ Len(events) + 1 > i
          /\ E[Len(events) + 1] = ev[1]
      BY <1>2
    <3>2. EventOf(ev[1], s) /\ ev[1].seq > m
      BY <1>1, <2>1, <2>2, Zenon DEF EventOf, DataOf, f
    <3>3. QED BY <3>1, <3>2, Zenon DEF EventNews
  <2>3. CASE k # 1
    <3>1. k - 1 \in 1..Len(q) /\ q[k - 1] = read[k] /\ k - 1 > 0
      BY <1>1, <2>3
    <3>2. QED BY <2>1, <3>1, Zenon DEF FrameNews
  <2>4. QED BY <2>2, <2>3
<1>5. ASSUME NEW i \in Nat, NEW m, EventNews(events, i, s, m)
      PROVE  EventNews(E, i, s, m)
  <2>1. PICK k \in 1..Len(events) : k > i /\ EventOf(events[k], s) /\ events[k].seq > m
    BY <1>5, Zenon DEF EventNews
  <2>2. k \in 1..Len(E) /\ E[k] = events[k]
    BY <1>2
  <2>3. QED BY <2>1, <2>2, Zenon DEF EventNews
<1>6. ASSUME NEW i \in 1..Len(q), DataOf(q[i], s)
      PROVE  \/ Shows(q[i], t)
             \/ FrameNews(q, i, s, q[i].seq) \/ FrameNews(sent, 0, s, q[i].seq)
  <2>1. q[i] = read[i + 1] /\ i + 1 \in 1..Len(read) /\ i \in Nat
    BY <1>1
  <2>2. \/ Shows(q[i], t)
        \/ FrameNews(read, i + 1, s, q[i].seq) \/ FrameNews(sent, 0, s, q[i].seq)
    BY <1>6, <2>1, Zenon DEF FollowedFrom
  <2>3. QED BY <1>3, <2>1, <2>2, Zenon
<1>7. ASSUME NEW i \in 1..Len(E), EventOf(E[i], s)
      PROVE  \/ TopOf(E[i]) = t \/ EventNews(E, i, s, E[i].seq)
             \/ FrameNews(q, 0, s, E[i].seq) \/ FrameNews(sent, 0, s, E[i].seq)
  <2>1. CASE i \in 1..Len(events) /\ E[i] = events[i]
    <3>1. \/ TopOf(E[i]) = t \/ EventNews(events, i, s, E[i].seq)
          \/ FrameNews(read, 0, s, E[i].seq) \/ FrameNews(sent, 0, s, E[i].seq)
      BY <1>7, <2>1, Zenon DEF FollowedFrom
    <3>2. i \in 0..Len(events) /\ i \in Nat
      BY <2>1
    <3>3. QED BY <1>4, <1>5, <3>1, <3>2, Zenon
  <2>2. CASE i - Len(events) \in 1..Len(ev) /\ E[i] = ev[i - Len(events)]
    <3>1. E[i].symbol = f.symbol /\ E[i].seq = f.seq /\ (Shows(f, t) => TopOf(E[i]) = t)
      BY <1>7, <2>2, Zenon DEF EventOf, f
    <3>2. DataOf(read[1], s) /\ f = read[1]
      BY <1>1, <1>7, <3>1, Zenon DEF EventOf, DataOf, f
    <3>3. \/ Shows(f, t)
          \/ FrameNews(read, 1, s, f.seq) \/ FrameNews(sent, 0, s, f.seq)
      BY <1>1, <3>2, Zenon DEF FollowedFrom
    <3>4. FrameNews(read, 1, s, f.seq) => FrameNews(q, 0, s, f.seq)
      <4>1. 0 \in Nat /\ 0 + 1 = 1
        OBVIOUS
      <4>2. FrameNews(read, 0 + 1, s, f.seq) => FrameNews(q, 0, s, f.seq)
        BY <1>3, <4>1, Zenon
      <4>3. QED BY <4>1, <4>2, Zenon
    <3>5. QED BY <3>1, <3>3, <3>4, Zenon
  <2>3. QED BY <1>2, <2>1, <2>2, Zenon
<1>8. 0 \in Nat /\ 0 \in 0..Len(events)
  BY <1>2
<1>9. \/ b.seq = 0 \/ TopOf(b) = t \/ EventNews(E, 0, s, b.seq)
      \/ FrameNews(q, 0, s, b.seq) \/ FrameNews(sent, 0, s, b.seq)
  BY <1>4, <1>5, <1>8, Zenon DEF FollowedFrom
<1>10. \A i \in 1..Len(sent) : DataOf(sent[i], s) =>
         Shows(sent[i], t) \/ FrameNews(sent, i, s, sent[i].seq)
  BY Zenon DEF FollowedFrom
<1>11. FollowedFrom(sent, q, E, b, t, s)
  BY <1>6, <1>7, <1>9, <1>10, Zenon DEF FollowedFrom
<1>12. QED BY <1>11 DEF q, E

(* The first event is applied to the book of s, if it is of s               *)
LEMMA TakeFollows ==
  ASSUME NEW sent, NEW read, NEW events \in Seq(Events), NEW b, NEW t, NEW s, NEW c,
         b.seq \in Nat, events # <<>>, FollowedFrom(sent, read, events, b, t, s),
         c = IF EventOf(Head(events), s) THEN Apply(b, Head(events)) ELSE b
  PROVE  FollowedFrom(sent, read, Tail(events), c, t, s)
<1> DEFINE q == Tail(events)
           e == Head(events)
<1>1. /\ Len(events) \in Nat /\ e = events[1] /\ 1 \in 1..Len(events)
      /\ \A k \in 1..Len(q) : q[k] = events[k + 1] /\ k + 1 \in 1..Len(events)
      /\ \A k \in 1..Len(events) : k > 1 => k - 1 \in 1..Len(q) /\ q[k - 1] = events[k]
  BY Shortened
<1>2. c = IF EventOf(e, s) THEN Apply(b, e) ELSE b
  OBVIOUS
<1>3. e.seq \in Nat
  BY <1>1, EventSeq
<1> HIDE DEF q, e
<1>4. ASSUME NEW i \in Nat, NEW m, EventNews(events, i + 1, s, m)
      PROVE  EventNews(q, i, s, m)
  <2>1. PICK k \in 1..Len(events) : k > i + 1 /\ EventOf(events[k], s) /\ events[k].seq > m
    BY <1>4, Zenon DEF EventNews
  <2>2. k - 1 \in 1..Len(q) /\ q[k - 1] = events[k] /\ k - 1 > i
    BY <1>1, <2>1
  <2>3. QED BY <2>1, <2>2, Zenon DEF EventNews
<1>5. ASSUME NEW i \in 1..Len(q), EventOf(q[i], s)
      PROVE  \/ TopOf(q[i]) = t \/ EventNews(q, i, s, q[i].seq)
             \/ FrameNews(read, 0, s, q[i].seq) \/ FrameNews(sent, 0, s, q[i].seq)
  <2>1. q[i] = events[i + 1] /\ i + 1 \in 1..Len(events) /\ i \in Nat
    BY <1>1
  <2>2. \/ TopOf(q[i]) = t \/ EventNews(events, i + 1, s, q[i].seq)
        \/ FrameNews(read, 0, s, q[i].seq) \/ FrameNews(sent, 0, s, q[i].seq)
    BY <1>5, <2>1, Zenon DEF FollowedFrom
  <2>3. QED BY <1>4, <2>1, <2>2, Zenon
<1>6. CASE EventOf(e, s) /\ e.seq > b.seq
  <2>1. c.seq = e.seq /\ TopOf(c) = TopOf(e)
    BY <1>2, <1>6 DEF Apply, TopOf
  <2>2. \/ TopOf(e) = t \/ EventNews(events, 1, s, e.seq)
        \/ FrameNews(read, 0, s, e.seq) \/ FrameNews(sent, 0, s, e.seq)
    BY <1>1, <1>6, Zenon DEF FollowedFrom
  <2>3. EventNews(events, 1, s, e.seq) => EventNews(q, 0, s, e.seq)
    <3>1. 0 \in Nat /\ 0 + 1 = 1
      OBVIOUS
    <3>2. EventNews(events, 0 + 1, s, e.seq) => EventNews(q, 0, s, e.seq)
      BY <1>4, <3>1, Zenon
    <3>3. QED BY <3>1, <3>2, Zenon
  <2>4. \/ c.seq = 0 \/ TopOf(c) = t \/ EventNews(q, 0, s, c.seq)
        \/ FrameNews(read, 0, s, c.seq) \/ FrameNews(sent, 0, s, c.seq)
    BY <2>1, <2>2, <2>3, Zenon
  <2>5. QED BY <1>5, <2>4, Zenon DEF FollowedFrom, q
<1>7. CASE ~ (EventOf(e, s) /\ e.seq > b.seq)
  <2>1. c = b
    BY <1>2, <1>7 DEF Apply
  <2>2. EventNews(events, 0, s, b.seq) => EventNews(q, 0, s, b.seq)
    <3>1. ASSUME NEW k \in 1..Len(events), EventOf(events[k], s), events[k].seq > b.seq
          PROVE  EventNews(q, 0, s, b.seq)
      <4>1. k # 1
        BY <1>1, <1>7, <3>1
      <4>2. k - 1 \in 1..Len(q) /\ q[k - 1] = events[k] /\ k - 1 > 0
        BY <1>1, <4>1
      <4>3. QED BY <3>1, <4>2, Zenon DEF EventNews
    <3>2. QED BY <3>1, Zenon DEF EventNews
  <2>3. \/ c.seq = 0 \/ TopOf(c) = t \/ EventNews(q, 0, s, c.seq)
        \/ FrameNews(read, 0, s, c.seq) \/ FrameNews(sent, 0, s, c.seq)
    BY <2>1, <2>2, Zenon DEF FollowedFrom
  <2>4. QED BY <1>5, <2>3, Zenon DEF FollowedFrom, q
<1>8. QED BY <1>6, <1>7, Zenon

---------------------------------------------------------------------------
(* The steps of the session.                                                *)

BooksInv == MarketTypeOK /\ PastInv

booksVars == <<pending, inbound, channel, book, top, tops, frames>>

LEMMA SilentKeepsBooks ==
  ASSUME UNCHANGED booksVars
  PROVE  (BooksInv => BooksInv') /\ (Followed => Followed')
  BY DEF booksVars, BooksInv, MarketTypeOK, PastInv, Followed, AllComplete

(* What was past stays past as the history grows                            *)
LEMMA PastStays ==
  ASSUME NEW n \in Nat, NEW m \in Nat, n <= m, NEW h, NEW g,
         \A x \in Symbols : h[x] \subseteq g[x]
  PROVE  /\ \A fs \in Seq(Frames) : PastFrames(fs, n, h) => PastFrames(fs, m, g)
         /\ \A es \in Seq(Events) : PastEvents(es, n, h) => PastEvents(es, m, g)
         /\ \A s \in Products : \A b : PastBook(b, s, n, h) => PastBook(b, s, m, g)
<1>1. ASSUME NEW f \in Frames, PastFrame(f, n, h), IsData(f)
      PROVE  f.seq \in 1..m /\ \E t \in g[f.symbol] : Shows(f, t)
  <2>1. f.symbol \in Symbols
    BY <1>1 DEF Frames, IsData
  <2>2. f.seq \in 1..m
    BY <1>1 DEF PastFrame
  <2>3. QED BY <1>1, <2>1, <2>2, Zenon DEF PastFrame
<1>2. ASSUME NEW e \in Events, PastEvent(e, n, h)
      PROVE  e.seq \in 1..m /\ (e.kind = "L1" => TopOf(e) \in g[e.symbol])
  <2>1. e.symbol \in Symbols
    BY MarketAssumption DEF Events
  <2>2. e.seq \in 1..m
    BY <1>2 DEF PastEvent
  <2>3. QED BY <1>2, <2>1, <2>2, Zenon DEF PastEvent
<1>3. ASSUME NEW s \in Products, NEW b, PastBook(b, s, n, h)
      PROVE  b.seq \in 0..m /\ (b.seq > 0 => TopOf(b) \in g[s])
  <2>1. s \in Symbols /\ b.seq \in 0..m
    BY <1>3, MarketAssumption DEF PastBook
  <2>2. QED BY <1>3, <2>1, Zenon DEF PastBook
<1>4. /\ \A fs \in Seq(Frames) : \A k \in 1..Len(fs) : fs[k] \in Frames
      /\ \A es \in Seq(Events) : \A k \in 1..Len(es) : es[k] \in Events
  OBVIOUS
<1>5. QED
  BY <1>1, <1>2, <1>3, <1>4, Zenon DEF PastFrames, PastFrame, PastEvents, PastEvent, PastBook

(* A frame f is sent, with the top of its symbol if it is data              *)
LEMMA SendKeepsBooks ==
  ASSUME BooksInv, NEW f \in Frames, ExchangeSends(f), UNCHANGED <<pending, channel, book>>,
         top' \in [Symbols -> Tops], tops' \in [Symbols -> SUBSET Tops],
         \A x \in Symbols : tops[x] \subseteq tops'[x] /\ top'[x] \in tops'[x],
         IsData(f) => f.seq = frames + 1 /\ Shows(f, top'[f.symbol])
  PROVE  BooksInv'
<1> DEFINE q == inbound'
           n == frames'
           h == tops'
<1>1. /\ q = Append(inbound, f) /\ n = frames + 1
      /\ frames \in Nat /\ n \in Nat /\ frames <= n
      /\ inbound \in Seq(Frames) /\ pending \in Seq(Frames) /\ channel \in Seq(Events)
  BY DEF BooksInv, MarketTypeOK, ExchangeSends
<1>2. MarketTypeOK'
  <2>1. inbound' \in Seq(Frames)
    BY <1>1
  <2>2. QED BY <1>1, <2>1 DEF BooksInv, MarketTypeOK
<1>3. /\ \A fs \in Seq(Frames) : PastFrames(fs, frames, tops) => PastFrames(fs, n, h)
      /\ \A es \in Seq(Events) : PastEvents(es, frames, tops) => PastEvents(es, n, h)
      /\ \A s \in Products : \A b : PastBook(b, s, frames, tops) => PastBook(b, s, n, h)
  BY <1>1, PastStays, Zenon
<1>4. PastFrame(f, n, h)
  <2>1. ASSUME IsData(f)
        PROVE  f.seq \in 1..n /\ Shows(f, top'[f.symbol]) /\ top'[f.symbol] \in h[f.symbol]
    <3>1. f.symbol \in Symbols
      BY <2>1 DEF Frames, IsData
    <3>2. QED BY <1>1, <2>1, <3>1
  <2>2. QED BY <2>1, Zenon DEF PastFrame
<1>5. PastFrames(q, n, h)
  <2>1. /\ \A k \in 1..Len(inbound) : q[k] = inbound[k]
        /\ q[Len(inbound) + 1] = f
        /\ \A k \in 1..Len(q) : k \in 1..Len(inbound) \/ k = Len(inbound) + 1
    BY <1>1, Lengthened
  <2>2. PastFrames(inbound, n, h)
    BY <1>1, <1>3, Zenon DEF BooksInv, PastInv
  <2>3. QED BY <1>4, <2>1, <2>2, Zenon DEF PastFrames
<1>6. PastFrames(pending, n, h) /\ PastEvents(channel, n, h)
  BY <1>1, <1>3, Zenon DEF BooksInv, PastInv
<1>7. \A s \in Products : PastBook(book[s], s, n, h)
  BY <1>3, Zenon DEF BooksInv, PastInv
<1>8. PastInv'
  BY <1>5, <1>6, <1>7, Zenon DEF PastInv
<1>9. QED BY <1>2, <1>8 DEF BooksInv

LEMMA SendKeepsFollowed ==
  ASSUME BooksInv, Followed, NEW f \in Frames, ExchangeSends(f), UNCHANGED <<pending, channel, book>>,
         top' \in [Symbols -> Tops],
         \A x \in Symbols : top'[x] # top[x] => IsData(f) /\ f.symbol = x,
         IsData(f) => f.seq = frames + 1 /\ Shows(f, top'[f.symbol]) /\ Complete(f)
  PROVE  Followed'
<1>1. /\ inbound' = Append(inbound, f) /\ frames \in Nat
      /\ inbound \in Seq(Frames) /\ pending \in Seq(Frames) /\ channel \in Seq(Events)
  BY DEF BooksInv, MarketTypeOK, ExchangeSends
<1>2. AllComplete(inbound') /\ AllComplete(pending')
  <2>1. /\ \A k \in 1..Len(inbound) : inbound'[k] = inbound[k]
        /\ inbound'[Len(inbound) + 1] = f
        /\ \A k \in 1..Len(inbound') : k \in 1..Len(inbound) \/ k = Len(inbound) + 1
    BY <1>1, Lengthened
  <2>2. QED BY <2>1, Zenon DEF Followed, AllComplete
<1>3. ASSUME NEW s \in Products
      PROVE  FollowedFrom(inbound', pending', channel', book'[s], top'[s], s)
  <2>1. FollowedFrom(inbound, pending, channel, book[s], top[s], s)
    BY Zenon DEF Followed
  <2>2. CASE DataOf(f, s)
    <3>1. Shows(f, top'[s]) /\ f.seq = frames + 1
      BY <2>2 DEF DataOf
    <3>2. /\ \A k \in 1..Len(inbound) : IsData(inbound[k]) => inbound[k].seq \in 0..frames
          /\ \A k \in 1..Len(pending) : IsData(pending[k]) => pending[k].seq \in 0..frames
          /\ \A k \in 1..Len(channel) : channel[k].seq \in 0..frames
          /\ book[s].seq \in 0..frames
      <4>1. \A k : k \in 1..frames => k \in 0..frames
        BY <1>1
      <4>2. QED BY <4>1, Zenon DEF BooksInv, PastInv, PastFrames, PastEvents, PastFrame, PastEvent, PastBook
    <3>3. FollowedFrom(Append(inbound, f), pending, channel, book[s], top'[s], s)
      BY <1>1, <2>2, <3>1, <3>2, NewTopFollows, Zenon
    <3>4. QED BY <1>1, <3>3, Zenon
  <2>3. CASE ~ DataOf(f, s)
    <3>1. top'[s] = top[s]
      BY <2>3, MarketAssumption DEF DataOf
    <3>2. FollowedFrom(Append(inbound, f), pending, channel, book[s], top[s], s)
      BY <1>1, <2>1, <2>3, SentFollows, Zenon
    <3>3. QED BY <1>1, <3>1, <3>2, Zenon
  <2>4. QED BY <2>2, <2>3
<1>4. QED BY <1>2, <1>3, Zenon DEF Followed

LEMMA ReadKeepsBooks ==
  ASSUME BooksInv, NEW n \in 1..Len(inbound),
         pending' = pending \o SubSeq(inbound, 1, n),
         inbound' = SubSeq(inbound, n + 1, Len(inbound)),
         UNCHANGED <<channel, book, top, tops, frames>>
  PROVE  BooksInv' /\ (Followed => Followed')
<1> DEFINE A == SubSeq(inbound, 1, n)
           B == SubSeq(inbound, n + 1, Len(inbound))
<1>1. inbound \in Seq(Frames) /\ pending \in Seq(Frames) /\ channel \in Seq(Events)
  BY DEF BooksInv, MarketTypeOK
<1>2. /\ A \in Seq(Frames) /\ B \in Seq(Frames) /\ Len(inbound) \in Nat
      /\ Len(A) = n /\ Len(B) = Len(inbound) - n
      /\ \A k \in 1..n : A[k] = inbound[k]
      /\ \A k \in 1..Len(B) : B[k] = inbound[n + k] /\ n + k \in 1..Len(inbound)
  BY <1>1, Cut
<1>3. pending' = pending \o A /\ inbound' = B
  OBVIOUS
<1> HIDE DEF A, B
<1>4. /\ pending' \in Seq(Frames)
      /\ \A k \in 1..Len(pending') : \/ k \in 1..Len(pending) /\ pending'[k] = pending[k]
                                     \/ \E j \in 1..Len(inbound) : pending'[k] = inbound[j]
  <2> DEFINE R == pending \o A
  <2>1. /\ R \in Seq(Frames)
        /\ \A k \in 1..Len(R) : \/ k \in 1..Len(pending) /\ R[k] = pending[k]
                                \/ k - Len(pending) \in 1..Len(A) /\ R[k] = A[k - Len(pending)]
    <3>1. A \in Seq(Frames)
      BY <1>2
    <3>2. QED BY <1>1, <3>1, Concatenated
  <2> HIDE DEF R
  <2>2. \A j \in 1..Len(A) : j \in 1..Len(inbound) /\ A[j] = inbound[j]
    BY <1>2
  <2>3. /\ R \in Seq(Frames)
        /\ \A k \in 1..Len(R) : \/ k \in 1..Len(pending) /\ R[k] = pending[k]
                                \/ \E j \in 1..Len(inbound) : R[k] = inbound[j]
    BY <2>1, <2>2, Zenon
  <2>4. pending' = R
    BY <1>3 DEF R
  <2>5. QED BY <2>3, <2>4, Zenon
<1>5. /\ inbound' \in Seq(Frames)
      /\ \A k \in 1..Len(inbound') : \E j \in 1..Len(inbound) : inbound'[k] = inbound[j]
  BY <1>2, <1>3
<1>6. MarketTypeOK'
  BY <1>4, <1>5 DEF BooksInv, MarketTypeOK
<1>7. PastFrames(pending', frames, tops) /\ PastFrames(inbound', frames, tops)
  BY <1>4, <1>5, Zenon DEF BooksInv, PastInv, PastFrames
<1>8. PastInv'
  BY <1>7, Zenon DEF BooksInv, PastInv
<1>9. ASSUME Followed
      PROVE  Followed'
  <2>1. AllComplete(pending') /\ AllComplete(inbound')
    BY <1>4, <1>5, <1>9, Zenon DEF Followed, AllComplete
  <2>2. ASSUME NEW s \in Products
        PROVE  FollowedFrom(inbound', pending', channel', book'[s], top'[s], s)
    <3>1. FollowedFrom(inbound, pending, channel, book[s], top[s], s)
      BY <1>9, Zenon DEF Followed
    <3>2. FollowedFrom(B, pending \o A, channel, book[s], top[s], s)
      BY <1>1, <3>1, ReadFollows, Zenon DEF A, B
    <3>3. QED BY <1>3, <3>2, Zenon
  <2>3. QED BY <2>1, <2>2, Zenon DEF Followed
<1>10. QED BY <1>6, <1>8, <1>9 DEF BooksInv

(* The first frame read is handled; ev, which it decodes to, may be empty   *)
LEMMA HandledKeepsBooks ==
  ASSUME BooksInv, pending # <<>>, pending' = Tail(pending), UNCHANGED <<inbound, book, top, tops, frames>>,
         \/ channel' = channel
         \/ IsData(Head(pending)) /\ Head(pending).symbol \in Products
            /\ channel' = channel \o ParseMarketData(Head(pending))
  PROVE  BooksInv'
<1>1. inbound \in Seq(Frames) /\ pending \in Seq(Frames) /\ channel \in Seq(Events)
      /\ tops \in [Symbols -> SUBSET Tops] /\ frames \in Nat
  BY DEF BooksInv, MarketTypeOK
<1>2. /\ 1 \in 1..Len(pending) /\ Head(pending) = pending[1] /\ pending[1] \in Frames
      /\ pending' \in Seq(Frames)
      /\ \A k \in 1..Len(pending') : pending'[k] = pending[k + 1] /\ k + 1 \in 1..Len(pending)
  BY <1>1, Shortened
<1>3. PastFrames(pending', frames, tops)
  BY <1>2, Zenon DEF BooksInv, PastInv, PastFrames
<1>4. channel' \in Seq(Events) /\ PastEvents(channel', frames, tops)
  <2>1. CASE channel' = channel
    BY <1>1, <2>1, Zenon DEF BooksInv, PastInv
  <2>2. CASE /\ IsData(Head(pending)) /\ Head(pending).symbol \in Products
             /\ channel' = channel \o ParseMarketData(Head(pending))
    <3>1. PICK f \in Frames : f = Head(pending)
      BY <1>2
    <3>2. PICK ev : ev = ParseMarketData(f)
      OBVIOUS
    <3>3. /\ ev \in Seq(Events)
          /\ \A k \in 1..Len(ev) : ev[k].symbol = f.symbol /\ ev[k].seq = f.seq
          /\ \A k \in 1..Len(ev) : ev[k].kind = "L1" =>
               \A t \in Tops : Shows(f, t) => TopOf(ev[k]) = t
      BY <2>2, <3>1, <3>2, ParsedEvents, Zenon
    <3>4. PastFrame(f, frames, tops)
      BY <1>2, <3>1, Zenon DEF BooksInv, PastInv, PastFrames
    <3>5. PICK t \in tops[f.symbol] : Shows(f, t) /\ f.seq \in 1..frames
      BY <2>2, <3>1, <3>4, Zenon DEF PastFrame
    <3>6. t \in Tops
      BY <1>1, <2>2, <3>1, <3>5, MarketAssumption
    <3>7. PastEvents(ev, frames, tops)
      BY <3>3, <3>5, <3>6, Zenon DEF PastEvents, PastEvent
    <3>8. PastEvents(channel, frames, tops)
      BY Zenon DEF BooksInv, PastInv
    <3> DEFINE E == channel \o ev
    <3>9. /\ E \in Seq(Events)
          /\ \A k \in 1..Len(E) : \/ k \in 1..Len(channel) /\ E[k] = channel[k]
                                  \/ k - Len(channel) \in 1..Len(ev) /\ E[k] = ev[k - Len(channel)]
      BY <1>1, <3>3, Concatenated
    <3> HIDE DEF E
    <3>10. E \in Seq(Events) /\ PastEvents(E, frames, tops)
      BY <3>7, <3>8, <3>9, Zenon DEF PastEvents
    <3>11. channel' = E
      BY <2>2, <3>1, <3>2, Zenon DEF E
    <3>12. QED BY <3>10, <3>11, Zenon
  <2>3. QED BY <2>1, <2>2
<1>5. MarketTypeOK'
  BY <1>2, <1>4 DEF BooksInv, MarketTypeOK
<1>6. PastInv'
  BY <1>3, <1>4, Zenon DEF BooksInv, PastInv
<1>7. QED BY <1>5, <1>6 DEF BooksInv

LEMMA HandledKeepsFollowed ==
  ASSUME BooksInv, Followed, pending # <<>>, pending' = Tail(pending),
         UNCHANGED <<inbound, book, top, tops, frames>>,
         \/ ~ IsData(Head(pending)) /\ channel' = channel
         \/ IsData(Head(pending)) /\ Head(pending).symbol \in Products
            /\ channel' = channel \o ParseMarketData(Head(pending))
  PROVE  Followed'
<1>1. inbound \in Seq(Frames) /\ pending \in Seq(Frames) /\ channel \in Seq(Events)
      /\ top \in [Symbols -> Tops]
  BY DEF BooksInv, MarketTypeOK
<1>2. /\ 1 \in 1..Len(pending) /\ Head(pending) = pending[1] /\ pending[1] \in Frames
      /\ \A k \in 1..Len(pending') : pending'[k] = pending[k + 1] /\ k + 1 \in 1..Len(pending)
  BY <1>1, Shortened
<1>3. AllComplete(pending') /\ AllComplete(inbound')
  BY <1>2, Zenon DEF Followed, AllComplete
<1>4. ASSUME NEW s \in Products
      PROVE  FollowedFrom(inbound, pending', channel', book[s], top[s], s)
  <2>1. FollowedFrom(inbound, pending, channel, book[s], top[s], s)
    BY Zenon DEF Followed
  <2>2. top[s] \in Tops
    BY <1>1, MarketAssumption
  <2>3. CASE ~ IsData(Head(pending)) /\ channel' = channel
    <3>1. FollowedFrom(inbound, Tail(pending), channel, book[s], top[s], s)
      BY <1>1, <2>1, <2>3, DropFollows, Zenon DEF DataOf
    <3>2. QED BY <2>3, <3>1, Zenon
  <2>4. CASE /\ IsData(Head(pending)) /\ Head(pending).symbol \in Products
             /\ channel' = channel \o ParseMarketData(Head(pending))
    <3>1. PICK f \in Frames : f = Head(pending)
      BY <1>2
    <3>2. PICK ev : ev = ParseMarketData(f)
      OBVIOUS
    <3>3. /\ ev \in Seq(Events)
          /\ \A k \in 1..Len(ev) : ev[k].symbol = f.symbol /\ ev[k].seq = f.seq
          /\ \A k \in 1..Len(ev) : ev[k].kind = "L1" =>
               \A t \in Tops : Shows(f, t) => TopOf(ev[k]) = t
          /\ Complete(f) => 1 \in 1..Len(ev) /\ ev[1].kind = "L1"
      BY <2>4, <3>1, <3>2, ParsedEvents, Zenon
    <3>4. Complete(f)
      BY <1>2, <2>4, <3>1, Zenon DEF Followed, AllComplete
    <3>5. FollowedFrom(inbound, Tail(pending), channel \o ev, book[s], top[s], s)
      BY <1>1, <2>1, <2>2, <2>4, <3>1, <3>3, <3>4, DecodeFollows, Zenon
    <3>6. QED BY <2>4, <3>1, <3>2, <3>5, Zenon
  <2>5. QED BY <2>3, <2>4
<1>5. QED BY <1>3, <1>4, Zenon DEF Followed

LEMMA TakeKeepsBooks ==
  ASSUME BooksInv, channel # <<>>, channel' = Tail(channel),
         book' = IF Head(channel).kind = "L1"
                 THEN [book EXCEPT ![Head(channel).symbol] = Apply(@, Head(channel))] ELSE book,
         UNCHANGED <<pending, inbound, top, tops, frames>>
  PROVE  BooksInv' /\ (Followed => Followed')
<1> DEFINE e == Head(channel)
<1>1. /\ channel \in Seq(Events) /\ tops \in [Symbols -> SUBSET Tops] /\ frames \in Nat
      /\ book \in [Products -> Books]
  BY DEF BooksInv, MarketTypeOK
<1>2. /\ 1 \in 1..Len(channel) /\ e = channel[1] /\ e \in Events
      /\ channel' \in Seq(Events)
      /\ \A k \in 1..Len(channel') : channel'[k] = channel[k + 1] /\ k + 1 \in 1..Len(channel)
  BY <1>1, Shortened
<1>3. book' = IF e.kind = "L1" THEN [book EXCEPT ![e.symbol] = Apply(@, e)] ELSE book
  OBVIOUS
<1> HIDE DEF e
<1>4. /\ e.symbol \in Products /\ e.seq \in Nat
      /\ e.kind = "L1" => e.bid \in Prices /\ e.ask \in Prices
  BY <1>2 DEF Events
<1>5. \A s \in Products : book'[s] = IF EventOf(e, s) THEN Apply(book[s], e) ELSE book[s]
  BY <1>1, <1>3, <1>4 DEF EventOf
<1>6. MarketTypeOK'
  <2>1. \A b \in Books :
          e.kind = "L1" =>
            Apply(b, e) \in Books
    BY <1>4 DEF Apply, Books
  <2>2. book' \in [Products -> Books]
    <3>1. CASE e.kind = "L1"
      <4>1. PICK c \in Books : c = Apply(book[e.symbol], e)
        BY <1>1, <1>4, <2>1, <3>1
      <4>2. book' = [book EXCEPT ![e.symbol] = c]
        BY <1>3, <3>1, <4>1
      <4>3. QED BY <1>1, <4>2
    <3>2. QED BY <1>1, <1>3, <3>1
  <2>3. QED BY <1>2, <2>2 DEF BooksInv, MarketTypeOK
<1>7. PastEvent(e, frames, tops) /\ PastEvents(channel', frames, tops)
  BY <1>2, Zenon DEF BooksInv, PastInv, PastEvents
<1>8. ASSUME NEW s \in Products
      PROVE  PastBook(book'[s], s, frames, tops)
  <2>1. PastBook(book[s], s, frames, tops)
    BY Zenon DEF BooksInv, PastInv
  <2>2. CASE EventOf(e, s) /\ e.seq > book[s].seq
    <3>1. book'[s].seq = e.seq /\ TopOf(book'[s]) = TopOf(e)
      BY <1>5, <2>2 DEF Apply, TopOf
    <3>2. e.seq \in 0..frames /\ TopOf(e) \in tops[s]
      BY <1>1, <1>7, <2>2 DEF PastEvent, EventOf
    <3>3. QED BY <3>1, <3>2, Zenon DEF PastBook
  <2>3. CASE ~ (EventOf(e, s) /\ e.seq > book[s].seq)
    <3>1. book'[s] = book[s]
      BY <1>5, <2>3 DEF Apply
    <3>2. QED BY <2>1, <3>1, Zenon
  <2>4. QED BY <2>2, <2>3
<1>9. PastInv'
  BY <1>7, <1>8, Zenon DEF BooksInv, PastInv
<1>10. ASSUME Followed
       PROVE  Followed'
  <2>1. ASSUME NEW s \in Products
        PROVE  FollowedFrom(inbound, pending, Tail(channel), book'[s], top[s], s)
    <3>1. FollowedFrom(inbound, pending, channel, book[s], top[s], s) /\ book[s].seq \in Nat
      BY <1>1, <1>10 DEF Followed, Books
    <3>2. book'[s] = IF EventOf(Head(channel), s) THEN Apply(book[s], Head(channel)) ELSE book[s]
      BY <1>5 DEF e
    <3>3. QED BY <1>1, <3>1, <3>2, TakeFollows, Zenon
  <2>2. QED BY <1>10, <2>1, Zenon DEF Followed
<1>11. QED BY <1>6, <1>9, <1>10 DEF BooksInv

(* What a frame of the exchange does                                        *)
LEMMA ExchangeKeepsBooks ==
  ASSUME BooksInv, ExchangeStep, oneSided \in BOOLEAN, ~ deletesLast
  PROVE  BooksInv' /\ (~ oneSided => (Followed => Followed'))
<1>1. /\ top \in [Symbols -> Tops] /\ tops \in [Symbols -> SUBSET Tops] /\ frames \in Nat
      /\ \A s \in Symbols : top[s] \in tops[s]
  BY DEF BooksInv, MarketTypeOK, PastInv
<1>2. CASE SessionFrame
  <2>1. PICK type \in {"Logon", "TestRequest", "Other", "Bad"} : ExchangeSends([type |-> type])
    BY <1>2, Zenon DEF SessionFrame
  <2>2. PICK f : f = [type |-> type]
    OBVIOUS
  <2>3. f \in Frames /\ ~ IsData(f)
    BY <2>1, <2>2 DEF Frames, IsData
  <2>4. /\ ExchangeSends(f) /\ UNCHANGED <<pending, channel, book, top, tops>>
    BY <1>2, <2>1, <2>2 DEF SessionFrame, threadVars
  <2>5. QED BY <1>1, <2>3, <2>4, SendKeepsBooks, SendKeepsFollowed
<1>3. ASSUME NEW s \in Symbols, Snapshot(s)
      PROVE  BooksInv' /\ (Followed => Followed')
  <2>1. PICK f : f = DataFrame(s, frames + 1, <<Entry("bid", top[s].bid), Entry("ask", top[s].ask)>>)
    OBVIOUS
  <2>2. ExchangeSends(f) /\ UNCHANGED <<pending, channel, book, top, tops>>
    BY <1>3, <2>1 DEF Snapshot, MarketData, DataFrame, threadVars
  <2>3. PICK n \in Nat, t \in Tops : n = frames + 1 /\ t = top[s]
    BY <1>1
  <2>4. /\ f \in Frames /\ IsData(f) /\ f.symbol = s /\ f.seq = frames + 1
        /\ Shows(f, top[s]) /\ Complete(f)
    <3> DEFINE g == DataFrame(s, n, <<Entry("bid", t.bid), Entry("ask", t.ask)>>)
    <3>1. g \in Frames /\ IsData(g) /\ g.symbol = s /\ g.seq = n /\ Shows(g, t) /\ Complete(g)
      BY SnapshotShows
    <3>2. f = g
      BY <2>1, <2>3
    <3> HIDE DEF g
    <3>3. QED BY <2>3, <3>1, <3>2, Zenon
  <2>5. QED BY <1>1, <2>2, <2>4, SendKeepsBooks, SendKeepsFollowed
<1>4. ASSUME NEW s \in Symbols, NEW t \in Tops, Update(s, t)
      PROVE  BooksInv' /\ (~ oneSided => (Followed => Followed'))
  <2> DEFINE side(kind, was, is) == IF oneSided /\ was = is THEN <<>> ELSE <<Entry(kind, is)>>
             gone(kind, was, is) == IF was = is THEN {<<>>} ELSE {<<>>, <<Entry(kind, was)>>}
             b0 == side("bid", top[s].bid, t.bid)
             a0 == side("ask", top[s].ask, t.ask)
  <2>1. \/ \E trade \in TradeEntries(t) : MarketData(s, trade \o (b0 \o a0))
        \/ \E bGone \in gone("bid", top[s].bid, t.bid), aGone \in gone("ask", top[s].ask, t.ask) :
             MarketData(s, (bGone \o aGone) \o (b0 \o a0))
    BY <1>4, Zenon DEF Update, TradeEntries
  <2>2. PICK b \in SideEntries("bid", t.bid) : b = b0
    BY Zenon DEF SideEntries
  <2>3. PICK a \in SideEntries("ask", t.ask) : a = a0
    BY Zenon DEF SideEntries
  <2>e. \A e : <<e>> # <<>>
    OBVIOUS
  <2>4. /\ ~ oneSided => b # <<>> /\ a # <<>>
        /\ top[s].bid # t.bid => b # <<>>
        /\ top[s].ask # t.ask => a # <<>>
    BY <2>2, <2>3, <2>e, Zenon
  <2>5. PICK bGone, aGone, first :
          /\ bGone = <<>> \/ (bGone = <<Entry("bid", top[s].bid)>> /\ b # <<>>)
          /\ aGone = <<>> \/ (aGone = <<Entry("ask", top[s].ask)>> /\ a # <<>>)
          /\ first \in TradeEntries(t) \/ first = bGone \o aGone
          /\ MarketData(s, first \o (b0 \o a0))
    <3>1. ASSUME NEW bGone \in gone("bid", top[s].bid, t.bid)
          PROVE  bGone = <<>> \/ (bGone = <<Entry("bid", top[s].bid)>> /\ b # <<>>)
      BY <2>4, Zenon
    <3>2. ASSUME NEW aGone \in gone("ask", top[s].ask, t.ask)
          PROVE  aGone = <<>> \/ (aGone = <<Entry("ask", top[s].ask)>> /\ a # <<>>)
      BY <2>4, Zenon
    <3> HIDE DEF b0, a0, side, gone
    <3>3. CASE \E trade \in TradeEntries(t) : MarketData(s, trade \o (b0 \o a0))
      BY <3>3, Zenon
    <3>4. CASE \E bGone \in gone("bid", top[s].bid, t.bid), aGone \in gone("ask", top[s].ask, t.ask) :
                 MarketData(s, (bGone \o aGone) \o (b0 \o a0))
      BY <3>1, <3>2, <3>4, Zenon
    <3>5. QED BY <2>1, <3>3, <3>4
  <2> HIDE DEF side, gone, b0, a0
  <2>t. /\ Entry("bid", top[s].bid) \in Entries /\ Entry("bid", top[s].bid).kind = "bid"
        /\ Entry("ask", top[s].ask) \in Entries /\ Entry("ask", top[s].ask).kind = "ask"
        /\ Entry("trade", t.bid) \in Entries /\ Entry("bid", None) \in Entries
    BY <1>1 DEF Entry, Entries, Tops
  <2>7. /\ first \in Seq(Entries)
        /\ \/ first \in TradeEntries(t)
           \/ \A k \in 1..Len(first) : \/ first[k].kind = "bid" /\ b # <<>>
                                       \/ first[k].kind = "ask" /\ a # <<>>
    <3>1. CASE first \in TradeEntries(t)
      <4>1. first \in Seq(Entries)
        BY <2>t, <3>1, OneIsASequence, Zenon DEF TradeEntries
      <4>2. QED BY <3>1, <4>1
    <3>2. CASE first = bGone \o aGone
      <4>1. PICK x \in Entries, y \in Entries :
              x = Entry("bid", top[s].bid) /\ y = Entry("ask", top[s].ask)
        BY <2>t
      <4>2. x.kind = "bid" /\ y.kind = "ask"
        BY <2>t, <4>1
      <4>3. /\ bGone = <<>> \/ (bGone = <<x>> /\ b # <<>>)
            /\ aGone = <<>> \/ (aGone = <<y>> /\ a # <<>>)
        BY <2>5, <4>1
      <4>4. /\ first \in Seq(Entries)
            /\ \A k \in 1..Len(first) : \/ first[k] = x /\ bGone # <<>>
                                        \/ first[k] = y /\ aGone # <<>>
        <5>1. (bGone = <<>> \/ bGone = <<x>>) /\ (aGone = <<>> \/ aGone = <<y>>)
          BY <4>3
        <5>2. Joined(x, y, bGone, aGone)
          BY <5>1, TwoAtMost, Zenon
        <5>3. QED BY <3>2, <5>2, Zenon DEF Joined
      <4>5. QED BY <4>2, <4>3, <4>4, Zenon
    <3>3. QED BY <2>5, <3>1, <3>2
  <2>n. PICK n \in Nat : n = frames + 1
    BY <1>1
  <2>8. PICK f : n = frames + 1 /\ f = DataFrame(s, n, first \o (b \o a))
    BY <2>n
  <2>9. ExchangeSends(f)
    BY <2>2, <2>3, <2>5, <2>8, Zenon DEF MarketData, DataFrame
  <2>10. /\ f \in Frames /\ IsData(f) /\ f.symbol = s /\ f.seq = frames + 1 /\ Shows(f, t)
         /\ ~ oneSided => Complete(f)
    <3> DEFINE g == DataFrame(s, n, first \o (b \o a))
    <3>1. /\ g \in Frames /\ IsData(g) /\ g.symbol = s /\ g.seq = n /\ Shows(g, t)
          /\ b # <<>> /\ a # <<>> => Complete(g)
      BY <2>7, UpdateShows
    <3>2. f = g
      BY <2>8
    <3> HIDE DEF g
    <3>3. QED BY <2>4, <2>8, <3>1, <3>2, Zenon
  <2>11. /\ UNCHANGED <<pending, channel, book>>
         /\ top' = [top EXCEPT ![s] = t] /\ tops' = [tops EXCEPT ![s] = @ \cup {t}]
    BY <1>4 DEF Update, threadVars
  <2>12. /\ top' \in [Symbols -> Tops] /\ tops' \in [Symbols -> SUBSET Tops]
         /\ \A x \in Symbols : tops[x] \subseteq tops'[x] /\ top'[x] \in tops'[x]
         /\ \A x \in Symbols : top'[x] # top[x] => x = s
         /\ top'[s] = t
    BY <1>1, <2>11
  <2>13. BooksInv'
    BY <2>9, <2>10, <2>11, <2>12, SendKeepsBooks
  <2>14. ASSUME ~ oneSided, Followed PROVE Followed'
    BY <2>9, <2>10, <2>11, <2>12, <2>14, SendKeepsFollowed
  <2>15. QED BY <2>13, <2>14
<1>5. QED BY <1>2, <1>3, <1>4, Zenon DEF ExchangeStep

OptionsOK == oneSided \in BOOLEAN /\ deletesLast \in BOOLEAN

FeedInv == OptionsOK /\ (~ deletesLast => BooksInv /\ FollowInv)

(* A step that keeps the books, and what follows them unless it ends the    *)
(* session with an error                                                    *)
LEMMA KeptIsFed ==
  ASSUME FeedInv, ~ deletesLast, UNCHANGED options, BooksInv', pc' # "err" => pc # "err",
         ~ oneSided /\ pc' # "err" /\ Followed => Followed'
  PROVE  FeedInv'
  BY Zenon DEF FeedInv, OptionsOK, FollowInv, options

LEMMA FeedStep == FeedInv /\ [MarketNext]_marketVars => FeedInv'
<1>o. [MarketNext]_marketVars => UNCHANGED options
  <2>1. MarketNext => UNCHANGED options
    BY Zenon DEF MarketNext
  <2>2. UNCHANGED marketVars => UNCHANGED options
    BY DEF marketVars, options
  <2>3. QED BY <2>1, <2>2
<1> SUFFICES ASSUME FeedInv, [MarketNext]_marketVars, ~ deletesLast PROVE FeedInv'
  BY <1>o DEF FeedInv, OptionsOK, options
<1>0. /\ BooksInv /\ oneSided \in BOOLEAN /\ ~ deletesLast
  BY DEF FeedInv, OptionsOK
<1>1. CASE UNCHANGED marketVars
  <2>1. UNCHANGED booksVars /\ UNCHANGED options /\ pc' = pc
    BY <1>1 DEF marketVars, booksVars, exchangeVars
  <2>2. QED BY <1>0, <2>1, SilentKeepsBooks, KeptIsFed, Zenon
<1>2. CASE MarketNext
  <2>0. UNCHANGED options
    BY <1>2 DEF MarketNext
  <2>1. CASE pc # "err" /\ (Connect \/ Check \/ HandledAll \/ HandleBad)
    <3>1. UNCHANGED booksVars
      BY <2>1 DEF Connect, Check, HandledAll, HandleBad, booksVars, exchangeVars
    <3>2. QED BY <1>0, <2>0, <2>1, <3>1, SilentKeepsBooks, KeptIsFed, Zenon
  <2>2. CASE pc # "err" /\ Read
    <3>1. ASSUME NEW n \in 1..Len(inbound),
                 pending' = pending \o SubSeq(inbound, 1, n),
                 inbound' = SubSeq(inbound, n + 1, Len(inbound))
          PROVE  BooksInv' /\ (Followed => Followed')
      <4>1. UNCHANGED <<channel, book, top, tops, frames>>
        BY <2>2 DEF Read, exchangeVars
      <4>2. QED BY <1>0, <3>1, <4>1, ReadKeepsBooks
    <3>2. CASE UNCHANGED <<pending, inbound>>
      <4>1. UNCHANGED booksVars
        BY <2>2, <3>2 DEF Read, booksVars, exchangeVars
      <4>2. QED BY <1>0, <2>0, <2>2, <4>1, SilentKeepsBooks, KeptIsFed, Zenon
    <3>3. \/ UNCHANGED <<pending, inbound>>
          \/ \E n \in 1..Len(inbound) : /\ pending' = pending \o SubSeq(inbound, 1, n)
                                        /\ inbound' = SubSeq(inbound, n + 1, Len(inbound))
      BY <2>2, Zenon DEF Read
    <3>4. QED BY <1>0, <2>0, <2>2, <3>1, <3>2, <3>3, KeptIsFed, Zenon
  <2>3. CASE pc # "err" /\ (HandleLogon \/ HandleTestRequest \/ HandleOther)
    <3>1. /\ pending # <<>> /\ ~ IsData(Head(pending)) /\ pending' = Tail(pending)
          /\ UNCHANGED <<inbound, book, top, tops, frames>> /\ channel' = channel
      BY <2>3 DEF HandleLogon, HandleTestRequest, HandleOther, Handling, IsData, exchangeVars
    <3>2. BooksInv' /\ (Followed => Followed')
      BY <1>0, <3>1, HandledKeepsBooks, HandledKeepsFollowed, Zenon
    <3>3. QED BY <2>0, <2>3, <3>2, KeptIsFed, Zenon
  <2>4. CASE pc # "err" /\ HandleMarketData
    <3>1. /\ pending # <<>> /\ IsData(Head(pending)) /\ pending' = Tail(pending)
          /\ UNCHANGED <<inbound, book, top, tops, frames>>
      BY <2>4 DEF HandleMarketData, Handling, IsData, exchangeVars
    <3>2. \/ /\ Head(pending).symbol \in Products
             /\ channel' = channel \o ParseMarketData(Head(pending))
          \/ pc' = "err" /\ channel' = channel
      BY <2>4, Zenon DEF HandleMarketData
    <3>3. BooksInv'
      BY <1>0, <3>1, <3>2, HandledKeepsBooks, Zenon
    <3>4. ASSUME pc' # "err", Followed PROVE Followed'
      BY <1>0, <3>1, <3>2, <3>4, HandledKeepsFollowed, Zenon
    <3>5. QED BY <2>0, <2>4, <3>3, <3>4, KeptIsFed, Zenon
  <2>5. CASE pc # "err" /\ ExchangeStep
    <3>1. BooksInv' /\ (~ oneSided => (Followed => Followed'))
      BY <1>0, <2>5, ExchangeKeepsBooks, Zenon
    <3>2. QED BY <2>0, <2>5, <3>1, KeptIsFed, Zenon
  <2>6. CASE StrategyTakes
    <3>1. /\ channel # <<>> /\ channel' = Tail(channel) /\ pc' = pc
          /\ book' = IF Head(channel).kind = "L1"
                     THEN [book EXCEPT ![Head(channel).symbol] = Apply(@, Head(channel))]
                     ELSE book
          /\ UNCHANGED <<pending, inbound, top, tops, frames>>
      BY <2>6 DEF StrategyTakes, exchangeVars
    <3>2. BooksInv' /\ (Followed => Followed')
      BY <1>0, <3>1, TakeKeepsBooks
    <3>3. QED BY <2>0, <3>1, <3>2, KeptIsFed, Zenon
  <2>7. QED
    BY <1>2, <2>1, <2>2, <2>3, <2>4, <2>5, <2>6, Zenon DEF MarketNext, MarketThread
<1>3. QED BY <1>1, <1>2

LEMMA FeedInit == MarketInit => FeedInv
<1> SUFFICES ASSUME MarketInit PROVE FeedInv
  OBVIOUS
<1>1. OptionsOK
  BY Zenon DEF MarketInit, OptionsOK
<1>2. /\ top \in [Symbols -> Tops] /\ tops = [s \in Symbols |-> {top[s]}]
      /\ frames = 0 /\ inbound = <<>> /\ pending = <<>> /\ channel = <<>>
      /\ book = [s \in Products |-> NoBook]
  BY Zenon DEF MarketInit
<1>3. MarketTypeOK
  BY <1>2 DEF MarketTypeOK, Books, NoBook
<1>4. PastInv
  BY <1>2 DEF PastInv, PastFrames, PastEvents, PastBook, NoBook
<1>5. Followed
  BY <1>2 DEF Followed, AllComplete, FollowedFrom, NoBook
<1>6. QED BY <1>1, <1>3, <1>4, <1>5, Zenon DEF FeedInv, BooksInv, FollowInv

(* parse_market_data and L1Book::apply: a book shows both sides of one top  *)
(* the exchange has had, never the bid of one and the ask of another, if the*)
(* exchange names a level it removes before the one in its place.           *)
THEOREM MarketBookIsAPastTop == MarketSpec => []BookIsAPastTop
<1>1. FeedInv => BookIsAPastTop
  BY DEF FeedInv, BooksInv, PastInv, PastBook, BookIsAPastTop, TopOf
<1>2. QED BY <1>1, FeedInit, FeedStep, PTL DEF MarketSpec

(* run_fix_market_data loses and reorders nothing: once all that was sent   *)
(* has been handled, each book that has data is the exchange's current top  *)
(* - if updates carry both sides, and what is removed comes first.          *)
THEOREM MarketBookFollowsFeed == MarketSpec => []BookFollowsFeed
<1>1. FeedInv => BookFollowsFeed
  <2> SUFFICES ASSUME FeedInv, ~ oneSided, ~ deletesLast, inbound = <<>>, pending = <<>>, channel = <<>>,
                      pc # "err", NEW s \in Products, book[s].seq > 0
               PROVE  [bid |-> book[s].bid, ask |-> book[s].ask] = top[s]
    BY Zenon DEF BookFollowsFeed
  <2>1. FollowedFrom(inbound, pending, channel, book[s], top[s], s)
    BY Zenon DEF FeedInv, FollowInv, Followed
  <2>2. book[s].seq # 0
    BY DEF FeedInv, BooksInv, MarketTypeOK, Books
  <2>3. QED BY <2>1, <2>2 DEF FollowedFrom, FrameNews, EventNews, TopOf
<1>2. QED BY <1>1, FeedInit, FeedStep, PTL DEF MarketSpec

=============================================================================
