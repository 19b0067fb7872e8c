------------------------------- MODULE Trend -------------------------------
(***************************************************************************)
(* The trend estimate of MakerStrategy (src/maker.rs): the window of trades *)
(* it keeps, pruned by the receive times of the calls, and the score by     *)
(* which on_book stands aside.  Receive times are SystemTime, read when a   *)
(* frame is parsed: a clock that is set back takes them along.              *)
(***************************************************************************)
EXTENDS Integers, Sequences, SequencesExt

CONSTANTS
  WindowNs, MinNotional,                               (* TrendConfig       *)
  TradeWeight, CountWeight, ObiWeight, MicroWeight,
  StrongScore,
  Notionals,      (* price * qty of trades                                 *)
  Tops,           (* tops of the book                                      *)
  MaxTime,        (* bound: the clock                                      *)
  MaxSamples,     (* bound: trades received                                *)
  NoTop           (* last_book is None                                     *)

TradeSides == {"Buy", "Sell"}
AnyTop     == [bid : Nat, ask : Nat, bidQty : Nat, askQty : Nat]

ASSUME TrendAssumption ==
  /\ WindowNs \in Nat /\ MaxTime \in Nat /\ MaxSamples \in Nat
  /\ {MinNotional, TradeWeight, CountWeight, ObiWeight, MicroWeight, StrongScore} \subseteq Int
  /\ Notionals \subseteq Nat
  /\ Tops \subseteq AnyTop /\ NoTop \notin AnyTop

VARIABLES
  clock,      (* external: the system clock                                *)
  setBack,    (* external: it was set back                                 *)
  trades,     (* as in the code                                            *)
  top,        (* last_book                                                 *)
  sampled,    (* history: the trades of the symbol with a side             *)
  latest      (* history: the receive time of the last call                *)

trendVars == <<clock, setBack, trades, top, sampled, latest>>

TrendInit ==
  /\ clock = 0 /\ setBack = FALSE
  /\ trades = <<>> /\ top = NoTop
  /\ sampled = <<>> /\ latest = 0

---------------------------------------------------------------------------
(* The window.                                                              *)

(* now_ns.saturating_sub(window_ns)                                         *)
Cutoff(now) == IF now >= WindowNs THEN now - WindowNs ELSE 0

(* Variant: the trade at the edge of the window is out                      *)
PruneEdge(ts, now) ==
  LET live == SelectInSeq(ts, LAMBDA s : s.ts > Cutoff(now))
  IN  IF live = 0 THEN <<>> ELSE SubSeq(ts, live, Len(ts))

(* prune_trades drains what is in front of the first trade still live, or   *)
(* everything                                                               *)
Prune(ts, now) ==
  LET live == SelectInSeq(ts, LAMBDA s : s.ts >= Cutoff(now))
  IN  IF live = 0 THEN <<>> ELSE SubSeq(ts, live, Len(ts))

(* on_trade_sample; a trade of another symbol or without a side is ignored  *)
OnTradeSample ==
  /\ Len(sampled) < MaxSamples
  /\ \E s \in [ts : {clock}, side : TradeSides, notional : Notionals] :
       /\ sampled' = Append(sampled, s)
       /\ trades' = Prune(Append(trades, s), clock)
  /\ latest' = clock
  /\ UNCHANGED <<clock, setBack, top>>

(* What on_book, and on_book_sample, do first                               *)
OnBookSample ==
  /\ top' \in Tops
  /\ trades' = Prune(trades, clock)
  /\ latest' = clock
  /\ UNCHANGED <<clock, setBack, sampled>>

(* The clock, external                                                      *)
Tick ==
  /\ clock < MaxTime
  /\ clock' \in (clock + 1)..MaxTime
  /\ UNCHANGED <<setBack, trades, top, sampled, latest>>

SetBack ==
  /\ ~ setBack
  /\ clock' \in 0..(clock - 1)
  /\ setBack' = TRUE
  /\ UNCHANGED <<trades, top, sampled, latest>>

TrendNext == OnTradeSample \/ OnBookSample \/ Tick \/ SetBack

TrendSpec == TrendInit /\ [][TrendNext]_trendVars

---------------------------------------------------------------------------
(* The score.  Division is Rust's, towards zero.                            *)

Magnitude(v) == IF v < 0 THEN -v ELSE v
Quot(a, b) == IF a >= 0 THEN a \div b ELSE -((-a) \div b)
RatioX100(num, den) == IF den = 0 THEN 0 ELSE Quot(num * 100, den)

(* trade_stats, for one side                                                *)
Share(s, side) == IF s.side = side THEN s.notional ELSE 0
NotionalOf(ts, side) ==
  LET sum[k \in 0..Len(ts)] == IF k = 0 THEN 0 ELSE sum[k - 1] + Share(ts[k], side)
  IN  sum[Len(ts)]
CountOf(ts, side) == Cardinality({k \in 1..Len(ts) : ts[k].side = side})

(* book_features                                                            *)
ObiX100(t) == IF t = NoTop THEN 0 ELSE RatioX100(t.bidQty - t.askQty, t.bidQty + t.askQty)

Mid(t) == (t.bid + t.ask) \div 2

MicroBps(t) ==
  IF t = NoTop THEN 0
  ELSE IF Mid(t) <= 0 \/ t.bidQty + t.askQty <= 0 THEN 0
  ELSE Quot(((t.ask * t.bidQty + t.bid * t.askQty) \div (t.bidQty + t.askQty) - Mid(t)) * 10000, Mid(t))

(* trend_score_x100                                                         *)
Score(ts, t) ==
  LET buys  == NotionalOf(ts, "Buy")   sells == NotionalOf(ts, "Sell")
      bids  == CountOf(ts, "Buy")      asks  == CountOf(ts, "Sell")
  IN  IF buys + sells < MinNotional THEN 0
      ELSE Quot(TradeWeight * RatioX100(buys - sells, buys + sells)
                  + CountWeight * RatioX100(bids - asks, bids + asks)
                  + ObiWeight * ObiX100(t) + MicroWeight * MicroBps(t), 100)

(* Variant: the minus is missing                                            *)
TrendUnsigned(score) ==
  IF score >= StrongScore THEN "StrongUp"
  ELSE IF score <= StrongScore THEN "StrongDown" ELSE "Neutral"

(* score_to_trend                                                           *)
TrendOf(score) ==
  IF score >= StrongScore THEN "StrongUp"
  ELSE IF score <= -StrongScore THEN "StrongDown" ELSE "Neutral"

---------------------------------------------------------------------------
(* Properties.                                                              *)

InWindow(s) == s.ts >= Cutoff(latest)

(* The verdict follows the trades of the window: as long as the clock runs  *)
(* forward they are exactly those kept.  When it was set back some may be   *)
(* missing, but what is kept is still an unbroken run of the latest trades  *)
(* that begins inside the window.                                           *)
KeptIsRecent ==
  LET dropped == Len(sampled) - Len(trades) IN
  /\ dropped >= 0
  /\ trades = [k \in 1..Len(trades) |-> sampled[dropped + k]]
  /\ trades # <<>> => InWindow(trades[1])
  /\ ~ setBack => \A k \in 1..Len(sampled) : InWindow(sampled[k]) <=> k > dropped

(* The same market with buyers and sellers exchanged                        *)
MirrorTrades(ts) ==
  [k \in 1..Len(ts) |-> [ts[k] EXCEPT !.side = IF @ = "Buy" THEN "Sell" ELSE "Buy"]]
MirrorTop(t) ==
  IF t = NoTop THEN t ELSE [t EXCEPT !.bidQty = t.askQty, !.askQty = t.bidQty]

(* One unit of the price scale, in points of the score, rounded up: the     *)
(* mid price and the micro price are both rounded down to a unit            *)
UnitOfPrice ==
  IF top = NoTop THEN 0 ELSE IF Mid(top) <= 0 THEN 0
  ELSE (Magnitude(MicroWeight) * ((10000 \div Mid(top)) + 2)) \div 100 + 1

(* The strategy has no side of its own: with buyers and sellers exchanged   *)
(* the score is the opposite, to within one unit of the price scale, and,   *)
(* unless that unit alone makes a strong score, no market is a strong rise  *)
(* and, exchanged, a strong rise as well.                                   *)
ScoreMirrors ==
  LET score    == Score(trades, top)
      mirrored == Score(MirrorTrades(trades), MirrorTop(top))
  IN  /\ score + mirrored \in -(UnitOfPrice + 1)..(UnitOfPrice + 1)
      /\ TrendOf(score) = TrendOf(mirrored) /\ 2 * StrongScore > UnitOfPrice + 1
         => TrendOf(score) = "Neutral"
=============================================================================
