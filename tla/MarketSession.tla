--------------------------- MODULE MarketSession ---------------------------
(***************************************************************************)
(* Market data from the exchange to the engines' books: run_fix_market_data *)
(* of src/runtime.rs, parse_market_data of src/fix/coinbase/market_data.rs  *)
(* and L1Book::apply of src/market.rs.  The exchange is external: it keeps  *)
(* the top of each book and sends it whole once (35=W), then what changes   *)
(* of it (35=X), in frames numbered by MsgSeqNum - all of them: a frame     *)
(* without the number, which the decoder would give the number 0, is left   *)
(* out.                                                                     *)
(***************************************************************************)
EXTENDS Naturals, Sequences, FiniteSets, FiniteSetsExt

CONSTANTS
  Symbols,     (* what the exchange has                                    *)
  Products,    (* what is configured, and so subscribed to                 *)
  Prices,
  OnceEvents,  (* market events it waits for (5 in the code)               *)
  MaxFrames,   (* bound: frames the exchange sends                         *)
  None         (* an entry's missing price                                 *)

ASSUME MarketAssumption ==
  /\ Products \subseteq Symbols
  /\ OnceEvents \in Nat /\ MaxFrames \in Nat
  /\ None \notin Prices

VARIABLES
  once,        (* the --once flag                                          *)
  oneSided,    (* external: an update carries the sides that changed, not  *)
               (* both                                                     *)
  deletesLast, (* external: a level that is gone is named behind the new   *)
               (* one, not before it                                       *)
  pc,          (* connect, check, read, handle; or ok, err: ended          *)
  shutdown,    (* the shared flag                                          *)
  senderSeq,   (* sender_seq                                               *)
  written,     (* the messages written: what and with which MsgSeqNum      *)
  subscribed,
  pending,     (* frames read and not yet handled                          *)
  printed,     (* events handled                                           *)
  channel,     (* market_tx to market_rx                                   *)
  book,        (* MarketEngine.book of each configured symbol              *)
  top,         (* external: the exchange's top of each book                *)
  tops,        (* external, history: every top a symbol has had            *)
  inbound,     (* external: frames sent and not yet read                   *)
  frames       (* external: number of frames sent                          *)

exchangeVars == <<top, tops, frames>>
options      == <<once, oneSided, deletesLast>>
marketVars   == <<options, pc, shutdown, senderSeq, written, subscribed, pending,
                  printed, channel, book, exchangeVars, inbound>>

Tops   == [bid : Prices, ask : Prices]
NoBook == [bid |-> None, ask |-> None, seq |-> 0]

MarketInit ==
  /\ once \in BOOLEAN /\ oneSided \in BOOLEAN /\ deletesLast \in BOOLEAN
  /\ pc = "connect" /\ shutdown = FALSE
  /\ senderSeq = 1 /\ written = <<>> /\ subscribed = FALSE
  /\ pending = <<>> /\ printed = 0 /\ channel = <<>>
  /\ book = [s \in Products |-> NoBook]
  /\ top \in [Symbols -> Tops]
  /\ tops = [s \in Symbols |-> {top[s]}]
  /\ inbound = <<>> /\ frames = 0

---------------------------------------------------------------------------
(* Decoding.                                                                *)

(* The places of the whole entries of a kind in a frame, and the price of   *)
(* the last of them.  An entry without a price or a quantity is passed over *)
(* (flush_entry).                                                           *)
Whole(f, kind) == {k \in 1..Len(f.entries) : f.entries[k].kind = kind /\ f.entries[k].px # None}
LastPrice(f, kind) == f.entries[Max(Whole(f, kind))].px

L1Event(f, bid, ask) ==
  [kind |-> "L1", symbol |-> f.symbol, seq |-> f.seq, bid |-> bid, ask |-> ask]

(* Variant: one side makes an L1 event                                      *)
ParseMarketDataHalf(f) ==
  LET side(kind) == IF Whole(f, kind) = {} THEN None ELSE LastPrice(f, kind)
  IN  IF Whole(f, "bid") # {} \/ Whole(f, "ask") # {}
      THEN <<L1Event(f, side("bid"), side("ask"))>>
      ELSE <<>>

(* parse_market_data: the last whole bid and the last whole ask of a frame  *)
(* make one L1 event if it has both; its trades follow in their order.      *)
ParseMarketData(f) ==
  LET l1     == L1Event(f, LastPrice(f, "bid"), LastPrice(f, "ask"))
      trades == [k \in 1..Cardinality(Whole(f, "trade")) |->
                   [kind |-> "Trade", symbol |-> f.symbol, seq |-> f.seq]]
  IN  (IF Whole(f, "bid") # {} /\ Whole(f, "ask") # {} THEN <<l1>> ELSE <<>>) \o trades

(* Variant: an update right after the one before is taken for a repeat      *)
ApplyLagging(b, e) ==
  IF e.seq > b.seq + 1 THEN [bid |-> e.bid, ask |-> e.ask, seq |-> e.seq] ELSE b

(* L1Book::apply                                                            *)
Apply(b, e) == IF e.seq > b.seq THEN [bid |-> e.bid, ask |-> e.ask, seq |-> e.seq] ELSE b

---------------------------------------------------------------------------
(* The market thread.                                                       *)

Write(what) ==
  /\ written' = Append(written, [what |-> what, seq |-> senderSeq])
  /\ senderSeq' = senderSeq + 1

(* The connection has failed; the number is spent                           *)
WriteFails == pc' = "err" /\ senderSeq' = senderSeq + 1

Connect ==
  /\ pc = "connect"
  /\ \/ pc' = "check" /\ Write("Logon")
     \/ pc' = "err" /\ UNCHANGED written /\ senderSeq' \in {senderSeq, senderSeq + 1}
  /\ UNCHANGED <<shutdown, subscribed, pending, printed, channel, book, exchangeVars, inbound>>

Check ==
  /\ pc = "check"
  /\ pc' = IF shutdown THEN "ok" ELSE "read"
  /\ UNCHANGED <<shutdown, senderSeq, written, subscribed, pending, printed, channel,
                 book, exchangeVars, inbound>>

(* Some of the frames sent, which end where reads end; or the read times    *)
(* out or fails, or finds the connection closed                             *)
Read ==
  /\ pc = "read"
  /\ \/ \E n \in 1..Len(inbound) :
          /\ pending' = pending \o SubSeq(inbound, 1, n)
          /\ inbound' = SubSeq(inbound, n + 1, Len(inbound))
          /\ pc' = "handle"
     \/ pc' = "err" /\ UNCHANGED <<pending, inbound>>
  /\ UNCHANGED <<shutdown, senderSeq, written, subscribed, printed, channel, book, exchangeVars>>

Handling(type) == pc = "handle" /\ pending # <<>> /\ Head(pending).type = type

(* Variant: every Logon subscribes                                          *)
HandleLogonAgain ==
  /\ Handling("Logon")
  /\ Write("MarketDataRequest")
  /\ subscribed' = TRUE
  /\ pending' = Tail(pending)
  /\ UNCHANGED <<pc, shutdown, printed, channel, book, exchangeVars, inbound>>

HandleLogon ==
  /\ Handling("Logon")
  /\ \/ subscribed /\ UNCHANGED <<pc, written, senderSeq, subscribed>>
     \/ ~ subscribed /\ Write("MarketDataRequest") /\ subscribed' = TRUE /\ UNCHANGED pc
     \/ ~ subscribed /\ WriteFails /\ UNCHANGED <<written, subscribed>>
  /\ pending' = Tail(pending)
  /\ UNCHANGED <<shutdown, printed, channel, book, exchangeVars, inbound>>

HandleTestRequest ==
  /\ Handling("TestRequest")
  /\ \/ Write("Heartbeat") /\ UNCHANGED pc
     \/ WriteFails /\ UNCHANGED written
  /\ pending' = Tail(pending)
  /\ UNCHANGED <<shutdown, subscribed, printed, channel, book, exchangeVars, inbound>>

(* A send fails once the strategy thread has ended                          *)
HandleMarketData ==
  /\ Handling("MarketData")
  /\ LET f      == Head(pending)
         events == ParseMarketData(f)
     IN  \/ /\ f.symbol \in Products
            /\ channel' = channel \o events
            /\ printed' = printed + Len(events)
            /\ shutdown' = (shutdown \/ (once /\ printed' >= OnceEvents))
            /\ UNCHANGED pc
         \/ /\ f.symbol \in Products => events # <<>>
            /\ pc' = "err"
            /\ UNCHANGED <<channel, printed, shutdown>>
  /\ pending' = Tail(pending)
  /\ UNCHANGED <<senderSeq, written, subscribed, book, exchangeVars, inbound>>

(* Heartbeats and everything else                                           *)
HandleOther ==
  /\ Handling("Other")
  /\ pending' = Tail(pending)
  /\ UNCHANGED <<pc, shutdown, senderSeq, written, subscribed, printed, channel, book,
                 exchangeVars, inbound>>

(* A frame the parser or the decoder fails on                               *)
HandleBad ==
  /\ Handling("Bad")
  /\ pc' = "err"
  /\ UNCHANGED <<shutdown, senderSeq, written, subscribed, pending, printed, channel, book,
                 exchangeVars, inbound>>

HandledAll ==
  /\ pc = "handle" /\ pending = <<>>
  /\ pc' = "check"
  /\ UNCHANGED <<shutdown, senderSeq, written, subscribed, pending, printed, channel,
                 book, exchangeVars, inbound>>

MarketThread ==
  \/ Connect \/ Check \/ Read \/ HandledAll
  \/ HandleLogon \/ HandleTestRequest \/ HandleMarketData \/ HandleOther \/ HandleBad

(* route_market_to_strategy, as far as the book goes                        *)
StrategyTakes ==
  /\ channel # <<>>
  /\ LET e == Head(channel) IN
       book' = IF e.kind = "L1" THEN [book EXCEPT ![e.symbol] = Apply(@, e)] ELSE book
  /\ channel' = Tail(channel)
  /\ UNCHANGED <<pc, shutdown, senderSeq, written, subscribed, pending, printed,
                 exchangeVars, inbound>>

---------------------------------------------------------------------------
(* The exchange.                                                            *)

threadVars == <<pc, shutdown, senderSeq, written, subscribed, pending, printed, channel, book>>

ExchangeSends(f) ==
  /\ pc # "connect" /\ frames < MaxFrames
  /\ inbound' = Append(inbound, f)
  /\ frames' = frames + 1

SessionFrame ==
  /\ \E type \in {"Logon", "TestRequest", "Other", "Bad"} : ExchangeSends([type |-> type])
  /\ UNCHANGED <<threadVars, top, tops>>

Entry(kind, px) == [kind |-> kind, px |-> px]

MarketData(s, entries) ==
  ExchangeSends([type |-> "MarketData", symbol |-> s, seq |-> frames + 1, entries |-> entries])

Snapshot(s) ==
  /\ MarketData(s, <<Entry("bid", top[s].bid), Entry("ask", top[s].ask)>>)
  /\ UNCHANGED <<threadVars, top, tops>>

(* The top of s becomes t.  A trade may come in the same frame, an entry    *)
(* that is not whole, or the removal of levels that are gone, which looks   *)
(* like any other entry: the decoder ignores MDUpdateAction(279).           *)
Update(s, t) ==
  LET side(kind, was, is) == IF oneSided /\ was = is THEN <<>> ELSE <<Entry(kind, is)>>
      gone(kind, was, is) == IF was = is THEN {<<>>} ELSE {<<>>, <<Entry(kind, was)>>}
      sides == side("bid", top[s].bid, t.bid) \o side("ask", top[s].ask, t.ask)
  IN
  /\ t # top[s]
  /\ \/ \E trade \in {<<>>, <<Entry("trade", t.bid)>>, <<Entry("bid", None)>>} :
          MarketData(s, trade \o sides)
     \/ \E b \in gone("bid", top[s].bid, t.bid), a \in gone("ask", top[s].ask, t.ask) :
          MarketData(s, IF deletesLast THEN sides \o (b \o a) ELSE (b \o a) \o sides)
  /\ top' = [top EXCEPT ![s] = t]
  /\ tops' = [tops EXCEPT ![s] = @ \cup {t}]
  /\ UNCHANGED threadVars

(* Subscribed means the request was written: then the snapshot comes first  *)
ExchangeStep ==
  \/ SessionFrame
  \/ \E s \in Symbols :
       /\ subscribed
       /\ \/ Snapshot(s)
          \/ \E t \in Tops : Update(s, t)

MarketNext ==
  /\ \/ pc \notin {"ok", "err"} /\ (MarketThread \/ ExchangeStep)
     \/ StrategyTakes
  /\ UNCHANGED options

MarketSpec == MarketInit /\ [][MarketNext]_marketVars

---------------------------------------------------------------------------
(* Properties.                                                              *)

(* A book never mixes the sides of two moments: what it shows is a top the  *)
(* exchange has had, however its updates are split over frames - if the     *)
(* exchange names the levels that are gone, if at all, before those in their*)
(* place (deletesLast is FALSE): the last entry of a side counts, and one   *)
(* that removes a level is not told from one that sets it.                  *)
BookIsAPastTop ==
  ~ deletesLast =>
    \A s \in Products :
      book[s].seq > 0 => [bid |-> book[s].bid, ask |-> book[s].ask] \in tops[s]

(* When every frame that was sent has been read and shown to the engines,   *)
(* each book that has data is the exchange's current top.  This needs both  *)
(* sides in every update too (oneSided is FALSE): a one-sided update makes  *)
(* no L1 event.                                                             *)
BookFollowsFeed ==
  /\ ~ oneSided /\ ~ deletesLast
  /\ inbound = <<>> /\ pending = <<>> /\ channel = <<>> /\ pc # "err"
  =>
    \A s \in Products :
      book[s].seq > 0 => [bid |-> book[s].bid, ask |-> book[s].ask] = top[s]

(* The session's own messages are numbered 1, 2, 3...: the heartbeats and   *)
(* the subscription share one counter (the order session's do not), and the *)
(* subscription is sent once whatever Logons arrive.                        *)
OneCounterOneSubscription ==
  /\ \A k \in 1..Len(written) : written[k].seq = k
  /\ pc # "err" => senderSeq = Len(written) + 1
  /\ \A j, k \in 1..Len(written) :
       written[j].what = "MarketDataRequest" /\ written[k].what = "MarketDataRequest" => j = k
=============================================================================
