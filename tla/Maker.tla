------------------------------- MODULE Maker -------------------------------
(***************************************************************************)
(* One symbol's market maker: MakerStrategy of src/maker.rs inside its      *)
(* MarketEngine (src/market.rs).  An action is one call of on_market_event  *)
(* or on_exchange_event, with everything it does before it returns.  Market *)
(* data and exchange events are unconstrained here, in content and order.   *)
(*                                                                          *)
(* The trend estimate (the trade window and its score) is a choice of each  *)
(* call: whatever holds here holds for every value it can take.             *)
(***************************************************************************)
EXTENDS Integers, Sequences, FiniteSets, Options

CONSTANTS
  Prices,        (* prices of the top of the book                          *)
  Offset,        (* MakerConfig.quote_tick_offset                          *)
  RequoteTicks,  (* MakerConfig.requote_ticks                              *)
  MaxOrderId,    (* bound: the last value next_strategy_order_id hands out *)
  MaxSequence    (* bound: the MsgSeqNum of market data                    *)

Sides    == {"Buy", "Sell"}
Slots    == {"bid", "ask", "exit"}
OrderIds == 1..MaxOrderId

Opposite(side) == IF side = "Buy" THEN "Sell" ELSE "Buy"

(* Where each side is quoted, and the phases of the strategy                *)
QuoteSlot(side) == IF side = "Buy" THEN "bid" ELSE "ask"
Exiting(side)   == IF side = "Buy" THEN "ExitBuy" ELSE "ExitSell"
Phases          == {"Flat", "TwoSided", "ExitBuy", "ExitSell"}

(* The top of the book, with the sequence number that brought it            *)
Books == [bid : Int, ask : Int, seq : 0..MaxSequence]

ActiveOrders == [seq : Nat, side : Sides, price : Int]

ASSUME MakerAssumption ==
  /\ Prices \subseteq Int
  /\ Offset \in Int /\ RequoteTicks \in Int
  /\ MaxOrderId \in Nat /\ MaxSequence \in Nat
  /\ None \notin ActiveOrders \cup Books

VARIABLES
  book,      (* MarketEngine.book                                          *)
  lastBook,  (* MakerStrategy.last_book                                    *)
  phase,     (* MakerStrategy.phase                                        *)
  tracked,   (* bid_order, ask_order and exit_order                        *)
  nextId,    (* next_strategy_order_id                                     *)
  emitted,   (* the commands the last call returned, in order              *)
  opened,    (* history: slot -> the order that an Open event has put into *)
             (* it and that was not given up since                         *)
  givenUp    (* history: the orders so known that the last call gave up    *)
             (* for others                                                 *)

bookVars    == <<book, lastBook>>
historyVars == <<opened, givenUp>>
makerVars   == <<bookVars, phase, tracked, nextId, emitted, historyVars>>

Nothing == [slot \in Slots |-> None]

MakerInit ==
  /\ book = [bid |-> 0, ask |-> 0, seq |-> 0]
  /\ lastBook = None
  /\ phase = "Flat"
  /\ tracked = Nothing
  /\ nextId = 1
  /\ emitted = <<>>
  /\ opened = Nothing
  /\ givenUp = {}

---------------------------------------------------------------------------
(* Commands.                                                                *)

New(side, price, id) == [kind |-> "New", side |-> side, price |-> price, id |-> id]
Cancel(order)        == [kind |-> "Cancel", target |-> order.seq]
CancelEverything     == [kind |-> "CancelAll"]

CancelIfTracked(order) == IF order = None THEN <<>> ELSE <<Cancel(order)>>

(* What an order is tracked as, under a guess at its client order id        *)
Track(guess, side, price) == [seq |-> guess, side |-> side, price |-> price]

Count(cmds, kind) == Cardinality({k \in 1..Len(cmds) : cmds[k].kind = kind})

(* The call returns cmds                                                    *)
Emit(cmds) ==
  /\ emitted' = cmds
  /\ nextId' = nextId + Count(cmds, "New")
  /\ nextId' <= MaxOrderId + 1

(* History: the call gives up what is in these slots, for other orders; or  *)
(* it gives up nothing; or it tracks nothing from here on                   *)
GiveUp(slots) ==
  /\ givenUp' = {opened[slot] : slot \in slots} \ {None}
  /\ opened' = [slot \in Slots |-> IF slot \in slots THEN None ELSE opened[slot]]
GiveUpNothing == givenUp' = {} /\ UNCHANGED opened
ForgetOpened  == givenUp' = {} /\ opened' = Nothing

---------------------------------------------------------------------------
(* Market data.                                                             *)

(* L1Book::apply                                                            *)
Apply(u) == IF u.seq > book.seq THEN u ELSE book

Target(b, side) == IF side = "Buy" THEN b.bid - Offset ELSE b.ask + Offset
Join(b, side)   == IF side = "Buy" THEN b.bid ELSE b.ask

Distance(a, b) == IF a > b THEN a - b ELSE b - a

ShouldRequote(order, price) ==
  order = None \/ Distance(order.price, price) >= RequoteTicks

(* Variant: the new order is placed and the old one left                    *)
ReplaceNothing(order, side, price, id) == <<New(side, price, id)>>

(* cancel the tracked order, if any, and place one at price under id        *)
Replace(order, side, price, id) ==
  CancelIfTracked(order) \o <<New(side, price, id)>>

(* Both guesses are taken after the two orders were numbered: the bid is    *)
(* tracked under the number of the ask, the ask under the one after it.     *)
QuoteTwoSides(b) ==
  /\ phase = "Flat"
  /\ Emit(<<New("Buy", Target(b, "Buy"), nextId), New("Sell", Target(b, "Sell"), nextId + 1)>>)
  /\ tracked' = [tracked EXCEPT
                   !["bid"] = Track(nextId + 1, "Buy", Target(b, "Buy")),
                   !["ask"] = Track(nextId + 2, "Sell", Target(b, "Sell"))]
  /\ phase' = "TwoSided"
  /\ GiveUpNothing

RequoteTwoSides(b) ==
  LET moves(side) == ShouldRequote(tracked[QuoteSlot(side)], Target(b, side))
      id(side)    == IF side = "Sell" /\ moves("Buy") THEN nextId + 1 ELSE nextId
      cmds(side)  == IF moves(side)
                     THEN Replace(tracked[QuoteSlot(side)], side, Target(b, side), id(side))
                     ELSE <<>>
      track(side) == IF moves(side) THEN Track(id(side), side, Target(b, side))
                     ELSE tracked[QuoteSlot(side)]
  IN  /\ phase = "TwoSided"
      /\ Emit(cmds("Buy") \o cmds("Sell"))
      /\ tracked' = [tracked EXCEPT !["bid"] = track("Buy"), !["ask"] = track("Sell")]
      /\ GiveUp({QuoteSlot(side) : side \in {x \in Sides : moves(x)}})
      /\ UNCHANGED phase

RequoteExit(b, side) ==
  LET moves == ShouldRequote(tracked["exit"], Join(b, side))
  IN  /\ phase = Exiting(side)
      /\ Emit(IF moves THEN Replace(tracked["exit"], side, Join(b, side), nextId) ELSE <<>>)
      /\ tracked' = IF moves
                    THEN [tracked EXCEPT !["exit"] = Track(nextId, side, Join(b, side))]
                    ELSE tracked
      /\ GiveUp(IF moves THEN {"exit"} ELSE {})
      /\ UNCHANGED phase

(* Variants: the tracked orders are kept; only they are cancelled           *)
StandAsideKeeping ==
  /\ Emit(<<CancelEverything>>)
  /\ phase' = "Flat"
  /\ UNCHANGED tracked
  /\ GiveUpNothing
StandAsideTracked ==
  /\ Emit(CancelIfTracked(tracked["bid"]) \o CancelIfTracked(tracked["ask"])
            \o CancelIfTracked(tracked["exit"]))
  /\ phase' = "Flat"
  /\ tracked' = Nothing
  /\ ForgetOpened

(* on_book when the trend is strong                                         *)
StandAside ==
  /\ Emit(<<CancelEverything>>)
  /\ phase' = "Flat"
  /\ tracked' = Nothing
  /\ ForgetOpened

(* Variant: the strategy is shown the update, not the book                  *)
OnL1Update(u) ==
  /\ book' = Apply(u)
  /\ lastBook' = u
  /\ \/ StandAside
     \/ QuoteTwoSides(u)
     \/ RequoteTwoSides(u)
     \/ \E side \in Sides : RequoteExit(u, side)

(* An L1 event for this symbol: the strategy is shown the book even when    *)
(* the update was too old to change it                                      *)
OnL1(u) ==
  /\ book' = Apply(u)
  /\ lastBook' = book'
  /\ \/ StandAside
     \/ QuoteTwoSides(book')
     \/ RequoteTwoSides(book')
     \/ \E side \in Sides : RequoteExit(book', side)

---------------------------------------------------------------------------
(* Exchange events.                                                         *)

(* The commands start_exit adds, and what it tracks                         *)
ExitOrder(side) == New(side, Join(lastBook, side), nextId)
ExitTracked(side) ==
  IF lastBook = None THEN tracked["exit"] ELSE Track(nextId, side, Join(lastBook, side))

(* on_fill of one of the two quotes.  Whose order was filled and how much   *)
(* of it is not looked at.                                                  *)
QuoteFilled(side) ==
  LET other == tracked[QuoteSlot(Opposite(side))]
  IN  /\ phase = "TwoSided"
      /\ Emit(CancelIfTracked(other)
                \o (IF lastBook = None THEN <<>> ELSE <<ExitOrder(Opposite(side))>>))
      /\ tracked' = [bid |-> None, ask |-> None, exit |-> ExitTracked(Opposite(side))]
      /\ opened' = Nothing
      /\ givenUp' = {opened[QuoteSlot(Opposite(side))]} \ {None}
      /\ phase' = Exiting(Opposite(side))

ExitFilled(side) ==
  /\ phase = Exiting(side)
  /\ Emit(<<>>)
  /\ tracked' = [tracked EXCEPT !["exit"] = None]
  /\ phase' = "Flat"
  /\ ForgetOpened

FillIgnored(side) ==
  /\ phase \in {"Flat", Exiting(Opposite(side))}
  /\ Emit(<<>>)
  /\ UNCHANGED <<phase, tracked>>
  /\ GiveUpNothing

OnFill(side) ==
  /\ QuoteFilled(side) \/ ExitFilled(side) \/ FillIgnored(side)
  /\ UNCHANGED bookVars

(* Whether an Open event of an order of this side is taken up, and where to *)
TakesUp(side)  == phase \in {"TwoSided", Exiting(side)}
SlotFor(side)  == IF phase = "TwoSided" THEN QuoteSlot(side) ELSE "exit"

(* Variant: the Open event is taken note of, the guess is left              *)
OnOrderGuessKept(seq, side, price, status) ==
  /\ opened' = IF status = "Open" /\ TakesUp(side)
               THEN [opened EXCEPT ![SlotFor(side)] = seq] ELSE opened
  /\ Emit(<<>>)
  /\ givenUp' = {}
  /\ UNCHANGED <<bookVars, phase, tracked>>

(* on_order: an Open event renames the tracked order of its side, and       *)
(* whatever was tracked there before is forgotten                           *)
OnOrder(seq, side, price, status) ==
  /\ IF status = "Open" /\ TakesUp(side)
       THEN /\ tracked' = [tracked EXCEPT ![SlotFor(side)] = Track(seq, side, price)]
            /\ opened' = [opened EXCEPT ![SlotFor(side)] = seq]
       ELSE UNCHANGED <<tracked, opened>>
  /\ Emit(<<>>)
  /\ givenUp' = {}
  /\ UNCHANGED <<bookVars, phase>>

MakerNext ==
  \/ \E bid, ask \in Prices, seq \in 0..MaxSequence :
       OnL1([bid |-> bid, ask |-> ask, seq |-> seq])
  \/ \E side \in Sides : OnFill(side)
  \/ \E seq \in OrderIds, side \in Sides, price \in Prices, status \in {"Open", "other"} :
       OnOrder(seq, side, price, status)

MakerSpec == MakerInit /\ [][MakerNext]_makerVars

---------------------------------------------------------------------------
(* Properties.                                                              *)

MakerTypeOK ==
  /\ book \in Books
  /\ lastBook \in Books \cup {None}
  /\ phase \in Phases
  /\ tracked \in [Slots -> ActiveOrders \cup {None}]
  /\ nextId \in 1..(MaxOrderId + 1)
  /\ opened \in [Slots -> Nat \cup {None}]
  /\ givenUp \subseteq Nat

(* What the strategy tracks is what its phase says: two quotes and no exit, *)
(* one exit order on the phase's side and no quote, or nothing - whatever   *)
(* order the market data, the fills and the Open events come in.  The early *)
(* return of start_exit, which would leave an exit without an order, is     *)
(* never taken.                                                             *)
PhaseMatchesTracking ==
  /\ phase = "Flat" => tracked = Nothing
  /\ phase = "TwoSided" =>
       /\ \A side \in Sides : tracked[QuoteSlot(side)] # None
                               /\ tracked[QuoteSlot(side)].side = side
       /\ tracked["exit"] = None
  /\ \A side \in Sides : phase = Exiting(side) =>
       /\ tracked["exit"] # None /\ tracked["exit"].side = side
       /\ tracked["bid"] = None /\ tracked["ask"] = None

(* What the strategy is shown is the engine's book, and it has been shown   *)
(* one before it tracks anything: with the above, an inductive invariant.   *)
BookIsShown ==
  /\ lastBook \in {None, book}
  /\ phase # "Flat" => lastBook # None

(* An order that an Open event has put into a slot is the one tracked there,*)
(* and giving it up for another order cancels it in the same call.          *)
OpenedIsTracked ==
  \A slot \in Slots : opened[slot] # None =>
    tracked[slot] # None /\ tracked[slot].seq = opened[slot]
Cancels(cmds, i) == \E k \in 1..Len(cmds) : cmds[k].kind = "Cancel" /\ cmds[k].target = i
GivenUpIsCancelled == \A i \in givenUp : Cancels(emitted, i)

MakerInv ==
  /\ MakerTypeOK
  /\ PhaseMatchesTracking
  /\ BookIsShown
  /\ OpenedIsTracked
  /\ GivenUpIsCancelled

(* How far towards the other side of the book an order may be priced for    *)
(* it not to trade at once: quotes keep the configured offset, an exit      *)
(* joins its side of the book.                                              *)
Reach == IF phase = "TwoSided" THEN Offset ELSE 0

WouldTrade(c, b) == IF c.side = "Buy" THEN c.price >= b.ask ELSE c.price <= b.bid

(* An order is asked for at a price that would trade at once, and that a    *)
(* post-only order is rejected for, exactly when the newest book and the    *)
(* configured offset say so: a quote if the book is crossed by the offset   *)
(* or more - a spread of 2 under an offset of -2 -, an exit if it is locked *)
(* or crossed.  However late the update is that the call is made for, the   *)
(* order is priced on the newest book the engine has.                       *)
CrossesAsConfigured ==
  [][\A k \in 1..Len(emitted') :
       emitted'[k].kind = "New" =>
         (WouldTrade(emitted'[k], book') <=> Reach' <= book'.bid - book'.ask)]_makerVars
=============================================================================
