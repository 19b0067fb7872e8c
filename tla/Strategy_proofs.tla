-------------------------- MODULE Strategy_proofs --------------------------
(***************************************************************************)
(* Proofs about the maker: its phase and what it tracks agree, an order it  *)
(* asks for would trade at once exactly when the newest book and the quote  *)
(* offset say so, and an order it knows and gives up for another one it     *)
(* cancels, under any events in any order; what its trend estimate keeps    *)
(* are the trades of the window, and the score it makes of them has no side.*)
(***************************************************************************)
EXTENDS Strategy, FiniteSetTheorems, WellFoundedInduction, TLAPS

---------------------------------------------------------------------------
(* The orders it works.                                                     *)

(* An order at this distance from its own side of the book b would trade at *)
(* once just when the book is crossed by the distance                       *)
PricedWithin(reach, b, side, price) ==
  IF side = "Buy" THEN price >= b.ask <=> reach <= b.bid - b.ask
                  ELSE price <= b.bid <=> reach <= b.bid - b.ask

(* The commands a call may return when the engine's book is b and the maker *)
(* keeps its orders at the distance reach                                   *)
SafeCommands(b, reach) ==
  {c \in {New(side, price, id) : side \in Sides, price \in Int, id \in Nat} :
     PricedWithin(reach, b, c.side, c.price)}
    \cup {Cancel(order) : order \in ActiveOrders}
    \cup {CancelEverything}

LEMMA NewIsSafe ==
  ASSUME NEW b, NEW reach, NEW side \in Sides, NEW price \in Int, NEW id \in Nat,
         PricedWithin(reach, b, side, price)
  PROVE  New(side, price, id) \in SafeCommands(b, reach)
<1>1. New(side, price, id).side = side /\ New(side, price, id).price = price
  BY DEF New
<1>2. QED BY <1>1 DEF SafeCommands

LEMMA PricedOnBook ==
  ASSUME NEW b \in Books, NEW side \in Sides
  PROVE  /\ Target(b, side) \in Int /\ PricedWithin(Offset, b, side, Target(b, side))
         /\ Join(b, side) \in Int /\ PricedWithin(0, b, side, Join(b, side))
  BY MakerAssumption DEF PricedWithin, Target, Join, Books, Sides

LEMMA CancelIfTrackedIsSafe ==
  ASSUME NEW b, NEW reach, NEW order \in ActiveOrders \cup {None}
  PROVE  CancelIfTracked(order) \in Seq(SafeCommands(b, reach))
<1>1. CASE order = None
  BY <1>1 DEF CancelIfTracked
<1>2. CASE order # None
  <2>1. Cancel(order) \in SafeCommands(b, reach)
    BY <1>2 DEF SafeCommands
  <2>2. QED BY <1>2, <2>1 DEF CancelIfTracked
<1>3. QED BY <1>1, <1>2

LEMMA ReplaceIsSafe ==
  ASSUME NEW b, NEW reach, NEW order \in ActiveOrders \cup {None},
         NEW side \in Sides, NEW price \in Int, NEW id \in Nat,
         PricedWithin(reach, b, side, price)
  PROVE  Replace(order, side, price, id) \in Seq(SafeCommands(b, reach))
<1>1. CancelIfTracked(order) \in Seq(SafeCommands(b, reach))
  BY CancelIfTrackedIsSafe, Zenon
<1>2. New(side, price, id) \in SafeCommands(b, reach)
  BY NewIsSafe
<1>3. QED BY <1>1, <1>2 DEF Replace

(* Replacing or cancelling a tracked order names it, and a call of several  *)
(* parts names what its parts name.                                         *)
LEMMA TrackedIsCancelled ==
  ASSUME NEW order, order # None
  PROVE  /\ Cancels(CancelIfTracked(order), order.seq)
         /\ \A side, price, id : Cancels(Replace(order, side, price, id), order.seq)
<1>1. CancelIfTracked(order) = <<Cancel(order)>>
  BY DEF CancelIfTracked
<1>2. Cancel(order).kind = "Cancel" /\ Cancel(order).target = order.seq
  BY DEF Cancel
<1>3. Cancels(<<Cancel(order)>>, order.seq)
  BY <1>2 DEF Cancels
<1>4. ASSUME NEW side, NEW price, NEW id
      PROVE  Cancels(Replace(order, side, price, id), order.seq)
  <2>1. PICK c : c = Cancel(order)
    OBVIOUS
  <2>2. PICK d : d = New(side, price, id)
    OBVIOUS
  <2>3. Replace(order, side, price, id) = <<c>> \o <<d>>
    BY <1>1, <2>1, <2>2 DEF Replace
  <2>4. Len(<<c>> \o <<d>>) = 2 /\ (<<c>> \o <<d>>)[1] = c
    OBVIOUS
  <2>5. 1 \in 1..Len(<<c>> \o <<d>>) /\ (<<c>> \o <<d>>)[1].kind = "Cancel"
        /\ (<<c>> \o <<d>>)[1].target = order.seq
    BY <1>2, <2>1, <2>4
  <2>6. QED BY <2>3, <2>5, Zenon DEF Cancels
<1>5. QED BY <1>1, <1>3, <1>4

LEMMA PartsCancel ==
  ASSUME NEW S, NEW s \in Seq(S), NEW t \in Seq(S), NEW i,
         Cancels(s, i) \/ Cancels(t, i)
  PROVE  Cancels(s \o t, i)
<1>1. /\ Len(s) \in Nat /\ Len(t) \in Nat /\ Len(s \o t) = Len(s) + Len(t)
      /\ \A k \in 1..Len(s) : (s \o t)[k] = s[k]
      /\ \A k \in 1..Len(t) : (s \o t)[Len(s) + k] = t[k]
  OBVIOUS
<1>2. CASE Cancels(s, i)
  <2>1. PICK k \in 1..Len(s) : s[k].kind = "Cancel" /\ s[k].target = i
    BY <1>2 DEF Cancels
  <2>2. k \in 1..Len(s \o t) /\ (s \o t)[k] = s[k]
    BY <1>1
  <2>3. QED BY <2>1, <2>2, Zenon DEF Cancels
<1>3. CASE Cancels(t, i)
  <2>1. PICK k \in 1..Len(t) : t[k].kind = "Cancel" /\ t[k].target = i
    BY <1>3 DEF Cancels
  <2>2. PICK j : j = Len(s) + k
    OBVIOUS
  <2>3. j \in 1..Len(s \o t) /\ (s \o t)[j] = t[k]
    BY <1>1, <2>2
  <2>4. QED BY <2>1, <2>3, Zenon DEF Cancels
<1>4. QED BY <1>2, <1>3

(* Emit moves the order id on by a natural number, and stays within bounds. *)
LEMMA EmitKeepsIds ==
  ASSUME NEW S, NEW cmds \in Seq(S), nextId \in 1..(MaxOrderId + 1), Emit(cmds)
  PROVE  nextId' \in 1..(MaxOrderId + 1) /\ emitted' = cmds
<1>1. Count(cmds, "New") \in Nat
  <2>1. Len(cmds) \in Nat /\ 1 \in Int /\ Len(cmds) \in Int
    OBVIOUS
  <2>2. IsFiniteSet(1..Len(cmds))
    BY <2>1, FS_Interval
  <2>3. IsFiniteSet({k \in 1..Len(cmds) : cmds[k].kind = "New"})
    BY <2>2, FS_Subset
  <2>4. QED BY <2>3, FS_CardinalityType DEF Count
<1>2. nextId' = nextId + Count(cmds, "New") /\ nextId' <= MaxOrderId + 1 /\ emitted' = cmds
  BY DEF Emit
<1>3. QED BY <1>1, <1>2, MakerAssumption
-----------------------------------------------------------------------------
(* A call keeps what it promises: the invariant, and safe commands.         *)
StepOK == MakerInv' /\ emitted' \in Seq(SafeCommands(book', Reach'))

LEMMA TrackIsOrder ==
  ASSUME NEW guess \in Nat, NEW side \in Sides, NEW price \in Int
  PROVE  Track(guess, side, price) \in ActiveOrders /\ Track(guess, side, price) # None
         /\ Track(guess, side, price).side = side
  BY MakerAssumption DEF Track, ActiveOrders

(* What an L1 event brings into the book, and shows to the strategy         *)
LEMMA BookShown ==
  ASSUME MakerInv, NEW u \in Books, book' = Apply(u), lastBook' = book'
  PROVE  book' \in Books /\ lastBook' = book' /\ lastBook' # None /\ lastBook' \in Books
<1>1. book' \in Books
  BY DEF MakerInv, MakerTypeOK, Apply
<1>2. QED BY <1>1, MakerAssumption

LEMMA TrackedTypes ==
  ASSUME MakerInv
  PROVE  /\ tracked \in [Slots -> ActiveOrders \cup {None}]
         /\ \A slot \in Slots : tracked[slot] \in ActiveOrders \cup {None}
         /\ \A side \in Sides : QuoteSlot(side) \in Slots
         /\ nextId \in Nat /\ nextId \in 1..(MaxOrderId + 1)
         /\ opened \in [Slots -> Nat \cup {None}]
  BY MakerAssumption DEF MakerInv, MakerTypeOK, Slots, Sides, QuoteSlot

(* The histories, when nothing is given up, or nothing is tracked from here *)
LEMMA NothingGivenUp ==
  ASSUME MakerInv, givenUp' = {},
         \/ opened' = Nothing
         \/ opened' = opened /\ \A slot \in Slots : opened[slot] # None => tracked'[slot] = tracked[slot]
  PROVE  /\ opened' \in [Slots -> Nat \cup {None}] /\ givenUp' \subseteq Nat
         /\ OpenedIsTracked' /\ GivenUpIsCancelled'
<1>1. opened' \in [Slots -> Nat \cup {None}]
  BY TrackedTypes DEF Nothing
<1>2. OpenedIsTracked'
  BY TrackedTypes DEF MakerInv, OpenedIsTracked, Nothing
<1>3. QED BY <1>1, <1>2 DEF GivenUpIsCancelled

LEMMA StandAsideStep ==
  ASSUME MakerInv, book' \in Books, lastBook' = book', StandAside
  PROVE  StepOK
<1>1. <<CancelEverything>> \in Seq(SafeCommands(book', Reach'))
  BY DEF SafeCommands
<1>2. nextId' \in 1..(MaxOrderId + 1) /\ emitted' = <<CancelEverything>>
  BY <1>1, TrackedTypes, EmitKeepsIds DEF StandAside
<1>3. /\ opened' \in [Slots -> Nat \cup {None}] /\ givenUp' \subseteq Nat
      /\ OpenedIsTracked' /\ GivenUpIsCancelled'
  BY NothingGivenUp DEF StandAside, ForgetOpened
<1>4. MakerTypeOK'
  BY <1>2, <1>3 DEF StandAside, MakerTypeOK, Phases, Nothing
<1>5. PhaseMatchesTracking' /\ BookIsShown'
  BY DEF StandAside, PhaseMatchesTracking, BookIsShown, Exiting, Sides
<1>6. QED BY <1>1, <1>2, <1>3, <1>4, <1>5 DEF StepOK, MakerInv

LEMMA QuoteTwoSidesStep ==
  ASSUME MakerInv, NEW u \in Books, book' = Apply(u), lastBook' = book', QuoteTwoSides(book')
  PROVE  StepOK
<1> DEFINE cmds == <<New("Buy", Target(book', "Buy"), nextId),
                     New("Sell", Target(book', "Sell"), nextId + 1)>>
           bid  == Track(nextId + 1, "Buy", Target(book', "Buy"))
           ask  == Track(nextId + 2, "Sell", Target(book', "Sell"))
<1>0. /\ Target(book', "Buy") \in Int /\ Target(book', "Sell") \in Int
      /\ PricedWithin(Offset, book', "Buy", Target(book', "Buy"))
      /\ PricedWithin(Offset, book', "Sell", Target(book', "Sell"))
  BY BookShown, PricedOnBook DEF Sides
<1>1. cmds \in Seq(SafeCommands(book', Reach'))
  <2>0. Reach' = Offset
    BY DEF Reach, QuoteTwoSides
  <2>1. New("Buy", Target(book', "Buy"), nextId) \in SafeCommands(book', Offset)
    BY <1>0, TrackedTypes, NewIsSafe DEF Sides
  <2>2. New("Sell", Target(book', "Sell"), nextId + 1) \in SafeCommands(book', Offset)
    BY <1>0, TrackedTypes, NewIsSafe DEF Sides
  <2>3. QED BY <2>0, <2>1, <2>2
<1>2. nextId' \in 1..(MaxOrderId + 1) /\ emitted' = cmds
  BY <1>1, TrackedTypes, EmitKeepsIds DEF QuoteTwoSides
<1>3. /\ bid \in ActiveOrders /\ bid # None /\ bid.side = "Buy"
      /\ ask \in ActiveOrders /\ ask # None /\ ask.side = "Sell"
  <2>1. bid \in ActiveOrders /\ bid # None /\ bid.side = "Buy"
    BY <1>0, TrackedTypes, TrackIsOrder DEF Sides
  <2>2. ask \in ActiveOrders /\ ask # None /\ ask.side = "Sell"
    BY <1>0, TrackedTypes, TrackIsOrder DEF Sides
  <2>3. QED BY <2>1, <2>2
<1> HIDE DEF cmds, bid, ask
<1>4. /\ phase = "Flat" /\ phase' = "TwoSided"
      /\ tracked' = [tracked EXCEPT !["bid"] = bid, !["ask"] = ask]
      /\ givenUp' = {} /\ opened' = opened
  BY DEF QuoteTwoSides, bid, ask, GiveUpNothing
<1>5. \A slot \in Slots : tracked[slot] = None
  BY <1>4 DEF MakerInv, PhaseMatchesTracking, Nothing
<1>6. /\ tracked' \in [Slots -> ActiveOrders \cup {None}]
      /\ tracked'["bid"] = bid /\ tracked'["ask"] = ask /\ tracked'["exit"] = None
  BY <1>3, <1>4, <1>5, TrackedTypes DEF Slots
<1>7. /\ opened' \in [Slots -> Nat \cup {None}] /\ givenUp' \subseteq Nat
      /\ OpenedIsTracked' /\ GivenUpIsCancelled'
  <2>1. \A slot \in Slots : opened[slot] = None
    BY <1>5 DEF MakerInv, OpenedIsTracked
  <2>2. QED BY <1>4, <2>1, NothingGivenUp
<1>8. MakerTypeOK'
  BY <1>2, <1>4, <1>6, <1>7, BookShown DEF MakerTypeOK, Phases
<1>9. PhaseMatchesTracking' /\ BookIsShown'
  BY <1>3, <1>4, <1>6, BookShown DEF PhaseMatchesTracking, BookIsShown, Exiting, Sides, QuoteSlot
<1>10. QED BY <1>1, <1>2, <1>7, <1>8, <1>9 DEF StepOK, MakerInv

LEMMA RequoteTwoSidesStep ==
  ASSUME MakerInv, NEW u \in Books, book' = Apply(u), lastBook' = book', RequoteTwoSides(book')
  PROVE  StepOK
<1> DEFINE moves(side) == ShouldRequote(tracked[QuoteSlot(side)], Target(book', side))
           id(side)    == IF side = "Sell" /\ moves("Buy") THEN nextId + 1 ELSE nextId
           cmds(side)  == IF moves(side)
                          THEN Replace(tracked[QuoteSlot(side)], side, Target(book', side), id(side))
                          ELSE <<>>
           track(side) == IF moves(side) THEN Track(id(side), side, Target(book', side))
                          ELSE tracked[QuoteSlot(side)]
<1>1. /\ phase = "TwoSided" /\ phase' = "TwoSided"
      /\ Emit(cmds("Buy") \o cmds("Sell"))
      /\ tracked' = [tracked EXCEPT !["bid"] = track("Buy"), !["ask"] = track("Sell")]
      /\ GiveUp({QuoteSlot(side) : side \in {x \in Sides : moves(x)}})
      /\ Reach' = Offset
  BY DEF RequoteTwoSides, Reach
<1>2. ASSUME NEW side \in Sides
      PROVE  /\ cmds(side) \in Seq(SafeCommands(book', Offset))
             /\ track(side) \in ActiveOrders /\ track(side) # None /\ track(side).side = side
             /\ moves(side) => Cancels(cmds(side), tracked[QuoteSlot(side)].seq)
             /\ ~ moves(side) => track(side) = tracked[QuoteSlot(side)]
  <2>1. id(side) \in Nat
    BY TrackedTypes
  <2>2. /\ Target(book', side) \in Int
        /\ PricedWithin(Offset, book', side, Target(book', side))
    BY BookShown, PricedOnBook
  <2>3. tracked[QuoteSlot(side)] \in ActiveOrders \cup {None}
    BY TrackedTypes
  <2> HIDE DEF moves, id
  <2>4. cmds(side) \in Seq(SafeCommands(book', Offset))
    <3>1. CASE moves(side)
      BY <3>1, <2>1, <2>2, <2>3, ReplaceIsSafe
    <3>2. CASE ~ moves(side)
      BY <3>2
    <3>3. QED BY <3>1, <3>2
  <2>5. track(side) \in ActiveOrders /\ track(side) # None /\ track(side).side = side
    <3>1. CASE moves(side)
      BY <3>1, <2>1, <2>2, TrackIsOrder
    <3>2. CASE ~ moves(side)
      <4>1. /\ tracked[QuoteSlot(side)] # None
            /\ tracked[QuoteSlot(side)].side = side
        BY <1>1 DEF MakerInv, PhaseMatchesTracking
      <4>2. QED BY <3>2, <4>1, <2>3
    <3>3. QED BY <3>1, <3>2
  <2>6. moves(side) => Cancels(cmds(side), tracked[QuoteSlot(side)].seq)
    <3>1. tracked[QuoteSlot(side)] # None
      BY <1>1 DEF MakerInv, PhaseMatchesTracking
    <3>2. QED BY <3>1, TrackedIsCancelled
  <2>7. QED BY <2>4, <2>5, <2>6
<1> HIDE DEF moves, id, cmds, track
<1>3. /\ cmds("Buy") \o cmds("Sell") \in Seq(SafeCommands(book', Reach'))
      /\ track("Buy") \in ActiveOrders /\ track("Buy") # None /\ track("Buy").side = "Buy"
      /\ track("Sell") \in ActiveOrders /\ track("Sell") # None /\ track("Sell").side = "Sell"
  BY <1>1, <1>2 DEF Sides
<1>4. nextId' \in 1..(MaxOrderId + 1) /\ emitted' = cmds("Buy") \o cmds("Sell")
  BY <1>1, <1>3, TrackedTypes, EmitKeepsIds
<1>5. tracked["exit"] = None
  BY <1>1 DEF MakerInv, PhaseMatchesTracking
<1>6. /\ tracked' \in [Slots -> ActiveOrders \cup {None}]
      /\ tracked'["bid"] = track("Buy") /\ tracked'["ask"] = track("Sell")
      /\ tracked'["exit"] = None
  BY <1>1, <1>3, <1>5, TrackedTypes DEF Slots
<1>7. /\ opened' \in [Slots -> Nat \cup {None}] /\ givenUp' \subseteq Nat
      /\ OpenedIsTracked' /\ GivenUpIsCancelled'
  <2> DEFINE given == {QuoteSlot(side) : side \in {x \in Sides : moves(x)}}
  <2>1. /\ givenUp' = {opened[slot] : slot \in given} \ {None}
        /\ opened' = [slot \in Slots |-> IF slot \in given THEN None ELSE opened[slot]]
    BY <1>1 DEF GiveUp
  <2>2. \A slot \in Slots : slot \in given \/ tracked'[slot] = tracked[slot]
    BY <1>2, <1>5, <1>6 DEF Slots, Sides, QuoteSlot
  <2>3. given \subseteq Slots
    BY DEF Slots, Sides, QuoteSlot
  <2>4. ASSUME NEW i \in givenUp' PROVE Cancels(emitted', i)
    <3>1. PICK side \in Sides : moves(side) /\ i = opened[QuoteSlot(side)] /\ i # None
      BY <2>1
    <3>2. i = tracked[QuoteSlot(side)].seq
      BY <3>1, TrackedTypes DEF MakerInv, OpenedIsTracked
    <3>3. Cancels(cmds(side), i)
      BY <1>2, <3>1, <3>2
    <3>4. /\ cmds("Buy") \in Seq(SafeCommands(book', Offset))
          /\ cmds("Sell") \in Seq(SafeCommands(book', Offset))
          /\ Cancels(cmds("Buy"), i) \/ Cancels(cmds("Sell"), i)
      BY <1>2, <3>3 DEF Sides
    <3>5. QED BY <1>4, <3>4, PartsCancel
  <2> HIDE DEF given
  <2>5. opened' \in [Slots -> Nat \cup {None}] /\ givenUp' \subseteq Nat
    BY <2>1, <2>3, TrackedTypes
  <2>6. OpenedIsTracked'
    BY <2>1, <2>2 DEF MakerInv, OpenedIsTracked
  <2>7. QED BY <2>4, <2>5, <2>6 DEF GivenUpIsCancelled
<1>8. MakerTypeOK'
  BY <1>1, <1>4, <1>6, <1>7, BookShown DEF MakerTypeOK, Phases
<1>9. PhaseMatchesTracking' /\ BookIsShown'
  BY <1>1, <1>3, <1>6, BookShown DEF PhaseMatchesTracking, BookIsShown, Exiting, Sides, QuoteSlot
<1>10. QED BY <1>3, <1>4, <1>7, <1>8, <1>9 DEF StepOK, MakerInv

LEMMA RequoteExitStep ==
  ASSUME MakerInv, NEW u \in Books, book' = Apply(u), lastBook' = book',
         NEW side \in Sides, RequoteExit(book', side)
  PROVE  StepOK
<1> DEFINE moves == ShouldRequote(tracked["exit"], Join(book', side))
           cmds  == IF moves THEN Replace(tracked["exit"], side, Join(book', side), nextId)
                    ELSE <<>>
           exit  == IF moves THEN Track(nextId, side, Join(book', side)) ELSE tracked["exit"]
<1>1. /\ phase = Exiting(side) /\ phase' = Exiting(side) /\ Emit(cmds)
      /\ GiveUp(IF moves THEN {"exit"} ELSE {})
      /\ Reach' = 0
  BY DEF RequoteExit, Reach, Exiting
<1>2. Join(book', side) \in Int /\ PricedWithin(0, book', side, Join(book', side))
  BY BookShown, PricedOnBook
<1>3. tracked["exit"] \in ActiveOrders \cup {None} /\ nextId \in Nat
  BY TrackedTypes DEF Slots
<1>4. /\ tracked["exit"] # None /\ tracked["exit"].side = side
      /\ tracked["bid"] = None /\ tracked["ask"] = None
  BY <1>1 DEF MakerInv, PhaseMatchesTracking
<1>5. tracked' = [tracked EXCEPT !["exit"] = exit]
  BY TrackedTypes DEF RequoteExit, Slots
<1> HIDE DEF moves
<1>6. cmds \in Seq(SafeCommands(book', Reach'))
  <2>1. CASE moves
    BY <2>1, <1>1, <1>2, <1>3, ReplaceIsSafe
  <2>2. CASE ~ moves
    BY <2>2
  <2>3. QED BY <2>1, <2>2
<1>7. exit \in ActiveOrders /\ exit # None /\ exit.side = side
  <2>1. CASE moves
    BY <2>1, <1>2, <1>3, TrackIsOrder
  <2>2. CASE ~ moves
    BY <2>2, <1>3, <1>4
  <2>3. QED BY <2>1, <2>2
<1> HIDE DEF cmds, exit
<1>8. nextId' \in 1..(MaxOrderId + 1) /\ emitted' = cmds
  BY <1>1, <1>6, TrackedTypes, EmitKeepsIds
<1>9. /\ tracked' \in [Slots -> ActiveOrders \cup {None}]
      /\ tracked'["exit"] = exit /\ tracked'["bid"] = None /\ tracked'["ask"] = None
  BY <1>4, <1>5, <1>7, TrackedTypes DEF Slots
<1>10. /\ opened' \in [Slots -> Nat \cup {None}] /\ givenUp' \subseteq Nat
       /\ OpenedIsTracked' /\ GivenUpIsCancelled'
  <2>1. CASE moves
    <3>1. /\ givenUp' = {opened["exit"]} \ {None}
          /\ opened' = [slot \in Slots |-> IF slot = "exit" THEN None ELSE opened[slot]]
      BY <1>1, <2>1 DEF GiveUp
    <3>2. "exit" \in Slots
      BY DEF Slots
    <3>3. opened' \in [Slots -> Nat \cup {None}] /\ givenUp' \subseteq Nat
      BY <3>1, <3>2, TrackedTypes
    <3>4. OpenedIsTracked'
      <4>1. \A slot \in Slots : slot = "exit" \/ tracked[slot] = None
        BY <1>4 DEF Slots
      <4>2. QED BY <3>1, <4>1 DEF MakerInv, OpenedIsTracked
    <3>5. ASSUME NEW i \in givenUp' PROVE Cancels(emitted', i)
      <4>1. i = tracked["exit"].seq
        BY <3>1, <3>2, <3>5 DEF MakerInv, OpenedIsTracked
      <4>2. emitted' = Replace(tracked["exit"], side, Join(book', side), nextId)
        BY <1>8, <2>1 DEF cmds
      <4>3. QED BY <1>4, <4>1, <4>2, TrackedIsCancelled
    <3>6. QED BY <3>3, <3>4, <3>5 DEF GivenUpIsCancelled
  <2>2. CASE ~ moves
    <3>1. givenUp' = {} /\ opened' = opened
      BY <1>1, <2>2, TrackedTypes DEF GiveUp
    <3>2. \A slot \in Slots : tracked'[slot] = tracked[slot]
      BY <1>4, <1>9, <2>2 DEF Slots, exit
    <3>3. QED BY <3>1, <3>2, NothingGivenUp
  <2>3. QED BY <2>1, <2>2
<1>11. MakerTypeOK'
  BY <1>1, <1>8, <1>9, <1>10, BookShown DEF MakerTypeOK, Phases, Exiting
<1>12. PhaseMatchesTracking' /\ BookIsShown'
  BY <1>1, <1>7, <1>9, BookShown DEF PhaseMatchesTracking, BookIsShown, Exiting, Sides
<1>13. QED BY <1>6, <1>8, <1>10, <1>11, <1>12 DEF StepOK, MakerInv

LEMMA OnL1Step ==
  ASSUME MakerInv, NEW u \in Books, OnL1(u)
  PROVE  StepOK
<1>1. book' = Apply(u) /\ lastBook' = book'
  BY DEF OnL1
<1>2. CASE StandAside
  BY <1>1, <1>2, BookShown, StandAsideStep
<1>3. CASE QuoteTwoSides(book')
  BY <1>1, <1>3, QuoteTwoSidesStep
<1>4. CASE RequoteTwoSides(book')
  BY <1>1, <1>4, RequoteTwoSidesStep
<1>5. CASE \E side \in Sides : RequoteExit(book', side)
  BY <1>1, <1>5, RequoteExitStep
<1>6. QED BY <1>2, <1>3, <1>4, <1>5 DEF OnL1
-----------------------------------------------------------------------------
(* Fills and order events leave the books alone.                            *)

(* A fill of a quote: the exit goes to the other side of the book shown     *)
LEMMA QuoteFilledStep ==
  ASSUME MakerInv, NEW side \in Sides, QuoteFilled(side), UNCHANGED bookVars
  PROVE  StepOK
<1> DEFINE opp   == Opposite(side)
           other == tracked[QuoteSlot(opp)]
           order == New(opp, Join(lastBook, opp), nextId)
           exit  == Track(nextId, opp, Join(lastBook, opp))
           cmds  == CancelIfTracked(other) \o <<order>>
<1>1. /\ opp \in Sides
      /\ phase = "TwoSided" /\ phase' = Exiting(opp)
      /\ lastBook # None /\ lastBook = book /\ book \in Books
      /\ lastBook' = lastBook /\ book' = book
  BY DEF QuoteFilled, Opposite, Sides, MakerInv, BookIsShown, MakerTypeOK, bookVars
<1>2. /\ Emit(cmds) /\ tracked' = [bid |-> None, ask |-> None, exit |-> exit]
      /\ opened' = Nothing /\ givenUp' = {opened[QuoteSlot(opp)]} \ {None}
      /\ Reach' = 0
  BY <1>1 DEF QuoteFilled, ExitOrder, ExitTracked, Reach, Exiting
<1>3. Join(lastBook, opp) \in Int /\ PricedWithin(0, book', opp, Join(lastBook, opp))
  BY <1>1, PricedOnBook
<1>4. nextId \in Nat /\ other \in ActiveOrders \cup {None}
  BY <1>1, TrackedTypes
<1>11. ASSUME NEW i \in givenUp' PROVE Cancels(CancelIfTracked(other), i)
  <2>1. i = opened[QuoteSlot(opp)] /\ i # None /\ QuoteSlot(opp) \in Slots
    BY <1>1, <1>2, <1>11, TrackedTypes
  <2>2. other # None /\ other.seq = i
    BY <2>1 DEF MakerInv, OpenedIsTracked
  <2>3. QED BY <2>2, TrackedIsCancelled
<1>12. /\ opened' \in [Slots -> Nat \cup {None}] /\ givenUp' \subseteq Nat
       /\ OpenedIsTracked'
  BY <1>1, <1>2, TrackedTypes DEF Nothing, OpenedIsTracked
<1> HIDE DEF opp, other
<1>5. /\ cmds \in Seq(SafeCommands(book', Reach'))
      /\ \A i \in givenUp' : Cancels(cmds, i)
  <2>1. order \in SafeCommands(book', Reach')
    BY <1>1, <1>2, <1>3, <1>4, NewIsSafe
  <2>2. CancelIfTracked(other) \in Seq(SafeCommands(book', Reach'))
    BY <1>4, CancelIfTrackedIsSafe
  <2>3. <<order>> \in Seq(SafeCommands(book', Reach'))
    BY <2>1
  <2> HIDE DEF order
  <2>4. cmds \in Seq(SafeCommands(book', Reach'))
    BY <2>2, <2>3
  <2>5. ASSUME NEW i \in givenUp' PROVE Cancels(cmds, i)
    BY <1>11, <2>2, <2>3, <2>5, PartsCancel
  <2>6. QED BY <2>4, <2>5
<1>6. exit \in ActiveOrders /\ exit # None /\ exit.side = opp
  BY <1>1, <1>3, <1>4, TrackIsOrder
<1> HIDE DEF cmds, exit
<1>7. nextId' \in 1..(MaxOrderId + 1) /\ emitted' = cmds
  BY <1>2, <1>5, TrackedTypes, EmitKeepsIds
<1>8. MakerTypeOK' /\ GivenUpIsCancelled'
  BY <1>1, <1>2, <1>5, <1>6, <1>7, <1>12 DEF MakerTypeOK, GivenUpIsCancelled, Phases, Exiting, Slots
<1>9. PhaseMatchesTracking' /\ BookIsShown'
  BY <1>1, <1>2, <1>6 DEF PhaseMatchesTracking, BookIsShown, Exiting, Sides
<1>10. QED BY <1>5, <1>7, <1>8, <1>9, <1>12 DEF StepOK, MakerInv

(* A call that returns no command                                           *)
LEMMA SilentCall ==
  ASSUME MakerInv, Emit(<<>>)
  PROVE  nextId' \in 1..(MaxOrderId + 1) /\ emitted' \in Seq(SafeCommands(book', Reach'))
<1>1. <<>> \in Seq(SafeCommands(book', Reach'))
  OBVIOUS
<1>2. QED BY <1>1, TrackedTypes, EmitKeepsIds

LEMMA OnFillStep ==
  ASSUME MakerInv, NEW side \in Sides, OnFill(side)
  PROVE  StepOK
<1>1. UNCHANGED bookVars
  BY DEF OnFill
<1>2. CASE QuoteFilled(side)
  BY <1>1, <1>2, QuoteFilledStep
<1>3. CASE ExitFilled(side)
  <2>1. nextId' \in 1..(MaxOrderId + 1) /\ emitted' \in Seq(SafeCommands(book', Reach'))
    BY <1>3, SilentCall DEF ExitFilled
  <2>2. tracked["bid"] = None /\ tracked["ask"] = None
    BY <1>3 DEF ExitFilled, MakerInv, PhaseMatchesTracking
  <2>3. tracked' = Nothing /\ phase' = "Flat"
    BY <1>3, <2>2, TrackedTypes DEF ExitFilled, Nothing, Slots
  <2>4. /\ opened' \in [Slots -> Nat \cup {None}] /\ givenUp' \subseteq Nat
        /\ OpenedIsTracked' /\ GivenUpIsCancelled'
    BY <1>3, NothingGivenUp DEF ExitFilled, ForgetOpened
  <2>5. MakerTypeOK'
    BY <1>1, <2>1, <2>3, <2>4 DEF MakerInv, MakerTypeOK, bookVars, Phases, Nothing
  <2>6. PhaseMatchesTracking' /\ BookIsShown'
    BY <1>1, <2>3 DEF MakerInv, PhaseMatchesTracking, BookIsShown, bookVars, Exiting
  <2>7. QED BY <2>1, <2>4, <2>5, <2>6 DEF StepOK, MakerInv
<1>4. CASE FillIgnored(side)
  <2>1. nextId' \in 1..(MaxOrderId + 1) /\ emitted' \in Seq(SafeCommands(book', Reach'))
    BY <1>4, SilentCall DEF FillIgnored
  <2>2. UNCHANGED <<book, lastBook, phase, tracked>>
    BY <1>1, <1>4 DEF FillIgnored, bookVars
  <2>3. /\ opened' \in [Slots -> Nat \cup {None}] /\ givenUp' \subseteq Nat
        /\ OpenedIsTracked' /\ GivenUpIsCancelled'
    BY <1>4, <2>2, NothingGivenUp DEF FillIgnored, GiveUpNothing
  <2>4. QED
    BY <2>1, <2>2, <2>3 DEF StepOK, MakerInv, MakerTypeOK, PhaseMatchesTracking, BookIsShown
<1>5. QED BY <1>2, <1>3, <1>4 DEF OnFill

LEMMA OnOrderStep ==
  ASSUME MakerInv, NEW seq \in Nat, NEW side \in Sides, NEW price \in Int,
         NEW status, OnOrder(seq, side, price, status)
  PROVE  StepOK
<1> DEFINE order == Track(seq, side, price)
<1>1. nextId' \in 1..(MaxOrderId + 1) /\ emitted' \in Seq(SafeCommands(book', Reach'))
  BY SilentCall DEF OnOrder
<1>2. UNCHANGED <<book, lastBook, phase>> /\ givenUp' = {}
  BY DEF OnOrder, bookVars
<1>3. order \in ActiveOrders /\ order # None /\ order.side = side /\ order.seq = seq
  BY TrackIsOrder DEF Track
<1>4. CASE TakesUp(side) /\ tracked' = [tracked EXCEPT ![SlotFor(side)] = order]
                         /\ opened' = [opened EXCEPT ![SlotFor(side)] = seq]
  <2> HIDE DEF order
  <2>1. /\ SlotFor(side) \in Slots
        /\ \/ phase = "TwoSided" /\ SlotFor(side) = QuoteSlot(side)
           \/ phase = Exiting(side) /\ SlotFor(side) = "exit"
    BY <1>4, TrackedTypes DEF TakesUp, SlotFor, Slots, Exiting
  <2>2. /\ tracked' \in [Slots -> ActiveOrders \cup {None}]
        /\ opened' \in [Slots -> Nat \cup {None}]
        /\ \A slot \in Slots :
             /\ tracked'[slot] = IF slot = SlotFor(side) THEN order ELSE tracked[slot]
             /\ opened'[slot] = IF slot = SlotFor(side) THEN seq ELSE opened[slot]
    BY <1>3, <1>4, <2>1, TrackedTypes
  <2>3. MakerTypeOK'
    BY <1>1, <1>2, <2>2 DEF MakerInv, MakerTypeOK
  <2>4. PhaseMatchesTracking' /\ BookIsShown'
    BY <1>2, <1>3, <2>1, <2>2
    DEF MakerInv, PhaseMatchesTracking, BookIsShown, Exiting, Sides, QuoteSlot, Slots
  <2>5. OpenedIsTracked' /\ GivenUpIsCancelled'
    BY <1>2, <1>3, <2>2 DEF MakerInv, OpenedIsTracked, GivenUpIsCancelled
  <2>6. QED BY <1>1, <2>3, <2>4, <2>5 DEF StepOK, MakerInv
<1>5. CASE UNCHANGED <<tracked, opened>>
  <2>1. /\ opened' \in [Slots -> Nat \cup {None}] /\ givenUp' \subseteq Nat
        /\ OpenedIsTracked' /\ GivenUpIsCancelled'
    BY <1>2, <1>5, NothingGivenUp
  <2>2. QED
    BY <1>1, <1>2, <1>5, <2>1 DEF StepOK, MakerInv, MakerTypeOK, PhaseMatchesTracking, BookIsShown
<1>6. QED BY <1>4, <1>5 DEF OnOrder
-----------------------------------------------------------------------------
(* A call of the engine, the order events with any id and price at all.     *)
MakerCall ==
  \/ \E bid, ask \in Prices, seq \in 0..MaxSequence :
       OnL1([bid |-> bid, ask |-> ask, seq |-> seq])
  \/ \E side \in Sides : OnFill(side)
  \/ \E seq \in Nat, side \in Sides, price \in Int : \E status :
       OnOrder(seq, side, price, status)

LEMMA MakerNextIsCall == MakerNext => MakerCall
<1>1. OrderIds \subseteq Nat /\ Prices \subseteq Int
  BY MakerAssumption DEF OrderIds
<1>2. QED BY <1>1, Zenon DEF MakerNext, MakerCall

LEMMA MakerStep == MakerInv /\ MakerCall => StepOK
<1> SUFFICES ASSUME MakerInv, MakerCall PROVE StepOK
  OBVIOUS
<1>1. CASE \E bid, ask \in Prices, seq \in 0..MaxSequence :
             OnL1([bid |-> bid, ask |-> ask, seq |-> seq])
  <2>1. PICK bid \in Prices, ask \in Prices, seq \in 0..MaxSequence :
               OnL1([bid |-> bid, ask |-> ask, seq |-> seq])
    BY <1>1
  <2>2. [bid |-> bid, ask |-> ask, seq |-> seq] \in Books
    BY MakerAssumption DEF Books
  <2>3. QED BY <2>1, <2>2, OnL1Step
<1>2. CASE \E side \in Sides : OnFill(side)
  BY <1>2, OnFillStep
<1>3. CASE \E seq \in Nat, side \in Sides, price \in Int : \E status :
             OnOrder(seq, side, price, status)
  BY <1>3, OnOrderStep
<1>4. QED BY <1>1, <1>2, <1>3 DEF MakerCall

LEMMA MakerInvStutters == MakerInv /\ UNCHANGED makerVars => MakerInv'
  BY DEF MakerInv, MakerTypeOK, PhaseMatchesTracking, BookIsShown, OpenedIsTracked,
         GivenUpIsCancelled, Cancels, makerVars, bookVars, historyVars

LEMMA MakerInvInit == MakerInit => MakerInv
  BY MakerAssumption
  DEF MakerInit, MakerInv, MakerTypeOK, PhaseMatchesTracking, BookIsShown, Nothing, Books,
      Phases, Exiting, Sides, OpenedIsTracked, GivenUpIsCancelled

(* The inductive invariant                                                  *)
THEOREM MakerInvariant == MakerSpec => []MakerInv
<1>1. MakerInv /\ [MakerNext]_makerVars => MakerInv'
  BY MakerStep, MakerNextIsCall, MakerInvStutters DEF StepOK
<1>2. QED BY <1>1, MakerInvInit, PTL DEF MakerSpec

(* The maker tracks what its phase says, whatever market data, fills and    *)
(* Open events come in whatever order (on_fill, on_order and on_book of     *)
(* src/maker.rs).                                                           *)
THEOREM MakerPhaseMatchesTracking == MakerSpec => []PhaseMatchesTracking
<1>1. MakerInv => PhaseMatchesTracking
  BY DEF MakerInv
<1>2. QED BY <1>1, MakerInvariant, PTL

(* The orders a call asks for are priced as its book and the offset say     *)
PricedAsConfigured ==
  \A k \in 1..Len(emitted') :
    emitted'[k].kind = "New" =>
      (WouldTrade(emitted'[k], book') <=> Reach' <= book'.bid - book'.ask)

LEMMA CallPrices == MakerInv /\ [MakerCall]_makerVars => [PricedAsConfigured]_makerVars
<1>1. ASSUME emitted' \in Seq(SafeCommands(book', Reach')) PROVE PricedAsConfigured
  <2>1. ASSUME NEW c \in SafeCommands(book', Reach'), c.kind = "New"
        PROVE  WouldTrade(c, book') <=> Reach' <= book'.bid - book'.ask
    <3>1. PricedWithin(Reach', book', c.side, c.price)
      BY <2>1 DEF SafeCommands, Cancel, CancelEverything
    <3>2. QED BY <3>1 DEF PricedWithin, WouldTrade
  <2>2. \A k \in 1..Len(emitted') : emitted'[k] \in SafeCommands(book', Reach')
    BY <1>1
  <2>3. QED BY <2>1, <2>2 DEF PricedAsConfigured
<1>2. QED BY <1>1, MakerStep DEF StepOK

(* quote_two_sides, requote_two_sides, requote_exit and start_exit of       *)
(* src/maker.rs: for every offset, negative ones included, and every book,  *)
(* crossed ones included, an order would trade at once against the engine's *)
(* newest book exactly when the book is crossed by the offset.              *)
THEOREM MakerCrossesAsConfigured == MakerSpec => CrossesAsConfigured
<1>1. MakerInv /\ [MakerNext]_makerVars => [PricedAsConfigured]_makerVars
  BY CallPrices, MakerNextIsCall
<1>2. QED BY <1>1, MakerInvariant, PTL DEF MakerSpec, CrossesAsConfigured, PricedAsConfigured

---------------------------------------------------------------------------
(* The trades it keeps.                                                     *)

Samples == [ts : Nat, side : TradeSides, notional : Notionals]

(* The receive times of a clock that was not set back do not fall           *)
InOrder ==
  /\ latest <= clock
  /\ \A k \in 1..Len(sampled) : sampled[k].ts <= latest
  /\ \A j, k \in 1..Len(sampled) : j <= k => sampled[j].ts <= sampled[k].ts

TrendInv ==
  /\ clock \in Nat /\ latest \in Nat
  /\ sampled \in Seq(Samples) /\ trades \in Seq(Samples)
  /\ ~ setBack => InOrder
  /\ KeptIsRecent

(* t is what is left of s without its first d elements                      *)
Behind(s, d, t) ==
  /\ Len(s) = d + Len(t)
  /\ \A k \in 1..Len(t) : t[k] = s[d + k]

(* A set of naturals has a least element                                    *)
LEMMA LeastNatural ==
  ASSUME NEW S \in SUBSET Nat, S # {}
  PROVE  \E n \in S : \A m \in S : n <= m
<1>1. IsWellFoundedOn(OpToRel(<, Nat), Nat)
  BY NatLessThanWellFounded
<1>2. PICK n \in S : \A m \in S : ~ (<<m, n>> \in OpToRel(<, Nat))
  BY <1>1, WFMin, Zenon
<1>3. \A m \in S : ~ (m < n)
  BY <1>2 DEF OpToRel
<1>4. QED BY <1>3

LEMMA CutoffIsNatural == ASSUME NEW now \in Nat PROVE Cutoff(now) \in Nat
BY TrendAssumption DEF Cutoff

(* Pruning drops what is in front of the first trade still live             *)
LEMMA PruneCuts ==
  ASSUME NEW ts \in Seq(Samples), NEW now \in Nat
  PROVE  /\ Prune(ts, now) \in Seq(Samples)
         /\ \E n \in 0..Len(ts) :
              /\ Behind(ts, n, Prune(ts, now))
              /\ \A k \in 1..n : ~ (ts[k].ts >= Cutoff(now))
              /\ n < Len(ts) => ts[n + 1].ts >= Cutoff(now)
<1> DEFINE Live == {k \in 1..Len(ts) : ts[k].ts >= Cutoff(now)}
<1>1. Len(ts) \in Nat
  OBVIOUS
<1>2. CASE Live = {}
  <2>1. Prune(ts, now) = <<>>
    BY <1>2 DEF Prune, SelectInSeq
  <2>2. PICK n \in 0..Len(ts) : n = Len(ts)
    BY <1>1
  <2>3. Prune(ts, now) \in Seq(Samples) /\ Behind(ts, n, Prune(ts, now))
    BY <1>1, <2>1, <2>2 DEF Behind
  <2>4. (\A k \in 1..n : ~ (ts[k].ts >= Cutoff(now))) /\ ~ (n < Len(ts))
    BY <1>1, <1>2, <2>2
  <2>5. QED BY <2>3, <2>4, Zenon
<1>3. CASE Live # {}
  <2>1. \E n \in Live : \A m \in Live : n <= m
    <3>1. Live \in SUBSET Nat
      OBVIOUS
    <3>2. QED BY <1>3, <3>1, LeastNatural
  <2>2. Min(Live) \in Live /\ \A m \in Live : Min(Live) <= m
    BY <2>1 DEF Min
  <2>3. PICK n \in Live : n = Min(Live)
    BY <2>2
  <2>4. n \in 1..Len(ts) /\ ts[n].ts >= Cutoff(now) /\ n # 0
    BY <2>3
  <2>5. Prune(ts, now) = SubSeq(ts, n, Len(ts))
    <3>1. SelectInSeq(ts, LAMBDA s : s.ts >= Cutoff(now)) = n
      BY <1>3, <2>3 DEF SelectInSeq
    <3>2. QED BY <3>1, <2>4 DEF Prune
  <2>6. \A k \in 1..(n - 1) : ~ (ts[k].ts >= Cutoff(now))
    BY <2>2, <2>3, <2>4
  <2>7. Prune(ts, now) \in Seq(Samples) /\ Behind(ts, n - 1, Prune(ts, now))
    BY <2>4, <2>5 DEF Behind
  <2>8. PICK m \in 0..Len(ts) : m = n - 1 /\ m + 1 = n
    BY <1>1, <2>4
  <2>9. /\ Behind(ts, m, Prune(ts, now))
        /\ \A k \in 1..m : ~ (ts[k].ts >= Cutoff(now))
        /\ ts[m + 1].ts >= Cutoff(now)
    BY <2>4, <2>6, <2>7, <2>8
  <2>10. QED BY <2>7, <2>9, Zenon
<1>4. QED BY <1>2, <1>3

LEMMA BehindBehind ==
  ASSUME NEW s \in Seq(Samples), NEW t \in Seq(Samples), NEW u \in Seq(Samples),
         NEW d \in Nat, NEW e \in Nat, Behind(s, d, t), Behind(t, e, u)
  PROVE  Behind(s, d + e, u)
<1>1. Len(s) \in Nat /\ Len(t) \in Nat /\ Len(u) \in Nat
  OBVIOUS
<1>2. Len(t) = e + Len(u)
  BY DEF Behind
<1>3. ASSUME NEW k \in 1..Len(u) PROVE u[k] = s[(d + e) + k]
  <2>1. u[k] = t[e + k] /\ e + k \in 1..Len(t)
    BY <1>1, <1>2 DEF Behind
  <2>2. t[e + k] = s[d + (e + k)] /\ d + (e + k) = (d + e) + k
    BY <1>1, <2>1 DEF Behind
  <2>3. QED BY <2>1, <2>2
<1>4. QED BY <1>1, <1>2, <1>3 DEF Behind

LEMMA BehindAppended ==
  ASSUME NEW s \in Seq(Samples), NEW t \in Seq(Samples), NEW d \in Nat, Behind(s, d, t),
         NEW x \in Samples
  PROVE  Behind(Append(s, x), d, Append(t, x))
BY DEF Behind

(* KeptIsRecent of the trades sampled so far, those kept and the time of    *)
(* the last call                                                            *)
Kept(s, t, now, back) ==
  LET dropped == Len(s) - Len(t) IN
  /\ dropped >= 0
  /\ t = [k \in 1..Len(t) |-> s[dropped + k]]
  /\ t # <<>> => t[1].ts >= Cutoff(now)
  /\ ~ back => \A k \in 1..Len(s) : s[k].ts >= Cutoff(now) <=> k > dropped

(* The same, with the number of those dropped                               *)
Recent(s, t, now, d, back) ==
  /\ d \in Nat
  /\ Behind(s, d, t)
  /\ t # <<>> => t[1].ts >= Cutoff(now)
  /\ back \/ \A k \in 1..Len(s) : s[k].ts >= Cutoff(now) <=> k > d

LEMMA KeptMeansRecent ==
  ASSUME NEW s \in Seq(Samples), NEW t \in Seq(Samples), NEW now, NEW back
  PROVE  Kept(s, t, now, back) <=> \E d \in Nat : Recent(s, t, now, d, back)
<1>1. Len(s) \in Nat /\ Len(t) \in Nat
  OBVIOUS
<1>2. ASSUME Kept(s, t, now, back) PROVE \E d \in Nat : Recent(s, t, now, d, back)
  <2>0. Len(s) - Len(t) >= 0
    BY <1>2, Zenon DEF Kept
  <2>1. PICK d \in Nat : d = Len(s) - Len(t)
    BY <1>1, <2>0
  <2>2. \A k \in 1..Len(t) : t[k] = s[d + k]
    BY <1>2, <2>1 DEF Kept
  <2>3. Len(s) = d + Len(t)
    BY <1>1, <2>1
  <2>4. Behind(s, d, t)
    BY <2>2, <2>3, Zenon DEF Behind
  <2>5. QED BY <1>2, <2>1, <2>4, Zenon DEF Kept, Recent
<1>3. ASSUME NEW d \in Nat, Recent(s, t, now, d, back) PROVE Kept(s, t, now, back)
  <2>1. Behind(s, d, t)
    BY <1>3 DEF Recent
  <2>2. d = Len(s) - Len(t) /\ Len(s) - Len(t) >= 0
    BY <1>1, <2>1 DEF Behind
  <2>3. t = [k \in 1..Len(t) |-> s[d + k]]
    <3>1. t = [k \in 1..Len(t) |-> t[k]]
      OBVIOUS
    <3>2. QED BY <2>1, <3>1 DEF Behind
  <2>4. QED BY <1>3, <2>2, <2>3, Zenon DEF Kept, Recent
<1>4. QED BY <1>2, <1>3

(* A call prunes by its own time; on a clock that was not set back that is  *)
(* no earlier than the call before, and what was dropped stays out          *)
LEMMA PruneKeepsRecent ==
  ASSUME NEW s \in Seq(Samples), NEW t \in Seq(Samples), NEW d \in Nat, NEW back,
         NEW now \in Nat, Behind(s, d, t),
         back \/ \A k \in 1..d : ~ (s[k].ts >= Cutoff(now)),
         back \/ \A j, k \in 1..Len(s) : j <= k => s[j].ts <= s[k].ts
  PROVE  \E e \in Nat : Recent(s, Prune(t, now), now, e, back)
<1>1. /\ Len(s) \in Nat /\ Len(t) \in Nat /\ Len(s) = d + Len(t)
      /\ Cutoff(now) \in Nat
      /\ \A k \in 1..Len(s) : s[k].ts \in Nat
  <2>1. \A k \in 1..Len(s) : s[k] \in Samples
    OBVIOUS
  <2>2. Cutoff(now) \in Nat
    BY CutoffIsNatural
  <2>3. \A k \in 1..Len(s) : s[k].ts \in Nat
    BY <2>1 DEF Samples
  <2>4. QED BY <2>2, <2>3 DEF Behind
<1>2. PICK n \in 0..Len(t) :
        /\ Behind(t, n, Prune(t, now))
        /\ \A k \in 1..n : ~ (t[k].ts >= Cutoff(now))
        /\ n < Len(t) => t[n + 1].ts >= Cutoff(now)
  BY PruneCuts
<1>3. Prune(t, now) \in Seq(Samples) /\ Len(Prune(t, now)) \in Nat
  <2>1. Prune(t, now) \in Seq(Samples)
    BY PruneCuts, Zenon
  <2>2. QED BY <2>1
<1>4. PICK e \in Nat : e = d + n
  BY <1>1
<1>5. Behind(s, e, Prune(t, now))
  BY <1>2, <1>3, <1>4, BehindBehind
<1>6. Prune(t, now) # <<>> => Prune(t, now)[1].ts >= Cutoff(now)
  <2> SUFFICES ASSUME Prune(t, now) # <<>> PROVE Prune(t, now)[1].ts >= Cutoff(now)
    OBVIOUS
  <2>1. Len(Prune(t, now)) >= 1
    BY <1>3
  <2>2. Prune(t, now)[1] = t[n + 1] /\ n < Len(t)
    BY <1>1, <1>2, <1>3, <2>1 DEF Behind
  <2>3. QED BY <1>2, <2>2
<1>7. back \/ \A k \in 1..Len(s) : s[k].ts >= Cutoff(now) <=> k > e
  <2> SUFFICES ASSUME ~ back, NEW k \in 1..Len(s) PROVE s[k].ts >= Cutoff(now) <=> k > e
    OBVIOUS
  <2>1. CASE k <= d
    BY <1>1, <1>4, <2>1
  <2>2. CASE k > d /\ k <= e
    <3>1. k - d \in 1..n /\ k - d \in 1..Len(t) /\ d + (k - d) = k
      BY <1>1, <1>4, <2>2
    <3>2. t[k - d] = s[k] /\ ~ (t[k - d].ts >= Cutoff(now))
      BY <1>2, <3>1 DEF Behind
    <3>3. QED BY <1>4, <2>2, <3>2
  <2>3. CASE k > e
    <3>1. n < Len(t) /\ n + 1 \in 1..Len(t) /\ d + (n + 1) = e + 1 /\ e + 1 \in 1..Len(s) /\ e + 1 <= k
      BY <1>1, <1>4, <2>3
    <3>2. t[n + 1] = s[e + 1]
      BY <3>1 DEF Behind
    <3>3. s[e + 1].ts >= Cutoff(now) /\ s[e + 1].ts <= s[k].ts
      BY <1>2, <3>1, <3>2
    <3>4. QED BY <1>1, <2>3, <3>1, <3>3
  <2>4. QED BY <1>1, <1>4, <2>1, <2>2, <2>3
<1>8. QED BY <1>4, <1>5, <1>6, <1>7 DEF Recent

LEMMA TrendInvInit == TrendInit => TrendInv
<1> SUFFICES ASSUME TrendInit PROVE TrendInv
  OBVIOUS
<1>1. sampled = <<>> /\ trades = <<>> /\ clock = 0 /\ latest = 0
  BY DEF TrendInit
<1>2. KeptIsRecent
  BY <1>1 DEF KeptIsRecent
<1>3. QED BY <1>1, <1>2 DEF TrendInv, InOrder

(* While the clock is not set back, the trades sampled are not of a later   *)
(* time than its, and one that has left the window stays out                *)
LEMMA LeftForGood ==
  ASSUME TrendInv, ~ setBack, NEW k \in 1..Len(sampled)
  PROVE  /\ sampled[k].ts \in Nat /\ sampled[k].ts <= clock
         /\ ~ (sampled[k].ts >= Cutoff(latest)) => ~ (sampled[k].ts >= Cutoff(clock))
<1>1. latest <= clock /\ latest \in Nat /\ clock \in Nat /\ sampled[k].ts <= latest
  BY DEF TrendInv, InOrder
<1>2. Cutoff(latest) <= Cutoff(clock) /\ Cutoff(latest) \in Nat /\ Cutoff(clock) \in Nat
  BY <1>1, TrendAssumption DEF Cutoff
<1>3. sampled[k] \in Samples
  BY DEF TrendInv
<1>4. sampled[k].ts \in Nat
  BY <1>3 DEF Samples
<1>5. QED BY <1>1, <1>2, <1>4

LEMMA TrendInvSample == ASSUME TrendInv, OnTradeSample PROVE TrendInv'
<1>1. /\ clock \in Nat /\ sampled \in Seq(Samples) /\ trades \in Seq(Samples)
      /\ Len(sampled) \in Nat
      /\ clock' = clock /\ latest' = clock /\ setBack' = setBack
  BY DEF TrendInv, OnTradeSample
<1>2. PICK x \in Samples :
        x.ts = clock /\ sampled' = Append(sampled, x) /\ trades' = Prune(Append(trades, x), clock)
  BY <1>1, TrendAssumption DEF OnTradeSample, Samples
<1>3. PICK d \in Nat : Recent(sampled, trades, latest, d, setBack)
  <2>1. Kept(sampled, trades, latest, setBack)
    BY DEF TrendInv, KeptIsRecent, InWindow, Kept
  <2>2. QED BY <1>1, <2>1, KeptMeansRecent, Zenon
<1>4. /\ sampled' \in Seq(Samples) /\ Append(trades, x) \in Seq(Samples)
      /\ Len(sampled') = Len(sampled) + 1
      /\ \A k \in 1..Len(sampled) : sampled'[k] = sampled[k]
      /\ sampled'[Len(sampled) + 1] = x
  BY <1>1, <1>2
<1>5. trades' \in Seq(Samples)
  BY <1>1, <1>2, <1>4, PruneCuts, Zenon
<1>6. Behind(sampled', d, Append(trades, x))
  BY <1>1, <1>2, <1>3, BehindAppended DEF Recent
<1>7. ~ setBack => InOrder'
  <2> SUFFICES ASSUME ~ setBack PROVE InOrder'
    OBVIOUS
  <2>1. \A k \in 1..Len(sampled) : sampled[k].ts <= clock
    BY LeftForGood
  <2>3. \A k \in 1..Len(sampled') : sampled'[k].ts <= latest'
    BY <1>1, <1>2, <1>4, <2>1
  <2>4. \A j, k \in 1..Len(sampled) : j <= k => sampled[j].ts <= sampled[k].ts
    BY DEF TrendInv, InOrder
  <2>5. \A j, k \in 1..Len(sampled') : j <= k => sampled'[j].ts <= sampled'[k].ts
    BY <1>1, <1>2, <1>4, <2>3, <2>4
  <2>6. QED BY <1>1, <2>3, <2>5 DEF InOrder
<1>8. setBack \/ \A k \in 1..d : ~ (sampled'[k].ts >= Cutoff(clock))
  <2> SUFFICES ASSUME ~ setBack, NEW k \in 1..d PROVE ~ (sampled'[k].ts >= Cutoff(clock))
    OBVIOUS
  <2>1. k \in 1..Len(sampled) /\ ~ (k > d)
    BY <1>1, <1>3 DEF Recent, Behind
  <2>2. ~ (sampled[k].ts >= Cutoff(latest))
    BY <1>3, <2>1 DEF Recent
  <2>3. QED BY <1>4, <2>1, <2>2, LeftForGood
<1>9. \E e \in Nat : Recent(sampled', Prune(Append(trades, x), clock), clock, e, setBack)
  BY <1>1, <1>4, <1>6, <1>7, <1>8, PruneKeepsRecent DEF InOrder
<1>10. KeptIsRecent'
  <2>1. \E e \in Nat : Recent(sampled', trades', latest', e, setBack')
    BY <1>1, <1>2, <1>9
  <2>2. Kept(sampled', trades', latest', setBack')
    BY <1>4, <1>5, <2>1, KeptMeansRecent, Zenon
  <2>3. QED BY <2>2 DEF KeptIsRecent, InWindow, Kept
<1>11. QED BY <1>1, <1>4, <1>5, <1>7, <1>10 DEF TrendInv

LEMMA TrendInvBook == ASSUME TrendInv, OnBookSample PROVE TrendInv'
<1>1. /\ clock \in Nat /\ sampled \in Seq(Samples) /\ trades \in Seq(Samples)
      /\ clock' = clock /\ latest' = clock /\ setBack' = setBack
      /\ sampled' = sampled /\ trades' = Prune(trades, clock)
  BY DEF TrendInv, OnBookSample
<1>2. PICK d \in Nat : Recent(sampled, trades, latest, d, setBack)
  <2>1. Kept(sampled, trades, latest, setBack)
    BY DEF TrendInv, KeptIsRecent, InWindow, Kept
  <2>2. QED BY <1>1, <2>1, KeptMeansRecent, Zenon
<1>3. trades' \in Seq(Samples)
  BY <1>1, PruneCuts, Zenon
<1>4. ~ setBack => InOrder'
  <2> SUFFICES ASSUME ~ setBack PROVE InOrder'
    OBVIOUS
  <2>3. \A k \in 1..Len(sampled) : sampled[k].ts <= clock
    BY LeftForGood
  <2>4. \A j, k \in 1..Len(sampled) : j <= k => sampled[j].ts <= sampled[k].ts
    BY DEF TrendInv, InOrder
  <2>5. QED BY <1>1, <2>3, <2>4 DEF InOrder
<1>5. setBack \/ \A k \in 1..d : ~ (sampled[k].ts >= Cutoff(clock))
  <2> SUFFICES ASSUME ~ setBack, NEW k \in 1..d PROVE ~ (sampled[k].ts >= Cutoff(clock))
    OBVIOUS
  <2>1. k \in 1..Len(sampled) /\ ~ (k > d)
    BY <1>1, <1>2 DEF Recent, Behind
  <2>2. ~ (sampled[k].ts >= Cutoff(latest))
    BY <1>2, <2>1 DEF Recent
  <2>3. QED BY <2>1, <2>2, LeftForGood
<1>6. setBack \/ \A j, k \in 1..Len(sampled) : j <= k => sampled[j].ts <= sampled[k].ts
  BY <1>1, <1>4 DEF InOrder
<1>7. Behind(sampled, d, trades)
  BY <1>2 DEF Recent
<1>8. \E e \in Nat : Recent(sampled, Prune(trades, clock), clock, e, setBack)
  BY <1>1, <1>5, <1>6, <1>7, PruneKeepsRecent
<1>9. KeptIsRecent'
  <2>1. \E e \in Nat : Recent(sampled', trades', latest', e, setBack')
    BY <1>1, <1>8
  <2>2. Kept(sampled', trades', latest', setBack')
    BY <1>1, <1>3, <2>1, KeptMeansRecent, Zenon
  <2>3. QED BY <2>2 DEF KeptIsRecent, InWindow, Kept
<1>10. QED BY <1>1, <1>3, <1>4, <1>9 DEF TrendInv

LEMMA TrendInvStep == TrendInv /\ [TrendNext]_trendVars => TrendInv'
<1> SUFFICES ASSUME TrendInv, [TrendNext]_trendVars PROVE TrendInv'
  OBVIOUS
<1>1. CASE OnTradeSample
  BY <1>1, TrendInvSample
<1>2. CASE OnBookSample
  BY <1>2, TrendInvBook
<1>3. ASSUME UNCHANGED <<trades, top, sampled, latest>>,
             clock' \in Nat, setBack' \/ (setBack' = setBack /\ clock' >= clock)
      PROVE  TrendInv'
  <2>1. KeptIsRecent'
    <3>1. Kept(sampled, trades, latest, setBack)
      BY DEF TrendInv, KeptIsRecent, InWindow, Kept
    <3>2. Kept(sampled', trades', latest', setBack')
      BY <1>3, <3>1, Zenon DEF Kept
    <3>3. QED BY <3>2 DEF KeptIsRecent, InWindow, Kept
  <2>2. ~ setBack' => InOrder'
    BY <1>3 DEF TrendInv, InOrder
  <2>3. QED BY <1>3, <2>1, <2>2 DEF TrendInv
<1>4. CASE Tick
  <2>1. UNCHANGED <<trades, top, sampled, latest>> /\ setBack' = setBack
    BY <1>4, Zenon DEF Tick
  <2>2. clock' \in Nat /\ clock' >= clock
    BY <1>4, TrendAssumption DEF Tick, TrendInv
  <2>3. QED BY <1>3, <2>1, <2>2
<1>5. CASE SetBack
  <2>1. UNCHANGED <<trades, top, sampled, latest>> /\ setBack'
    BY <1>5, Zenon DEF SetBack
  <2>2. clock' \in Nat
    BY <1>5 DEF SetBack, TrendInv
  <2>3. QED BY <1>3, <2>1, <2>2
<1>6. CASE UNCHANGED trendVars
  <2>1. UNCHANGED <<trades, top, sampled, latest>> /\ setBack' = setBack /\ clock' = clock
    BY <1>6, Zenon DEF trendVars
  <2>2. clock' \in Nat /\ clock' >= clock
    BY <2>1 DEF TrendInv
  <2>3. QED BY <1>3, <2>1, <2>2
<1>7. QED BY <1>1, <1>2, <1>4, <1>5, <1>6 DEF TrendNext

(* prune_trades of src/maker.rs, called with any trades and tops at any     *)
(* times: what is kept are the last trades sampled, from one of the window  *)
(* on, and on a clock that was not set back all trades of the window.       *)
THEOREM TrendKeptIsRecent == TrendSpec => []KeptIsRecent
<1>1. TrendInv => KeptIsRecent
  BY DEF TrendInv
<1>2. QED BY <1>1, TrendInvInit, TrendInvStep, PTL DEF TrendSpec

---------------------------------------------------------------------------
(* The score.  Rust's division.                                             *)

LEMMA Divides ==
  ASSUME NEW a \in Nat, NEW b \in Nat \ {0}
  PROVE  a \div b \in Nat /\ a % b \in 0..(b - 1) /\ a = b * (a \div b) + (a % b)
OBVIOUS

LEMMA QuotIs ==
  ASSUME NEW a \in Int, NEW b \in Nat \ {0}
  PROVE  \E r \in Int : Quot(a, b) \in Int /\ r > -b /\ r < b /\ a = b * Quot(a, b) + r
<1>1. CASE a >= 0
  <2>1. Quot(a, b) = a \div b
    BY <1>1 DEF Quot
  <2>2. PICK q \in Nat, r \in 0..(b - 1) : q = a \div b /\ a = b * q + r
    BY <1>1, Divides
  <2>3. QED BY <2>1, <2>2
<1>2. CASE a < 0
  <2>1. Quot(a, b) = -((-a) \div b)
    BY <1>2 DEF Quot
  <2>2. PICK c \in Nat : c = -a
    <3>1. -a \in Nat
      BY <1>2
    <3>2. QED BY <3>1
  <2>3. PICK q \in Nat, r \in 0..(b - 1) : q = c \div b /\ c = b * q + r
    BY Divides
  <2>4. a = b * (-q) + (-r)
    <3>1. b * (-q) = -(b * q)
      OBVIOUS
    <3>2. QED BY <2>2, <2>3, <3>1
  <2>5. Quot(a, b) = -q /\ -q \in Int /\ -r \in Int /\ -r > -b /\ -r < b
    BY <2>1, <2>2, <2>3
  <2>6. QED BY <2>4, <2>5
<1>3. QED BY <1>1, <1>2

LEMMA QuotOdd ==
  ASSUME NEW a \in Int, NEW b \in Nat \ {0}
  PROVE  Quot(a, b) \in Int /\ Quot(-a, b) = -Quot(a, b)
<1>1. Quot(a, b) \in Int
  BY QuotIs
<1>2. 0 \div b = 0
  BY Divides
<1>3. CASE a > 0
  <2>1. ~ (-a >= 0) /\ -(-a) = a
    BY <1>3
  <2>2. QED BY <1>1, <1>3, <2>1 DEF Quot
<1>4. CASE a = 0
  BY <1>2, <1>4 DEF Quot
<1>5. CASE a < 0
  <2>1. -a >= 0 /\ ~ (a >= 0)
    BY <1>5
  <2>2. PICK c \in Nat : c = -a
    BY <2>1
  <2>3. Quot(-a, b) = c \div b /\ Quot(a, b) = -(c \div b) /\ c \div b \in Nat
    BY <2>1, <2>2, Divides DEF Quot
  <2>4. QED BY <2>3
<1>6. QED BY <1>3, <1>4, <1>5

LEMMA FactorCancels ==
  ASSUME NEW b \in Nat \ {0}, NEW k \in Int, NEW m \in Int, b * k < b * m
  PROVE  k < m
<1> SUFFICES ASSUME k >= m PROVE FALSE
  OBVIOUS
<1>1. PICK d \in Nat : k = m + d
  <2>1. k - m \in Nat /\ k = m + (k - m)
    OBVIOUS
  <2>2. QED BY <2>1
<1>2. b * k = b * m + b * d
  BY <1>1
<1>3. b * d \in Nat
  OBVIOUS
<1>4. b * m \in Int
  OBVIOUS
<1>5. QED BY <1>2, <1>3, <1>4

(* The quotients of numbers that nearly cancel out nearly cancel out        *)
Within(x, n) == x \in Int /\ x >= -n /\ x <= n

LEMMA QuotsCancel ==
  ASSUME NEW x \in Int, NEW y \in Int, NEW b \in Nat \ {0}, NEW n \in Nat, Within(x + y, n)
  PROVE  Within(Quot(x, b) + Quot(y, b), (n \div b) + 2)
<1>1. PICK p \in Int, r \in Int : p = Quot(x, b) /\ r > -b /\ r < b /\ x = b * p + r
  BY QuotIs
<1>2. PICK q \in Int, s \in Int : q = Quot(y, b) /\ s > -b /\ s < b /\ y = b * q + s
  BY QuotIs
<1>3. PICK d \in Nat, e \in 0..(b - 1) : d = n \div b /\ n = b * d + e
  BY Divides
<1>4. PICK k \in Int : k = p + q
  OBVIOUS
<1>5. b * k = b * p + b * q
  BY <1>4
<1>6. b * (d + 3) = b * d + 3 * b /\ b * (-(d + 3)) = -(b * d) - 3 * b
  OBVIOUS
<1>7. b * p \in Int /\ b * q \in Int /\ b * d \in Int /\ b * k \in Int
  OBVIOUS
<1>8. x + y >= -n /\ x + y <= n
  BY DEF Within
<1>9. b * k < b * (d + 3)
  BY <1>1, <1>2, <1>3, <1>5, <1>6, <1>7, <1>8
<1>10. b * (-(d + 3)) < b * k
  BY <1>1, <1>2, <1>3, <1>5, <1>6, <1>7, <1>8
<1>11. k < d + 3 /\ -(d + 3) < k
  <2>1. d + 3 \in Int /\ -(d + 3) \in Int
    OBVIOUS
  <2>2. QED BY <1>9, <1>10, <2>1, FactorCancels
<1>12. QED BY <1>1, <1>2, <1>3, <1>4, <1>11 DEF Within

LEMMA RatioOdd ==
  ASSUME NEW a \in Int, NEW den \in Nat
  PROVE  RatioX100(a, den) \in Int /\ RatioX100(-a, den) = -RatioX100(a, den)
<1>1. CASE den = 0
  <2>1. RatioX100(a, den) = 0 /\ RatioX100(-a, den) = 0
    BY <1>1, Zenon DEF RatioX100
  <2>2. QED BY <2>1
<1>2. CASE den # 0
  <2>1. PICK c \in Int : c = a * 100 /\ (-a) * 100 = -c
    OBVIOUS
  <2>2. Quot(c, den) \in Int /\ Quot(-c, den) = -Quot(c, den)
    BY <1>2, QuotOdd
  <2>3. QED BY <1>2, <2>1, <2>2 DEF RatioX100
<1>3. QED BY <1>1, <1>2

---------------------------------------------------------------------------
(* The trades.                                                              *)

SumsTo(f, c, n) == f[0] = 0 /\ \A k \in 1..n : f[k] = f[k - 1] + c[k]

LEMMA SumsExist ==
  ASSUME NEW c
  PROVE  \A n \in Nat : (\A k \in 1..n : c[k] \in Nat) => \E f \in [0..n -> Nat] : SumsTo(f, c, n)
<1> DEFINE Fine(n) == (\A k \in 1..n : c[k] \in Nat) => \E f \in [0..n -> Nat] : SumsTo(f, c, n)
           Bad == {n \in Nat : ~ Fine(n)}
<1> SUFFICES ASSUME Bad # {} PROVE FALSE
  OBVIOUS
<1>0. Bad \in SUBSET Nat
  OBVIOUS
<1>1. PICK n \in Bad : \A m \in Bad : n <= m
  BY <1>0, LeastNatural
<1>2. \A k \in 1..n : c[k] \in Nat
  BY <1>1
<1>3. CASE n = 0
  <2> DEFINE g == [k \in 0..0 |-> 0]
  <2>1. g \in [0..0 -> Nat] /\ SumsTo(g, c, 0)
    BY DEF SumsTo
  <2>2. QED BY <1>1, <1>3, <2>1
<1>4. CASE n # 0
  <2>1. n - 1 \in Nat /\ ~ (n <= n - 1) /\ n \in Nat
    BY <1>1, <1>4
  <2>2. \A k \in 1..(n - 1) : c[k] \in Nat
    BY <1>2, <2>1
  <2>3. PICK f \in [0..(n - 1) -> Nat] : SumsTo(f, c, n - 1)
    BY <1>1, <2>1, <2>2
  <2> DEFINE g == [k \in 0..n |-> IF k = n THEN f[n - 1] + c[n] ELSE f[k]]
  <2>4. f[n - 1] + c[n] \in Nat
    BY <1>2, <1>4, <2>1
  <2>5. g \in [0..n -> Nat]
    BY <2>1, <2>4
  <2>6. g[0] = 0 /\ g[n] = g[n - 1] + c[n]
    BY <1>4, <2>1, <2>3 DEF SumsTo
  <2>7. ASSUME NEW k \in 1..n, k # n PROVE g[k] = g[k - 1] + c[k]
    <3>1. k \in 1..(n - 1) /\ k \in 0..n /\ k - 1 \in 0..n /\ k - 1 # n
      BY <2>1, <2>7
    <3>2. f[k] = f[k - 1] + c[k]
      BY <2>3, <3>1 DEF SumsTo
    <3>3. QED BY <2>7, <3>1, <3>2
  <2> HIDE DEF g
  <2>8. SumsTo(g, c, n)
    BY <2>6, <2>7 DEF SumsTo
  <2>9. QED BY <1>1, <2>5, <2>8
<1>5. QED BY <1>3, <1>4

LEMMA SumsAgree ==
  ASSUME NEW c, NEW n \in Nat, NEW f, NEW g, SumsTo(f, c, n), SumsTo(g, c, n)
  PROVE  f[n] = g[n]
<1> DEFINE Bad == {k \in 0..n : f[k] # g[k]}
<1> SUFFICES ASSUME Bad # {} PROVE FALSE
  BY DEF Bad
<1>0. Bad \in SUBSET Nat
  OBVIOUS
<1>1. PICK k \in Bad : \A m \in Bad : k <= m
  BY <1>0, LeastNatural
<1>2. k \in 1..n /\ k - 1 \in 0..n /\ ~ (k <= k - 1)
  BY <1>1 DEF SumsTo
<1>3. f[k - 1] = g[k - 1]
  BY <1>1, <1>2
<1>4. QED BY <1>1, <1>2, <1>3 DEF SumsTo

Shares(ts, side) == [k \in 1..Len(ts) |-> Share(ts[k], side)]

LEMMA NotionalSums ==
  ASSUME NEW ts \in Seq(Samples), NEW side, NEW n \in Nat, n = Len(ts)
  PROVE  \E f : f[n] \in Nat /\ SumsTo(f, Shares(ts, side), n) /\ NotionalOf(ts, side) = f[n]
<1>1. PICK c : c = Shares(ts, side)
  OBVIOUS
<1>2. \A k \in 1..n : c[k] \in Nat /\ c[k] = Share(ts[k], side)
  <2>1. ASSUME NEW k \in 1..n PROVE c[k] \in Nat /\ c[k] = Share(ts[k], side)
    <3>1. ts[k] \in Samples
      OBVIOUS
    <3>2. ts[k].notional \in Nat
      BY <3>1, TrendAssumption DEF Samples
    <3>3. QED BY <1>1, <3>2 DEF Shares, Share
  <2>2. QED BY <2>1
<1>3. PICK g : g \in [0..n -> Nat] /\ SumsTo(g, c, n)
  BY <1>2, SumsExist
<1>4. g = [k \in 0..n |-> IF k = 0 THEN 0 ELSE g[k - 1] + Share(ts[k], side)]
  BY <1>2, <1>3 DEF SumsTo
<1>5. PICK h : /\ h = [k \in 0..n |-> IF k = 0 THEN 0 ELSE h[k - 1] + Share(ts[k], side)]
               /\ NotionalOf(ts, side) = h[n]
  BY <1>4 DEF NotionalOf
<1>6. SumsTo(h, c, n)
  <2>1. \A k \in 0..n : h[k] = IF k = 0 THEN 0 ELSE h[k - 1] + Share(ts[k], side)
    BY <1>5, Zenon
  <2>2. h[0] = 0
    BY <2>1
  <2>3. ASSUME NEW k \in 1..n PROVE h[k] = h[k - 1] + c[k]
    BY <1>2, <2>1
  <2>4. QED BY <2>2, <2>3 DEF SumsTo
<1>7. h[n] = g[n] /\ g[n] \in Nat
  BY <1>3, <1>6, SumsAgree
<1>8. QED BY <1>1, <1>5, <1>6, <1>7

(* What the exchanged market keeps on a side                                *)
LEMMA Mirrored ==
  ASSUME NEW ts \in Seq(Samples)
  PROVE  /\ MirrorTrades(ts) \in Seq(Samples) /\ Len(MirrorTrades(ts)) = Len(ts)
         /\ \A k \in 1..Len(ts) : /\ MirrorTrades(ts)[k].side = Opposite(ts[k].side)
                                  /\ MirrorTrades(ts)[k].notional = ts[k].notional
                                  /\ ts[k].side \in TradeSides
<1>1. ASSUME NEW k \in 1..Len(ts)
      PROVE  /\ [ts[k] EXCEPT !.side = IF @ = "Buy" THEN "Sell" ELSE "Buy"] \in Samples
             /\ MirrorTrades(ts)[k].side = Opposite(ts[k].side)
             /\ MirrorTrades(ts)[k].notional = ts[k].notional
             /\ ts[k].side \in TradeSides
  <2>1. ts[k] \in Samples
    OBVIOUS
  <2>2. QED BY <2>1 DEF Samples, MirrorTrades, Opposite, TradeSides
<1>2. MirrorTrades(ts) \in Seq(Samples) /\ Len(MirrorTrades(ts)) = Len(ts)
  BY <1>1 DEF MirrorTrades
<1>3. QED BY <1>1, <1>2

LEMMA TradesMirror ==
  ASSUME NEW ts \in Seq(Samples), NEW side \in TradeSides
  PROVE  /\ NotionalOf(ts, side) \in Nat /\ CountOf(ts, side) \in Nat
         /\ NotionalOf(MirrorTrades(ts), side) = NotionalOf(ts, Opposite(side))
         /\ CountOf(MirrorTrades(ts), side) = CountOf(ts, Opposite(side))
<1>1. PICK us \in Seq(Samples), n \in Nat : us = MirrorTrades(ts) /\ n = Len(ts) /\ n = Len(us)
  BY Mirrored
<1>2. \A k \in 1..n : us[k].side = side <=> ts[k].side = Opposite(side)
  BY <1>1, Mirrored DEF Opposite, TradeSides
<1>3. NotionalOf(ts, side) \in Nat
  BY <1>1, NotionalSums
<1>4. CountOf(ts, side) \in Nat
  <2>1. IsFiniteSet(1..n) /\ {k \in 1..n : ts[k].side = side} \subseteq 1..n
    BY FS_Interval
  <2>2. QED BY <1>1, <2>1, FS_Subset, FS_CardinalityType DEF CountOf
<1>5. NotionalOf(us, side) = NotionalOf(ts, Opposite(side))
  <2>0. PICK other : other = Opposite(side)
    OBVIOUS
  <2>1. Shares(us, side) = Shares(ts, other)
    BY <1>1, <1>2, <2>0, Mirrored DEF Shares, Share
  <2>2. PICK f : SumsTo(f, Shares(us, side), n) /\ NotionalOf(us, side) = f[n]
    BY <1>1, NotionalSums
  <2>3. PICK g : SumsTo(g, Shares(ts, other), n) /\ NotionalOf(ts, other) = g[n]
    <3>1. n = Len(ts)
      BY <1>1
    <3>2. QED BY <3>1, NotionalSums
  <2>4. f[n] = g[n]
    BY <2>1, <2>2, <2>3, SumsAgree
  <2>5. QED BY <2>0, <2>2, <2>3, <2>4
<1>6. CountOf(us, side) = CountOf(ts, Opposite(side))
  BY <1>1, <1>2 DEF CountOf
<1>7. QED BY <1>1, <1>3, <1>4, <1>5, <1>6

---------------------------------------------------------------------------
(* The book.                                                                *)

LEMMA TopsMirror ==
  ASSUME NEW t \in AnyTop
  PROVE  /\ t # NoTop /\ MirrorTop(t) # NoTop
         /\ t.bid \in Nat /\ t.ask \in Nat /\ t.bidQty \in Nat /\ t.askQty \in Nat
         /\ MirrorTop(t).bid = t.bid /\ MirrorTop(t).ask = t.ask
         /\ MirrorTop(t).bidQty = t.askQty /\ MirrorTop(t).askQty = t.bidQty
<1>1. t # NoTop
  BY TrendAssumption
<1>2. t.bid \in Nat /\ t.ask \in Nat /\ t.bidQty \in Nat /\ t.askQty \in Nat
  BY DEF AnyTop
<1>3. MirrorTop(t) = [t EXCEPT !.bidQty = t.askQty, !.askQty = t.bidQty]
  BY <1>1 DEF MirrorTop
<1>4. PICK m : m = [bid |-> t.bid, ask |-> t.ask, bidQty |-> t.askQty, askQty |-> t.bidQty]
  OBVIOUS
<1>5. MirrorTop(t) = m
  BY <1>3, <1>4 DEF AnyTop
<1>6. m \in AnyTop
  BY <1>2, <1>4 DEF AnyTop
<1>7. m # NoTop
  BY <1>6, TrendAssumption
<1>8. QED BY <1>1, <1>2, <1>4, <1>5, <1>7

LEMMA ObiMirrors ==
  ASSUME NEW t \in AnyTop
  PROVE  ObiX100(t) \in Int /\ ObiX100(MirrorTop(t)) = -ObiX100(t)
<1>1. PICK b \in Nat, a \in Nat : b = t.bidQty /\ a = t.askQty
  BY TopsMirror
<1>2. ObiX100(t) = RatioX100(b - a, b + a) /\ ObiX100(MirrorTop(t)) = RatioX100(a - b, a + b)
  BY <1>1, TopsMirror DEF ObiX100
<1>3. PICK d \in Int, s \in Nat : d = b - a /\ s = b + a /\ a - b = -d /\ a + b = s
  <2>1. b - a \in Int /\ b + a \in Nat /\ a - b = -(b - a) /\ a + b = b + a
    OBVIOUS
  <2>2. QED BY <2>1
<1>4. QED BY <1>2, <1>3, RatioOdd

(* How far the two micro prices may be from opposite, in basis points       *)
MicroSlack(t) == IF Mid(t) <= 0 THEN 0 ELSE (10000 \div Mid(t)) + 2

LEMMA MidIs ==
  ASSUME NEW t \in AnyTop
  PROVE  /\ Mid(t) \in Nat /\ Mid(MirrorTop(t)) = Mid(t)
         /\ 2 * Mid(t) <= t.bid + t.ask /\ t.bid + t.ask <= 2 * Mid(t) + 1
<1>1. PICK n \in Nat : n = t.bid + t.ask
  BY TopsMirror
<1>2. n \div 2 \in Nat /\ 2 * (n \div 2) <= n /\ n <= 2 * (n \div 2) + 1
  OBVIOUS
<1>3. Mid(t) = n \div 2 /\ Mid(MirrorTop(t)) = n \div 2
  BY <1>1, TopsMirror DEF Mid
<1>4. QED BY <1>1, <1>2, <1>3

(* The two micro prices add up to the two prices, but for the rounding      *)
AddUp(x, y, b, a) ==
  \E p \in Nat, r \in Nat :
    /\ p = (y * b + x * a) \div (b + a) /\ r = (y * a + x * b) \div (a + b)
    /\ p + r <= x + y /\ x + y <= p + r + 1

LEMMA MicrosAddUp ==
  ASSUME NEW x \in Nat, NEW y \in Nat, NEW b \in Nat, NEW a \in Nat, b + a > 0
  PROVE  AddUp(x, y, b, a)
<1>1. PICK q \in Nat \ {0} : q = b + a /\ a + b = q
  OBVIOUS
<1>2. PICK n \in Nat, m \in Nat : n = y * b + x * a /\ m = y * a + x * b
  OBVIOUS
<1>3. n + m = q * (x + y)
  <2>1. n + m = (b + a) * (x + y)
    BY <1>2
  <2>2. QED BY <1>1, <2>1
<1>4. PICK p \in Nat, e \in 0..(q - 1) : p = n \div q /\ n = q * p + e
  BY Divides
<1>5. PICK r \in Nat, f \in 0..(q - 1) : r = m \div q /\ m = q * r + f
  BY Divides
<1>6. PICK k \in Int, v \in Nat : k = p + r /\ v = x + y
  OBVIOUS
<1>7. q * k = q * p + q * r
  BY <1>6
<1>8. q * (k + 2) = q * k + 2 * q /\ q * (v + 1) = q * v + q
  OBVIOUS
<1>9. q * v = n + m
  BY <1>3, <1>6
<1>10. q * p \in Int /\ q * r \in Int /\ q * k \in Int /\ q * v \in Int
  OBVIOUS
<1>11. q * v < q * (k + 2) /\ q * k < q * (v + 1)
  BY <1>4, <1>5, <1>7, <1>8, <1>9, <1>10
<1>12. v < k + 2 /\ k < v + 1
  BY <1>11, FactorCancels
<1>13. p + r <= x + y /\ x + y <= p + r + 1
  BY <1>6, <1>12
<1>14. QED BY <1>1, <1>2, <1>4, <1>5, <1>13 DEF AddUp

LEMMA MicroNearlyMirrors ==
  ASSUME NEW t \in AnyTop
  PROVE  /\ MicroBps(t) \in Int /\ MicroBps(MirrorTop(t)) \in Int /\ MicroSlack(t) \in Nat
         /\ Within(MicroBps(t) + MicroBps(MirrorTop(t)), MicroSlack(t))
<1>1. PICK x \in Nat, y \in Nat, b \in Nat, a \in Nat :
        x = t.bid /\ y = t.ask /\ b = t.bidQty /\ a = t.askQty
  BY TopsMirror
<1>2. PICK mid \in Nat : mid = Mid(t) /\ 2 * mid <= x + y /\ x + y <= 2 * mid + 1
  BY <1>1, MidIs
<1>3. MicroSlack(t) \in Nat
  <2>1. mid # 0 => 10000 \div mid \in Nat
    BY Divides
  <2>2. QED BY <1>2, <2>1 DEF MicroSlack
<1>4. CASE mid = 0 \/ b + a = 0
  <2>1. MicroBps(t) = 0
    BY <1>1, <1>2, <1>4, TopsMirror DEF MicroBps
  <2>2. MicroBps(MirrorTop(t)) = 0
    BY <1>1, <1>2, <1>4, TopsMirror, MidIs DEF MicroBps
  <2>3. QED BY <1>3, <2>1, <2>2 DEF Within
<1>5. CASE mid # 0 /\ b + a > 0
  <2>1. PICK p \in Nat, r \in Nat :
          /\ p = (y * b + x * a) \div (b + a) /\ r = (y * a + x * b) \div (a + b)
          /\ p + r <= x + y /\ x + y <= p + r + 1
    <3>1. AddUp(x, y, b, a)
      BY <1>5, MicrosAddUp
    <3>2. QED BY <3>1 DEF AddUp
  <2>2. MicroBps(t) = Quot((p - mid) * 10000, mid)
    BY <1>1, <1>2, <1>5, <2>1, TopsMirror DEF MicroBps
  <2>3. MicroBps(MirrorTop(t)) = Quot((r - mid) * 10000, mid)
    BY <1>1, <1>2, <1>5, <2>1, TopsMirror, MidIs DEF MicroBps
  <2>4. PICK c \in Int, d \in Int : c = (p - mid) * 10000 /\ d = (r - mid) * 10000
    OBVIOUS
  <2>5. Within(c + d, 10000)
    BY <1>2, <2>1, <2>4 DEF Within
  <2>6. Within(Quot(c, mid) + Quot(d, mid), (10000 \div mid) + 2)
    BY <1>5, <2>5, QuotsCancel
  <2>7. Quot(c, mid) \in Int /\ Quot(d, mid) \in Int
    BY <1>5, QuotOdd
  <2>8. MicroSlack(t) = (10000 \div mid) + 2
    BY <1>2, <1>5 DEF MicroSlack
  <2>9. QED BY <1>3, <2>2, <2>3, <2>4, <2>6, <2>7, <2>8
<1>6. QED BY <1>4, <1>5

---------------------------------------------------------------------------
(* The score.                                                               *)

LEMMA WeighedMicros ==
  ASSUME NEW w \in Int, NEW e \in Int, NEW n \in Nat, Within(e, n)
  PROVE  Within(w * e, Magnitude(w) * n) /\ Magnitude(w) * n \in Nat
<1>1. e >= -n /\ e <= n
  BY DEF Within
<1>2. CASE w >= 0
  <2>1. Magnitude(w) = w
    BY <1>2 DEF Magnitude
  <2>2. PICK u \in Nat, v \in Nat : u = n - e /\ v = n + e
    <3>1. n - e \in Nat /\ n + e \in Nat
      BY <1>1
    <3>2. QED BY <3>1
  <2>3. w * u \in Nat /\ w * v \in Nat /\ w * n \in Nat /\ w * e \in Int
    BY <1>2
  <2>4. w * u = w * n - w * e /\ w * v = w * n + w * e
    BY <2>2
  <2>5. QED BY <2>1, <2>3, <2>4 DEF Within
<1>3. CASE w < 0
  <2>1. PICK m \in Nat : m = -w /\ Magnitude(w) = m
    <3>1. -w \in Nat /\ Magnitude(w) = -w
      BY <1>3 DEF Magnitude
    <3>2. QED BY <3>1
  <2>2. PICK u \in Nat, v \in Nat : u = n - e /\ v = n + e
    <3>1. n - e \in Nat /\ n + e \in Nat
      BY <1>1
    <3>2. QED BY <3>1
  <2>3. m * u \in Nat /\ m * v \in Nat /\ m * n \in Nat /\ m * e \in Int
    OBVIOUS
  <2>4. m * u = m * n - m * e /\ m * v = m * n + m * e
    BY <2>2
  <2>5. w * e = -(m * e)
    BY <2>1
  <2>6. QED BY <2>1, <2>3, <2>4, <2>5 DEF Within
<1>4. QED BY <1>2, <1>3

(* The parts of the score that change their sign, and the one that nearly   *)
(* does                                                                     *)
Features(obi, obi2, micro, micro2, slack) ==
  /\ obi \in Int /\ obi2 = -obi
  /\ micro \in Int /\ micro2 \in Int /\ slack \in Nat /\ Within(micro + micro2, slack)

LEMMA FeaturesMirror ==
  ASSUME NEW t \in Tops \cup {NoTop}
  PROVE  Features(ObiX100(t), ObiX100(MirrorTop(t)), MicroBps(t), MicroBps(MirrorTop(t)),
                  IF t = NoTop THEN 0 ELSE MicroSlack(t))
<1>1. CASE t = NoTop
  <2>1. MirrorTop(t) = NoTop
    BY <1>1 DEF MirrorTop
  <2>2. ObiX100(NoTop) = 0 /\ MicroBps(NoTop) = 0
    BY DEF ObiX100, MicroBps
  <2>3. Features(0, 0, 0, 0, 0)
    <3>1. PICK z \in Int, n \in Nat : z = 0 /\ n = 0
      OBVIOUS
    <3>2. 0 + 0 = 0
      OBVIOUS
    <3>3. z + z = z /\ n = z
      BY <3>1, <3>2
    <3>4. -z = z /\ Within(z + z, n)
      <4>1. \A x \in Int, y \in Nat : x + x = x /\ y = x => -x = x /\ x + x >= -y /\ x + x <= y /\ x + x \in Int
        OBVIOUS
      <4>2. QED BY <3>3, <4>1, Zenon DEF Within
    <3>5. Features(z, z, z, z, n)
      BY <3>4 DEF Features
    <3>6. QED BY <3>1, <3>5, Zenon
  <2>4. QED BY <1>1, <2>1, <2>2, <2>3, Zenon
<1>2. CASE t \in AnyTop
  BY <1>2, TopsMirror, ObiMirrors, MicroNearlyMirrors DEF Features
<1>3. QED BY <1>1, <1>2, TrendAssumption

(* UnitOfPrice of a top                                                     *)
UnitOf(t) ==
  IF t = NoTop THEN 0 ELSE IF Mid(t) <= 0 THEN 0
  ELSE (Magnitude(MicroWeight) * ((10000 \div Mid(t)) + 2)) \div 100 + 1

LEMMA SlackMakesUnit ==
  ASSUME NEW t \in Tops \cup {NoTop}, NEW n \in Nat, n = IF t = NoTop THEN 0 ELSE MicroSlack(t)
  PROVE  /\ UnitOf(t) \in Nat
         /\ n # 0 => ((Magnitude(MicroWeight) * n) \div 100) + 2 <= UnitOf(t) + 1
<1>1. PICK w \in Nat : w = Magnitude(MicroWeight)
  BY TrendAssumption DEF Magnitude
<1>2. PICK q \in Nat : q = (w * n) \div 100
  <2>1. w * n \in Nat
    OBVIOUS
  <2>2. QED BY <2>1
<1>3. CASE t = NoTop \/ Mid(t) <= 0
  <2>1. n = 0 /\ UnitOf(t) = 0
    BY <1>3 DEF UnitOf, MicroSlack
  <2>2. QED BY <2>1
<1>4. CASE t # NoTop /\ ~ (Mid(t) <= 0)
  <2>1. UnitOf(t) = q + 1
    BY <1>1, <1>2, <1>4 DEF UnitOf, MicroSlack
  <2>2. QED BY <1>1, <1>2, <2>1
<1>5. QED BY <1>3, <1>4

(* The weighted sum of the features and that of the exchanged market        *)
LEMMA SumsCancel ==
  ASSUME NEW a \in Int, NEW e \in Int, NEW f \in Int, NEW n \in Nat, NEW u \in Nat,
         Within(e + f, n),
         n # 0 => ((Magnitude(MicroWeight) * n) \div 100) + 2 <= u + 1
  PROVE  Within(Quot(a + MicroWeight * e, 100) + Quot(-a + MicroWeight * f, 100), u + 1)
<1>1. PICK w \in Int : w = MicroWeight
  BY TrendAssumption
<1>2. PICK x \in Int, y \in Int : x = a + w * e /\ y = -a + w * f
  <2>1. a + w * e \in Int /\ -a + w * f \in Int
    OBVIOUS
  <2>2. QED BY <2>1
<1>3. PICK d \in Int : d = e + f
  OBVIOUS
<1>4. x + y = w * d
  <2>1. w * d = w * e + w * f
    BY <1>3
  <2>2. w * e \in Int /\ w * f \in Int
    OBVIOUS
  <2>3. QED BY <1>2, <2>1, <2>2
<1>5. Quot(x, 100) \in Int /\ Quot(y, 100) \in Int
  BY QuotOdd
<1>6. CASE n = 0
  <2>1. d = 0
    BY <1>3, <1>6 DEF Within
  <2>2. w * d = 0
    BY <2>1
  <2>3. y = -x
    BY <1>4, <2>2
  <2>4. Quot(y, 100) = -Quot(x, 100)
    BY <2>3, QuotOdd
  <2>5. QED BY <1>1, <1>2, <1>5, <2>4 DEF Within
<1>7. CASE n # 0
  <2>1. PICK m \in Nat : m = Magnitude(w) * n /\ Within(w * d, m)
    BY <1>3, WeighedMicros
  <2>2. Within(Quot(x, 100) + Quot(y, 100), (m \div 100) + 2)
    <3>1. Within(x + y, m)
      BY <1>4, <2>1
    <3>2. QED BY <3>1, QuotsCancel
  <2>3. (m \div 100) + 2 <= u + 1 /\ m \div 100 \in Nat
    BY <1>1, <1>7, <2>1
  <2>4. QED BY <1>1, <1>2, <1>5, <2>2, <2>3 DEF Within
<1>8. QED BY <1>6, <1>7

LEMMA ScoresMirror ==
  ASSUME NEW ts \in Seq(Samples), NEW t \in Tops \cup {NoTop}
  PROVE  /\ Score(ts, t) \in Int /\ Score(MirrorTrades(ts), MirrorTop(t)) \in Int /\ UnitOf(t) \in Nat
         /\ Within(Score(ts, t) + Score(MirrorTrades(ts), MirrorTop(t)), UnitOf(t) + 1)
<1>1. PICK buys \in Nat, sells \in Nat, bids \in Nat, asks \in Nat :
        /\ buys = NotionalOf(ts, "Buy") /\ sells = NotionalOf(ts, "Sell")
        /\ bids = CountOf(ts, "Buy") /\ asks = CountOf(ts, "Sell")
  BY TradesMirror DEF TradeSides
<1>2. PICK us : us = MirrorTrades(ts)
  OBVIOUS
<1>3. /\ NotionalOf(us, "Buy") = sells /\ NotionalOf(us, "Sell") = buys
      /\ CountOf(us, "Buy") = asks /\ CountOf(us, "Sell") = bids
  <2>1. Opposite("Buy") = "Sell" /\ Opposite("Sell") = "Buy"
    BY DEF Opposite
  <2>2. "Buy" \in TradeSides /\ "Sell" \in TradeSides
    BY DEF TradeSides
  <2>3. /\ NotionalOf(us, "Buy") = NotionalOf(ts, Opposite("Buy"))
        /\ CountOf(us, "Buy") = CountOf(ts, Opposite("Buy"))
        /\ NotionalOf(us, "Sell") = NotionalOf(ts, Opposite("Sell"))
        /\ CountOf(us, "Sell") = CountOf(ts, Opposite("Sell"))
    BY <1>2, <2>2, TradesMirror
  <2>4. QED BY <1>1, <2>1, <2>3
<1>4. PICK o, e, f, n : /\ o = ObiX100(t) /\ e = MicroBps(t) /\ f = MicroBps(MirrorTop(t))
                        /\ n = (IF t = NoTop THEN 0 ELSE MicroSlack(t))
                        /\ Features(o, ObiX100(MirrorTop(t)), e, f, n)
  BY FeaturesMirror
<1>5. o \in Int /\ e \in Int /\ f \in Int /\ n \in Nat /\ Within(e + f, n) /\ ObiX100(MirrorTop(t)) = -o
  BY <1>4 DEF Features
<1>6. PICK p \in Int, c \in Int :
        /\ p = RatioX100(buys - sells, buys + sells) /\ -p = RatioX100(sells - buys, sells + buys)
        /\ c = RatioX100(bids - asks, bids + asks)   /\ -c = RatioX100(asks - bids, asks + bids)
  <2>1. ASSUME NEW x \in Nat, NEW y \in Nat
        PROVE  RatioX100(x - y, x + y) \in Int /\ RatioX100(y - x, y + x) = -RatioX100(x - y, x + y)
    <3>1. PICK d \in Int, s \in Nat : d = x - y /\ s = x + y /\ y - x = -d /\ y + x = s
      <4>1. x - y \in Int /\ x + y \in Nat /\ y - x = -(x - y) /\ y + x = x + y
        OBVIOUS
      <4>2. QED BY <4>1
    <3>2. RatioX100(d, s) \in Int /\ RatioX100(-d, s) = -RatioX100(d, s)
      BY RatioOdd
    <3>3. QED BY <3>1, <3>2
  <2>2. QED BY <2>1
<1>7. UnitOf(t) \in Nat /\ (n # 0 => ((Magnitude(MicroWeight) * n) \div 100) + 2 <= UnitOf(t) + 1)
  BY <1>4, <1>5, SlackMakesUnit
<1>8. PICK v \in Int, k \in Int, z \in Int, w \in Int :
        v = TradeWeight /\ k = CountWeight /\ z = ObiWeight /\ w = MicroWeight
  BY TrendAssumption
<1>9. PICK a \in Int : a = v * p + k * c + z * o /\ -a = v * (-p) + k * (-c) + z * (-o)
  <2>1. v * (-p) = -(v * p) /\ k * (-c) = -(k * c) /\ z * (-o) = -(z * o)
    BY <1>5
  <2>2. v * p \in Int /\ k * c \in Int /\ z * o \in Int
    BY <1>5
  <2>3. PICK x \in Int : x = v * p + k * c + z * o
    BY <2>2
  <2>4. -x = v * (-p) + k * (-c) + z * (-o)
    BY <2>1, <2>2, <2>3
  <2>5. QED BY <2>3, <2>4
<1>10. CASE buys + sells < MinNotional
  <2>1. sells + buys < MinNotional
    BY <1>10
  <2>2. Score(ts, t) = 0
    BY <1>1, <1>10, Zenon DEF Score
  <2>3. Score(us, MirrorTop(t)) = 0
    BY <1>3, <2>1, Zenon DEF Score
  <2>4. QED BY <1>2, <1>7, <2>2, <2>3 DEF Within
<1>11. CASE ~ (buys + sells < MinNotional)
  <2>1. ~ (sells + buys < MinNotional)
    BY <1>11
  <2>2. Score(ts, t) = Quot(v * p + k * c + z * o + w * e, 100)
    BY <1>1, <1>4, <1>6, <1>8, <1>11, Zenon DEF Score
  <2>3. Score(us, MirrorTop(t)) = Quot(v * (-p) + k * (-c) + z * (-o) + w * f, 100)
    BY <1>3, <1>4, <1>5, <1>6, <1>8, <2>1, Zenon DEF Score
  <2>4. Score(ts, t) = Quot(a + w * e, 100) /\ Score(us, MirrorTop(t)) = Quot(-a + w * f, 100)
    BY <1>9, <2>2, <2>3
  <2>5. Within(Quot(a + w * e, 100) + Quot(-a + w * f, 100), UnitOf(t) + 1)
    BY <1>5, <1>7, <1>8, SumsCancel
  <2>6. Quot(a + w * e, 100) \in Int /\ Quot(-a + w * f, 100) \in Int
    <3>1. PICK x \in Int, y \in Int : x = a + w * e /\ y = -a + w * f
      <4>1. a + w * e \in Int /\ -a + w * f \in Int
        BY <1>5
      <4>2. QED BY <4>1
    <3>2. 100 \in Nat \ {0}
      OBVIOUS
    <3>3. Quot(x, 100) \in Int
      BY <3>2, QuotOdd
    <3>4. Quot(y, 100) \in Int
      BY <3>2, QuotOdd
    <3>5. QED BY <3>1, <3>3, <3>4
  <2>7. QED BY <1>2, <1>7, <2>4, <2>5, <2>6
<1>12. QED BY <1>10, <1>11

(* What is kept are trades, and the top is one                              *)
ScoreInv == clock \in Nat /\ trades \in Seq(Samples) /\ top \in Tops \cup {NoTop}

LEMMA ScoreInvMirrors == ScoreInv => ScoreMirrors
<1> SUFFICES ASSUME ScoreInv PROVE ScoreMirrors
  OBVIOUS
<1>1. PICK x, y, u : /\ x = Score(trades, top) /\ y = Score(MirrorTrades(trades), MirrorTop(top))
                     /\ u = UnitOf(top) /\ x \in Int /\ y \in Int /\ u \in Nat /\ Within(x + y, u + 1)
  BY ScoresMirror DEF ScoreInv
<1>2. UnitOfPrice = u
  BY <1>1 DEF UnitOf, UnitOfPrice
<1>3. x + y \in -(u + 1)..(u + 1)
  BY <1>1 DEF Within
<1>4. PICK g \in Int : g = StrongScore
  BY TrendAssumption
<1>5. ASSUME TrendOf(x) = TrendOf(y), 2 * g > u + 1 PROVE TrendOf(x) = "Neutral"
  <2>1. ~ (x >= g /\ y >= g)
    BY <1>1, <1>3, <1>5
  <2>2. ~ (x <= -g /\ y <= -g)
    BY <1>1, <1>3, <1>5
  <2>3. TrendOf(x) \in {"StrongUp", "StrongDown", "Neutral"}
    BY DEF TrendOf
  <2>4. TrendOf(x) # "StrongUp"
    <3>1. TrendOf(x) = "StrongUp" => x >= g
      BY <1>4 DEF TrendOf
    <3>2. TrendOf(y) = "StrongUp" => y >= g
      BY <1>4 DEF TrendOf
    <3>3. QED BY <1>5, <2>1, <3>1, <3>2
  <2>5. TrendOf(x) # "StrongDown"
    <3>1. TrendOf(x) = "StrongDown" => x <= -g
      BY <1>4 DEF TrendOf
    <3>2. TrendOf(y) = "StrongDown" => y <= -g
      BY <1>4 DEF TrendOf
    <3>3. QED BY <1>5, <2>2, <3>1, <3>2
  <2>6. QED BY <2>3, <2>4, <2>5
<1>6. QED BY <1>1, <1>2, <1>3, <1>4, <1>5 DEF ScoreMirrors

LEMMA ScoreInvStep == ScoreInv /\ [TrendNext]_trendVars => ScoreInv'
<1> SUFFICES ASSUME ScoreInv, [TrendNext]_trendVars PROVE ScoreInv'
  OBVIOUS
<1>1. CASE OnTradeSample
  <2>1. PICK x \in Samples : trades' = Prune(Append(trades, x), clock) /\ clock \in Nat
    BY <1>1, TrendAssumption DEF OnTradeSample, Samples, ScoreInv
  <2>2. Append(trades, x) \in Seq(Samples)
    BY DEF ScoreInv
  <2>3. trades' \in Seq(Samples)
    BY <2>1, <2>2, PruneCuts, Zenon
  <2>4. QED BY <1>1, <2>3 DEF OnTradeSample, ScoreInv
<1>2. CASE OnBookSample
  <2>1. trades' = Prune(trades, clock) /\ clock \in Nat /\ top' \in Tops /\ trades \in Seq(Samples)
    BY <1>2 DEF OnBookSample, ScoreInv
  <2>2. trades' \in Seq(Samples)
    BY <2>1, PruneCuts, Zenon
  <2>3. clock' = clock
    BY <1>2 DEF OnBookSample
  <2>4. QED BY <2>1, <2>2, <2>3 DEF ScoreInv
<1>3. CASE Tick
  BY <1>3, TrendAssumption DEF Tick, ScoreInv
<1>4. CASE SetBack
  BY <1>4 DEF SetBack, ScoreInv
<1>5. CASE UNCHANGED trendVars
  BY <1>5 DEF trendVars, ScoreInv
<1>6. QED BY <1>1, <1>2, <1>3, <1>4, <1>5 DEF TrendNext

(* trend_score_x100 of src/maker.rs, of any trades kept and any top: with   *)
(* buyers and sellers exchanged it is the opposite, to within the rounding  *)
(* of the two micro prices and of the score.                                *)
THEOREM TrendScoreMirrors == TrendSpec => []ScoreMirrors
<1>1. TrendInit => ScoreInv
  BY DEF TrendInit, ScoreInv
<1>2. QED BY <1>1, ScoreInvStep, ScoreInvMirrors, PTL DEF TrendSpec

---------------------------------------------------------------------------
(* A behaviour of the strategy as the run explores it is one of the orders  *)
(* and one of the trend: the verdict, any at each call of the maker, is all *)
(* that joins them.                                                         *)
THEOREM StrategyRunsItsParts == StrategySpec => MakerSpec /\ TrendSpec
<1>1. StrategyInit => MakerInit /\ TrendInit
  BY DEF StrategyInit
<1>2. [StrategyNext]_strategyVars => [MakerNext]_makerVars
  BY DEF StrategyNext, strategyVars
<1>3. [StrategyNext]_strategyVars => [TrendNext]_trendVars
  BY DEF StrategyNext, strategyVars
<1>4. QED BY <1>1, <1>2, <1>3, PTL DEF StrategySpec, MakerSpec, TrendSpec
=============================================================================
