----------------------------- MODULE MCStrategy -----------------------------
(* Instances of Strategy for TLC.                                           *)
EXTENDS Strategy

(* Quotes one tick through the top of the book                              *)
ThroughByOne == -1

(* A wide book with more behind one side, one whose price is next to        *)
(* nothing, and a crossed and empty one                                     *)
BookTops ==
  {[bid |-> 200, ask |-> 207, bidQty |-> q[1], askQty |-> q[2]] :
     q \in {<<1, 3>>, <<3, 1>>, <<0, 3>>}}
  \cup {[bid |-> 0, ask |-> 1, bidQty |-> 2, askQty |-> 2],
        [bid |-> 5, ask |-> 4, bidQty |-> 0, askQty |-> 0]}
=============================================================================
