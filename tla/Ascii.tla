------------------------------- MODULE Ascii -------------------------------
(* Numbers in ASCII, as the code writes them.                               *)
EXTENDS Integers, Sequences

SOH == 1   Dot == 46   Minus == 45   Zero == 48   Equals == 61
Digits == Zero..(Zero + 9)

(* The decimal digits of n                                                  *)
DigitsOf(n) ==
  LET of[k \in 0..n] == IF k < 10 THEN <<Zero + k>>
                        ELSE Append(of[k \div 10], Zero + (k % 10))
  IN  of[n]

(* {n:0width$}                                                              *)
Padded(n, width) ==
  LET ds == DigitsOf(n) IN [k \in 1..(width - Len(ds)) |-> Zero] \o ds
=============================================================================
