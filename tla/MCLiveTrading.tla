--------------------------- MODULE MCLiveTrading ---------------------------
(* LiveTrading for one symbol                                               *)
EXTENDS LiveTrading

CONSTANTS s1
=============================================================================
