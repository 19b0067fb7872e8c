--------------------------- MODULE MCOrderSession ---------------------------
(* OrderSession for one configured symbol and one that is not               *)
EXTENDS OrderSession, TLC
CONSTANTS s1, s2, e1
=============================================================================
