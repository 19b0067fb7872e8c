-------------------------- MODULE MCMarketSession --------------------------
(* MarketSession for a configured symbol and one that is not                *)
EXTENDS MarketSession

CONSTANTS s1, s2
=============================================================================
