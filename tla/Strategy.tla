------------------------------ MODULE Strategy ------------------------------
(***************************************************************************)
(* MakerStrategy of src/maker.rs: the orders it works (Maker, in which the  *)
(* trend is any at each call) and the trend estimate (Trend).  The verdict  *)
(* is all that passes from the second to the first, so the two are explored *)
(* one at a time.                                                           *)
(***************************************************************************)
EXTENDS Maker, Trend

VARIABLE part    (* the one that is explored                                *)

strategyVars == <<part, makerVars, trendVars>>

StrategyInit == part \in {"orders", "trend"} /\ MakerInit /\ TrendInit

StrategyNext ==
  /\ UNCHANGED part
  /\ \/ part = "orders" /\ MakerNext /\ UNCHANGED trendVars
     \/ part = "trend"  /\ TrendNext /\ UNCHANGED makerVars

StrategySpec == StrategyInit /\ [][StrategyNext]_strategyVars
=============================================================================
