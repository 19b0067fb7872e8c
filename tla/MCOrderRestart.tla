-------------------------- MODULE MCOrderRestart --------------------------
(* OrderRestart for one symbol with two slots                               *)
EXTENDS OrderRestart, TLC

CONSTANTS s1, e1, e2

Symmetric == Permutations(ExecIds)
=============================================================================
