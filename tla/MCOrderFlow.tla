---------------------------- MODULE MCOrderFlow ----------------------------
(* OrderFlow for two symbols with two slots each                            *)
EXTENDS OrderFlow, TLC

CONSTANTS s1, s2, e1, e2

Symmetric == Permutations(ExecIds) \cup Permutations(Symbols)
=============================================================================
