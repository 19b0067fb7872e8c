---------------------------- MODULE MCFixFramer ----------------------------
(* FixFramer on short frames                                                *)
EXTENDS FixFramer
=============================================================================
