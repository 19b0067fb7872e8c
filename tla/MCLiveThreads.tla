--------------------------- MODULE MCLiveThreads ---------------------------
(* LiveThreads with a short feed                                            *)
EXTENDS LiveThreads
=============================================================================
