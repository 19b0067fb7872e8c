---------------------------- MODULE MCDashboard ----------------------------
(* Dashboard under a few overlapping requests                               *)
EXTENDS Dashboard

CONSTANTS r1, r2, r3, apikey, products
=============================================================================
