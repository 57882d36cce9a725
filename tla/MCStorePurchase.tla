-------------------------- MODULE MCStorePurchase --------------------------
(***************************************************************************)
(* Values of the constants of StorePurchase for the runs of TLC.           *)
(***************************************************************************)
EXTENDS StorePurchase

CONSTANTS t1, t2, p1, p2

=============================================================================
