---------------------------- MODULE MCPlayground ----------------------------
(***************************************************************************)
(* Values of the constants of Playground for the runs of TLC.              *)
(***************************************************************************)
EXTENDS Playground, TLC

CONSTANTS f1, f2

OneAndTwo == (f1 :> 1 @@ f2 :> 2)

=============================================================================
