----------------------------- MODULE MCCreditOS -----------------------------
(***************************************************************************)
(* Values of the constants of CreditOS for the runs of TLC.                *)
(***************************************************************************)
EXTENDS CreditOS, TLC

CONSTANTS u1, u2, p1, p2, f1, f2, k1, k2, r1, r2, c1, c2, w1, w2, q1

\* One feature, or two of which the package grants the first.
OneCost == (f1 :> 2)
TwoCosts == (f1 :> 2 @@ f2 :> 1)

OnePackage == (p1 :> [active |-> TRUE, credits |-> 2, features |-> {f1}])

\* Workers are interchangeable, and so are the calls of one kind.
CallSymmetry == Permutations(Workers) \cup Permutations(Requests) \cup Permutations(Calls)

=============================================================================
