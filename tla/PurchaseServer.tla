--------------------------- MODULE PurchaseServer ---------------------------
(***************************************************************************)
(* What becomes of purchases, as far as their status shows it to a page:   *)
(* granted at most once, and failed at last or not.  StorePurchase runs    *)
(* over this server, and CreditOS, with its workers, implements it.        *)
(***************************************************************************)
EXTENDS Integers

CONSTANT Purchases

VARIABLES
    credited,   \* the transactions whose credits were granted
    failed      \* those that read as failed

serverVars == <<credited, failed>>

Init == credited = {} /\ failed = {}

Grant(t) ==
    /\ t \notin credited \cup failed
    /\ credited' = credited \cup {t}
    /\ UNCHANGED failed

\* A purchase may be marked failed after its grant was committed.
Fail(t) ==
    /\ t \notin failed
    /\ failed' = failed \cup {t}
    /\ UNCHANGED credited

Next == \E t \in Purchases : Grant(t) \/ Fail(t)

Spec == Init /\ [][Next]_serverVars

\* What a status call finds in the row of t.
StatusOf(t) == IF t \in failed THEN "failed" ELSE IF t \in credited THEN "completed" ELSE "pending"

=============================================================================
