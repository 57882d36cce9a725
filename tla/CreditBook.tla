----------------------------- MODULE CreditBook -----------------------------
(***************************************************************************)
(* What CreditOS promises its buyers about credits, with no sessions,      *)
(* locks, messages or retries: a purchase is accepted for a number of      *)
(* credits and credited with them at most once, together with features; a *)
(* run is paid for at most once, at its cost, out of a balance that covers *)
(* it, by a buyer who holds the feature.                                   *)
(***************************************************************************)
EXTENDS Integers

CONSTANTS Users, Requests, Calls, Features, Credits, Cost

VARIABLES
    bought,     \* the purchases accepted: a function from ids to their terms
    credited,   \* the ids of those whose credits the buyer has received
    paid,       \* the runs paid for: a function from ids to their terms
    balance,    \* the credits each buyer has
    held        \* the features each buyer holds

bookVars == <<bought, credited, paid, balance, held>>

Init ==
    /\ bought = [t \in {} |-> {}]
    /\ credited = {}
    /\ paid = [c \in {} |-> {}]
    /\ balance = [u \in Users |-> 0]
    /\ held = [u \in Users |-> {}]

\* f with x added to its domain.
With(f, x, v) == [y \in DOMAIN f \cup {x} |-> IF y = x THEN v ELSE f[y]]

Accept(t, u, n) ==
    /\ t \notin DOMAIN bought
    /\ bought' = With(bought, t, [user |-> u, credits |-> n])
    /\ UNCHANGED <<credited, paid, balance, held>>

\* Credits and features come at once.
Credit(t, features) ==
    /\ t \in DOMAIN bought \ credited
    /\ credited' = credited \cup {t}
    /\ balance' = [balance EXCEPT ![bought[t].user] = @ + bought[t].credits]
    /\ held' = [held EXCEPT ![bought[t].user] = @ \cup features]
    /\ UNCHANGED <<bought, paid>>

Pay(c, u, f) ==
    /\ c \notin DOMAIN paid
    /\ f \in held[u] /\ balance[u] >= Cost[f]
    /\ paid' = With(paid, c, [user |-> u, feature |-> f])
    /\ balance' = [balance EXCEPT ![u] = @ - Cost[f]]
    /\ UNCHANGED <<bought, credited, held>>

Next ==
    \/ \E t \in Requests, u \in Users, n \in Credits : Accept(t, u, n)
    \/ \E t \in Requests, features \in SUBSET Features : Credit(t, features)
    \/ \E c \in Calls, u \in Users, f \in Features : Pay(c, u, f)

Spec == Init /\ [][Next]_bookVars

=============================================================================
