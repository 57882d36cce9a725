----------------------------- MODULE FeatureGate -----------------------------
(***************************************************************************)
(* POST /features/{key}/run: services/feature_service.py:run_feature, which*)
(* spends credits on a feature the buyer holds.  A call carries no         *)
(* idempotency key: whoever repeats one pays again.                        *)
(***************************************************************************)
EXTENDS TaskQueue

VARIABLE call   \* the calls received so far: their input, progress and answer

gateVars == <<call>>

RunPending == {"check", "spend", "commit"}

\* In progress, or answered 200, 403, 402, 500.
CallState == RunPending \cup {"ran", "locked", "insufficient", "error"}

Call == [user : Users, feature : Features, state : CallState, balance : Int]

GateTypeOK == DOMAIN call \subseteq Calls /\ call \in [DOMAIN call -> Call]

GateInit == call = [c \in {} |-> {}]

-----------------------------------------------------------------------------

Reached(c, state) == c \in DOMAIN call /\ call[c].state = state

Enter(c, state) == call' = [call EXCEPT ![c].state = state]

\* The feature exists: the features table is seeded and never changes.
CallFeature(c, u, f) ==
    /\ c \notin DOMAIN call
    /\ call' = Put(call, c, [user |-> u, feature |-> f, state |-> "check", balance |-> 0])
    /\ UNCHANGED <<tables, queue, faults>>

\* Mutant: the gate is open.
Unlocked_Always(c) == TRUE

\* Whether the buyer holds the feature.
Unlocked(c) == call[c].feature \in Owned(call[c].user)

\* The entitlement is read before the wallet is locked.
CheckEntitlement(c) ==
    /\ Reached(c, "check")
    /\ Enter(c, IF Unlocked(c) THEN "spend" ELSE "locked")
    /\ UNCHANGED <<tables, queue, faults>>

\* spend_credits locks the wallet and compares the balance with the cost; a
\* refused call ends there, and the end of its session releases the lock.
SpendCredits(c) ==
    /\ Reached(c, "spend")
    /\ LET u == call[c].user
       IN  IF Affords(wallet[u], Cost[call[c].feature])
           THEN /\ LockWallet(c, u)
                /\ call' = [call EXCEPT ![c].state = "commit", ![c].balance = wallet[u]]
           ELSE /\ walletLock[u] = Free
                /\ Enter(c, "insufficient")
                /\ UNCHANGED walletLock
    /\ UNCHANGED <<tx, wallet, ledger, ents, runs, pkg, txLock, queue, faults>>

RunsWith(c) == Put(runs, c, [user |-> call[c].user, feature |-> call[c].feature])

\* Balance, ledger row and run row in one commit.  With "error" the commit's
\* acknowledgement is lost: the buyer has paid for a run that answers 500.
CommitRun(c) ==
    /\ Reached(c, "commit")
    /\ \/ Enter(c, "ran") /\ UNCHANGED faults
       \/ Enter(c, "error") /\ Fault
    /\ Post(call[c].user, call[c].balance, -Cost[call[c].feature], RunRef(c))
    /\ runs' = RunsWith(c)
    /\ ReleaseWallets(c)
    /\ UNCHANGED <<tx, ents, pkg, txLock, queue>>

\* Mutant: get_db neither rolls back nor closes the session.
RunFails_NoRollback(c) ==
    /\ Fault
    /\ c \in DOMAIN call
    /\ call[c].state \in RunPending
    /\ Enter(c, "error")
    /\ UNCHANGED <<tables, queue>>

\* A statement raises or the process dies before the commit: get_db rolls back.
RunFails(c) ==
    /\ Fault
    /\ c \in DOMAIN call
    /\ call[c].state \in RunPending
    /\ Enter(c, "error")
    /\ ReleaseWallets(c)
    /\ UNCHANGED <<tx, wallet, ledger, ents, runs, pkg, txLock, queue>>

CallStep(c) == CheckEntitlement(c) \/ SpendCredits(c) \/ CommitRun(c)

GateNext ==
    \E c \in Calls :
        \/ \E u \in Users, f \in Features : CallFeature(c, u, f)
        \/ CallStep(c)
        \/ RunFails(c)

=============================================================================
