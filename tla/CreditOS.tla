------------------------------ MODULE CreditOS ------------------------------
(***************************************************************************)
(* The backend of CreditOS: purchase handlers, status handlers, feature    *)
(* runs, the Celery workers and the administrator, over the shared tables  *)
(* and the task queue.                                                     *)
(***************************************************************************)
EXTENDS PurchaseApi, PurchaseWorker, FeatureGate, PurchaseStatus, CatalogAdmin

vars == <<tables, queue, faults, req, job, call, poll, edits>>

Init ==
    /\ TablesInit
    /\ QueueInit
    /\ ApiInit
    /\ WorkerInit
    /\ GateInit
    /\ PollInit
    /\ AdminInit

ApiStep == ApiNext /\ UNCHANGED <<workerVars, gateVars, pollVars, adminVars>>
WorkStep == WorkerNext /\ UNCHANGED <<apiVars, gateVars, pollVars, adminVars>>
GateStep == GateNext /\ UNCHANGED <<apiVars, workerVars, pollVars, adminVars>>
StatusStep == PollNext /\ UNCHANGED <<apiVars, workerVars, gateVars, adminVars>>
AdminStep == AdminNext /\ UNCHANGED <<apiVars, workerVars, gateVars, pollVars>>

\* Every call has been made and answered, and no task is left.
Quiescent ==
    /\ DOMAIN req = Requests /\ \A r \in Requests : req[r].state \notin ApiPending
    /\ DOMAIN call = Calls /\ \A c \in Calls : call[c].state \notin RunPending
    /\ DOMAIN poll = Polls /\ \A q \in Polls : poll[q].state \in {"answered", "not_found"}
    /\ DOMAIN job = {}
    /\ \A m \in Message : queue[m] = 0

\* The system then waits for ever; any other state with no step is a deadlock.
Terminating == Quiescent /\ UNCHANGED vars

Next == ApiStep \/ WorkStep \/ GateStep \/ StatusStep \/ AdminStep \/ Terminating

Spec == Init /\ [][Next]_vars

\* Handlers and workers keep running: the thread pool of the API, the prefork
\* pool of Celery and the lock queues of PostgreSQL starve nobody.  Neither
\* the arrival of calls, nor edits, nor faults are fair.
Fairness ==
    /\ \A r \in Requests :
         WF_vars(RequestStep(r) /\ UNCHANGED <<workerVars, gateVars, pollVars, adminVars>>)
    /\ \A w \in Workers :
         WF_vars(WorkerStep(w) /\ UNCHANGED <<apiVars, gateVars, pollVars, adminVars>>)
    /\ \A c \in Calls :
         WF_vars(CallStep(c) /\ UNCHANGED <<apiVars, workerVars, pollVars, adminVars>>)
    /\ \A q \in Polls :
         WF_vars(PollStep(q) /\ UNCHANGED <<apiVars, workerVars, gateVars, adminVars>>)

FairSpec == Spec /\ Fairness

-----------------------------------------------------------------------------
(* Safety.                                                                 *)

\* Every variable holds a value of its type.
TypeOK ==
    /\ TablesTypeOK
    /\ QueueTypeOK
    /\ ApiTypeOK
    /\ WorkerTypeOK
    /\ GateTypeOK
    /\ PollTypeOK
    /\ AdminTypeOK

\* However calls with one key race, they leave one transaction, and a call that
\* is told 202 or 200 is told about a transaction for the package it asked for
\* (initiate_purchase: replay check, INSERT, IntegrityError, replay).
AnswersMatchTransactions ==
    /\ \A t1, t2 \in DOMAIN tx :
         tx[t1].user = tx[t2].user /\ tx[t1].key = tx[t2].key => t1 = t2
    /\ \A r \in DOMAIN req :
         req[r].state \in {"accepted", "replayed"} =>
           \E t \in SameKey(req[r].user, req[r].key) : tx[t].package = req[r].package

\* No purchase and no run is posted twice, whatever is redelivered, retried or
\* crashes (the status check under the row lock in _apply_purchase_in_worker).
PostedOnce ==
    \A u \in Users : \A i, j \in DOMAIN ledger[u] :
        ledger[u][i].ref = ledger[u][j].ref => i = j

\* A ledger row of a purchase belongs to the wallet of its buyer and grants the
\* credits accepted at the POST, however the package was repriced since; a
\* completed purchase has one, a pending one has none yet.
GrantsMatchPurchases ==
    /\ \A u \in Users : \A i \in DOMAIN ledger[u] : \A t \in Requests :
         ledger[u][i].ref = TxRef(t) =>
           /\ t \in DOMAIN tx /\ tx[t].user = u /\ tx[t].status # "pending"
           /\ ledger[u][i].delta = tx[t].credits
    /\ \A t \in DOMAIN tx :
         tx[t].status = "completed" => Entries(tx[t].user, TxRef(t)) # {}

\* Each ledger row carries the running total of the rows before it, and the
\* wallet the total of all: no update of a balance is lost between the workers
\* and the feature runs that post to one wallet.
RunningTotal ==
    \A u \in Users :
        LET rows == ledger[u]
            Before(i) == IF i = 1 THEN 0 ELSE rows[i - 1].after
        IN  /\ \A i \in DOMAIN rows : rows[i].after = Before(i) + rows[i].delta
            /\ wallet[u] = Before(Len(rows) + 1)

\* A balance is never negative and fits its column, even when several runs of
\* one buyer spend at the same time.
NeverOverdrawn == \A u \in Users : wallet[u] \in 0 .. IntMax

\* What a buyer holds was bought by a purchase of theirs that was credited, and
\* is held once.
EntitlementsAreBought ==
    /\ \A e \in ents :
         /\ e.source \in DOMAIN tx
         /\ tx[e.source].user = e.user
         /\ Entries(e.user, TxRef(e.source)) # {}
    /\ \A e1, e2 \in ents :
         e1.user = e2.user /\ e1.feature = e2.feature => e1 = e2

\* Credits never come without features: a buyer whose purchase was credited holds
\* what its package grants, whichever of two purchases inserted it.  (An edit of
\* the catalog may change what that is, before or after the purchase.)
PurchasesUnlock ==
    edits = 0 =>
        \A t \in DOMAIN tx :
            Entries(tx[t].user, TxRef(t)) # {} =>
                pkg[tx[t].package].features \subseteq Owned(tx[t].user)

\* The features a buyer holds are those of the buyer's credited purchases,
\* whatever was retried, delivered twice, interrupted between two statements or
\* answered with an error after its commit.
EntitlementsMatchPurchases == EntitlementsAreBought /\ PurchasesUnlock

\* A worker that reaches its commit inserts no entitlement the buyer holds by
\* now, although it read them earlier: two purchases of one buyer that grant
\* the same feature never fail one another.
NoEntitlementConflict ==
    \A w \in Workers : InState(w, "commit") => ~Conflicts(w)

\* Whether s waits for a row lock that h holds: a worker for its transaction,
\* to read it or to mark it failed, or for the wallet of its buyer; a feature run
\* for its wallet.
WaitsFor(s, h) ==
    \/ (InState(s, "select") \/ InState(s, "failing")) /\ txLock[Target(s)] = h
    \/ InState(s, "grant") /\ walletLock[Buyer(s)] = h
    \/ Reached(s, "spend") /\ walletLock[call[s].user] = h

\* Whether s has something left to do, after which its locks are released.
AtWork(s) ==
    \/ s \in DOMAIN job
    \/ s \in DOMAIN call /\ call[s].state \in RunPending

\* Nobody waits for a lock that was left behind, and waiting goes round in no
\* circle: who is waited for is at work, and waits at most for a wallet, whose
\* holder waits for nobody (with_for_update of the transaction comes before that
\* of the wallet, and MarkFailed after a rollback).
NoCircularWait ==
    \A s, h \in Sessions : WaitsFor(s, h) =>
        /\ AtWork(h)
        /\ \A k \in Sessions : WaitsFor(h, k) => ~\E x \in Sessions : WaitsFor(k, x)

\* A run is recorded exactly when it is paid for, at its cost, by a buyer who
\* holds the feature.
RunsArePaid ==
    /\ \A c \in DOMAIN runs :
         /\ runs[c].feature \in Owned(runs[c].user)
         /\ \E i \in DOMAIN ledger[runs[c].user] :
              /\ ledger[runs[c].user][i].ref = RunRef(c)
              /\ ledger[runs[c].user][i].delta = -Cost[runs[c].feature]
    /\ \A u \in Users : \A i \in DOMAIN ledger[u] : \A c \in Calls :
         ledger[u][i].ref = RunRef(c) => c \in DOMAIN runs /\ runs[c].user = u

\* An answer that says "completed" is about the buyer's own purchase, and its
\* balance and entitlements, read after the status, include what it brought.
CompletedAnswerShowsGrant ==
    \A q \in DOMAIN poll :
        poll[q].state = "answered" /\ poll[q].status = "completed" =>
            LET u == poll[q].user
                t == poll[q].tx
            IN  /\ \E i, j \in DOMAIN ledger[u] :
                     /\ ledger[u][i].ref = TxRef(t) /\ i <= j
                     /\ ledger[u][j].after = poll[q].balance
                /\ \A e \in ents : e.source = t => e.feature \in poll[q].entitlements

\* Whether some process still has transaction t to do: the handler about to
\* publish it, the broker or a worker.
HasTask(t) ==
    \/ At(t, "enqueue")
    \/ \E m \in Message : m.tx = t /\ queue[m] > 0
    \/ \E w \in DOMAIN job : Target(w) = t

\* A purchase is left pending with nobody to fulfil it only if its own call
\* failed after the INSERT, or if a second fault hit the retry that was to make
\* good the first (no retry left, or its publish lost): no single exception,
\* crash or repeated delivery strands a purchase that was accepted.
StrandedOnlyByFaults ==
    \A t \in DOMAIN tx :
        tx[t].status = "pending" /\ ~HasTask(t) =>
            At(t, "error") \/ faults > 1 \/ faults > MaxRetries

-----------------------------------------------------------------------------
(* What a step may never do.                                               *)

\* A transaction that is settled stays settled, and one that has failed is
\* never credited later, however late a copy of its message arrives.
SettledForGood ==
    [][\A t \in DOMAIN tx :
         /\ tx[t].status # "pending" => tx'[t].status \in {tx[t].status, "failed"}
         /\ tx[t].status = "failed" =>
              Entries(tx[t].user, TxRef(t))' = Entries(tx[t].user, TxRef(t))]_vars

-----------------------------------------------------------------------------
(* The abstract specification.                                             *)

\* What the backend promises: the purchases accepted, those of them that were
\* credited, the runs paid for, and the balances and features these leave.
Book == INSTANCE CreditBook WITH
    bought <- [t \in DOMAIN tx |-> [user |-> tx[t].user, credits |-> tx[t].credits]],
    credited <- {t \in DOMAIN tx : Entries(tx[t].user, TxRef(t)) # {}},
    paid <- runs,
    balance <- wallet,
    held <- [u \in Users |-> Owned(u)]

BookSpec == Book!Spec

\* The backend as the status of purchases shows it to the pages.
Server == INSTANCE PurchaseServer WITH
    Purchases <- Requests,
    credited <- {t \in DOMAIN tx : Entries(tx[t].user, TxRef(t)) # {}},
    failed <- {t \in DOMAIN tx : tx[t].status = "failed"}

\* Every step of the backend is one StorePurchase lets its server do, or none:
\* workers grant a purchase once and never one that has failed, a purchase that
\* has failed stays so, and the row says at any moment which it is.
ServerSpec ==
    /\ Server!Spec
    /\ [](\A t \in DOMAIN tx : tx[t].status = Server!StatusOf(t))

-----------------------------------------------------------------------------
(* Liveness.                                                               *)

\* With at most one fault, a purchase that was accepted is settled: the fault
\* costs at most one attempt, and the retry or the redelivery makes another.
AcceptedSettles ==
    \A r \in Requests :
        At(r, "accepted") ~> (r \in DOMAIN tx /\ tx[r].status # "pending")

\* Every call that arrives is answered, although calls and workers wait for
\* one another's wallet locks.
CallsAnswered ==
    /\ \A r \in Requests :
         r \in DOMAIN req ~> r \in DOMAIN req /\ req[r].state \notin ApiPending
    /\ \A c \in Calls :
         c \in DOMAIN call ~> c \in DOMAIN call /\ call[c].state \notin RunPending

-----------------------------------------------------------------------------
(* The inductive invariant: why the safety properties hold.                *)

\* Foreign keys, and what a handler or a worker has found on its way.
ReferencesOK ==
    /\ \A t \in DOMAIN tx : tx[t].package \in DOMAIN pkg
    /\ \A r \in DOMAIN req : req[r].state = "insert" =>
         req[r].package \in DOMAIN pkg /\ req[r].credits \in Credits
    /\ \A w \in DOMAIN job : job[w].state \notin {"select", "retry", "ack"} =>
         Target(w) \in DOMAIN tx

\* A row carries the id and the input of the call that inserted it.
RowsHaveWriters ==
    /\ \A t \in DOMAIN tx :
         /\ t \in DOMAIN req /\ req[t].state \in {"enqueue", "accepted", "error"}
         /\ tx[t].user = req[t].user /\ tx[t].key = req[t].key
         /\ tx[t].package = req[t].package
    /\ \A r \in DOMAIN req : req[r].state \in {"enqueue", "accepted"} => r \in DOMAIN tx
    /\ \A c \in DOMAIN runs : c \in DOMAIN call /\ call[c].state \in {"ran", "error"}

\* What a worker knows while it holds its locks stays true until it commits.
WorkersHoldLocks ==
    \A w \in DOMAIN job :
        /\ job[w].state \in {"package", "grant", "unlock", "commit"} =>
             txLock[Target(w)] = w /\ IsPending(Target(w))
        /\ job[w].state \in {"unlock", "commit"} =>
             /\ walletLock[Buyer(w)] = w
             /\ job[w].balance = wallet[Buyer(w)]
             /\ Fits(job[w].balance + Amount(w))
        /\ job[w].state = "commit" => ~Conflicts(w)

\* So does what a feature run knows.
RunsHoldLocks ==
    \A c \in DOMAIN call :
        /\ call[c].state \in {"spend", "commit"} => Unlocked(c)
        /\ call[c].state = "commit" =>
             /\ walletLock[call[c].user] = c
             /\ call[c].balance = wallet[call[c].user]
             /\ Affords(call[c].balance, Cost[call[c].feature])

IInv ==
    /\ TypeOK
    /\ ReferencesOK
    /\ RowsHaveWriters
    /\ WorkersHoldLocks
    /\ RunsHoldLocks
    /\ AnswersMatchTransactions
    /\ PostedOnce
    /\ GrantsMatchPurchases
    /\ RunningTotal
    /\ NeverOverdrawn
    /\ EntitlementsAreBought
    /\ RunsArePaid

-----------------------------------------------------------------------------
(* What the documents say.                                                 *)

\* docs/scaling-hardening-design.md, 1.1: "failed - worker exhausted retries;
\* no credits granted."
DocFailedMeansNoCredits ==
    \A t \in DOMAIN tx :
        tx[t].status = "failed" => Entries(tx[t].user, TxRef(t)) = {}

=============================================================================
