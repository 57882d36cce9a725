--------------------------- MODULE PurchaseWorker ---------------------------
(***************************************************************************)
(* The Celery task process_purchase of worker/tasks.py: one process of the *)
(* pool takes a message, and _apply_purchase_in_worker fulfils the         *)
(* transaction under two row locks.  "processing" is only ever flushed,    *)
(* never committed, so no other session sees it and it has no value here.  *)
(***************************************************************************)
EXTENDS TaskQueue

VARIABLE job    \* what each busy worker does: its message, progress and buffer

workerVars == <<job>>

\* The statement the worker executes next.
JobState == {"select", "package", "grant", "unlock", "commit", "failing", "retry", "ack"}

Job == [msg : Message, state : JobState,
        balance : Int,            \* the balance read under the wallet lock
        new : SUBSET Features]    \* the entitlements to insert

WorkerTypeOK == DOMAIN job \subseteq Workers /\ job \in [DOMAIN job -> Job]

WorkerInit == job = [w \in {} |-> {}]

-----------------------------------------------------------------------------

InState(w, state) == w \in DOMAIN job /\ job[w].state = state

Proceed(w, state) == job' = [job EXCEPT ![w].state = state]

Target(w) == job[w].msg.tx
Buyer(w) == tx[Target(w)].user
Bought(w) == tx[Target(w)].package

\* A free process takes a message; acks_late keeps the broker's copy until Ack.
Deliver(w, m) ==
    /\ w \notin DOMAIN job
    /\ Consume(m)
    /\ job' = Put(job, w, [msg |-> m, state |-> "select", balance |-> 0, new |-> {}])
    /\ UNCHANGED <<tables, faults>>

\* Mutant: a transaction that is not pending is processed again.
IsPending_Unchecked(t) == TRUE

\* The idempotency guard.
IsPending(t) == tx[t].status = "pending"

\* SELECT ... FOR UPDATE of the transaction; a row that is not pending any
\* more is left alone, and closing the session releases its lock.
SelectTx(w) ==
    /\ InState(w, "select")
    /\ IF Target(w) \in DOMAIN tx /\ IsPending(Target(w))
       THEN LockTx(w, Target(w)) /\ Proceed(w, "package")
       ELSE txLock[Target(w)] = Free /\ Proceed(w, "ack") /\ UNCHANGED txLock
    /\ UNCHANGED <<tx, wallet, ledger, ents, runs, pkg, walletLock, queue, faults>>

\* selectinload reads the package in a second statement.
PackageActive(w) ==
    /\ InState(w, "package")
    /\ pkg[Bought(w)].active
    /\ Proceed(w, "grant")
    /\ UNCHANGED <<tables, queue, faults>>

\* A package that is no longer active fails the transaction; with "retry" the
\* commit succeeds but its acknowledgement is lost, and commit() raises.
PackageInactive(w) ==
    /\ InState(w, "package")
    /\ ~pkg[Bought(w)].active
    /\ \/ Proceed(w, "ack") /\ UNCHANGED faults
       \/ Proceed(w, "retry") /\ Fault
    /\ tx' = [tx EXCEPT ![Target(w)].status = "failed"]
    /\ ReleaseTxs(w)
    /\ UNCHANGED <<wallet, ledger, ents, runs, pkg, walletLock, queue>>

\* Mutant: the package grants what it says now.
Amount_Current(w) == pkg[Bought(w)].credits

\* The credits accepted at the POST.
Amount(w) == tx[Target(w)].credits

\* grant_credits locks the wallet, reads it and flushes the new balance.
GrantCredits(w) ==
    /\ InState(w, "grant")
    /\ Fits(wallet[Buyer(w)] + Amount(w))
    /\ LockWallet(w, Buyer(w))
    /\ job' = [job EXCEPT ![w].state = "unlock", ![w].balance = wallet[Buyer(w)]]
    /\ UNCHANGED <<tx, wallet, ledger, ents, runs, pkg, txLock, queue, faults>>

\* The new balance does not fit the column: the flush raises DataError.
GrantOverflows(w) ==
    /\ InState(w, "grant")
    /\ walletLock[Buyer(w)] = Free
    /\ ~Fits(wallet[Buyer(w)] + Amount(w))
    /\ Proceed(w, "failing")
    /\ ReleaseTxs(w)
    /\ UNCHANGED <<tx, wallet, ledger, ents, runs, pkg, walletLock, queue, faults>>

\* The buyer's entitlements are read, and the features the package has now
\* that are not among them are to be inserted.
ReadEntitlements(w) ==
    /\ InState(w, "unlock")
    /\ job' = [job EXCEPT ![w].state = "commit",
                          ![w].new = pkg[Bought(w)].features \ Owned(Buyer(w))]
    /\ UNCHANGED <<tables, queue, faults>>

NewRows(w) == {[user |-> Buyer(w), feature |-> f, source |-> Target(w)] : f \in job[w].new}

\* The primary key (user_id, feature_key) refuses a second row.
Conflicts(w) == job[w].new \cap Owned(Buyer(w)) # {}

\* Mutant: credits and status are committed first and the entitlements in a
\* second commit, which may fail; every later delivery finds "completed".
CommitGrant_TwoCommits(w) ==
    /\ InState(w, "commit")
    /\ \/ Proceed(w, "ack") /\ ents' = ents \cup NewRows(w) /\ UNCHANGED faults
       \/ Proceed(w, "failing") /\ Fault /\ UNCHANGED ents
    /\ Post(Buyer(w), job[w].balance, Amount(w), TxRef(Target(w)))
    /\ tx' = [tx EXCEPT ![Target(w)].status = "completed"]
    /\ ReleaseTxs(w)
    /\ ReleaseWallets(w)
    /\ UNCHANGED <<runs, pkg, queue>>

\* Credits, ledger row, entitlements and status, in one commit.  With
\* "failing" the acknowledgement of the commit is lost and commit() raises.
CommitGrant(w) ==
    /\ InState(w, "commit")
    /\ IF Conflicts(w)
       THEN Proceed(w, "failing") /\ UNCHANGED <<tx, wallet, ledger, ents, faults>>
       ELSE /\ \/ Proceed(w, "ack") /\ UNCHANGED faults
               \/ Proceed(w, "failing") /\ Fault
            /\ Post(Buyer(w), job[w].balance, Amount(w), TxRef(Target(w)))
            /\ ents' = ents \cup NewRows(w)
            /\ tx' = [tx EXCEPT ![Target(w)].status = "completed"]
    /\ ReleaseTxs(w)
    /\ ReleaseWallets(w)
    /\ UNCHANGED <<runs, pkg, queue>>

-----------------------------------------------------------------------------
(* What can go wrong.                                                      *)

\* A statement before the try block raises: nothing is marked, the task is
\* retried.  PostgreSQL ends a transaction whose statement or connection has
\* failed, and its locks with it, before the session is closed.
RaiseEarly(w) ==
    /\ Fault
    /\ InState(w, "select") \/ InState(w, "package")
    /\ Proceed(w, "retry")
    /\ ReleaseTxs(w)
    /\ UNCHANGED <<tx, wallet, ledger, ents, runs, pkg, walletLock, queue>>

\* A statement inside the try block raises: rollback() drops the buffer and
\* releases the locks before the transaction is marked.
RaiseLate(w) ==
    /\ Fault
    /\ InState(w, "grant") \/ InState(w, "unlock") \/ InState(w, "commit")
    /\ Proceed(w, "failing")
    /\ ReleaseTxs(w)
    /\ ReleaseWallets(w)
    /\ UNCHANGED <<tx, wallet, ledger, ents, runs, pkg, queue>>

\* The except clause: the row is read with no lock and "failed" is written
\* over whatever status it has; only the UPDATE waits for the row lock.
MarkFailed(w) ==
    /\ InState(w, "failing")
    /\ txLock[Target(w)] = Free
    /\ tx' = [tx EXCEPT ![Target(w)].status = "failed"]
    /\ Proceed(w, "retry")
    /\ UNCHANGED <<wallet, ledger, ents, runs, pkg, txLock, walletLock, queue, faults>>

\* Marking raises too; the inner except clause swallows it.
MarkFailedRaises(w) ==
    /\ Fault
    /\ InState(w, "failing")
    /\ Proceed(w, "retry")
    /\ UNCHANGED <<tables, queue>>

\* Mutant: the last retry is lost to an off-by-one.
Again_OneLess(m) == m.retries + 1 < MaxRetries

\* Whether self.retry still has a retry to schedule.
Again(m) == m.retries < MaxRetries

\* self.retry publishes the task once more, or gives up after max_retries.
Retry(w) ==
    /\ InState(w, "retry")
    /\ LET m == job[w].msg
       IN  IF Again(m)
           THEN Publish([m EXCEPT !.retries = @ + 1])
           ELSE UNCHANGED queue
    /\ Proceed(w, "ack")
    /\ UNCHANGED <<tables, faults>>

\* The publish of the retry is lost, and the task ends as failed.
RetryLost(w) ==
    /\ Fault
    /\ InState(w, "retry")
    /\ Proceed(w, "ack")
    /\ UNCHANGED <<tables, queue>>

\* The task has run and the broker forgets the message.
Ack(w) ==
    /\ InState(w, "ack")
    /\ job' = Drop(job, w)
    /\ UNCHANGED <<tables, queue, faults>>

\* The process dies: the database rolls its session back, and the broker
\* (acks_late, reject_on_worker_lost) puts the message back.
Crash(w) ==
    /\ Fault
    /\ w \in DOMAIN job
    /\ Publish(job[w].msg)
    /\ job' = Drop(job, w)
    /\ ReleaseTxs(w)
    /\ ReleaseWallets(w)
    /\ UNCHANGED <<tx, wallet, ledger, ents, runs, pkg>>

\* The broker takes a slow worker for lost and delivers its message again.
Redeliver(w) ==
    /\ Fault
    /\ w \in DOMAIN job
    /\ Publish(job[w].msg)
    /\ UNCHANGED <<tables, job>>

-----------------------------------------------------------------------------

WorkerStep(w) ==
    \/ \E m \in Message : Deliver(w, m)
    \/ SelectTx(w) \/ PackageActive(w) \/ PackageInactive(w)
    \/ GrantCredits(w) \/ GrantOverflows(w) \/ ReadEntitlements(w) \/ CommitGrant(w)
    \/ MarkFailed(w) \/ Retry(w) \/ Ack(w)

WorkerFault(w) ==
    RaiseEarly(w) \/ RaiseLate(w) \/ MarkFailedRaises(w) \/ RetryLost(w) \/ Crash(w) \/ Redeliver(w)

WorkerNext == \E w \in Workers : WorkerStep(w) \/ WorkerFault(w)

=============================================================================
