----------------------------- MODULE PurchaseApi -----------------------------
(***************************************************************************)
(* POST /purchases: routers/purchases.py:create and                        *)
(* services/purchase_service.py:initiate_purchase.  Every database         *)
(* statement of a handler is a step of its own, so that the handlers, the  *)
(* workers and the administrator interleave between them.                  *)
(***************************************************************************)
EXTENDS TaskQueue

VARIABLE req    \* the calls received so far: their input, progress and answer

apiVars == <<req>>

ApiPending == {"replay", "load", "insert", "conflict", "enqueue"}

\* In progress, or answered 202, 200, 409, 404, 409, 500.
RequestState ==
    ApiPending \cup {"accepted", "replayed", "key_conflict", "not_found", "inactive", "error"}

Request == [user : Users, key : Keys, package : Packages,
            state : RequestState, credits : Credits \cup {0}]

ApiTypeOK == DOMAIN req \subseteq Requests /\ req \in [DOMAIN req -> Request]

ApiInit == req = [r \in {} |-> {}]

-----------------------------------------------------------------------------

At(r, state) == r \in DOMAIN req /\ req[r].state = state

Goto(r, state) == req' = [req EXCEPT ![r].state = state]

\* The transactions of user u under key k; uq_transaction_idempotency keeps
\* them to one.
SameKey(u, k) == {t \in DOMAIN tx : tx[t].user = u /\ tx[t].key = k}

\* Mutant: the stored fingerprint is not compared with the request's.
SameFingerprint_Unchecked(t, r) == TRUE

\* request_fingerprint is "package:<id>", so comparing it compares packages.
SameFingerprint(t, r) == tx[t].package = req[r].package

\* A call arrives with a key that survived the checks of the header.
Receive(r, u, k, p) ==
    /\ r \notin DOMAIN req
    /\ req' = Put(req, r, [user |-> u, key |-> k, package |-> p,
                           state |-> "replay", credits |-> 0])
    /\ UNCHANGED <<tables, queue, faults>>

\* The answer _replay_purchase gives from state "replay" or, after the rollback
\* that follows an IntegrityError, from state "conflict".  With no row it
\* returns None: the first caller goes on, the second raises 409.
Replay(r) ==
    LET found == SameKey(req[r].user, req[r].key)
    IN  /\ At(r, "replay") \/ At(r, "conflict")
        /\ \/ found = {} /\ Goto(r, IF At(r, "replay") THEN "load" ELSE "key_conflict")
           \/ \E t \in found :
                Goto(r, IF SameFingerprint(t, r) THEN "replayed" ELSE "key_conflict")
        /\ UNCHANGED <<tables, queue, faults>>

\* _load_package: 404, 409, or the price and credits as they are now.
LoadPackage(r) ==
    /\ At(r, "load")
    /\ LET p == req[r].package
       IN  \/ p \notin DOMAIN pkg /\ Goto(r, "not_found")
           \/ p \in DOMAIN pkg /\ ~pkg[p].active /\ Goto(r, "inactive")
           \/ /\ p \in DOMAIN pkg /\ pkg[p].active
              /\ req' = [req EXCEPT ![r].state = "insert", ![r].credits = pkg[p].credits]
    /\ UNCHANGED <<tables, queue, faults>>

\* Mutant: nothing of the package is copied into the row.
PendingRow_NoSnapshot(r) ==
    [user |-> req[r].user, key |-> req[r].key, package |-> req[r].package,
     credits |-> 0, status |-> "pending"]

\* The row to insert, with the credits the package had when it was loaded.
PendingRow(r) ==
    [user |-> req[r].user, key |-> req[r].key, package |-> req[r].package,
     credits |-> req[r].credits, status |-> "pending"]

\* Whether the INSERT violates uq_transaction_idempotency.
KeyTaken(r) == SameKey(req[r].user, req[r].key) # {}

\* Mutant: after the rollback the INSERT is tried again.
AfterConflict_InsertAgain == "load"

\* After the rollback the row of the winner is replayed.
AfterConflict == "conflict"

\* flush and commit in one step: an INSERT of a key another session has
\* inserted and not committed waits, and nothing runs between the two calls.
Insert(r) ==
    /\ At(r, "insert")
    /\ IF KeyTaken(r)
       THEN Goto(r, AfterConflict) /\ UNCHANGED tx
       ELSE Goto(r, "enqueue") /\ tx' = Put(tx, r, PendingRow(r))
    /\ UNCHANGED <<wallet, ledger, ents, runs, pkg, txLock, walletLock, queue, faults>>

\* process_purchase.delay after the commit, then the 202.
Enqueue(r) ==
    /\ At(r, "enqueue")
    /\ Publish([tx |-> r, retries |-> 0])
    /\ Goto(r, "accepted")
    /\ UNCHANGED <<tables, faults>>

\* The API process dies, the broker refuses the publish or a statement raises:
\* the buyer gets a 500 or nothing.  What was committed stays committed, and
\* after the INSERT nothing publishes the task any more.
RequestFails(r) ==
    /\ Fault
    /\ r \in DOMAIN req
    /\ req[r].state \in ApiPending
    /\ Goto(r, "error")
    /\ UNCHANGED <<tables, queue>>

RequestStep(r) == Replay(r) \/ LoadPackage(r) \/ Insert(r) \/ Enqueue(r)

ApiNext ==
    \E r \in Requests :
        \/ \E u \in Users, k \in Keys, p \in Packages : Receive(r, u, k, p)
        \/ RequestStep(r)
        \/ RequestFails(r)

=============================================================================
