--------------------------- MODULE PurchaseStatus ---------------------------
(***************************************************************************)
(* GET /purchases/{id}/status: purchase_service.get_transaction_status.    *)
(* The transaction, the wallet and the entitlements are read by three      *)
(* statements, and under READ COMMITTED each sees what is committed when   *)
(* it runs: the answer is no snapshot.                                     *)
(***************************************************************************)
EXTENDS TaskQueue

CONSTANT Polls   \* the calls

VARIABLE poll    \* the calls received so far: their input, progress and answer

pollVars == <<poll>>

PollState == {"status", "balance", "entitlements", "answered", "not_found"}

\* balance and entitlements are the two parts a completed transaction adds.
Poll == [tx : Requests, user : Users, state : PollState,
         status : {"none", "pending", "completed", "failed"},
         balance : Int, entitlements : SUBSET Features]

PollTypeOK == DOMAIN poll \subseteq Polls /\ poll \in [DOMAIN poll -> Poll]

PollInit == poll = [q \in {} |-> {}]

-----------------------------------------------------------------------------

Polling(q, state) == q \in DOMAIN poll /\ poll[q].state = state

\* A buyer asks about any id: one of theirs, of another buyer, or of no row.
AskStatus(q, u, t) ==
    /\ q \notin DOMAIN poll
    /\ poll' = Put(poll, q, [tx |-> t, user |-> u, state |-> "status", status |-> "none",
                             balance |-> 0, entitlements |-> {}])
    /\ UNCHANGED <<tables, queue, faults>>

\* Mutant: the transaction of another buyer is found too.
Visible_ToAnyone(q) == poll[q].tx \in DOMAIN tx

\* The row is looked up by id and owner.
Visible(q) == poll[q].tx \in DOMAIN tx /\ tx[poll[q].tx].user = poll[q].user

ReadStatus(q) ==
    /\ Polling(q, "status")
    /\ IF ~Visible(q)
       THEN poll' = [poll EXCEPT ![q].state = "not_found"]
       ELSE LET s == tx[poll[q].tx].status
            IN  poll' = [poll EXCEPT ![q].status = s,
                           ![q].state = IF s = "completed" THEN "balance" ELSE "answered"]
    /\ UNCHANGED <<tables, queue, faults>>

ReadBalance(q) ==
    /\ Polling(q, "balance")
    /\ poll' = [poll EXCEPT ![q].state = "entitlements", ![q].balance = wallet[poll[q].user]]
    /\ UNCHANGED <<tables, queue, faults>>

ReadOwned(q) ==
    /\ Polling(q, "entitlements")
    /\ poll' = [poll EXCEPT ![q].state = "answered",
                            ![q].entitlements = Owned(poll[q].user)]
    /\ UNCHANGED <<tables, queue, faults>>

PollStep(q) == ReadStatus(q) \/ ReadBalance(q) \/ ReadOwned(q)

PollNext ==
    \E q \in Polls :
        \/ \E u \in Users, t \in Requests : AskStatus(q, u, t)
        \/ PollStep(q)

=============================================================================
