--------------------------- MODULE CreditOS_proofs ---------------------------
(***************************************************************************)
(* Proofs about CreditOS for every value of its constants: types, row      *)
(* locks, and the answers that one Idempotency-Key gets.                   *)
(***************************************************************************)
EXTENDS CreditOS, TLAPS

-----------------------------------------------------------------------------
(* Types.                                                                  *)

LEMMA InitTypeOK == Init => TypeOK
  <1> SUFFICES ASSUME Init PROVE TypeOK
    OBVIOUS
  <1>1. TablesTypeOK
    BY SeedAssumption DEF Init, TablesInit, TablesTypeOK
  <1>2. QueueTypeOK
    BY BoundsAssumption DEF Init, QueueInit, QueueTypeOK
  <1>3. ApiTypeOK /\ WorkerTypeOK /\ GateTypeOK /\ PollTypeOK
    BY DEF Init, ApiInit, WorkerInit, GateInit, PollInit,
           ApiTypeOK, WorkerTypeOK, GateTypeOK, PollTypeOK
  <1>4. AdminTypeOK
    BY MaxEditsAssumption DEF Init, AdminInit, AdminTypeOK
  <1> QED
    BY <1>1, <1>2, <1>3, <1>4 DEF TypeOK

LEMMA ApiTypeStep ==
    ASSUME TypeOK, ReferencesOK, NEW r \in Requests,
           RequestStep(r) \/ RequestFails(r)
              \/ \E u \in Users, k \in Keys, p \in Packages : Receive(r, u, k, p)
    PROVE  TablesTypeOK' /\ QueueTypeOK' /\ ApiTypeOK'
  <1> USE DEF TypeOK, TablesTypeOK, QueueTypeOK, ApiTypeOK, tables
  <1>1. ASSUME NEW u \in Users, NEW k \in Keys, NEW p \in Packages, Receive(r, u, k, p)
        PROVE  TablesTypeOK' /\ QueueTypeOK' /\ ApiTypeOK'
    <2> DEFINE row == [user |-> u, key |-> k, package |-> p, state |-> "replay", credits |-> 0]
    <2>1. row \in Request
      BY DEF Request, RequestState, ApiPending
    <2>2. ApiTypeOK'
      BY <1>1, <2>1 DEF Receive, Put
    <2> QED
      BY <1>1, <2>2 DEF Receive
  <1>2. ASSUME NEW state \in RequestState, r \in DOMAIN req, Goto(r, state)
        PROVE  ApiTypeOK'
    BY <1>2 DEF Goto, Request
  <1>3. CASE Replay(r)
    <2>1. r \in DOMAIN req /\ \E state \in RequestState : Goto(r, state)
      BY <1>3 DEF Replay, At, RequestState, ApiPending
    <2> QED
      BY <1>2, <1>3, <2>1 DEF Replay
  <1>4. CASE LoadPackage(r)
    <2>1. r \in DOMAIN req
      BY <1>4 DEF LoadPackage, At
    <2>2. CASE \E state \in RequestState : Goto(r, state)
      BY <1>2, <1>4, <2>1, <2>2 DEF LoadPackage
    <2>3. CASE /\ req[r].package \in DOMAIN pkg
               /\ req' = [req EXCEPT ![r].state = "insert", ![r].credits = pkg[req[r].package].credits]
      <3>1. pkg[req[r].package].credits \in Credits
        BY <2>3 DEF PackageRow
      <3>2. req[r] \in Request
        BY <2>1
      <3>3. [req[r] EXCEPT !.state = "insert", !.credits = pkg[req[r].package].credits] \in Request
        BY <3>1, <3>2 DEF Request, RequestState, ApiPending
      <3>4. ApiTypeOK'
        BY <2>1, <2>3, <3>3
      <3> QED
        BY <1>4, <3>4 DEF LoadPackage
    <2>4. "not_found" \in RequestState /\ "inactive" \in RequestState
      BY DEF RequestState
    <2> QED
      BY <1>4, <2>2, <2>3, <2>4 DEF LoadPackage
  <1>5. CASE Insert(r)
    <2>1. r \in DOMAIN req /\ req[r].state = "insert"
      BY <1>5 DEF Insert, At
    <2>2. PendingRow(r) \in TxRow
      BY <2>1 DEF PendingRow, TxRow, Request, ReferencesOK
    <2>3. CASE KeyTaken(r)
      BY <1>2, <1>5, <2>1, <2>3 DEF Insert, AfterConflict, RequestState, ApiPending
    <2>4. CASE ~KeyTaken(r)
      <3>1. ApiTypeOK'
        BY <1>2, <1>5, <2>1, <2>4 DEF Insert, RequestState, ApiPending
      <3>2. DOMAIN tx' \subseteq Requests /\ tx' \in [DOMAIN tx' -> TxRow]
        BY <1>5, <2>2, <2>4 DEF Insert, Put
      <3> QED
        BY <1>5, <3>1, <3>2 DEF Insert
    <2> QED
      BY <2>3, <2>4
  <1>6. CASE Enqueue(r)
    <2>1. [tx |-> r, retries |-> 0] \in Message
      BY BoundsAssumption DEF Message
    <2>2. queue' \in [Message -> Nat]
      BY <1>6, <2>1 DEF Enqueue, Publish
    <2> QED
      BY <1>2, <1>6, <2>2 DEF Enqueue, At, RequestState
  <1>7. CASE RequestFails(r)
    <2>1. faults' \in 0 .. MaxFaults
      BY <1>7, BoundsAssumption DEF RequestFails, Fault
    <2> QED
      BY <1>2, <1>7, <2>1 DEF RequestFails, RequestState
  <1> QED
    BY <1>1, <1>3, <1>4, <1>5, <1>6, <1>7 DEF RequestStep

\* Releasing the locks of a session leaves the types of the locks.
LEMMA ReleaseTypes ==
    ASSUME TablesTypeOK, NEW s
    PROVE  /\ ReleaseTxs(s) => txLock' \in [Requests -> Workers \cup {Free}]
           /\ ReleaseWallets(s) => walletLock' \in [Users -> Sessions \cup {Free}]
  BY DEF TablesTypeOK, ReleaseTxs, ReleaseWallets

\* Posting to a wallet keeps the types of wallets and ledger.
LEMMA PostTypes ==
    ASSUME TablesTypeOK, NEW u \in Users, NEW balance \in Int, NEW delta \in Int, NEW ref \in Ref,
           Post(u, balance, delta, ref)
    PROVE  wallet' \in [Users -> Int] /\ ledger' \in [Users -> Seq(LedgerRow)]
  <1>1. [delta |-> delta, ref |-> ref, after |-> balance + delta] \in LedgerRow
    BY DEF LedgerRow
  <1>2. ledger[u] \in Seq(LedgerRow)
    BY DEF TablesTypeOK
  <1>3. Append(ledger[u], [delta |-> delta, ref |-> ref, after |-> balance + delta]) \in Seq(LedgerRow)
    BY <1>1, <1>2
  <1> QED
    BY <1>3 DEF TablesTypeOK, Post

LEMMA WorkerTypeStep ==
    ASSUME TypeOK, ReferencesOK, NEW w \in Workers, WorkerStep(w) \/ WorkerFault(w)
    PROVE  TablesTypeOK' /\ QueueTypeOK' /\ WorkerTypeOK'
  <1> USE DEF TypeOK, TablesTypeOK, QueueTypeOK, WorkerTypeOK
  <1>1. ASSUME NEW state \in JobState, w \in DOMAIN job, Proceed(w, state)
        PROVE  WorkerTypeOK'
    BY <1>1 DEF Proceed, Job
  <1>2. ASSUME w \in DOMAIN job, Target(w) \in DOMAIN tx
        PROVE  /\ Target(w) \in Requests /\ Buyer(w) \in Users /\ Bought(w) \in DOMAIN pkg
               /\ Amount(w) \in Int /\ tx[Target(w)] \in TxRow
    <2>1. Target(w) \in Requests /\ tx[Target(w)] \in TxRow
      BY <1>2
    <2>2. tx[Target(w)].user \in Users /\ tx[Target(w)].credits \in Credits
      BY <2>1 DEF TxRow
    <2>3. tx[Target(w)].credits \in Int
      BY <2>2, CreditsAssumption
    <2> QED
      BY <1>2, <2>1, <2>2, <2>3 DEF Buyer, Bought, Amount, ReferencesOK
  <1>3. ASSUME w \in DOMAIN job, Target(w) \in DOMAIN tx, NEW s \in {"completed", "failed"},
               tx' = [tx EXCEPT ![Target(w)].status = s]
        PROVE  DOMAIN tx' \subseteq Requests /\ tx' \in [DOMAIN tx' -> TxRow]
    BY <1>2, <1>3 DEF TxRow
  <1>4. Fault => faults' \in 0 .. MaxFaults
    BY BoundsAssumption DEF Fault
  <1>5. ASSUME NEW m \in Message, Publish(m) \/ Consume(m)
        PROVE  queue' \in [Message -> Nat]
    <2>1. queue[m] \in Nat
      OBVIOUS
    <2>2. CASE Publish(m)
      BY <2>1, <2>2 DEF Publish
    <2>3. CASE Consume(m)
      <3>1. queue[m] - 1 \in Nat
        BY <2>1, <2>3 DEF Consume
      <3> QED
        BY <2>3, <3>1 DEF Consume
    <2> QED
      BY <1>5, <2>2, <2>3
  <1>6. ASSUME w \in DOMAIN job
        PROVE  job[w].msg \in Message
    BY <1>6 DEF Job
  <1>7. ASSUME w \in DOMAIN job, job' = Drop(job, w)
        PROVE  WorkerTypeOK'
    BY <1>7 DEF Drop
  <1>8. CASE \E m \in Message : Deliver(w, m)
    <2>1. PICK m \in Message : Deliver(w, m)
      BY <1>8
    <2>2. [msg |-> m, state |-> "select", balance |-> 0, new |-> {}] \in Job
      BY DEF Job, JobState
    <2>3. WorkerTypeOK'
      BY <2>1, <2>2 DEF Deliver, Put
    <2> QED
      BY <2>1, <2>3, <1>5 DEF Deliver, tables
  <1>9. CASE SelectTx(w)
    <2>1. WorkerTypeOK'
      BY <1>1, <1>9 DEF SelectTx, InState, JobState
    <2>2. txLock' \in [Requests -> Workers \cup {Free}]
      BY <1>9 DEF SelectTx, LockTx
    <2> QED
      BY <1>9, <2>1, <2>2 DEF SelectTx
  <1>10. CASE PackageActive(w)
    BY <1>1, <1>10 DEF PackageActive, InState, JobState, tables
  <1>11. CASE PackageInactive(w)
    <2>1. w \in DOMAIN job /\ Target(w) \in DOMAIN tx
      BY <1>11 DEF PackageInactive, InState, ReferencesOK
    <2>2. WorkerTypeOK'
      BY <1>1, <1>11, <2>1 DEF PackageInactive, JobState
    <2>3. DOMAIN tx' \subseteq Requests /\ tx' \in [DOMAIN tx' -> TxRow]
      BY <1>3, <1>11, <2>1 DEF PackageInactive
    <2>4. faults' \in 0 .. MaxFaults
      BY <1>4, <1>11 DEF PackageInactive
    <2> QED
      BY <1>11, <2>2, <2>3, <2>4, ReleaseTypes DEF PackageInactive
  <1>12. CASE GrantCredits(w)
    <2>1. w \in DOMAIN job /\ Target(w) \in DOMAIN tx
      BY <1>12 DEF GrantCredits, InState, ReferencesOK
    <2>2. wallet[Buyer(w)] \in Int /\ job[w] \in Job
      BY <1>2, <2>1
    <2>3. [job[w] EXCEPT !.state = "unlock", !.balance = wallet[Buyer(w)]] \in Job
      BY <2>2 DEF Job, JobState
    <2>4. WorkerTypeOK'
      BY <1>12, <2>1, <2>3 DEF GrantCredits
    <2>5. walletLock' \in [Users -> Sessions \cup {Free}]
      BY <1>12 DEF GrantCredits, LockWallet, Sessions
    <2> QED
      BY <1>12, <2>4, <2>5 DEF GrantCredits
  <1>13. CASE GrantOverflows(w)
    BY <1>1, <1>13, ReleaseTypes DEF GrantOverflows, InState, JobState
  <1>14. CASE ReadEntitlements(w)
    <2>1. w \in DOMAIN job /\ Target(w) \in DOMAIN tx
      BY <1>14 DEF ReadEntitlements, InState, ReferencesOK
    <2>2. pkg[Bought(w)].features \in SUBSET Features /\ job[w] \in Job
      BY <1>2, <2>1 DEF PackageRow
    <2>3. [job[w] EXCEPT !.state = "commit",
                         !.new = pkg[Bought(w)].features \ Owned(Buyer(w))] \in Job
      BY <2>2 DEF Job, JobState
    <2>4. WorkerTypeOK'
      BY <1>14, <2>1, <2>3 DEF ReadEntitlements
    <2> QED
      BY <1>14, <2>4 DEF ReadEntitlements, tables
  <1>15. CASE CommitGrant(w)
    <2>1. w \in DOMAIN job /\ Target(w) \in DOMAIN tx
      BY <1>15 DEF CommitGrant, InState, ReferencesOK
    <2>2. WorkerTypeOK'
      BY <1>1, <1>15, <2>1 DEF CommitGrant, JobState
    <2>3. txLock' \in [Requests -> Workers \cup {Free}] /\ walletLock' \in [Users -> Sessions \cup {Free}]
      BY <1>15, ReleaseTypes DEF CommitGrant
    <2>4. CASE Conflicts(w)
      BY <1>15, <2>2, <2>3, <2>4 DEF CommitGrant
    <2>5. CASE ~Conflicts(w)
      <3>1. wallet' \in [Users -> Int] /\ ledger' \in [Users -> Seq(LedgerRow)]
        <4>1. TxRef(Target(w)) \in Ref /\ job[w].balance \in Int
          BY <1>2, <2>1 DEF TxRef, Ref, Job
        <4> QED
          BY <1>2, <1>15, <2>1, <2>5, <4>1, PostTypes DEF CommitGrant
      <3>2. NewRows(w) \subseteq Entitlement
        BY <1>2, <2>1 DEF NewRows, Entitlement, Job
      <3>3. DOMAIN tx' \subseteq Requests /\ tx' \in [DOMAIN tx' -> TxRow]
        BY <1>3, <1>15, <2>1, <2>5 DEF CommitGrant
      <3>4. faults' \in 0 .. MaxFaults
        BY <1>4, <1>15, <2>5 DEF CommitGrant
      <3> QED
        BY <1>15, <2>2, <2>3, <2>5, <3>1, <3>2, <3>3, <3>4 DEF CommitGrant
    <2> QED
      BY <2>4, <2>5
  <1>16. CASE MarkFailed(w)
    <2>1. w \in DOMAIN job /\ Target(w) \in DOMAIN tx
      BY <1>16 DEF MarkFailed, InState, ReferencesOK
    <2>2. DOMAIN tx' \subseteq Requests /\ tx' \in [DOMAIN tx' -> TxRow]
      BY <1>3, <1>16, <2>1 DEF MarkFailed
    <2> QED
      BY <1>1, <1>16, <2>1, <2>2 DEF MarkFailed, JobState
  <1>17. CASE Retry(w)
    <2>1. w \in DOMAIN job /\ job[w].msg \in Message
      BY <1>6, <1>17 DEF Retry, InState
    <2>2. CASE Again(job[w].msg)
      <3>1. [job[w].msg EXCEPT !.retries = @ + 1] \in Message
        <4>1. /\ job[w].msg.retries \in Int /\ job[w].msg.retries >= 0
              /\ job[w].msg.retries < MaxRetries
          BY <2>1, <2>2, BoundsAssumption DEF Message, Again
        <4>2. job[w].msg.retries + 1 \in 0 .. MaxRetries
          BY <4>1, BoundsAssumption
        <4> QED
          BY <2>1, <4>2 DEF Message
      <3>2. queue' \in [Message -> Nat]
        BY <1>5, <1>17, <2>2, <3>1 DEF Retry
      <3> QED
        BY <1>1, <1>17, <2>1, <3>2 DEF Retry, tables, JobState
    <2>3. CASE ~Again(job[w].msg)
      BY <1>1, <1>17, <2>1, <2>3 DEF Retry, tables, JobState
    <2> QED
      BY <2>2, <2>3
  <1>18. CASE Ack(w)
    BY <1>7, <1>18 DEF Ack, InState, tables
  <1>19. CASE RaiseEarly(w)
    BY <1>1, <1>4, <1>19, ReleaseTypes DEF RaiseEarly, InState, JobState
  <1>20. CASE RaiseLate(w)
    BY <1>1, <1>4, <1>20, ReleaseTypes DEF RaiseLate, InState, JobState
  <1>21. CASE MarkFailedRaises(w)
    BY <1>1, <1>4, <1>21 DEF MarkFailedRaises, InState, JobState, tables
  <1>22. CASE RetryLost(w)
    BY <1>1, <1>4, <1>22 DEF RetryLost, InState, JobState, tables
  <1>23. CASE Crash(w)
    <2>1. queue' \in [Message -> Nat]
      BY <1>5, <1>6, <1>23 DEF Crash
    <2> QED
      BY <1>4, <1>7, <1>23, <2>1, ReleaseTypes DEF Crash
  <1>24. CASE Redeliver(w)
    <2>1. queue' \in [Message -> Nat]
      BY <1>5, <1>6, <1>24 DEF Redeliver
    <2> QED
      BY <1>4, <1>24, <2>1 DEF Redeliver, tables
  <1> QED
    BY <1>8, <1>9, <1>10, <1>11, <1>12, <1>13, <1>14, <1>15, <1>16, <1>17, <1>18,
       <1>19, <1>20, <1>21, <1>22, <1>23, <1>24 DEF WorkerStep, WorkerFault

LEMMA GateTypeStep ==
    ASSUME TypeOK, NEW c \in Calls,
           CallStep(c) \/ RunFails(c) \/ \E u \in Users, f \in Features : CallFeature(c, u, f)
    PROVE  TablesTypeOK' /\ QueueTypeOK' /\ GateTypeOK'
  <1> USE DEF TypeOK, TablesTypeOK, QueueTypeOK, GateTypeOK
  <1>1. ASSUME NEW state \in CallState, c \in DOMAIN call, Enter(c, state)
        PROVE  GateTypeOK'
    BY <1>1 DEF Enter, Call
  <1>2. Fault => faults' \in 0 .. MaxFaults
    BY BoundsAssumption DEF Fault
  <1>3. ASSUME c \in DOMAIN call
        PROVE  /\ call[c] \in Call /\ call[c].user \in Users /\ call[c].feature \in Features
               /\ call[c].balance \in Int /\ Cost[call[c].feature] \in Int
    BY <1>3, CostAssumption DEF Call
  <1>4. CASE \E u \in Users, f \in Features : CallFeature(c, u, f)
    <2>1. PICK u \in Users, f \in Features : CallFeature(c, u, f)
      BY <1>4
    <2>2. [user |-> u, feature |-> f, state |-> "check", balance |-> 0] \in Call
      BY DEF Call, CallState, RunPending
    <2>3. GateTypeOK'
      BY <2>1, <2>2 DEF CallFeature, Put
    <2> QED
      BY <2>1, <2>3 DEF CallFeature, tables
  <1>5. CASE CheckEntitlement(c)
    BY <1>1, <1>5 DEF CheckEntitlement, Reached, CallState, RunPending, tables
  <1>6. CASE SpendCredits(c)
    <2>1. c \in DOMAIN call
      BY <1>6 DEF SpendCredits, Reached
    <2>2. [call[c] EXCEPT !.state = "commit", !.balance = wallet[call[c].user]] \in Call
      BY <1>3, <2>1 DEF Call, CallState, RunPending
    <2>3. GateTypeOK'
      BY <1>1, <1>6, <2>1, <2>2 DEF SpendCredits, CallState
    <2>4. walletLock' \in [Users -> Sessions \cup {Free}]
      BY <1>6 DEF SpendCredits, LockWallet, Sessions
    <2> QED
      BY <1>6, <2>3, <2>4 DEF SpendCredits
  <1>7. CASE CommitRun(c)
    <2>1. c \in DOMAIN call
      BY <1>7 DEF CommitRun, Reached
    <2>2. wallet' \in [Users -> Int] /\ ledger' \in [Users -> Seq(LedgerRow)]
      <3>1. RunRef(c) \in Ref
        BY DEF RunRef, Ref
      <3>2. -Cost[call[c].feature] \in Int
        BY <1>3, <2>1
      <3> QED
        BY <1>3, <1>7, <2>1, <3>1, <3>2, PostTypes DEF CommitRun
    <2>3. [user |-> call[c].user, feature |-> call[c].feature] \in RunRow
      BY <1>3, <2>1 DEF RunRow
    <2>4. DOMAIN runs' \subseteq Calls /\ runs' \in [DOMAIN runs' -> RunRow]
      BY <1>7, <2>3 DEF CommitRun, RunsWith, Put
    <2>5. GateTypeOK'
      BY <1>1, <1>7, <2>1 DEF CommitRun, CallState
    <2>6. walletLock' \in [Users -> Sessions \cup {Free}] /\ faults' \in 0 .. MaxFaults
      BY <1>2, <1>7, ReleaseTypes DEF CommitRun
    <2> QED
      BY <1>7, <2>2, <2>4, <2>5, <2>6 DEF CommitRun
  <1>8. CASE RunFails(c)
    BY <1>1, <1>2, <1>8, ReleaseTypes DEF RunFails, CallState
  <1> QED
    BY <1>4, <1>5, <1>6, <1>7, <1>8 DEF CallStep

LEMMA StatusTypeStep ==
    ASSUME TypeOK, NEW q \in Polls,
           PollStep(q) \/ \E u \in Users, t \in Requests : AskStatus(q, u, t)
    PROVE  TablesTypeOK' /\ QueueTypeOK' /\ PollTypeOK'
  <1> USE DEF TypeOK, TablesTypeOK, QueueTypeOK, PollTypeOK, tables
  <1>1. ASSUME NEW answer \in Poll, q \in DOMAIN poll, poll' = [poll EXCEPT ![q] = answer]
        PROVE  PollTypeOK'
    BY <1>1
  <1>2. CASE \E u \in Users, t \in Requests : AskStatus(q, u, t)
    <2>1. PICK u \in Users, t \in Requests : AskStatus(q, u, t)
      BY <1>2
    <2>2. [tx |-> t, user |-> u, state |-> "status", status |-> "none",
           balance |-> 0, entitlements |-> {}] \in Poll
      BY DEF Poll, PollState
    <2>3. PollTypeOK'
      BY <2>1, <2>2 DEF AskStatus, Put
    <2> QED
      BY <2>1, <2>3 DEF AskStatus
  <1>3. CASE ReadStatus(q)
    <2>1. q \in DOMAIN poll /\ poll[q] \in Poll
      BY <1>3 DEF ReadStatus, Polling
    <2>2. CASE ~Visible(q)
      <3>1. [poll[q] EXCEPT !.state = "not_found"] \in Poll
        BY <2>1 DEF Poll, PollState
      <3> QED
        BY <1>3, <2>1, <2>2, <3>1 DEF ReadStatus
    <2>3. CASE Visible(q)
      <3>1. tx[poll[q].tx].status \in {"pending", "completed", "failed"}
        BY <2>3 DEF Visible, TxRow
      <3>2. \A s \in {"pending", "completed", "failed"} :
              [poll[q] EXCEPT !.status = s,
                 !.state = IF s = "completed" THEN "balance" ELSE "answered"] \in Poll
        BY <2>1 DEF Poll, PollState
      <3> QED
        BY <1>3, <2>1, <2>3, <3>1, <3>2 DEF ReadStatus
    <2> QED
      BY <2>2, <2>3
  <1>4. CASE ReadBalance(q)
    <2>1. q \in DOMAIN poll /\ poll[q] \in Poll /\ wallet[poll[q].user] \in Int
      BY <1>4 DEF ReadBalance, Polling, Poll
    <2>2. [poll[q] EXCEPT !.state = "entitlements", !.balance = wallet[poll[q].user]] \in Poll
      BY <2>1 DEF Poll, PollState
    <2> QED
      BY <1>4, <2>1, <2>2 DEF ReadBalance
  <1>5. CASE ReadOwned(q)
    <2>1. q \in DOMAIN poll /\ poll[q] \in Poll /\ Owned(poll[q].user) \subseteq Features
      BY <1>5 DEF ReadOwned, Polling, Owned, Entitlement
    <2>2. [poll[q] EXCEPT !.state = "answered", !.entitlements = Owned(poll[q].user)] \in Poll
      BY <2>1 DEF Poll, PollState
    <2> QED
      BY <1>5, <2>1, <2>2 DEF ReadOwned
  <1> QED
    BY <1>2, <1>3, <1>4, <1>5 DEF PollStep

LEMMA AdminTypeStep ==
    ASSUME TypeOK, AdminNext
    PROVE  TablesTypeOK' /\ QueueTypeOK' /\ AdminTypeOK'
  <1> USE DEF TypeOK, TablesTypeOK, QueueTypeOK, AdminTypeOK
  <1>1. \E p \in Packages, row \in PackageRow : Edit(p, row)
    <2>1. ASSUME NEW p \in Packages, DeactivatePackage(p)
          PROVE  \E row \in PackageRow : Edit(p, row)
      <3>1. [pkg[p] EXCEPT !.active = FALSE] \in PackageRow
        BY <2>1 DEF DeactivatePackage, PackageRow
      <3> QED
        BY <2>1, <3>1 DEF DeactivatePackage
    <2> QED
      BY <2>1 DEF AdminNext, CreatePackage, UpdatePackage
  <1>2. PICK p \in Packages, row \in PackageRow : Edit(p, row)
    BY <1>1
  <1>3. DOMAIN pkg' \subseteq Packages /\ pkg' \in [DOMAIN pkg' -> PackageRow]
    BY <1>2 DEF Edit, Put
  <1>4. AdminTypeOK'
    BY <1>2, MaxEditsAssumption DEF Edit
  <1> QED
    BY <1>2, <1>3, <1>4 DEF Edit

-----------------------------------------------------------------------------
(* What each kind of step does to the tables.                              *)

\* Handlers of purchases write nothing but their own row.
LEMMA ApiEffect ==
    ASSUME ApiStep
    PROVE  \E r \in Requests :
             /\ UNCHANGED <<wallet, ledger, ents, runs, pkg, txLock, walletLock, job, call, poll, edits>>
             /\ \/ /\ r \notin DOMAIN req /\ UNCHANGED tx
                   /\ \E u \in Users, k \in Keys, p \in Packages :
                        req' = Put(req, r, [user |-> u, key |-> k, package |-> p,
                                            state |-> "replay", credits |-> 0])
                \/ RequestStep(r)
                \/ RequestFails(r) /\ UNCHANGED tx
  BY DEF ApiStep, ApiNext, RequestStep, RequestFails, Receive, Replay, LoadPackage, Insert, Enqueue,
         tables, workerVars, gateVars, pollVars, adminVars

\* A worker writes the tables only when it fails or completes its transaction.
LEMMA WorkEffect ==
    ASSUME WorkStep
    PROVE  /\ UNCHANGED <<runs, pkg, req, call, poll, edits>>
           /\ \E w \in Workers :
                /\ WorkerStep(w) \/ WorkerFault(w)
                /\ \/ UNCHANGED <<tx, wallet, ledger, ents>>
                   \/ (PackageInactive(w) \/ MarkFailed(w)) /\ UNCHANGED <<wallet, ledger, ents>>
                   \/ CommitGrant(w) /\ ~Conflicts(w)
  <1>1. PICK w \in Workers : WorkerStep(w) \/ WorkerFault(w)
    BY DEF WorkStep, WorkerNext
  <1>2. UNCHANGED <<runs, pkg>>
    <2>1. CASE WorkerFault(w)
      BY <2>1 DEF WorkerFault, RaiseEarly, RaiseLate, MarkFailedRaises, RetryLost, Crash, Redeliver, tables
    <2>2. CASE WorkerStep(w)
      BY <2>2 DEF WorkerStep, Deliver, SelectTx, PackageActive, PackageInactive, GrantCredits,
                  GrantOverflows, ReadEntitlements, CommitGrant, MarkFailed, Retry, Ack, tables
    <2> QED
      BY <1>1, <2>1, <2>2
  <1>3. \/ UNCHANGED <<tx, wallet, ledger, ents>>
        \/ (PackageInactive(w) \/ MarkFailed(w)) /\ UNCHANGED <<wallet, ledger, ents>>
        \/ CommitGrant(w) /\ ~Conflicts(w)
    <2>1. CASE WorkerFault(w)
      BY <2>1 DEF WorkerFault, RaiseEarly, RaiseLate, MarkFailedRaises, RetryLost, Crash, Redeliver, tables
    <2>2. CASE CommitGrant(w)
      BY <2>2 DEF CommitGrant
    <2>3. CASE WorkerStep(w) /\ ~CommitGrant(w)
      BY <2>3 DEF WorkerStep, Deliver, SelectTx, PackageActive, PackageInactive, GrantCredits,
                  GrantOverflows, ReadEntitlements, MarkFailed, Retry, Ack, tables
    <2> QED
      BY <1>1, <2>1, <2>2, <2>3
  <1> QED
    BY <1>1, <1>2, <1>3 DEF WorkStep, apiVars, gateVars, pollVars, adminVars

\* A feature run writes the tables only when it commits.
LEMMA GateEffect ==
    ASSUME GateStep
    PROVE  /\ UNCHANGED <<tx, ents, pkg, txLock, req, job, poll, edits>>
           /\ \E c \in Calls :
                /\ CallStep(c) \/ RunFails(c) \/ \E u \in Users, f \in Features : CallFeature(c, u, f)
                /\ UNCHANGED <<wallet, ledger, runs>> \/ CommitRun(c)
  BY DEF GateStep, GateNext, CallStep, CallFeature, CheckEntitlement, SpendCredits, CommitRun,
         RunFails, tables, apiVars, workerVars, pollVars, adminVars

LEMMA StatusEffect ==
    ASSUME StatusStep
    PROVE  UNCHANGED <<tables, queue, faults, req, job, call, edits>>
  BY DEF StatusStep, PollNext, PollStep, AskStatus, ReadStatus, ReadBalance, ReadOwned,
         tables, apiVars, workerVars, gateVars, adminVars

\* The administrator writes packages and removes none.
LEMMA AdminEffect ==
    ASSUME AdminStep
    PROVE  /\ UNCHANGED <<tx, wallet, ledger, ents, runs, txLock, walletLock, queue, faults,
                          req, job, call, poll>>
           /\ DOMAIN pkg \subseteq DOMAIN pkg'
  BY DEF AdminStep, AdminNext, CreatePackage, UpdatePackage, DeactivatePackage, Edit, Put,
         apiVars, workerVars, gateVars, pollVars

-----------------------------------------------------------------------------
(* TypeOK is inductive together with ReferencesOK.                         *)

LEMMA TypeStep ==
    ASSUME TypeOK, ReferencesOK, [Next]_vars
    PROVE  TypeOK'
  <1>1. CASE ApiStep
    <2>1. TablesTypeOK' /\ QueueTypeOK' /\ ApiTypeOK'
      BY <1>1, ApiTypeStep DEF ApiStep, ApiNext
    <2> QED
      BY <1>1, <2>1 DEF TypeOK, ApiStep, workerVars, gateVars, pollVars, adminVars,
                        WorkerTypeOK, GateTypeOK, PollTypeOK, AdminTypeOK
  <1>2. CASE WorkStep
    <2>1. TablesTypeOK' /\ QueueTypeOK' /\ WorkerTypeOK'
      BY <1>2, WorkerTypeStep DEF WorkStep, WorkerNext
    <2> QED
      BY <1>2, <2>1 DEF TypeOK, WorkStep, apiVars, gateVars, pollVars, adminVars,
                        ApiTypeOK, GateTypeOK, PollTypeOK, AdminTypeOK
  <1>3. CASE GateStep
    <2>1. TablesTypeOK' /\ QueueTypeOK' /\ GateTypeOK'
      BY <1>3, GateTypeStep DEF GateStep, GateNext
    <2> QED
      BY <1>3, <2>1 DEF TypeOK, GateStep, apiVars, workerVars, pollVars, adminVars,
                        ApiTypeOK, WorkerTypeOK, PollTypeOK, AdminTypeOK
  <1>4. CASE StatusStep
    <2>1. TablesTypeOK' /\ QueueTypeOK' /\ PollTypeOK'
      BY <1>4, StatusTypeStep DEF StatusStep, PollNext
    <2> QED
      BY <1>4, <2>1 DEF TypeOK, StatusStep, apiVars, workerVars, gateVars, adminVars,
                        ApiTypeOK, WorkerTypeOK, GateTypeOK, AdminTypeOK
  <1>5. CASE AdminStep
    <2>1. TablesTypeOK' /\ QueueTypeOK' /\ AdminTypeOK'
      BY <1>5, AdminTypeStep DEF AdminStep
    <2> QED
      BY <1>5, <2>1 DEF TypeOK, AdminStep, apiVars, workerVars, gateVars, pollVars,
                        ApiTypeOK, WorkerTypeOK, GateTypeOK, PollTypeOK
  <1>6. CASE UNCHANGED vars
    BY <1>6 DEF vars, tables, TypeOK, TablesTypeOK, QueueTypeOK, ApiTypeOK, WorkerTypeOK,
                GateTypeOK, PollTypeOK, AdminTypeOK
  <1> QED
    BY <1>1, <1>2, <1>3, <1>4, <1>5, <1>6 DEF Next, Terminating

LEMMA ReferencesStep ==
    ASSUME TypeOK, ReferencesOK, [Next]_vars
    PROVE  ReferencesOK'
  <1> USE DEF ReferencesOK, Target
  <1>1. CASE ApiStep
    <2>1. PICK r \in Requests :
             /\ UNCHANGED <<wallet, ledger, ents, runs, pkg, txLock, walletLock, job, call, poll, edits>>
             /\ \/ /\ r \notin DOMAIN req /\ UNCHANGED tx
                   /\ \E u \in Users, k \in Keys, p \in Packages :
                        req' = Put(req, r, [user |-> u, key |-> k, package |-> p,
                                            state |-> "replay", credits |-> 0])
                \/ RequestStep(r)
                \/ RequestFails(r) /\ UNCHANGED tx
      BY <1>1, ApiEffect
    <2>2. CASE /\ UNCHANGED tx
               /\ \E u \in Users, k \in Keys, p \in Packages :
                    req' = Put(req, r, [user |-> u, key |-> k, package |-> p,
                                        state |-> "replay", credits |-> 0])
      BY <2>1, <2>2 DEF Put, TypeOK, ApiTypeOK
    <2>3. CASE Replay(r)
      BY <2>1, <2>3 DEF Replay, At, Goto, tables, TypeOK, ApiTypeOK, Request
    <2>4. CASE LoadPackage(r)
      <3>1. r \in DOMAIN req /\ UNCHANGED <<tx, pkg, job>>
        BY <2>1, <2>4 DEF LoadPackage, At, tables
      <3>2. CASE Goto(r, "not_found") \/ Goto(r, "inactive")
        BY <3>1, <3>2 DEF Goto, TypeOK, ApiTypeOK, Request
      <3>3. CASE /\ req[r].package \in DOMAIN pkg
                 /\ req' = [req EXCEPT ![r].state = "insert", ![r].credits = pkg[req[r].package].credits]
        <4>1. req'[r] = [req[r] EXCEPT !.state = "insert", !.credits = pkg[req[r].package].credits]
          BY <3>1, <3>3
        <4>2. req[r] \in Request /\ pkg[req[r].package].credits \in Credits
          BY <3>1, <3>3 DEF TypeOK, ApiTypeOK, TablesTypeOK, PackageRow
        <4>3. req'[r].package \in DOMAIN pkg /\ req'[r].credits \in Credits
          <5>1. req[r].package \in DOMAIN pkg
            BY <3>3
          <5>2. \A c \in Credits :
                   LET new == [req[r] EXCEPT !.state = "insert", !.credits = c]
                   IN  new.package = req[r].package /\ new.credits = c
            BY <4>2 DEF Request
          <5> QED
            BY <4>1, <4>2, <5>1, <5>2
        <4>4. DOMAIN req' = DOMAIN req /\ \A s \in DOMAIN req \ {r} : req'[s] = req[s]
          BY <3>3
        <4> QED
          BY <3>1, <4>3, <4>4
      <3> QED
        BY <2>4, <3>2, <3>3 DEF LoadPackage
    <2>5. CASE Insert(r)
      <3>1. /\ r \in DOMAIN req /\ req[r] \in Request /\ req[r].package \in DOMAIN pkg
            /\ UNCHANGED <<pkg, job>>
        BY <2>1, <2>5 DEF Insert, At, TypeOK, ApiTypeOK
      <3>2. \A state \in {"conflict", "enqueue"} : Goto(r, state) =>
               \A s \in DOMAIN req' : req'[s].state = "insert" =>
                  req'[s].package \in DOMAIN pkg' /\ req'[s].credits \in Credits
        BY <3>1 DEF Goto, TypeOK, ApiTypeOK, Request
      <3>3. CASE KeyTaken(r)
        BY <2>5, <3>1, <3>2, <3>3 DEF Insert, AfterConflict
      <3>4. CASE ~KeyTaken(r)
        <4>1. PendingRow(r).package = req[r].package
          BY DEF PendingRow
        <4>2. \A t \in DOMAIN tx' : tx'[t].package \in DOMAIN pkg'
          <5>1. tx' = Put(tx, r, PendingRow(r)) /\ pkg' = pkg
            BY <2>5, <3>4 DEF Insert
          <5>2. ASSUME NEW t \in DOMAIN tx \cup {r}
                PROVE  tx'[t] = IF t = r THEN PendingRow(r) ELSE tx[t]
            BY <5>1 DEF Put
          <5> QED
            BY <3>1, <4>1, <5>1, <5>2 DEF Put
        <4>3. DOMAIN tx \subseteq DOMAIN tx'
          BY <2>5, <3>4 DEF Insert, Put
        <4> QED
          BY <2>5, <3>1, <3>2, <3>4, <4>2, <4>3 DEF Insert
      <3> QED
        BY <3>3, <3>4
    <2>6. CASE Enqueue(r)
      BY <2>1, <2>6 DEF Enqueue, At, Goto, tables, TypeOK, ApiTypeOK, Request
    <2>7. CASE RequestFails(r) /\ UNCHANGED tx
      BY <2>1, <2>7 DEF RequestFails, Goto, TypeOK, ApiTypeOK, Request
    <2> QED
      BY <2>1, <2>2, <2>3, <2>4, <2>5, <2>6, <2>7 DEF RequestStep
  <1>2. CASE WorkStep
    <2>1. PICK w \in Workers : WorkerStep(w) \/ WorkerFault(w)
      BY <1>2, WorkEffect
    <2>2. UNCHANGED <<pkg, req>>
      BY <1>2, WorkEffect
    <2>3. DOMAIN tx' = DOMAIN tx /\ \A t \in DOMAIN tx : tx'[t].package = tx[t].package
      <3>1. CASE UNCHANGED tx
        BY <3>1
      <3>2. CASE \E v \in Workers : PackageInactive(v) \/ MarkFailed(v) \/ (CommitGrant(v) /\ ~Conflicts(v))
        <4>1. PICK t \in {job[v].msg.tx : v \in Workers}, s \in {"completed", "failed"} :
                 tx' = [tx EXCEPT ![t].status = s]
          BY <3>2 DEF PackageInactive, MarkFailed, CommitGrant
        <4>2. \A x \in DOMAIN tx : tx[x] \in TxRow
          BY DEF TypeOK, TablesTypeOK
        <4> QED
          BY <4>1, <4>2 DEF TxRow
      <3> QED
        BY <1>2, <3>1, <3>2, WorkEffect
    <2>4. \A v \in DOMAIN job' : job'[v].state \notin {"select", "retry", "ack"} =>
              job'[v].msg.tx \in DOMAIN tx
      <3> USE DEF TypeOK, WorkerTypeOK, Job, InState, Proceed
      <3>1. CASE WorkerFault(w)
        BY <2>1, <3>1 DEF WorkerFault, RaiseEarly, RaiseLate, MarkFailedRaises, RetryLost, Crash, Redeliver, Drop
      <3>2. CASE \E m \in Message : Deliver(w, m)
        BY <3>2 DEF Deliver, Put
      <3>3. CASE SelectTx(w)
        BY <3>3 DEF SelectTx
      <3>4. CASE PackageActive(w) \/ PackageInactive(w)
        BY <3>4 DEF PackageActive, PackageInactive
      <3>5. CASE GrantCredits(w) \/ GrantOverflows(w)
        BY <3>5 DEF GrantCredits, GrantOverflows
      <3>6. CASE ReadEntitlements(w) \/ CommitGrant(w)
        BY <3>6 DEF ReadEntitlements, CommitGrant
      <3>7. CASE MarkFailed(w) \/ Retry(w) \/ Ack(w)
        BY <3>7 DEF MarkFailed, Retry, Ack, Drop
      <3> QED
        BY <2>1, <3>1, <3>2, <3>3, <3>4, <3>5, <3>6, <3>7 DEF WorkerStep
    <2> QED
      BY <2>2, <2>3, <2>4
  <1>3. CASE GateStep
    BY <1>3, GateEffect
  <1>4. CASE StatusStep
    BY <1>4, StatusEffect DEF tables
  <1>5. CASE AdminStep
    BY <1>5, AdminEffect
  <1>6. CASE UNCHANGED vars
    BY <1>6 DEF vars, tables
  <1> QED
    BY <1>1, <1>2, <1>3, <1>4, <1>5, <1>6 DEF Next, Terminating

-----------------------------------------------------------------------------
(* Types for every behaviour.                                              *)

\* The invariant of the type runs: every variable keeps its type, whatever the
\* number of users, packages, calls, workers, retries, faults and edits.
THEOREM TypeCorrect == Spec => []TypeOK
  <1>1. Init => TypeOK /\ ReferencesOK
    BY InitTypeOK DEF Init, ReferencesOK, TablesInit, ApiInit, WorkerInit
  <1>2. TypeOK /\ ReferencesOK /\ [Next]_vars => (TypeOK /\ ReferencesOK)'
    BY TypeStep, ReferencesStep
  <1> QED
    BY <1>1, <1>2, PTL DEF Spec

-----------------------------------------------------------------------------
(* Locks.  A session that holds a row lock is disturbed by no other.       *)

Holds(w) ==
    /\ job[w].state \in {"package", "grant", "unlock", "commit"} =>
         txLock[Target(w)] = w /\ IsPending(Target(w))
    /\ job[w].state \in {"unlock", "commit"} =>
         /\ walletLock[Buyer(w)] = w
         /\ job[w].balance = wallet[Buyer(w)]
         /\ Fits(job[w].balance + Amount(w))
    /\ job[w].state = "commit" => ~Conflicts(w)

LEMMA HoldsAll == WorkersHoldLocks <=> \A w \in DOMAIN job : Holds(w)
  BY DEF WorkersHoldLocks, Holds

LEMMA HoldsKept ==
    ASSUME NEW v, v \in DOMAIN job, v \in DOMAIN job', job'[v] = job[v], Holds(v),
           job[v].state \in {"package", "grant", "unlock", "commit"} =>
             tx'[Target(v)] = tx[Target(v)] /\ txLock'[Target(v)] = txLock[Target(v)],
           job[v].state \in {"unlock", "commit"} =>
             /\ walletLock'[Buyer(v)] = walletLock[Buyer(v)]
             /\ wallet'[Buyer(v)] = wallet[Buyer(v)]
             /\ {e \in ents' : e.user = Buyer(v)} = {e \in ents : e.user = Buyer(v)}
    PROVE  Holds(v)'
  <1>1. CASE job[v].state \in {"package", "grant", "unlock", "commit"}
    <2>1. Target(v)' = Target(v) /\ Buyer(v)' = Buyer(v) /\ Amount(v)' = Amount(v)
          /\ IsPending(Target(v))' = IsPending(Target(v))
      BY <1>1 DEF Target, Buyer, Amount, IsPending
    <2>2. CASE job[v].state \in {"unlock", "commit"}
      <3>1. Conflicts(v)' = Conflicts(v)
        BY <2>1, <2>2 DEF Conflicts, Owned
      <3> QED
        BY <1>1, <2>1, <2>2, <3>1 DEF Holds, Fits
    <2>3. CASE job[v].state \notin {"unlock", "commit"}
      BY <1>1, <2>1, <2>3 DEF Holds
    <2> QED
      BY <2>2, <2>3
  <1>2. CASE job[v].state \notin {"package", "grant", "unlock", "commit"}
    BY <1>2 DEF Holds
  <1> QED
    BY <1>1, <1>2

\* Another worker's step leaves a worker's record.
LEMMA OtherJobsKept ==
    ASSUME NEW w \in Workers, WorkerStep(w) \/ WorkerFault(w), NEW v \in DOMAIN job, v # w
    PROVE  v \in DOMAIN job' /\ job'[v] = job[v]
  <1> USE DEF Proceed, Put, Drop
  <1>1. CASE WorkerFault(w)
    BY <1>1 DEF WorkerFault, RaiseEarly, RaiseLate, MarkFailedRaises, RetryLost, Crash, Redeliver
  <1>2. CASE WorkerStep(w)
    BY <1>2 DEF WorkerStep, Deliver, SelectTx, PackageActive, PackageInactive, GrantCredits,
                GrantOverflows, ReadEntitlements, CommitGrant, MarkFailed, Retry, Ack
  <1> QED
    BY <1>1, <1>2

\* What the steps of one worker leave to the others.
LEMMA OthersKeepLocks ==
    ASSUME TypeOK, ReferencesOK, WorkersHoldLocks,
           NEW w \in Workers, WorkerStep(w) \/ WorkerFault(w), NEW v \in DOMAIN job, v # w
    PROVE  v \in DOMAIN job' /\ Holds(v)'
  <1>1. v \in Workers /\ Holds(v) /\ job[v] \in Job /\ v # Free /\ w # Free
    BY HoldsAll, SessionsAssumption DEF TypeOK, WorkerTypeOK, Sessions
  <1>2. v \in DOMAIN job' /\ job'[v] = job[v]
    BY OtherJobsKept
  <1>3. ASSUME job[v].state \in {"package", "grant", "unlock", "commit"}
        PROVE  tx'[Target(v)] = tx[Target(v)] /\ txLock'[Target(v)] = txLock[Target(v)]
    <2>1. txLock[Target(v)] = v /\ Target(v) \in DOMAIN tx /\ Target(v) \in Requests
      BY <1>1, <1>3 DEF Holds, ReferencesOK, TypeOK, TablesTypeOK
    <2>2. txLock \in [Requests -> Workers \cup {Free}]
      BY DEF TypeOK, TablesTypeOK
    <2>3. txLock'[Target(v)] = txLock[Target(v)]
      <3> USE <1>1, <2>1, <2>2 DEF ReleaseTxs, LockTx
      <3>1. CASE WorkerFault(w)
        BY <3>1 DEF WorkerFault, RaiseEarly, RaiseLate, MarkFailedRaises, RetryLost, Crash, Redeliver, tables
      <3>2. CASE WorkerStep(w)
        BY <3>2 DEF WorkerStep, Deliver, SelectTx, PackageActive, PackageInactive, GrantCredits,
                    GrantOverflows, ReadEntitlements, CommitGrant, MarkFailed, Retry, Ack, tables
      <3> QED
        BY <3>1, <3>2
    <2>4. tx'[Target(v)] = tx[Target(v)]
      <3>1. CASE UNCHANGED tx
        BY <3>1
      <3>2. CASE PackageInactive(w) \/ CommitGrant(w)
        <4>1. w \in DOMAIN job /\ txLock[Target(w)] = w
          BY <3>2, HoldsAll DEF PackageInactive, CommitGrant, InState, Holds
        <4>2. Target(w) # Target(v)
          BY <1>1, <2>1, <4>1
        <4> QED
          BY <2>1, <3>2, <4>2 DEF PackageInactive, CommitGrant
      <3>3. CASE MarkFailed(w)
        BY <1>1, <2>1, <3>3 DEF MarkFailed
      <3>4. \/ UNCHANGED tx \/ PackageInactive(w) \/ CommitGrant(w) \/ MarkFailed(w)
        BY DEF WorkerStep, WorkerFault, Deliver, SelectTx, PackageActive, GrantCredits,
               GrantOverflows, ReadEntitlements, Retry, Ack,
               RaiseEarly, RaiseLate, MarkFailedRaises, RetryLost, Crash, Redeliver, tables
      <3> QED
        BY <3>1, <3>2, <3>3, <3>4
    <2> QED
      BY <2>3, <2>4
  <1>4. ASSUME job[v].state \in {"unlock", "commit"}
        PROVE  /\ walletLock'[Buyer(v)] = walletLock[Buyer(v)]
               /\ wallet'[Buyer(v)] = wallet[Buyer(v)]
               /\ {e \in ents' : e.user = Buyer(v)} = {e \in ents : e.user = Buyer(v)}
    <2>1. Target(v) \in DOMAIN tx /\ Buyer(v) \in Users /\ walletLock[Buyer(v)] = v
      BY <1>1, <1>4 DEF Holds, ReferencesOK, TypeOK, TablesTypeOK, TxRow, Buyer
    <2>2. walletLock \in [Users -> Sessions \cup {Free}] /\ wallet \in [Users -> Int]
      BY DEF TypeOK, TablesTypeOK
    <2>3. walletLock'[Buyer(v)] = walletLock[Buyer(v)]
      <3> USE <1>1, <2>1, <2>2 DEF ReleaseWallets, LockWallet
      <3>1. CASE WorkerFault(w)
        BY <3>1 DEF WorkerFault, RaiseEarly, RaiseLate, MarkFailedRaises, RetryLost, Crash, Redeliver, tables
      <3>2. CASE WorkerStep(w)
        BY <3>2 DEF WorkerStep, Deliver, SelectTx, PackageActive, PackageInactive, GrantCredits,
                    GrantOverflows, ReadEntitlements, CommitGrant, MarkFailed, Retry, Ack, tables
      <3> QED
        BY <3>1, <3>2
    <2>4. CASE UNCHANGED <<wallet, ents>>
      BY <2>3, <2>4
    <2>5. CASE CommitGrant(w) /\ ~Conflicts(w)
      <3>1. w \in DOMAIN job /\ walletLock[Buyer(w)] = w
        BY <2>5, HoldsAll DEF CommitGrant, InState, Holds
      <3>2. Buyer(w) # Buyer(v)
        BY <1>1, <2>1, <3>1
      <3>3. wallet'[Buyer(v)] = wallet[Buyer(v)]
        BY <2>1, <2>2, <2>5, <3>2 DEF CommitGrant, Post
      <3>4. \A e \in NewRows(w) : e.user # Buyer(v)
        BY <3>2 DEF NewRows
      <3> QED
        BY <2>3, <2>5, <3>3, <3>4 DEF CommitGrant
    <2>6. UNCHANGED <<wallet, ents>> \/ (CommitGrant(w) /\ ~Conflicts(w))
      <3>1. CASE WorkerFault(w)
        BY <3>1 DEF WorkerFault, RaiseEarly, RaiseLate, MarkFailedRaises, RetryLost, Crash, Redeliver, tables
      <3>2. CASE CommitGrant(w)
        BY <3>2 DEF CommitGrant
      <3>3. CASE WorkerStep(w) /\ ~CommitGrant(w)
        BY <3>3 DEF WorkerStep, Deliver, SelectTx, PackageActive, PackageInactive, GrantCredits,
                    GrantOverflows, ReadEntitlements, MarkFailed, Retry, Ack, tables
      <3> QED
        BY <3>1, <3>2, <3>3
    <2> QED
      BY <2>4, <2>5, <2>6
  <1> QED
    BY <1>1, <1>2, <1>3, <1>4, HoldsKept

\* What a worker has learnt by its own next step.
LEMMA OwnLocks ==
    ASSUME TypeOK, ReferencesOK, WorkersHoldLocks,
           NEW w \in Workers, WorkerStep(w) \/ WorkerFault(w), w \in DOMAIN job'
    PROVE  Holds(w)'
  <1>1. ASSUME job'[w].state \notin {"package", "grant", "unlock", "commit"}
        PROVE  Holds(w)'
    BY <1>1 DEF Holds
  <1>2. CASE \E m \in Message : Deliver(w, m)
    BY <1>1, <1>2 DEF Deliver, Put
  <1>3. ASSUME w \in DOMAIN job
        PROVE  /\ job[w] \in Job /\ Target(w) \in Requests /\ Holds(w)
               /\ \A state \in JobState : Proceed(w, state) =>
                    job'[w] = [job[w] EXCEPT !.state = state]
    BY <1>3, HoldsAll DEF TypeOK, WorkerTypeOK, Job, Message, Target, Proceed
  <1>4. CASE SelectTx(w)
    <2>1. w \in DOMAIN job
      BY <1>4 DEF SelectTx, InState
    <2>2. CASE Proceed(w, "ack")
      BY <1>1, <1>3, <2>1, <2>2 DEF JobState, Job
    <2>3. CASE LockTx(w, Target(w)) /\ Proceed(w, "package") /\ IsPending(Target(w))
      <3>1. job'[w] = [job[w] EXCEPT !.state = "package"] /\ UNCHANGED tx
        BY <1>3, <1>4, <2>1, <2>3 DEF SelectTx, JobState
      <3>2. job'[w].state = "package" /\ Target(w)' = Target(w)
        BY <1>3, <2>1, <3>1 DEF Job, Target
      <3>3. txLock'[Target(w)] = w
        BY <1>3, <2>1, <2>3 DEF LockTx, TypeOK, TablesTypeOK
      <3> QED
        BY <2>3, <3>1, <3>2, <3>3 DEF Holds, IsPending
    <2> QED
      BY <1>4, <2>2, <2>3 DEF SelectTx
  <1>5. CASE PackageActive(w)
    <2>1. w \in DOMAIN job /\ job[w].state = "package" /\ UNCHANGED <<tx, txLock>>
      BY <1>5 DEF PackageActive, InState, tables
    <2>2. job'[w] = [job[w] EXCEPT !.state = "grant"]
      BY <1>3, <1>5, <2>1 DEF PackageActive, JobState
    <2>3. job'[w].state = "grant" /\ Target(w)' = Target(w)
      BY <1>3, <2>1, <2>2 DEF Job, Target
    <2> QED
      BY <1>3, <2>1, <2>3 DEF Holds, IsPending
  <1>6. CASE GrantCredits(w)
    <2>1. w \in DOMAIN job /\ job[w].state = "grant" /\ UNCHANGED <<tx, txLock, wallet>>
      BY <1>6 DEF GrantCredits, InState
    <2>2. job'[w] = [job[w] EXCEPT !.state = "unlock", !.balance = wallet[Buyer(w)]]
      BY <1>6, <2>1 DEF GrantCredits
    <2>3. job'[w].state = "unlock" /\ job'[w].balance = wallet[Buyer(w)] /\ job'[w].msg = job[w].msg
      BY <1>3, <2>1, <2>2 DEF Job
    <2>4. Target(w)' = Target(w) /\ Buyer(w)' = Buyer(w) /\ Amount(w)' = Amount(w)
      BY <2>1, <2>3 DEF Target, Buyer, Amount
    <2>5. Buyer(w) \in Users
      BY <2>1 DEF ReferencesOK, TypeOK, TablesTypeOK, TxRow, Buyer
    <2>6. walletLock'[Buyer(w)] = w
      BY <1>6, <2>5 DEF GrantCredits, LockWallet, TypeOK, TablesTypeOK
    <2> QED
      BY <1>3, <1>6, <2>1, <2>3, <2>4, <2>6 DEF Holds, IsPending, GrantCredits, Fits
  <1>7. CASE ReadEntitlements(w)
    <2>1. w \in DOMAIN job /\ job[w].state = "unlock" /\ UNCHANGED tables
      BY <1>7 DEF ReadEntitlements, InState
    <2>2. job'[w] = [job[w] EXCEPT !.state = "commit",
                                   !.new = pkg[Bought(w)].features \ Owned(Buyer(w))]
      BY <1>7, <2>1 DEF ReadEntitlements
    <2>3. /\ job'[w].state = "commit" /\ job'[w].balance = job[w].balance
          /\ job'[w].msg = job[w].msg
          /\ job'[w].new = pkg[Bought(w)].features \ Owned(Buyer(w))
      BY <1>3, <2>1, <2>2 DEF Job
    <2>4. Target(w)' = Target(w) /\ Buyer(w)' = Buyer(w) /\ Amount(w)' = Amount(w)
          /\ Owned(Buyer(w))' = Owned(Buyer(w))
      BY <2>1, <2>3 DEF Target, Buyer, Amount, Owned, tables
    <2>5. ~Conflicts(w)'
      BY <2>3, <2>4 DEF Conflicts
    <2> QED
      BY <1>3, <2>1, <2>3, <2>4, <2>5 DEF Holds, IsPending, Fits, tables
  <1>8. ASSUME NEW state \in {"ack", "retry", "failing"}, w \in DOMAIN job, Proceed(w, state)
        PROVE  Holds(w)'
    BY <1>1, <1>3, <1>8 DEF JobState, Job
  <1>9. CASE PackageInactive(w) \/ GrantOverflows(w) \/ CommitGrant(w) \/ MarkFailed(w)
    BY <1>8, <1>9 DEF PackageInactive, GrantOverflows, CommitGrant, MarkFailed, InState
  <1>10. CASE Retry(w) \/ Ack(w)
    BY <1>8, <1>10 DEF Retry, Ack, InState, Drop
  <1>11. CASE WorkerFault(w) /\ ~Redeliver(w)
    BY <1>8, <1>11 DEF WorkerFault, RaiseEarly, RaiseLate, MarkFailedRaises, RetryLost, Crash, InState, Drop
  <1>12. CASE Redeliver(w)
    <2>1. w \in DOMAIN job /\ UNCHANGED tables /\ job' = job
      BY <1>12 DEF Redeliver
    <2> QED
      BY <1>3, <2>1, HoldsKept DEF tables
  <1> QED
    BY <1>2, <1>4, <1>5, <1>6, <1>7, <1>9, <1>10, <1>11, <1>12 DEF WorkerStep

LEMMA WorkersHoldLocksStep ==
    ASSUME TypeOK, ReferencesOK, RowsHaveWriters, WorkersHoldLocks, RunsHoldLocks, [Next]_vars
    PROVE  WorkersHoldLocks'
  <1>1. ASSUME NEW v \in DOMAIN job
        PROVE  /\ Holds(v) /\ v \in Workers /\ v # Free /\ v \notin Calls
               /\ job[v].state \in {"package", "grant", "unlock", "commit"} => Target(v) \in DOMAIN tx
               /\ job[v].state \in {"unlock", "commit"} =>
                    walletLock[Buyer(v)] = v /\ Buyer(v) \in Users
    <2>1. job[v].state \in {"package", "grant", "unlock", "commit"} => Target(v) \in DOMAIN tx
      BY <1>1 DEF ReferencesOK
    <2>2. Holds(v) /\ v \in Workers
      BY <1>1, HoldsAll DEF TypeOK, WorkerTypeOK
    <2>3. v # Free /\ v \notin Calls
      BY <2>2, SessionsAssumption DEF Sessions
    <2> QED
      BY <2>1, <2>2, <2>3 DEF Holds, Buyer, TypeOK, TablesTypeOK, TxRow
  <1>2. SUFFICES ASSUME NEW v \in DOMAIN job' PROVE Holds(v)'
    BY DEF WorkersHoldLocks, Holds
  <1>3. CASE ApiStep
    <2>1. PICK r \in Requests :
             /\ UNCHANGED <<wallet, ents, txLock, walletLock, job>>
             /\ UNCHANGED tx \/ RequestStep(r)
      BY <1>3, ApiEffect
    <2>2. CASE UNCHANGED tx
      BY <1>1, <2>1, <2>2, HoldsKept
    <2>3. CASE Insert(r) /\ ~KeyTaken(r)
      <3>1. tx' = Put(tx, r, PendingRow(r)) /\ r \notin DOMAIN tx
        BY <2>3 DEF Insert, RowsHaveWriters, At
      <3>2. \A t \in DOMAIN tx : tx'[t] = tx[t]
        BY <3>1 DEF Put
      <3> QED
        BY <1>1, <2>1, <3>2, HoldsKept
    <2>4. UNCHANGED tx \/ (Insert(r) /\ ~KeyTaken(r))
      BY <2>1 DEF RequestStep, Replay, LoadPackage, Insert, Enqueue, tables
    <2> QED
      BY <2>2, <2>3, <2>4
  <1>4. CASE WorkStep
    <2>1. PICK w \in Workers : WorkerStep(w) \/ WorkerFault(w)
      BY <1>4, WorkEffect
    <2>2. CASE v = w
      BY <2>1, <2>2, OwnLocks
    <2>3. CASE v # w
      <3>1. v \in DOMAIN job
        <4> USE <2>3 DEF Proceed, Put, Drop
        <4>1. CASE WorkerFault(w)
          BY <4>1 DEF WorkerFault, RaiseEarly, RaiseLate, MarkFailedRaises, RetryLost, Crash, Redeliver
        <4>2. CASE WorkerStep(w)
          BY <4>2 DEF WorkerStep, Deliver, SelectTx, PackageActive, PackageInactive, GrantCredits,
                      GrantOverflows, ReadEntitlements, CommitGrant, MarkFailed, Retry, Ack
        <4> QED
          BY <2>1, <4>1, <4>2
      <3> QED
        BY <2>1, <2>3, <3>1, OthersKeepLocks
    <2> QED
      BY <2>2, <2>3
  <1>5. CASE GateStep
    <2>1. v \in DOMAIN job /\ UNCHANGED <<tx, ents, txLock, job>>
      BY <1>5, GateEffect
    <2>2. PICK c \in Calls :
             /\ CallStep(c) \/ RunFails(c) \/ \E u \in Users, f \in Features : CallFeature(c, u, f)
             /\ UNCHANGED <<wallet, ledger, runs>> \/ CommitRun(c)
      BY <1>5, GateEffect
    <2>3. ASSUME job[v].state \in {"unlock", "commit"}
          PROVE  walletLock'[Buyer(v)] = walletLock[Buyer(v)] /\ wallet'[Buyer(v)] = wallet[Buyer(v)]
      <3>1. /\ walletLock[Buyer(v)] = v /\ Buyer(v) \in Users /\ v # Free /\ v # c
            /\ walletLock \in [Users -> Sessions \cup {Free}] /\ wallet \in [Users -> Int]
        BY <1>1, <2>1, <2>3 DEF TypeOK, TablesTypeOK
      <3>2. walletLock'[Buyer(v)] = walletLock[Buyer(v)]
        BY <2>2, <3>1 DEF CallStep, CallFeature, CheckEntitlement, SpendCredits, CommitRun, RunFails,
                          LockWallet, ReleaseWallets, tables
      <3>3. CASE CommitRun(c)
        <4>1. call[c].user # Buyer(v)
          BY <3>1, <3>3, RunsHoldLocks DEF RunsHoldLocks, CommitRun, Reached
        <4> QED
          BY <3>1, <3>2, <3>3, <4>1 DEF CommitRun, Post
      <3> QED
        BY <2>2, <3>2, <3>3
    <2> QED
      BY <1>1, <2>1, <2>3, HoldsKept
  <1>6. CASE StatusStep
    BY <1>1, <1>6, StatusEffect, HoldsKept DEF tables
  <1>7. CASE AdminStep
    BY <1>1, <1>7, AdminEffect, HoldsKept
  <1>8. CASE UNCHANGED vars
    BY <1>1, <1>8, HoldsKept DEF vars, tables
  <1> QED
    BY <1>3, <1>4, <1>5, <1>6, <1>7, <1>8 DEF Next, Terminating

-----------------------------------------------------------------------------
(* Feature runs hold their wallet as workers do.                           *)

RunHolds(c) ==
    /\ call[c].state \in {"spend", "commit"} => Unlocked(c)
    /\ call[c].state = "commit" =>
         /\ walletLock[call[c].user] = c
         /\ call[c].balance = wallet[call[c].user]
         /\ Affords(call[c].balance, Cost[call[c].feature])

LEMMA RunHoldsKept ==
    ASSUME NEW d, d \in DOMAIN call, d \in DOMAIN call', call'[d] = call[d], RunHolds(d),
           ents \subseteq ents',
           call[d].state = "commit" =>
             /\ walletLock'[call[d].user] = walletLock[call[d].user]
             /\ wallet'[call[d].user] = wallet[call[d].user]
    PROVE  RunHolds(d)'
  <1>1. Unlocked(d) => Unlocked(d)'
    BY DEF Unlocked, Owned
  <1> QED
    BY <1>1 DEF RunHolds, Affords

LEMMA RunsHoldLocksStep ==
    ASSUME TypeOK, ReferencesOK, WorkersHoldLocks, RunsHoldLocks, [Next]_vars
    PROVE  RunsHoldLocks'
  <1>1. ASSUME NEW d \in DOMAIN call
        PROVE  RunHolds(d) /\ d \in Calls /\ d # Free /\ d \notin Workers /\ call[d] \in Call
               /\ call[d].user \in Users
    BY <1>1, SessionsAssumption
       DEF RunsHoldLocks, RunHolds, TypeOK, GateTypeOK, Sessions, Call
  <1>2. walletLock \in [Users -> Sessions \cup {Free}] /\ wallet \in [Users -> Int]
    BY DEF TypeOK, TablesTypeOK
  <1>3. SUFFICES ASSUME NEW d \in DOMAIN call' PROVE RunHolds(d)'
    BY DEF RunsHoldLocks, RunHolds
  <1>4. CASE ApiStep
    BY <1>1, <1>4, ApiEffect, RunHoldsKept
  <1>5. CASE WorkStep
    <2>1. PICK w \in Workers :
             /\ WorkerStep(w) \/ WorkerFault(w)
             /\ \/ UNCHANGED <<tx, wallet, ledger, ents>>
                \/ (PackageInactive(w) \/ MarkFailed(w)) /\ UNCHANGED <<wallet, ledger, ents>>
                \/ CommitGrant(w) /\ ~Conflicts(w)
      BY <1>5, WorkEffect
    <2>2. UNCHANGED call /\ d \in DOMAIN call
      BY <1>5, WorkEffect
    <2>3. ents \subseteq ents'
      BY <2>1 DEF CommitGrant
    <2>4. ASSUME call[d].state = "commit"
          PROVE  /\ walletLock'[call[d].user] = walletLock[call[d].user]
                 /\ wallet'[call[d].user] = wallet[call[d].user]
      <3>1. walletLock[call[d].user] = d /\ d # w /\ d # Free
        BY <1>1, <2>2, <2>4 DEF RunHolds
      <3>2. walletLock'[call[d].user] = walletLock[call[d].user]
        <4> USE <1>1, <1>2, <2>2, <3>1 DEF ReleaseWallets, LockWallet
        <4>1. CASE WorkerFault(w)
          BY <4>1 DEF WorkerFault, RaiseEarly, RaiseLate, MarkFailedRaises, RetryLost, Crash, Redeliver, tables
        <4>2. CASE WorkerStep(w)
          BY <4>2 DEF WorkerStep, Deliver, SelectTx, PackageActive, PackageInactive, GrantCredits,
                      GrantOverflows, ReadEntitlements, CommitGrant, MarkFailed, Retry, Ack, tables
        <4> QED
          BY <2>1, <4>1, <4>2
      <3>3. CASE CommitGrant(w) /\ ~Conflicts(w)
        <4>1. walletLock[Buyer(w)] = w
          BY <3>3, HoldsAll DEF CommitGrant, InState, Holds
        <4> QED
          BY <1>1, <1>2, <2>2, <3>1, <3>2, <3>3, <4>1 DEF CommitGrant, Post
      <3> QED
        BY <2>1, <3>2, <3>3
    <2> QED
      BY <1>1, <2>2, <2>3, <2>4, RunHoldsKept
  <1>6. CASE GateStep
    <2>1. UNCHANGED <<tx, ents, job>>
      BY <1>6, GateEffect
    <2>2. PICK c \in Calls :
             /\ CallStep(c) \/ RunFails(c) \/ \E u \in Users, f \in Features : CallFeature(c, u, f)
             /\ UNCHANGED <<wallet, ledger, runs>> \/ CommitRun(c)
      BY <1>6, GateEffect
    <2>3. CASE d # c
      <3>1. d \in DOMAIN call /\ call'[d] = call[d]
        BY <2>2, <2>3 DEF CallStep, CallFeature, CheckEntitlement, SpendCredits, CommitRun, RunFails,
                          Enter, Put
      <3>2. ASSUME call[d].state = "commit"
            PROVE  /\ walletLock'[call[d].user] = walletLock[call[d].user]
                   /\ wallet'[call[d].user] = wallet[call[d].user]
        <4>1. walletLock[call[d].user] = d /\ call[d].user \in Users /\ d # Free
          BY <1>1, <3>1, <3>2 DEF RunHolds
        <4>2. walletLock'[call[d].user] = walletLock[call[d].user]
          BY <1>2, <2>2, <2>3, <4>1
             DEF CallStep, CallFeature, CheckEntitlement, SpendCredits, CommitRun, RunFails,
                 LockWallet, ReleaseWallets, tables
        <4>3. CASE CommitRun(c)
          <5>1. c \in DOMAIN call /\ walletLock[call[c].user] = c
            BY <1>1, <4>3 DEF CommitRun, Reached, RunHolds
          <5> QED
            BY <1>2, <2>3, <4>1, <4>2, <4>3, <5>1 DEF CommitRun, Post
        <4> QED
          BY <2>2, <4>2, <4>3
      <3> QED
        BY <1>1, <2>1, <3>1, <3>2, RunHoldsKept
    <2>4. CASE d = c
      <3> SUFFICES RunHolds(c)'
        BY <2>4
      <3>1. ASSUME call'[c].state \notin {"spend", "commit"}
            PROVE  RunHolds(c)'
        BY <3>1 DEF RunHolds
      <3>2. ASSUME NEW state \in CallState, c \in DOMAIN call, Enter(c, state)
            PROVE  call'[c] = [call[c] EXCEPT !.state = state] /\ call'[c].state = state
        <4>1. call[c] \in Call
          BY <1>1, <3>2
        <4> QED
          BY <3>2, <4>1 DEF Enter, Call
      <3>a. ASSUME NEW state \in {"ran", "locked", "insufficient", "error"},
                   c \in DOMAIN call, Enter(c, state)
            PROVE  RunHolds(c)'
        BY <3>1, <3>2, <3>a DEF CallState
      <3>3. CASE \E u \in Users, f \in Features : CallFeature(c, u, f)
        BY <3>1, <3>3 DEF CallFeature, Put
      <3>4. CASE CheckEntitlement(c)
        <4>1. c \in DOMAIN call /\ UNCHANGED tables
          BY <3>4 DEF CheckEntitlement, Reached
        <4>2. CASE Unlocked(c)
          <5>1. call'[c] = [call[c] EXCEPT !.state = "spend"] /\ call'[c].state = "spend"
            BY <3>2, <3>4, <4>1, <4>2 DEF CheckEntitlement, CallState, RunPending
          <5>2. call'[c].user = call[c].user /\ call'[c].feature = call[c].feature
            BY <1>1, <4>1, <5>1 DEF Call
          <5>3. Unlocked(c)'
            BY <4>1, <4>2, <5>2 DEF Unlocked, Owned, tables
          <5> QED
            BY <5>1, <5>3 DEF RunHolds
        <4>3. CASE ~Unlocked(c)
          BY <3>a, <3>4, <4>1, <4>3 DEF CheckEntitlement
        <4> QED
          BY <4>2, <4>3
      <3>5. CASE SpendCredits(c)
        <4>1. c \in DOMAIN call /\ call[c].state = "spend" /\ UNCHANGED <<wallet, ents>>
          BY <3>5 DEF SpendCredits, Reached
        <4>2. CASE Affords(wallet[call[c].user], Cost[call[c].feature])
          <5>1. call'[c] = [call[c] EXCEPT !.state = "commit", !.balance = wallet[call[c].user]]
                /\ LockWallet(c, call[c].user)
            BY <3>5, <4>1, <4>2 DEF SpendCredits
          <5>2. /\ call'[c].user = call[c].user /\ call'[c].feature = call[c].feature
                /\ call'[c].balance = wallet[call[c].user] /\ call'[c].state = "commit"
            BY <1>1, <4>1, <5>1 DEF Call
          <5>3. walletLock'[call[c].user] = c
            BY <1>1, <1>2, <4>1, <5>1 DEF LockWallet
          <5>4. Unlocked(c)'
            BY <1>1, <4>1, <5>2 DEF Unlocked, Owned, RunHolds
          <5> QED
            BY <4>1, <4>2, <5>2, <5>3, <5>4 DEF RunHolds, Affords
        <4>3. CASE ~Affords(wallet[call[c].user], Cost[call[c].feature])
          BY <3>a, <3>5, <4>1, <4>3 DEF SpendCredits
        <4> QED
          BY <4>2, <4>3
      <3>6. CASE CommitRun(c)
        BY <3>a, <3>6 DEF CommitRun, Reached
      <3>7. CASE RunFails(c)
        BY <3>a, <3>7 DEF RunFails
      <3> QED
        BY <2>2, <2>4, <3>3, <3>4, <3>5, <3>6, <3>7 DEF CallStep
    <2> QED
      BY <2>3, <2>4
  <1>7. CASE StatusStep
    BY <1>1, <1>7, StatusEffect, RunHoldsKept DEF tables
  <1>8. CASE AdminStep
    BY <1>1, <1>8, AdminEffect, RunHoldsKept
  <1>9. CASE UNCHANGED vars
    BY <1>1, <1>9, RunHoldsKept DEF vars, tables
  <1> QED
    BY <1>4, <1>5, <1>6, <1>7, <1>8, <1>9 DEF Next, Terminating

-----------------------------------------------------------------------------
(* Rows and the calls that insert them.                                    *)

\* How a request moves, and the row it inserts while it does.
LEMMA RequestMoves ==
    ASSUME TypeOK, RowsHaveWriters, NEW r \in Requests, RequestStep(r)
    PROVE  /\ r \in DOMAIN req /\ DOMAIN req' = DOMAIN req
           /\ \A s \in DOMAIN req : /\ s # r => req'[s] = req[s]
                                    /\ req'[s].user = req[s].user
                                    /\ req'[s].key = req[s].key
                                    /\ req'[s].package = req[s].package
           /\ \/ /\ UNCHANGED tx /\ req[r].state \in {"replay", "load", "insert", "conflict"}
                 /\ req'[r].state \notin {"enqueue", "accepted"}
                 /\ req'[r].state = "replayed" =>
                      \E t \in SameKey(req[r].user, req[r].key) : tx[t].package = req[r].package
              \/ /\ UNCHANGED tx /\ req[r].state = "enqueue" /\ req'[r].state = "accepted"
              \/ /\ Insert(r) /\ SameKey(req[r].user, req[r].key) = {}
                 /\ r \notin DOMAIN tx /\ tx' = Put(tx, r, PendingRow(r))
                 /\ req'[r].state = "enqueue"
  <1>1. r \in DOMAIN req /\ req[r] \in Request
    BY DEF RequestStep, Replay, LoadPackage, Insert, Enqueue, At, TypeOK, ApiTypeOK
  <1>2. ASSUME NEW state \in RequestState, Goto(r, state)
        PROVE  /\ DOMAIN req' = DOMAIN req /\ req'[r].state = state
               /\ \A s \in DOMAIN req : /\ s # r => req'[s] = req[s]
                                        /\ req'[s].user = req[s].user
                                        /\ req'[s].key = req[s].key
                                        /\ req'[s].package = req[s].package
    BY <1>1, <1>2 DEF Goto, Request, TypeOK, ApiTypeOK
  <1>3. CASE Replay(r)
    <2>1. UNCHANGED tx /\ req[r].state \in {"replay", "conflict"}
      BY <1>3 DEF Replay, At, tables
    <2>2. CASE Goto(r, "load") \/ Goto(r, "key_conflict")
      <3>1. "load" \in RequestState /\ "key_conflict" \in RequestState
        BY DEF RequestState, ApiPending
      <3> QED
        BY <1>1, <1>2, <2>1, <2>2, <3>1
    <2>3. CASE Goto(r, "replayed") /\ \E t \in SameKey(req[r].user, req[r].key) : SameFingerprint(t, r)
      <3>1. "replayed" \in RequestState
        BY DEF RequestState
      <3> QED
        BY <1>1, <1>2, <2>1, <2>3, <3>1 DEF SameFingerprint
    <2> QED
      BY <1>3, <2>2, <2>3 DEF Replay
  <1>4. CASE LoadPackage(r)
    <2>1. UNCHANGED tx /\ req[r].state = "load"
      BY <1>4 DEF LoadPackage, At, tables
    <2>2. CASE Goto(r, "not_found") \/ Goto(r, "inactive")
      <3>1. "not_found" \in RequestState /\ "inactive" \in RequestState
        BY DEF RequestState
      <3> QED
        BY <1>1, <1>2, <2>1, <2>2, <3>1
    <2>3. CASE req' = [req EXCEPT ![r].state = "insert", ![r].credits = pkg[req[r].package].credits]
      <3> DEFINE row(c) == [req[r] EXCEPT !.state = "insert", !.credits = c]
      <3>1. PICK c : req' = [req EXCEPT ![r] = row(c)]
        BY <2>3
      <3>2. row(c).state = "insert" /\ row(c).user = req[r].user
            /\ row(c).key = req[r].key /\ row(c).package = req[r].package
        BY <1>1 DEF Request
      <3>3. /\ DOMAIN req' = DOMAIN req /\ req'[r] = row(c)
            /\ \A s \in DOMAIN req : s # r => req'[s] = req[s]
        BY <1>1, <3>1
      <3> HIDE DEF row
      <3> QED
        BY <1>1, <2>1, <3>2, <3>3
    <2> QED
      BY <1>4, <2>2, <2>3 DEF LoadPackage
  <1>5. CASE Insert(r)
    <2>1. req[r].state = "insert" /\ r \notin DOMAIN tx
      BY <1>5 DEF Insert, At, RowsHaveWriters
    <2>2. "conflict" \in RequestState /\ "enqueue" \in RequestState
      BY DEF RequestState, ApiPending
    <2>3. CASE KeyTaken(r)
      BY <1>1, <1>2, <1>5, <2>1, <2>2, <2>3 DEF Insert, AfterConflict
    <2>4. CASE ~KeyTaken(r)
      BY <1>1, <1>2, <1>5, <2>1, <2>2, <2>4 DEF Insert, KeyTaken
    <2> QED
      BY <2>3, <2>4
  <1>6. CASE Enqueue(r)
    <2>1. "accepted" \in RequestState
      BY DEF RequestState
    <2>2. UNCHANGED tx /\ req[r].state = "enqueue" /\ Goto(r, "accepted")
      BY <1>6 DEF Enqueue, At, tables
    <2> QED
      BY <1>1, <1>2, <2>1, <2>2
  <1> QED
    BY <1>3, <1>4, <1>5, <1>6 DEF RequestStep

\* The same for a request that fails, and for one that arrives.
LEMMA RequestEnds ==
    ASSUME TypeOK, NEW r \in Requests, RequestFails(r)
    PROVE  /\ r \in DOMAIN req /\ DOMAIN req' = DOMAIN req
           /\ \A s \in DOMAIN req : /\ s # r => req'[s] = req[s]
                                    /\ req'[s].user = req[s].user
                                    /\ req'[s].key = req[s].key
                                    /\ req'[s].package = req[s].package
           /\ req'[r].state = "error"
  <1>1. r \in DOMAIN req /\ req[r] \in Request /\ req' = [req EXCEPT ![r].state = "error"]
    BY DEF RequestFails, Goto, TypeOK, ApiTypeOK
  <1> QED
    BY <1>1 DEF Request

\* No step removes a row or changes what the POST wrote into it.
LEMMA TxRowsKept ==
    ASSUME TypeOK, RowsHaveWriters, ReferencesOK, [Next]_vars
    PROVE  /\ DOMAIN tx \subseteq DOMAIN tx'
           /\ ~ApiStep => DOMAIN tx' = DOMAIN tx
           /\ \A t \in DOMAIN tx :
                /\ tx'[t].user = tx[t].user /\ tx'[t].key = tx[t].key
                /\ tx'[t].package = tx[t].package /\ tx'[t].credits = tx[t].credits
  <1>1. CASE ApiStep
    <2>1. PICK r \in Requests : UNCHANGED tx \/ RequestStep(r)
      BY <1>1, ApiEffect
    <2>2. UNCHANGED tx \/ (r \notin DOMAIN tx /\ tx' = Put(tx, r, PendingRow(r)))
      BY <2>1, RequestMoves
    <2> QED
      BY <1>1, <2>2 DEF Put
  <1>2. CASE WorkStep
    <2>1. PICK w \in Workers : \/ UNCHANGED tx
                              \/ PackageInactive(w) \/ MarkFailed(w)
                              \/ CommitGrant(w)
      BY <1>2, WorkEffect
    <2>2. UNCHANGED tx \/ \E s \in {"failed", "completed"} :
            Target(w) \in DOMAIN tx /\ tx' = [tx EXCEPT ![Target(w)].status = s]
      BY <2>1 DEF PackageInactive, MarkFailed, CommitGrant, ReferencesOK, InState
    <2>3. CASE UNCHANGED tx
      BY <2>3
    <2>4. ASSUME NEW s \in {"failed", "completed"}, NEW o \in DOMAIN tx,
                 tx' = [tx EXCEPT ![o].status = s]
          PROVE  /\ DOMAIN tx' = DOMAIN tx
                 /\ \A t \in DOMAIN tx :
                      /\ tx'[t].user = tx[t].user /\ tx'[t].key = tx[t].key
                      /\ tx'[t].package = tx[t].package /\ tx'[t].credits = tx[t].credits
      <3>1. \A t \in DOMAIN tx : tx[t] \in TxRow
        BY DEF TypeOK, TablesTypeOK
      <3>2. LET row == [tx[o] EXCEPT !.status = s]
            IN  row.user = tx[o].user /\ row.key = tx[o].key
                /\ row.package = tx[o].package /\ row.credits = tx[o].credits
        BY <3>1 DEF TxRow
      <3> QED
        BY <2>4, <3>2
    <2> QED
      BY <2>2, <2>3, <2>4
  <1>3. CASE UNCHANGED tx
    BY <1>3
  <1>4. UNCHANGED tx \/ ApiStep \/ WorkStep
    BY GateEffect, StatusEffect, AdminEffect DEF Next, Terminating, tables, vars
  <1> QED
    BY <1>1, <1>2, <1>3, <1>4

\* How the calls of feature runs move.
LEMMA CallMoves ==
    ASSUME TypeOK, NEW c \in Calls,
           CallStep(c) \/ RunFails(c) \/ \E u \in Users, f \in Features : CallFeature(c, u, f)
    PROVE  /\ DOMAIN call \subseteq DOMAIN call'
           /\ \A d \in DOMAIN call : d # c \/ call[d].state \in {"ran", "error"} => call'[d] = call[d]
           /\ CommitRun(c) => call'[c].state \in {"ran", "error"}
  <1>1. CASE \E u \in Users, f \in Features : CallFeature(c, u, f)
    BY <1>1 DEF CallFeature, Put, CommitRun, Reached
  <1>2. CASE CallStep(c) \/ RunFails(c)
    <2>1. /\ c \in DOMAIN call /\ call[c] \in Call /\ call[c].state \in {"check", "spend", "commit"}
          /\ \E row : call' = [call EXCEPT ![c] = row]
      BY <1>2 DEF CallStep, CheckEntitlement, SpendCredits, CommitRun, RunFails, Reached, Enter,
                  RunPending, TypeOK, GateTypeOK
    <2>2. ASSUME NEW state, Enter(c, state)
          PROVE  call'[c].state = state
      BY <2>1, <2>2 DEF Enter, Call
    <2> QED
      BY <2>1, <2>2 DEF CommitRun
  <1> QED
    BY <1>1, <1>2

LEMMA RowsHaveWritersStep ==
    ASSUME TypeOK, ReferencesOK, RowsHaveWriters, [Next]_vars
    PROVE  RowsHaveWriters'
  <1>1. /\ DOMAIN tx \subseteq DOMAIN tx'
        /\ ~ApiStep => DOMAIN tx' = DOMAIN tx
        /\ \A t \in DOMAIN tx :
             /\ tx'[t].user = tx[t].user /\ tx'[t].key = tx[t].key
             /\ tx'[t].package = tx[t].package /\ tx'[t].credits = tx[t].credits
    BY TxRowsKept
  <1>2. CASE ApiStep
    <2> USE DEF RowsHaveWriters
    <2>1. PICK r \in Requests :
            /\ UNCHANGED <<runs, call>>
            /\ \/ /\ r \notin DOMAIN req /\ UNCHANGED tx
                  /\ \E u \in Users, k \in Keys, p \in Packages :
                       req' = Put(req, r, [user |-> u, key |-> k, package |-> p,
                                           state |-> "replay", credits |-> 0])
               \/ RequestStep(r)
               \/ RequestFails(r) /\ UNCHANGED tx
      BY <1>2, ApiEffect
    <2>2. CASE r \notin DOMAIN req /\ UNCHANGED tx
      BY <2>1, <2>2 DEF Put, RequestStep, RequestFails, Replay, LoadPackage, Insert, Enqueue, At
    <2>3. CASE RequestFails(r) /\ UNCHANGED tx
      BY <2>1, <2>3, RequestEnds
    <2>4. CASE RequestStep(r)
      <3>1. /\ r \in DOMAIN req /\ DOMAIN req' = DOMAIN req
            /\ \A s \in DOMAIN req : /\ s # r => req'[s] = req[s]
                                     /\ req'[s].user = req[s].user
                                     /\ req'[s].key = req[s].key
                                     /\ req'[s].package = req[s].package
            /\ \/ /\ UNCHANGED tx /\ req[r].state \in {"replay", "load", "insert", "conflict"}
                  /\ req'[r].state \notin {"enqueue", "accepted"}
               \/ /\ UNCHANGED tx /\ req[r].state = "enqueue" /\ req'[r].state = "accepted"
               \/ /\ r \notin DOMAIN tx /\ tx' = Put(tx, r, PendingRow(r))
                  /\ req'[r].state = "enqueue"
        BY <2>4, RequestMoves
      <3>2. CASE UNCHANGED tx
        <4>1. ~(r \notin DOMAIN tx /\ tx' = Put(tx, r, PendingRow(r)))
          BY <3>2 DEF Put
        <4>2. \A t \in DOMAIN tx : t # r => req'[t] = req[t] /\ t \in DOMAIN req
          BY <3>1
        <4>3. CASE /\ req[r].state \in {"replay", "load", "insert", "conflict"}
                   /\ req'[r].state \notin {"enqueue", "accepted"}
          <5>1. r \notin DOMAIN tx
            BY <4>3
          <5> QED
            BY <2>1, <3>1, <3>2, <4>2, <4>3, <5>1
        <4>4. CASE req[r].state = "enqueue" /\ req'[r].state = "accepted"
          BY <2>1, <3>1, <3>2, <4>2, <4>4
        <4> QED
          BY <3>1, <4>1, <4>3, <4>4
      <3>3. CASE /\ r \notin DOMAIN tx /\ tx' = Put(tx, r, PendingRow(r))
                 /\ req'[r].state = "enqueue"
        <4>1. /\ DOMAIN tx' = DOMAIN tx \cup {r} /\ \A t \in DOMAIN tx : tx'[t] = tx[t]
              /\ tx'[r].user = req[r].user /\ tx'[r].key = req[r].key
              /\ tx'[r].package = req[r].package
          BY <3>3 DEF Put, PendingRow
        <4> QED
          BY <2>1, <3>1, <3>3, <4>1
      <3> QED
        BY <3>1, <3>2, <3>3
    <2> QED
      BY <2>1, <2>2, <2>3, <2>4
  <1>3. CASE ~ApiStep /\ GateStep
    <2>1. PICK c \in Calls :
            /\ UNCHANGED <<tx, req>>
            /\ CallStep(c) \/ RunFails(c) \/ \E u \in Users, f \in Features : CallFeature(c, u, f)
            /\ UNCHANGED runs \/ CommitRun(c)
      BY <1>3, GateEffect
    <2>2. UNCHANGED runs \/ (runs' = RunsWith(c) /\ CommitRun(c))
      BY <2>1 DEF CommitRun
    <2>3. c \in DOMAIN call \/ ~CommitRun(c)
      BY DEF CommitRun, Reached
    <2> QED
      BY <2>1, <2>2, <2>3, CallMoves DEF RowsHaveWriters, RunsWith, Put
  <1>4. CASE ~ApiStep /\ ~GateStep
    <2>1. UNCHANGED <<req, runs, call>>
      BY <1>4, WorkEffect, StatusEffect, AdminEffect DEF Next, Terminating, vars, tables
    <2> QED
      BY <1>1, <1>4, <2>1 DEF RowsHaveWriters
  <1> QED
    BY <1>2, <1>3, <1>4

-----------------------------------------------------------------------------
(* Answers.                                                                *)

LEMMA AnswersStep ==
    ASSUME TypeOK, ReferencesOK, RowsHaveWriters, AnswersMatchTransactions, [Next]_vars
    PROVE  AnswersMatchTransactions'
  <1> DEFINE Told(r) == \E t \in SameKey(req[r].user, req[r].key) : tx[t].package = req[r].package
  <1>1. /\ DOMAIN tx \subseteq DOMAIN tx'
        /\ ~ApiStep => DOMAIN tx' = DOMAIN tx
        /\ \A t \in DOMAIN tx :
             /\ tx'[t].user = tx[t].user /\ tx'[t].key = tx[t].key
             /\ tx'[t].package = tx[t].package
    BY TxRowsKept
  <1>2. ASSUME NEW r \in DOMAIN req, r \in DOMAIN req', Told(r),
               req'[r].user = req[r].user, req'[r].key = req[r].key,
               req'[r].package = req[r].package
        PROVE  Told(r)'
    BY <1>1, <1>2 DEF SameKey
  <1>3. CASE ApiStep
    <2>1. PICK r \in Requests :
            \/ /\ r \notin DOMAIN req /\ UNCHANGED tx
               /\ \E u \in Users, k \in Keys, p \in Packages :
                    req' = Put(req, r, [user |-> u, key |-> k, package |-> p,
                                        state |-> "replay", credits |-> 0])
            \/ RequestStep(r)
            \/ RequestFails(r) /\ UNCHANGED tx
      BY <1>3, ApiEffect
    <2>2. CASE /\ r \notin DOMAIN req /\ UNCHANGED tx
               /\ \E u \in Users, k \in Keys, p \in Packages :
                    req' = Put(req, r, [user |-> u, key |-> k, package |-> p,
                                        state |-> "replay", credits |-> 0])
      <3>1. DOMAIN req' = DOMAIN req \cup {r} /\ req'[r].state = "replay"
            /\ \A s \in DOMAIN req : req'[s] = req[s]
        BY <2>2 DEF Put
      <3> QED
        BY <1>2, <2>2, <3>1 DEF AnswersMatchTransactions
    <2>3. CASE RequestFails(r) /\ UNCHANGED tx
      BY <1>2, <2>3, RequestEnds DEF AnswersMatchTransactions
    <2>4. CASE RequestStep(r)
      <3>1. /\ r \in DOMAIN req /\ DOMAIN req' = DOMAIN req
            /\ \A s \in DOMAIN req : /\ s # r => req'[s] = req[s]
                                     /\ req'[s].user = req[s].user
                                     /\ req'[s].key = req[s].key
                                     /\ req'[s].package = req[s].package
        BY <2>4, RequestMoves
      <3>2. \A s \in DOMAIN req : s # r /\ req'[s].state \in {"accepted", "replayed"} => Told(s)'
        BY <1>2, <3>1 DEF AnswersMatchTransactions
      <3>3. CASE UNCHANGED tx
        <4>1. \/ req'[r].state \notin {"accepted", "replayed"}
              \/ req'[r].state = "replayed" /\ Told(r)
              \/ req'[r].state = "accepted" /\ req[r].state = "enqueue"
              \/ r \notin DOMAIN tx /\ tx' = Put(tx, r, PendingRow(r))
          BY <2>4, RequestMoves
        <4>2. ~(r \notin DOMAIN tx /\ tx' = Put(tx, r, PendingRow(r)))
          BY <3>3 DEF Put
        <4>3. req[r].state = "enqueue" => Told(r)
          BY <3>1 DEF RowsHaveWriters, SameKey
        <4>4. req'[r].state \in {"accepted", "replayed"} => Told(r)'
          BY <1>2, <3>1, <4>1, <4>2, <4>3
        <4> QED
          BY <3>1, <3>2, <3>3, <4>4 DEF AnswersMatchTransactions
      <3>4. CASE /\ SameKey(req[r].user, req[r].key) = {}
                 /\ r \notin DOMAIN tx /\ tx' = Put(tx, r, PendingRow(r))
                 /\ req'[r].state = "enqueue"
        <4>1. /\ DOMAIN tx' = DOMAIN tx \cup {r} /\ \A t \in DOMAIN tx : tx'[t] = tx[t]
              /\ tx'[r].user = req[r].user /\ tx'[r].key = req[r].key
          BY <3>4 DEF Put, PendingRow
        <4>2. \A t \in DOMAIN tx : tx[t].user # req[r].user \/ tx[t].key # req[r].key
          BY <3>4 DEF SameKey
        <4> QED
          BY <3>1, <3>2, <3>4, <4>1, <4>2 DEF AnswersMatchTransactions
      <3> QED
        BY <2>4, <3>3, <3>4, RequestMoves
    <2> QED
      BY <2>1, <2>2, <2>3, <2>4
  <1>4. CASE ~ApiStep
    <2>1. UNCHANGED req
      BY <1>4, WorkEffect, GateEffect, StatusEffect, AdminEffect DEF Next, Terminating, vars
    <2> QED
      BY <1>1, <1>2, <1>4, <2>1 DEF AnswersMatchTransactions
  <1> QED
    BY <1>3, <1>4

\* One Idempotency-Key leaves one transaction, and who is told 202 or 200 is
\* told about a transaction for the package asked for, however many calls race.
THEOREM KeysAreIdempotent == Spec => []AnswersMatchTransactions
  <1> DEFINE Inv == TypeOK /\ ReferencesOK /\ RowsHaveWriters /\ AnswersMatchTransactions
  <1>1. Init => Inv
    BY InitTypeOK DEF Init, ReferencesOK, RowsHaveWriters, AnswersMatchTransactions,
                      TablesInit, ApiInit, WorkerInit
  <1>2. Inv /\ [Next]_vars => Inv'
    BY TypeStep, ReferencesStep, RowsHaveWritersStep, AnswersStep
  <1> QED
    BY <1>1, <1>2, PTL DEF Spec

=============================================================================
