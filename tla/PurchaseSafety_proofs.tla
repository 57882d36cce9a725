------------------------ MODULE PurchaseSafety_proofs ------------------------
(***************************************************************************)
(* Proofs of the safety properties of CreditOS from the facts about types  *)
(* and locks of CreditOS_proofs: balances, ledger and entitlements, the    *)
(* purchases that are settled and those left pending, waiting for locks,   *)
(* the answers of the status call, that CreditOS implements CreditBook and *)
(* PurchaseServer, and what a credited purchase unlocks.                   *)
(***************************************************************************)
EXTENDS CreditOS_proofs

-----------------------------------------------------------------------------
(* What changes wallets and ledger.                                        *)

\* One row more, at the end of one buyer's ledger.
LEMMA PostAppends ==
    ASSUME TypeOK, NEW u \in Users, NEW delta \in Int, NEW ref \in Ref,
           Post(u, wallet[u], delta, ref)
    PROVE  /\ wallet'[u] = wallet[u] + delta
           /\ \A v \in Users : v # u => wallet'[v] = wallet[v] /\ ledger'[v] = ledger[v]
           /\ Len(ledger[u]) \in Nat /\ DOMAIN ledger[u] = 1 .. Len(ledger[u])
           /\ Len(ledger'[u]) = Len(ledger[u]) + 1 /\ DOMAIN ledger'[u] = 1 .. Len(ledger[u]) + 1
           /\ \A i \in DOMAIN ledger[u] : ledger'[u][i] = ledger[u][i]
           /\ ledger'[u][Len(ledger[u]) + 1] =
                [delta |-> delta, ref |-> ref, after |-> wallet[u] + delta]
  <1> DEFINE row == [delta |-> delta, ref |-> ref, after |-> wallet[u] + delta]
  <1>1. wallet \in [Users -> Int] /\ ledger \in [Users -> Seq(LedgerRow)]
    BY DEF TypeOK, TablesTypeOK
  <1>2. row \in LedgerRow
    BY <1>1 DEF LedgerRow
  <1>3. /\ wallet' = [wallet EXCEPT ![u] = wallet[u] + delta]
        /\ ledger' = [ledger EXCEPT ![u] = Append(ledger[u], row)]
    BY DEF Post
  <1>4. ledger[u] \in Seq(LedgerRow)
    BY <1>1
  <1>5. ledger'[u] = Append(ledger[u], row)
    BY <1>1, <1>3
  <1> HIDE DEF row
  <1>6. /\ Len(ledger[u]) \in Nat /\ DOMAIN ledger[u] = 1 .. Len(ledger[u])
        /\ Len(ledger'[u]) = Len(ledger[u]) + 1 /\ DOMAIN ledger'[u] = 1 .. Len(ledger[u]) + 1
        /\ \A i \in DOMAIN ledger[u] : ledger'[u][i] = ledger[u][i]
        /\ ledger'[u][Len(ledger[u]) + 1] = row
    BY <1>2, <1>4, <1>5
  <1> QED
    BY <1>1, <1>3, <1>6 DEF row

\* A worker's commit, in terms of the tables alone.
LEMMA GrantPosts ==
    ASSUME TypeOK, ReferencesOK, WorkersHoldLocks, NEW w \in Workers,
           CommitGrant(w), ~Conflicts(w)
    PROVE  /\ Target(w) \in DOMAIN tx /\ Target(w) \in Requests /\ Buyer(w) \in Users
           /\ tx[Target(w)] \in TxRow /\ tx[Target(w)].user = Buyer(w)
           /\ tx[Target(w)].status = "pending"
           /\ Amount(w) \in Nat \ {0} /\ wallet[Buyer(w)] + Amount(w) <= IntMax
           /\ Post(Buyer(w), wallet[Buyer(w)], Amount(w), TxRef(Target(w)))
           /\ ents' = ents \cup NewRows(w)
           /\ tx' = [tx EXCEPT ![Target(w)].status = "completed"]
           /\ UNCHANGED runs
  <1>1. w \in DOMAIN job /\ job[w].state = "commit" /\ job[w] \in Job
    BY DEF CommitGrant, InState, TypeOK, WorkerTypeOK
  <1>2. Target(w) \in DOMAIN tx /\ Target(w) \in Requests /\ tx[Target(w)] \in TxRow
    BY <1>1 DEF ReferencesOK, TypeOK, TablesTypeOK
  <1>3. job[w].balance = wallet[Buyer(w)] /\ IsPending(Target(w)) /\ Fits(job[w].balance + Amount(w))
    BY <1>1 DEF WorkersHoldLocks
  <1>4. Amount(w) \in Nat \ {0} /\ Buyer(w) \in Users
    BY <1>2, CreditsAssumption DEF Amount, Buyer, TxRow
  <1> QED
    BY <1>2, <1>3, <1>4 DEF CommitGrant, Buyer, IsPending, Fits

\* A feature run's commit, likewise.
LEMMA RunPosts ==
    ASSUME TypeOK, RowsHaveWriters, RunsHoldLocks, NEW c \in Calls, CommitRun(c)
    PROVE  /\ c \in DOMAIN call /\ call[c].user \in Users /\ call[c].feature \in Features
           /\ c \notin DOMAIN runs
           /\ call[c].feature \in Owned(call[c].user)
           /\ Cost[call[c].feature] \in Nat \ {0}
           /\ wallet[call[c].user] >= Cost[call[c].feature]
           /\ Post(call[c].user, wallet[call[c].user], -Cost[call[c].feature], RunRef(c))
           /\ runs' = Put(runs, c, [user |-> call[c].user, feature |-> call[c].feature])
           /\ UNCHANGED <<tx, ents>>
  <1>1. c \in DOMAIN call /\ call[c].state = "commit" /\ call[c] \in Call
    BY DEF CommitRun, Reached, TypeOK, GateTypeOK
  <1>2. call[c].user \in Users /\ call[c].feature \in Features
    BY <1>1 DEF Call
  <1>3. Unlocked(c) /\ call[c].balance = wallet[call[c].user]
        /\ Affords(call[c].balance, Cost[call[c].feature])
    BY <1>1 DEF RunsHoldLocks
  <1>4. c \notin DOMAIN runs
    BY <1>1 DEF RowsHaveWriters
  <1> QED
    BY <1>1, <1>2, <1>3, <1>4, CostAssumption DEF CommitRun, Unlocked, Affords, RunsWith

\* Every step commits a grant, commits a run, or leaves the books alone and at
\* most adds a pending transaction or makes one fail.
LEMMA StepKinds ==
    ASSUME TypeOK, ReferencesOK, RowsHaveWriters, [Next]_vars
    PROVE  \/ /\ UNCHANGED <<wallet, ledger, ents, runs>>
              /\ \A t \in DOMAIN tx : tx'[t].status \in {tx[t].status, "failed"}
              /\ \A t \in DOMAIN tx' \ DOMAIN tx : tx'[t].status = "pending"
              /\ \E o : \A t \in DOMAIN tx : t # o => tx'[t] = tx[t]
           \/ \E w \in Workers : CommitGrant(w) /\ ~Conflicts(w)
           \/ \E c \in Calls : CommitRun(c)
  <1>1. CASE ApiStep
    <2>1. PICK r \in Requests :
            /\ UNCHANGED <<wallet, ledger, ents, runs>>
            /\ UNCHANGED tx \/ RequestStep(r)
      BY <1>1, ApiEffect
    <2>2. UNCHANGED tx \/ (r \notin DOMAIN tx /\ tx' = Put(tx, r, PendingRow(r)))
      BY <2>1, RequestMoves
    <2> QED
      BY <2>1, <2>2 DEF Put, PendingRow
  <1>2. CASE WorkStep
    <2>1. PICK w \in Workers :
            /\ UNCHANGED runs
            /\ \/ UNCHANGED <<tx, wallet, ledger, ents>>
               \/ (PackageInactive(w) \/ MarkFailed(w)) /\ UNCHANGED <<wallet, ledger, ents>>
               \/ CommitGrant(w) /\ ~Conflicts(w)
      BY <1>2, WorkEffect
    <2>2. CASE PackageInactive(w) \/ MarkFailed(w)
      <3>1. Target(w) \in DOMAIN tx /\ tx' = [tx EXCEPT ![Target(w)].status = "failed"]
        BY <2>2 DEF PackageInactive, MarkFailed, ReferencesOK, InState
      <3>2. tx[Target(w)] \in TxRow
        BY <3>1 DEF TypeOK, TablesTypeOK
      <3>3. tx'[Target(w)].status = "failed" /\ DOMAIN tx' = DOMAIN tx
            /\ \A t \in DOMAIN tx : t # Target(w) => tx'[t] = tx[t]
        BY <3>1, <3>2 DEF TxRow
      <3>4. UNCHANGED <<wallet, ledger, ents, runs>>
        BY <2>1, <2>2 DEF PackageInactive, MarkFailed, tables
      <3> QED
        BY <3>3, <3>4
    <2> QED
      BY <2>1, <2>2
  <1>3. CASE GateStep
    BY <1>3, GateEffect
  <1>4. CASE StatusStep \/ AdminStep \/ UNCHANGED vars
    BY <1>4, StatusEffect, AdminEffect DEF tables, vars
  <1> QED
    BY <1>1, <1>2, <1>3, <1>4 DEF Next, Terminating

-----------------------------------------------------------------------------
(* Balances.                                                               *)

\* The total before row i of a ledger.
Before(rows, i) == IF i = 1 THEN 0 ELSE rows[i - 1].after

\* Posting to one wallet keeps the running totals of all.
LEMMA PostKeepsTotals ==
    ASSUME TypeOK, RunningTotal, NEW u \in Users, NEW delta \in Int, NEW ref \in Ref,
           Post(u, wallet[u], delta, ref)
    PROVE  RunningTotal'
  <1>1. SUFFICES ASSUME NEW v \in Users
                 PROVE  /\ \A i \in DOMAIN ledger'[v] :
                             ledger'[v][i].after = Before(ledger'[v], i) + ledger'[v][i].delta
                        /\ wallet'[v] = Before(ledger'[v], Len(ledger'[v]) + 1)
    BY DEF RunningTotal, Before
  <1>2. /\ \A i \in DOMAIN ledger[v] :
             ledger[v][i].after = Before(ledger[v], i) + ledger[v][i].delta
        /\ wallet[v] = Before(ledger[v], Len(ledger[v]) + 1)
    BY DEF RunningTotal, Before
  <1>3. CASE v # u
    BY <1>2, <1>3, PostAppends
  <1>4. CASE v = u
    <2> DEFINE n == Len(ledger[u])
               old == ledger[u]
               new == ledger'[u]
    <2>1. /\ wallet'[u] = wallet[u] + delta /\ wallet[u] \in Int
          /\ n \in Nat /\ DOMAIN old = 1 .. n /\ Len(new) = n + 1 /\ DOMAIN new = 1 .. n + 1
          /\ \A i \in DOMAIN old : new[i] = old[i]
          /\ new[n + 1] = [delta |-> delta, ref |-> ref, after |-> wallet[u] + delta]
      BY PostAppends DEF TypeOK, TablesTypeOK
    <2>2. wallet[u] = Before(old, n + 1)
      BY <1>2, <1>4
    <2>3. \A i \in DOMAIN old : old[i].after = Before(old, i) + old[i].delta
      BY <1>2, <1>4
    <2> HIDE DEF n, old, new
    <2>4. \A i \in 1 .. n + 1 : Before(new, i) = Before(old, i)
      BY <2>1 DEF Before
    <2>5. new[n + 1].after = wallet[u] + delta /\ new[n + 1].delta = delta
      BY <2>1
    <2>6. n + 1 \in 1 .. n + 1 /\ Before(new, n + 2) = new[n + 1].after
      BY <2>1 DEF Before
    <2>7. wallet'[u] = Before(new, Len(new) + 1)
      <3>1. Len(new) + 1 = n + 2
        BY <2>1
      <3> QED
        BY <2>1, <2>5, <2>6, <3>1
    <2>8. \A i \in DOMAIN new : new[i].after = Before(new, i) + new[i].delta
      <3>1. ASSUME NEW i \in DOMAIN old
            PROVE  new[i].after = Before(new, i) + new[i].delta
        BY <2>1, <2>3, <2>4
      <3>2. new[n + 1].after = Before(new, n + 1) + new[n + 1].delta
        BY <2>2, <2>4, <2>5, <2>6
      <3>3. \A i \in DOMAIN new : i \in DOMAIN old \/ i = n + 1
        BY <2>1
      <3> QED
        BY <3>1, <3>2, <3>3
    <2> QED
      BY <1>4, <2>7, <2>8 DEF new
  <1> QED
    BY <1>3, <1>4

LEMMA BalancesStep ==
    ASSUME TypeOK, ReferencesOK, RowsHaveWriters, WorkersHoldLocks, RunsHoldLocks,
           RunningTotal, NeverOverdrawn, [Next]_vars
    PROVE  (RunningTotal /\ NeverOverdrawn)'
  <1>1. CASE UNCHANGED <<wallet, ledger>>
    BY <1>1 DEF RunningTotal, NeverOverdrawn
  <1>2. ASSUME NEW w \in Workers, CommitGrant(w), ~Conflicts(w)
        PROVE  (RunningTotal /\ NeverOverdrawn)'
    <2>1. /\ Buyer(w) \in Users /\ Target(w) \in Requests
          /\ Amount(w) \in Nat \ {0} /\ wallet[Buyer(w)] + Amount(w) <= IntMax
          /\ Post(Buyer(w), wallet[Buyer(w)], Amount(w), TxRef(Target(w)))
      BY <1>2, GrantPosts
    <2>2. TxRef(Target(w)) \in Ref /\ Amount(w) \in Int
      BY <2>1 DEF TxRef, Ref
    <2>3. wallet'[Buyer(w)] = wallet[Buyer(w)] + Amount(w)
          /\ \A v \in Users : v # Buyer(w) => wallet'[v] = wallet[v]
      BY <2>1, <2>2, PostAppends
    <2>4. wallet[Buyer(w)] \in 0 .. IntMax
      BY <2>1 DEF NeverOverdrawn
    <2>5. NeverOverdrawn'
      BY <2>1, <2>3, <2>4, IntMaxAssumption DEF NeverOverdrawn
    <2> QED
      BY <2>1, <2>2, <2>5, PostKeepsTotals
  <1>3. ASSUME NEW c \in Calls, CommitRun(c)
        PROVE  (RunningTotal /\ NeverOverdrawn)'
    <2> DEFINE u == call[c].user
               n == Cost[call[c].feature]
    <2>1. /\ u \in Users /\ n \in Nat \ {0} /\ wallet[u] >= n
          /\ Post(u, wallet[u], -n, RunRef(c))
      BY <1>3, RunPosts
    <2>2. RunRef(c) \in Ref /\ -n \in Int
      BY <2>1 DEF RunRef, Ref
    <2> HIDE DEF u, n
    <2>3. wallet'[u] = wallet[u] + (-n) /\ \A v \in Users : v # u => wallet'[v] = wallet[v]
      BY <2>1, <2>2, PostAppends
    <2>4. wallet[u] \in 0 .. IntMax
      BY <2>1 DEF NeverOverdrawn
    <2>5. NeverOverdrawn'
      BY <2>1, <2>3, <2>4, IntMaxAssumption DEF NeverOverdrawn
    <2> QED
      BY <2>1, <2>2, <2>5, PostKeepsTotals
  <1> QED
    BY <1>1, <1>2, <1>3, StepKinds

-----------------------------------------------------------------------------
(* The ledger against purchases and runs.                                  *)

\* A reference names one purchase or one run.
LEMMA RefsDiffer ==
    /\ \A t1, t2 : TxRef(t1) = TxRef(t2) => t1 = t2
    /\ \A c1, c2 : RunRef(c1) = RunRef(c2) => c1 = c2
    /\ \A t, c : TxRef(t) # RunRef(c)
  BY DEF TxRef, RunRef

\* Posting under a reference the ledger does not hold yet.
LEMMA PostFresh ==
    ASSUME TypeOK, PostedOnce, NEW u \in Users, NEW delta \in Int, NEW ref \in Ref,
           Post(u, wallet[u], delta, ref), Entries(u, ref) = {}
    PROVE  PostedOnce'
  <1> DEFINE n == Len(ledger[u])
             row == [delta |-> delta, ref |-> ref, after |-> wallet[u] + delta]
  <1>0. row.ref = ref
    OBVIOUS
  <1>1. /\ \A v \in Users : v # u => ledger'[v] = ledger[v]
        /\ n \in Nat /\ DOMAIN ledger[u] = 1 .. n /\ DOMAIN ledger'[u] = 1 .. n + 1
        /\ \A i \in DOMAIN ledger[u] : ledger'[u][i] = ledger[u][i]
        /\ ledger'[u][n + 1] = row
    BY PostAppends
  <1>2. \A i \in DOMAIN ledger[u] : ledger[u][i].ref # ref
    BY DEF Entries
  <1> HIDE DEF n, row
  <1>3. SUFFICES ASSUME NEW v \in Users, NEW i \in DOMAIN ledger'[v], NEW j \in DOMAIN ledger'[v],
                        ledger'[v][i].ref = ledger'[v][j].ref
                 PROVE  i = j
    BY DEF PostedOnce
  <1>4. CASE v # u
    BY <1>1, <1>3, <1>4 DEF PostedOnce
  <1>5. CASE v = u
    <2>1. /\ i \in DOMAIN ledger[u] \/ i = n + 1
          /\ j \in DOMAIN ledger[u] \/ j = n + 1
      BY <1>1, <1>5
    <2> QED
      BY <1>0, <1>1, <1>2, <1>3, <1>5, <2>1 DEF PostedOnce
  <1> QED
    BY <1>4, <1>5

LEMMA PostedOnceStep ==
    ASSUME TypeOK, ReferencesOK, RowsHaveWriters, WorkersHoldLocks, RunsHoldLocks,
           PostedOnce, GrantsMatchPurchases, RunsArePaid, [Next]_vars
    PROVE  PostedOnce'
  <1>1. CASE UNCHANGED ledger
    BY <1>1 DEF PostedOnce
  <1>2. ASSUME NEW w \in Workers, CommitGrant(w), ~Conflicts(w)
        PROVE  PostedOnce'
    <2>1. /\ Buyer(w) \in Users /\ Target(w) \in Requests /\ tx[Target(w)].status = "pending"
          /\ Amount(w) \in Nat \ {0}
          /\ Post(Buyer(w), wallet[Buyer(w)], Amount(w), TxRef(Target(w)))
      BY <1>2, GrantPosts
    <2>2. TxRef(Target(w)) \in Ref /\ Amount(w) \in Int
      BY <2>1 DEF TxRef, Ref
    <2>3. Entries(Buyer(w), TxRef(Target(w))) = {}
      BY <2>1 DEF Entries, GrantsMatchPurchases
    <2> QED
      BY <2>1, <2>2, <2>3, PostFresh
  <1>3. ASSUME NEW c \in Calls, CommitRun(c)
        PROVE  PostedOnce'
    <2>1. /\ call[c].user \in Users /\ c \notin DOMAIN runs
          /\ Cost[call[c].feature] \in Nat \ {0}
          /\ Post(call[c].user, wallet[call[c].user], -Cost[call[c].feature], RunRef(c))
      BY <1>3, RunPosts
    <2>2. RunRef(c) \in Ref /\ -Cost[call[c].feature] \in Int
      BY <2>1 DEF RunRef, Ref
    <2>3. Entries(call[c].user, RunRef(c)) = {}
      BY <2>1 DEF Entries, RunsArePaid
    <2> QED
      BY <2>1, <2>2, <2>3, PostFresh
  <1> QED
    BY <1>1, <1>2, <1>3, StepKinds

\* The rows of the ledgers before and after a posting.
LEMMA PostRows ==
    ASSUME TypeOK, NEW u \in Users, NEW delta \in Int, NEW ref \in Ref,
           Post(u, wallet[u], delta, ref)
    PROVE  /\ \A v \in Users : \A i \in DOMAIN ledger[v] :
                i \in DOMAIN ledger'[v] /\ ledger'[v][i] = ledger[v][i]
           /\ \A v \in Users : \A i \in DOMAIN ledger'[v] :
                \/ i \in DOMAIN ledger[v] /\ ledger'[v][i] = ledger[v][i]
                \/ v = u /\ ledger'[v][i].ref = ref /\ ledger'[v][i].delta = delta
           /\ \E i \in DOMAIN ledger'[u] : ledger'[u][i].ref = ref /\ ledger'[u][i].delta = delta
  <1> DEFINE n == Len(ledger[u])
             row == [delta |-> delta, ref |-> ref, after |-> wallet[u] + delta]
  <1>1. row.ref = ref /\ row.delta = delta
    OBVIOUS
  <1>2. /\ \A v \in Users : v # u => ledger'[v] = ledger[v]
        /\ n \in Nat /\ DOMAIN ledger[u] = 1 .. n /\ DOMAIN ledger'[u] = 1 .. n + 1
        /\ \A i \in DOMAIN ledger[u] : ledger'[u][i] = ledger[u][i]
        /\ ledger'[u][n + 1] = row
    BY PostAppends
  <1> HIDE DEF n, row
  <1>3. \A i \in DOMAIN ledger'[u] : i \in DOMAIN ledger[u] \/ i = n + 1
    BY <1>2
  <1>4. DOMAIN ledger[u] \subseteq DOMAIN ledger'[u] /\ n + 1 \in DOMAIN ledger'[u]
    BY <1>2
  <1> QED
    BY <1>1, <1>2, <1>3, <1>4

\* Everything a step may do to the books, over the tables alone: an old row of
\* the ledger stays, and a new one is the grant of a pending purchase, which
\* completes it, or the price of a new run.
Granted(t) ==
    /\ t \in DOMAIN tx /\ t \in Requests /\ tx[t] \in TxRow /\ tx[t].status = "pending"
    /\ tx[t].user \in Users /\ tx[t].credits \in Nat \ {0}
    /\ wallet[tx[t].user] + tx[t].credits <= IntMax
    /\ Post(tx[t].user, wallet[tx[t].user], tx[t].credits, TxRef(t))
    /\ tx' = [tx EXCEPT ![t].status = "completed"]
    /\ \E new \in SUBSET Features :
         /\ new \cap Owned(tx[t].user) = {}
         /\ ents' = ents \cup {[user |-> tx[t].user, feature |-> f, source |-> t] : f \in new}
    /\ UNCHANGED runs

Ran(c) ==
    LET u == call[c].user
        f == call[c].feature
    IN  /\ c \in Calls /\ c \notin DOMAIN runs /\ u \in Users /\ f \in Owned(u) /\ f \in Features
        /\ Cost[f] \in Nat \ {0} /\ wallet[u] >= Cost[f]
        /\ Post(u, wallet[u], -Cost[f], RunRef(c))
        /\ runs' = Put(runs, c, [user |-> u, feature |-> f])
        /\ UNCHANGED <<tx, ents>>

Idle ==
    /\ UNCHANGED <<wallet, ledger, ents, runs>>
    /\ \A t \in DOMAIN tx : tx'[t].status \in {tx[t].status, "failed"}
    /\ \A t \in DOMAIN tx' \ DOMAIN tx : tx'[t].status = "pending"
    /\ \E o : \A t \in DOMAIN tx : t # o => tx'[t] = tx[t]

LEMMA BooksStep ==
    ASSUME TypeOK, ReferencesOK, RowsHaveWriters, WorkersHoldLocks, RunsHoldLocks, [Next]_vars
    PROVE  Idle \/ (\E t \in Requests : Granted(t)) \/ \E c \in Calls : Ran(c)
  <1>1. ASSUME NEW w \in Workers, CommitGrant(w), ~Conflicts(w)
        PROVE  Granted(Target(w)) /\ Target(w) \in Requests
    <2>1. w \in DOMAIN job /\ job[w].new \in SUBSET Features
      BY <1>1 DEF CommitGrant, InState, TypeOK, WorkerTypeOK, Job
    <2>2. job[w].new \cap Owned(Buyer(w)) = {}
      BY <1>1 DEF Conflicts
    <2> QED
      BY <1>1, <2>1, <2>2, GrantPosts DEF Granted, Buyer, Amount, NewRows
  <1>2. ASSUME NEW c \in Calls, CommitRun(c)
        PROVE  Ran(c)
    BY <1>2, RunPosts DEF Ran
  <1> QED
    BY <1>1, <1>2, StepKinds DEF Idle

\* The new row of a completed purchase, and the rows left alone.
LEMMA GrantedRows ==
    ASSUME NEW t, Granted(t)
    PROVE  /\ DOMAIN tx' = DOMAIN tx /\ tx'[t].status = "completed"
           /\ tx'[t].user = tx[t].user /\ tx'[t].credits = tx[t].credits
           /\ \A s \in DOMAIN tx : s # t => tx'[s] = tx[s]
           /\ TxRef(t) \in Ref /\ tx[t].credits \in Int
  BY DEF Granted, TxRow, TxRef, Ref

LEMMA GrantedLedger ==
    ASSUME TypeOK, NEW t, Granted(t)
    PROVE  /\ \A v \in Users : \A i \in DOMAIN ledger[v] :
                i \in DOMAIN ledger'[v] /\ ledger'[v][i] = ledger[v][i]
           /\ \A v \in Users : \A i \in DOMAIN ledger'[v] :
                \/ i \in DOMAIN ledger[v] /\ ledger'[v][i] = ledger[v][i]
                \/ /\ v = tx[t].user /\ ledger'[v][i].ref = TxRef(t)
                   /\ ledger'[v][i].delta = tx[t].credits
           /\ \E i \in DOMAIN ledger'[tx[t].user] : ledger'[tx[t].user][i].ref = TxRef(t)
  <1>1. /\ tx[t].user \in Users /\ tx[t].credits \in Int /\ TxRef(t) \in Ref
        /\ Post(tx[t].user, wallet[tx[t].user], tx[t].credits, TxRef(t))
    BY GrantedRows DEF Granted
  <1> QED
    BY <1>1, PostRows

LEMMA RanRef ==
    ASSUME NEW c, Ran(c)
    PROVE  RunRef(c) \in Ref /\ -Cost[call[c].feature] \in Int
  BY DEF Ran, RunRef, Ref

-----------------------------------------------------------------------------

LEMMA GrantsStep ==
    ASSUME TypeOK, ReferencesOK, RowsHaveWriters, WorkersHoldLocks, RunsHoldLocks,
           GrantsMatchPurchases, [Next]_vars
    PROVE  GrantsMatchPurchases'
  <1> USE DEF GrantsMatchPurchases
  <1>1. /\ DOMAIN tx \subseteq DOMAIN tx'
        /\ \A t \in DOMAIN tx : tx'[t].user = tx[t].user /\ tx'[t].credits = tx[t].credits
    BY TxRowsKept
  <1>2. CASE Idle
    <2>1. \A t \in DOMAIN tx : tx[t].status # "pending" => tx'[t].status # "pending"
      BY <1>2 DEF Idle
    <2>2. \A t \in DOMAIN tx' : tx'[t].status = "completed" =>
            t \in DOMAIN tx /\ tx[t].status = "completed"
      BY <1>2 DEF Idle
    <2> QED
      BY <1>1, <1>2, <2>1, <2>2 DEF Idle, Entries
  <1>3. ASSUME NEW s \in Requests, Granted(s)
        PROVE  GrantsMatchPurchases'
    <2> DEFINE u0 == tx[s].user
    <2>1. /\ \A v \in Users : \A i \in DOMAIN ledger[v] :
                i \in DOMAIN ledger'[v] /\ ledger'[v][i] = ledger[v][i]
          /\ \A v \in Users : \A i \in DOMAIN ledger'[v] :
                \/ i \in DOMAIN ledger[v] /\ ledger'[v][i] = ledger[v][i]
                \/ v = u0 /\ ledger'[v][i].ref = TxRef(s) /\ ledger'[v][i].delta = tx[s].credits
          /\ \E i \in DOMAIN ledger'[u0] : ledger'[u0][i].ref = TxRef(s)
      BY <1>3, GrantedLedger
    <2>2. ASSUME NEW v \in Users, NEW i \in DOMAIN ledger'[v], NEW t \in Requests,
                 ledger'[v][i].ref = TxRef(t)
          PROVE  /\ t \in DOMAIN tx' /\ tx'[t].user = v /\ tx'[t].status # "pending"
                 /\ ledger'[v][i].delta = tx'[t].credits
      <3>1. CASE i \in DOMAIN ledger[v] /\ ledger'[v][i] = ledger[v][i]
        <4>1. t \in DOMAIN tx /\ tx[t].user = v /\ tx[t].status # "pending"
              /\ ledger[v][i].delta = tx[t].credits
          BY <2>2, <3>1
        <4>2. t # s
          BY <1>3, <4>1 DEF Granted
        <4> QED
          BY <1>1, <1>3, <3>1, <4>1, <4>2, GrantedRows
      <3>2. CASE v = u0 /\ ledger'[v][i].ref = TxRef(s) /\ ledger'[v][i].delta = tx[s].credits
        <4>1. t = s
          BY <2>2, <3>2, RefsDiffer
        <4> QED
          BY <1>3, <3>2, <4>1, GrantedRows DEF Granted
      <3> QED
        BY <2>1, <3>1, <3>2
    <2>3. ASSUME NEW t \in DOMAIN tx', tx'[t].status = "completed"
          PROVE  \E i \in DOMAIN ledger'[tx'[t].user] : ledger'[tx'[t].user][i].ref = TxRef(t)
      <3>1. CASE t = s
        BY <1>3, <2>1, <3>1, GrantedRows
      <3>2. CASE t # s
        <4>1. t \in DOMAIN tx /\ tx'[t] = tx[t] /\ tx[t].user \in Users
          BY <1>3, <2>3, <3>2, GrantedRows DEF TypeOK, TablesTypeOK, TxRow
        <4>2. \E i \in DOMAIN ledger[tx[t].user] : ledger[tx[t].user][i].ref = TxRef(t)
          BY <2>3, <4>1 DEF Entries
        <4> QED
          BY <2>1, <4>1, <4>2
      <3> QED
        BY <3>1, <3>2
    <2> QED
      BY <2>2, <2>3 DEF Entries
  <1>4. ASSUME NEW c \in Calls, Ran(c)
        PROVE  GrantsMatchPurchases'
    <2> DEFINE u0 == call[c].user
    <2>1. /\ \A v \in Users : \A i \in DOMAIN ledger[v] :
                i \in DOMAIN ledger'[v] /\ ledger'[v][i] = ledger[v][i]
          /\ \A v \in Users : \A i \in DOMAIN ledger'[v] :
                \/ i \in DOMAIN ledger[v] /\ ledger'[v][i] = ledger[v][i]
                \/ ledger'[v][i].ref = RunRef(c)
          /\ UNCHANGED tx
      BY <1>4, RanRef, PostRows DEF Ran
    <2>2. \A t \in DOMAIN tx : tx[t].user \in Users
      BY DEF TypeOK, TablesTypeOK, TxRow
    <2> QED
      BY <2>1, <2>2, RefsDiffer DEF Entries
  <1> QED
    BY <1>2, <1>3, <1>4, BooksStep

LEMMA EntitlementsStep ==
    ASSUME TypeOK, ReferencesOK, RowsHaveWriters, WorkersHoldLocks, RunsHoldLocks,
           EntitlementsAreBought, [Next]_vars
    PROVE  EntitlementsAreBought'
  <1> USE DEF EntitlementsAreBought
  <1>1. /\ DOMAIN tx \subseteq DOMAIN tx'
        /\ \A t \in DOMAIN tx : tx'[t].user = tx[t].user
    BY TxRowsKept
  <1>2. \A e \in ents : e.user \in Users
    BY DEF TypeOK, TablesTypeOK, Entitlement
  <1>3. ASSUME UNCHANGED ents,
               \A v \in Users : \A i \in DOMAIN ledger[v] :
                 i \in DOMAIN ledger'[v] /\ ledger'[v][i] = ledger[v][i]
        PROVE  EntitlementsAreBought'
    BY <1>1, <1>2, <1>3 DEF Entries
  <1>4. CASE Idle
    BY <1>3, <1>4 DEF Idle
  <1>5. ASSUME NEW c \in Calls, Ran(c)
        PROVE  EntitlementsAreBought'
    BY <1>3, <1>5, RanRef, PostRows DEF Ran
  <1>6. ASSUME NEW t \in Requests, Granted(t)
        PROVE  EntitlementsAreBought'
    <2> DEFINE u == tx[t].user
    <2>1. /\ \A v \in Users : \A i \in DOMAIN ledger[v] :
                i \in DOMAIN ledger'[v] /\ ledger'[v][i] = ledger[v][i]
          /\ \E i \in DOMAIN ledger'[u] : ledger'[u][i].ref = TxRef(t)
          /\ t \in DOMAIN tx /\ u \in Users
      BY <1>6, GrantedLedger DEF Granted
    <2>2. PICK new \in SUBSET Features :
            /\ new \cap Owned(u) = {}
            /\ ents' = ents \cup {[user |-> u, feature |-> f, source |-> t] : f \in new}
      BY <1>6 DEF Granted
    <2>3. ASSUME NEW e \in ents', e \notin ents
          PROVE  e.user = u /\ e.source = t /\ e.feature \in new
                 /\ e = [user |-> u, feature |-> e.feature, source |-> t]
      BY <2>2, <2>3
    <2>4. ASSUME NEW e \in ents, e.user = u
          PROVE  e.feature \notin new
      BY <2>2, <2>4 DEF Owned
    <2>5. ASSUME NEW e \in ents'
          PROVE  /\ e.source \in DOMAIN tx' /\ tx'[e.source].user = e.user
                 /\ \E i \in DOMAIN ledger'[e.user] : ledger'[e.user][i].ref = TxRef(e.source)
      <3>1. CASE e \in ents
        <4>1. \E i \in DOMAIN ledger[e.user] : ledger[e.user][i].ref = TxRef(e.source)
          BY <3>1 DEF Entries
        <4> QED
          BY <1>1, <1>2, <2>1, <3>1, <4>1
      <3>2. CASE e \notin ents
        BY <1>1, <2>1, <2>3, <3>2
      <3> QED
        BY <3>1, <3>2
    <2>6. ASSUME NEW e1 \in ents', NEW e2 \in ents', e1.user = e2.user, e1.feature = e2.feature
          PROVE  e1 = e2
      BY <2>3, <2>4, <2>6
    <2> QED
      BY <2>5, <2>6 DEF Entries
  <1> QED
    BY <1>4, <1>5, <1>6, BooksStep

\* The part of RunsArePaid about run d.
Paid(d) ==
    /\ runs[d].feature \in Owned(runs[d].user)
    /\ \E i \in DOMAIN ledger[runs[d].user] :
         /\ ledger[runs[d].user][i].ref = RunRef(d)
         /\ ledger[runs[d].user][i].delta = -Cost[runs[d].feature]

LEMMA RunsPaidStep ==
    ASSUME TypeOK, ReferencesOK, RowsHaveWriters, WorkersHoldLocks, RunsHoldLocks,
           RunsArePaid, [Next]_vars
    PROVE  RunsArePaid'
  <1> USE DEF RunsArePaid
  <1>1. \A c \in DOMAIN runs : c \in Calls /\ runs[c].user \in Users
    BY DEF TypeOK, TablesTypeOK, RunRow
  <1>2. CASE Idle
    BY <1>2 DEF Idle, Owned
  <1>3. ASSUME NEW t \in Requests, Granted(t)
        PROVE  RunsArePaid'
    <2>1. ents \subseteq ents' /\ UNCHANGED runs
      BY <1>3 DEF Granted
    <2>2. \A c \in DOMAIN runs : runs[c].feature \in Owned(runs[c].user)'
      BY <2>1 DEF Owned
    <2> QED
      BY <1>1, <1>3, <2>1, <2>2, GrantedLedger, RefsDiffer
  <1>4. ASSUME NEW c \in Calls, Ran(c)
        PROVE  RunsArePaid'
    <2>1. PICK u \in Users, f \in Features :
            /\ f \in Owned(u) /\ c \notin DOMAIN runs /\ UNCHANGED ents
            /\ runs' = Put(runs, c, [user |-> u, feature |-> f])
            /\ -Cost[f] \in Int /\ RunRef(c) \in Ref /\ Post(u, wallet[u], -Cost[f], RunRef(c))
      BY <1>4, RanRef DEF Ran
    <2>2. /\ \A v \in Users : \A i \in DOMAIN ledger[v] :
                i \in DOMAIN ledger'[v] /\ ledger'[v][i] = ledger[v][i]
          /\ \A v \in Users : \A i \in DOMAIN ledger'[v] :
                \/ i \in DOMAIN ledger[v] /\ ledger'[v][i] = ledger[v][i]
                \/ v = u /\ ledger'[v][i].ref = RunRef(c)
          /\ \E i \in DOMAIN ledger'[u] : ledger'[u][i].ref = RunRef(c) /\ ledger'[u][i].delta = -Cost[f]
      BY <2>1, PostRows
    <2>3. /\ DOMAIN runs' = DOMAIN runs \cup {c} /\ \A d \in DOMAIN runs : runs'[d] = runs[d]
          /\ runs'[c].user = u /\ runs'[c].feature = f
      BY <2>1 DEF Put
    <2>4. ASSUME NEW d \in DOMAIN runs'
          PROVE  Paid(d)'
      <3>1. CASE d \in DOMAIN runs
        <4>1. Paid(d) /\ runs[d].user \in Users /\ runs'[d] = runs[d]
          BY <1>1, <2>3, <3>1 DEF Paid
        <4>2. (runs[d].feature \in Owned(runs[d].user))'
          BY <2>1, <4>1 DEF Paid, Owned
        <4>3. \E i \in DOMAIN ledger'[runs[d].user] :
                /\ ledger'[runs[d].user][i].ref = RunRef(d)
                /\ ledger'[runs[d].user][i].delta = -Cost[runs[d].feature]
          BY <2>2, <4>1 DEF Paid
        <4> QED
          BY <4>1, <4>2, <4>3 DEF Paid
      <3>2. CASE d = c
        <4>1. (runs[d].feature \in Owned(runs[d].user))'
          BY <2>1, <2>3, <3>2 DEF Owned
        <4> QED
          BY <2>2, <2>3, <3>2, <4>1 DEF Paid
      <3> QED
        BY <2>3, <3>1, <3>2
    <2>5. ASSUME NEW v \in Users, NEW i \in DOMAIN ledger'[v], NEW d \in Calls,
                 ledger'[v][i].ref = RunRef(d)
          PROVE  d \in DOMAIN runs' /\ runs'[d].user = v
      BY <2>2, <2>3, <2>5, RefsDiffer
    <2> QED
      BY <2>4, <2>5 DEF Paid
  <1> QED
    BY <1>2, <1>3, <1>4, BooksStep

-----------------------------------------------------------------------------
(* The inductive invariant and what follows from it.                       *)

LEMMA InitIInv == Init => IInv
  <1> SUFFICES ASSUME Init PROVE IInv
    OBVIOUS
  <1> USE DEF Init, TablesInit, ApiInit, WorkerInit, GateInit
  <1>1. TypeOK
    BY InitTypeOK
  <1>2. ReferencesOK /\ RowsHaveWriters /\ WorkersHoldLocks /\ RunsHoldLocks
    BY DEF ReferencesOK, RowsHaveWriters, WorkersHoldLocks, RunsHoldLocks
  <1>3. AnswersMatchTransactions /\ EntitlementsAreBought
    BY DEF AnswersMatchTransactions, EntitlementsAreBought
  <1>4. \A u \in Users : wallet[u] = 0 /\ Len(ledger[u]) = 0 /\ DOMAIN ledger[u] = {}
    <2>1. Len(<< >>) = 0 /\ DOMAIN << >> = {}
      OBVIOUS
    <2> QED
      BY <2>1
  <1>5. PostedOnce /\ GrantsMatchPurchases /\ RunsArePaid
    BY <1>4 DEF PostedOnce, GrantsMatchPurchases, RunsArePaid
  <1>6. RunningTotal /\ NeverOverdrawn
    BY <1>4, IntMaxAssumption DEF RunningTotal, NeverOverdrawn
  <1> QED
    BY <1>1, <1>2, <1>3, <1>5, <1>6 DEF IInv

LEMMA IInvStep ==
    ASSUME IInv, [Next]_vars
    PROVE  IInv'
  BY TypeStep, ReferencesStep, RowsHaveWritersStep, WorkersHoldLocksStep, RunsHoldLocksStep,
     AnswersStep, PostedOnceStep, GrantsStep, BalancesStep, EntitlementsStep, RunsPaidStep
     DEF IInv

\* IInv holds in every reachable state: what a worker or a run has read under
\* its row locks is true until it commits, and the books agree.
THEOREM Invariant == Spec => []IInv
  BY InitIInv, IInvStep, PTL DEF Spec

\* process_purchase credits a purchase at most once and run_feature charges a
\* run at most once, whatever is delivered twice, retried or interrupted.
THEOREM NothingPostedTwice == Spec => []PostedOnce
  <1>1. IInv => PostedOnce
    BY DEF IInv
  <1> QED
    BY <1>1, Invariant, PTL

\* grant_credits posts what the POST accepted, to the buyer who made it, and
\* only for a row that is no longer pending.
THEOREM GrantsAreRight == Spec => []GrantsMatchPurchases
  <1>1. IInv => GrantsMatchPurchases
    BY DEF IInv
  <1> QED
    BY <1>1, Invariant, PTL

\* _lock_balance suffices: no update of a balance is lost, and the ledger
\* accounts for every credit of every wallet.
THEOREM LedgerAddsUp == Spec => []RunningTotal
  <1>1. IInv => RunningTotal
    BY DEF IInv
  <1> QED
    BY <1>1, Invariant, PTL

\* The check of spend_credits and the width of the column hold at every commit:
\* no balance is negative or too large.
THEOREM BalancesInRange == Spec => []NeverOverdrawn
  <1>1. IInv => NeverOverdrawn
    BY DEF IInv
  <1> QED
    BY <1>1, Invariant, PTL

\* run_feature records a run if and only if the ledger holds its price.
THEOREM RunsPaid == Spec => []RunsArePaid
  <1>1. IInv => RunsArePaid
    BY DEF IInv
  <1> QED
    BY <1>1, Invariant, PTL

\* The entitlements process_purchase inserts never meet the primary key: what it
\* read of the buyer's features under the wallet's lock is still so at the commit.
THEOREM NoConflictAtCommit == Spec => []NoEntitlementConflict
  <1>1. IInv => NoEntitlementConflict
    BY DEF IInv, WorkersHoldLocks, NoEntitlementConflict, InState
  <1> QED
    BY <1>1, Invariant, PTL

-----------------------------------------------------------------------------
(* Waiting: a lock is held by the session that took it, until that session *)
(* is past its commit or rollback.                                         *)

HoldsTx(s, t) ==
    s \in DOMAIN job /\ job[s].state \in {"package", "grant", "unlock", "commit"} /\ Target(s) = t

HoldsWallet(s, u) ==
    \/ s \in DOMAIN job /\ job[s].state \in {"unlock", "commit"} /\ Buyer(s) = u
    \/ Reached(s, "commit") /\ call[s].user = u

TxHeld(t) == txLock[t] # Free => HoldsTx(txLock[t], t)
WalletHeld(u) == walletLock[u] # Free => HoldsWallet(walletLock[u], u)

LocksHaveHolders == (\A t \in Requests : TxHeld(t)) /\ (\A u \in Users : WalletHeld(u))

\* How a worker that has a lock to lose or to win moves.
LEMMA WorkerMoves ==
    ASSUME TypeOK, NEW w \in Workers, WorkerStep(w) \/ WorkerFault(w)
    PROVE  \/ /\ ReleaseTxs(w) /\ UNCHANGED walletLock
              /\ w \in DOMAIN job /\ job[w].state \in {"select", "package", "grant"}
           \/ ReleaseTxs(w) /\ ReleaseWallets(w)
           \/ /\ UNCHANGED <<txLock, walletLock>>
              /\ w \notin DOMAIN job \/ job[w].state \in {"select", "failing", "retry", "ack"}
           \/ /\ UNCHANGED <<txLock, walletLock>> /\ w \in DOMAIN job /\ w \in DOMAIN job'
              /\ job'[w].msg = job[w].msg /\ job'[w].state = job[w].state
           \/ /\ UNCHANGED <<txLock, walletLock>> /\ w \in DOMAIN job /\ w \in DOMAIN job'
              /\ job'[w].msg = job[w].msg
              /\ \/ job[w].state = "package" /\ job'[w].state = "grant"
                 \/ job[w].state = "unlock" /\ job'[w].state = "commit"
           \/ /\ LockTx(w, Target(w)) /\ UNCHANGED walletLock /\ w \in DOMAIN job /\ w \in DOMAIN job'
              /\ job'[w].msg = job[w].msg /\ job[w].state = "select" /\ job'[w].state = "package"
           \/ /\ LockWallet(w, Buyer(w)) /\ UNCHANGED txLock /\ w \in DOMAIN job /\ w \in DOMAIN job'
              /\ job'[w].msg = job[w].msg /\ job[w].state = "grant" /\ job'[w].state = "unlock"
  <1>1. w \in DOMAIN job => job[w] \in Job
    BY DEF TypeOK, WorkerTypeOK
  <1>2. CASE \/ PackageInactive(w) \/ GrantOverflows(w) \/ RaiseEarly(w)
             \/ CommitGrant(w) \/ RaiseLate(w) \/ Crash(w)
    BY <1>2 DEF PackageInactive, GrantOverflows, RaiseEarly, CommitGrant, RaiseLate, Crash, InState
  <1>3. CASE \/ MarkFailed(w) \/ Retry(w) \/ Ack(w) \/ MarkFailedRaises(w) \/ RetryLost(w)
             \/ \E m \in Message : Deliver(w, m)
    BY <1>3 DEF MarkFailed, Retry, Ack, MarkFailedRaises, RetryLost, Deliver, InState, tables
  <1>4. CASE Redeliver(w)
    BY <1>4 DEF Redeliver, tables
  <1>5. CASE PackageActive(w)
    BY <1>1, <1>5 DEF PackageActive, InState, Proceed, Job, tables
  <1>6. CASE SelectTx(w)
    BY <1>1, <1>6 DEF SelectTx, InState, Proceed, Job
  <1>7. CASE GrantCredits(w)
    <2>1. job' = [job EXCEPT ![w] = [job[w] EXCEPT !.state = "unlock", !.balance = wallet[Buyer(w)]]]
      BY <1>7 DEF GrantCredits
    <2>2. w \in DOMAIN job' /\ job'[w].msg = job[w].msg /\ job'[w].state = "unlock"
      BY <1>1, <1>7, <2>1 DEF GrantCredits, InState, Job
    <2> QED
      BY <1>7, <2>2 DEF GrantCredits, InState
  <1>8. CASE ReadEntitlements(w)
    <2> DEFINE new == pkg[Bought(w)].features \ Owned(Buyer(w))
    <2>1. job' = [job EXCEPT ![w] = [job[w] EXCEPT !.state = "commit", !.new = new]]
      BY <1>8 DEF ReadEntitlements
    <2> HIDE DEF new
    <2>2. w \in DOMAIN job' /\ job'[w].msg = job[w].msg /\ job'[w].state = "commit"
      BY <1>1, <1>8, <2>1 DEF ReadEntitlements, InState, Job
    <2> QED
      BY <1>8, <2>2 DEF ReadEntitlements, InState, tables
  <1> QED
    BY <1>2, <1>3, <1>4, <1>5, <1>6, <1>7, <1>8 DEF WorkerStep, WorkerFault

\* A lock of another session than the one that steps is not touched.
LEMMA OthersLocks ==
    ASSUME TypeOK, NEW w \in Workers, WorkerStep(w) \/ WorkerFault(w)
    PROVE  /\ \A t \in Requests : txLock'[t] \in {txLock[t], Free, w}
           /\ \A u \in Users : walletLock'[u] \in {walletLock[u], Free, w}
  <1>1. txLock \in [Requests -> Workers \cup {Free}] /\ walletLock \in [Users -> Sessions \cup {Free}]
    BY DEF TypeOK, TablesTypeOK
  <1> QED
    BY <1>1, WorkerMoves DEF ReleaseTxs, ReleaseWallets, LockTx, LockWallet

\* What a worker holds after its step, it has just taken or goes on working with.
LEMMA OwnTxHeld ==
    ASSUME TypeOK, NEW w \in Workers, WorkerStep(w) \/ WorkerFault(w),
           NEW t \in Requests, TxHeld(t), txLock'[t] = w
    PROVE  HoldsTx(w, t)'
  <1>1. txLock \in [Requests -> Workers \cup {Free}] /\ w # Free
    BY SessionsAssumption DEF TypeOK, TablesTypeOK, Sessions
  <1>2. ~ReleaseTxs(w)
    BY <1>1 DEF ReleaseTxs
  <1>3. txLock[t] = w => HoldsTx(w, t)
    BY <1>1 DEF TxHeld
  <1> QED
    BY <1>1, <1>2, <1>3, WorkerMoves DEF HoldsTx, LockTx, LockWallet, Target

LEMMA OwnWalletHeld ==
    ASSUME TypeOK, ReferencesOK, RowsHaveWriters, WorkStep,
           NEW w \in Workers, WorkerStep(w) \/ WorkerFault(w),
           NEW u \in Users, WalletHeld(u), walletLock'[u] = w
    PROVE  HoldsWallet(w, u)'
  <1>1. walletLock \in [Users -> Sessions \cup {Free}] /\ w # Free /\ w \notin Calls
    BY SessionsAssumption DEF TypeOK, TablesTypeOK, Sessions
  <1>2. ~ReleaseWallets(w)
    BY <1>1 DEF ReleaseWallets
  <1>3. walletLock[u] = w => w \in DOMAIN job /\ job[w].state \in {"unlock", "commit"} /\ Buyer(w) = u
    BY <1>1 DEF WalletHeld, HoldsWallet, Reached, TypeOK, GateTypeOK
  <1>4. ASSUME w \in DOMAIN job, w \in DOMAIN job', job'[w].msg = job[w].msg,
               job[w].state \in {"grant", "unlock", "commit"}
        PROVE  Buyer(w)' = Buyer(w)
    <2>1. Target(w) \in DOMAIN tx /\ Target(w)' = Target(w)
      BY <1>4 DEF ReferencesOK, Target
    <2>2. [Next]_vars
      BY DEF Next
    <2> QED
      BY <2>1, <2>2, TxRowsKept DEF Buyer
  <1>5. \/ /\ UNCHANGED walletLock /\ w \in DOMAIN job /\ w \in DOMAIN job'
           /\ job'[w].msg = job[w].msg /\ job[w].state \in {"unlock", "commit"}
           /\ job'[w].state \in {"unlock", "commit"}
        \/ /\ LockWallet(w, Buyer(w)) /\ w \in DOMAIN job /\ w \in DOMAIN job'
           /\ job'[w].msg = job[w].msg /\ job[w].state = "grant" /\ job'[w].state = "unlock"
    BY <1>2, <1>3, WorkerMoves DEF LockWallet
  <1> QED
    BY <1>1, <1>3, <1>4, <1>5 DEF HoldsWallet, LockWallet

\* A session keeps what it holds while its record is left alone.
LEMMA HolderKept ==
    ASSUME TypeOK, ReferencesOK, RowsHaveWriters, [Next]_vars, NEW s,
           s \in DOMAIN job => s \in DOMAIN job' /\ job'[s] = job[s],
           s \in DOMAIN call => s \in DOMAIN call' /\ call'[s] = call[s]
    PROVE  /\ \A t \in Requests : HoldsTx(s, t) => HoldsTx(s, t)'
           /\ \A u \in Users : HoldsWallet(s, u) => HoldsWallet(s, u)'
  <1>1. s \in DOMAIN job => Target(s)' = Target(s)
    BY DEF Target
  <1>2. s \in DOMAIN job /\ job[s].state \in {"unlock", "commit"} => Buyer(s)' = Buyer(s)
    <2>1. s \in DOMAIN job /\ job[s].state \in {"unlock", "commit"} => Target(s) \in DOMAIN tx
      BY DEF ReferencesOK
    <2> QED
      BY <1>1, <2>1, TxRowsKept DEF Buyer
  <1> QED
    BY <1>1, <1>2 DEF HoldsTx, HoldsWallet, Reached

LEMMA HoldersStep ==
    ASSUME TypeOK, ReferencesOK, RowsHaveWriters, LocksHaveHolders, [Next]_vars
    PROVE  LocksHaveHolders'
  <1>1. /\ DOMAIN job \subseteq Workers /\ DOMAIN call \subseteq Calls
        /\ Workers \cap Calls = {} /\ Free \notin Workers /\ Free \notin Calls
        /\ txLock \in [Requests -> Workers \cup {Free}]
        /\ walletLock \in [Users -> Workers \cup Calls \cup {Free}]
    BY SessionsAssumption DEF TypeOK, TablesTypeOK, WorkerTypeOK, GateTypeOK, Sessions
  <1>2. (\A t \in Requests : TxHeld(t)) /\ (\A u \in Users : WalletHeld(u))
    BY DEF LocksHaveHolders
  <1>3. CASE WorkStep
    <2>1. PICK w \in Workers : WorkerStep(w) \/ WorkerFault(w)
      BY <1>3, WorkEffect
    <2>2. ASSUME NEW s, s # w
          PROVE  /\ \A t \in Requests : HoldsTx(s, t) => HoldsTx(s, t)'
                 /\ \A u \in Users : HoldsWallet(s, u) => HoldsWallet(s, u)'
      <3>1. s \in DOMAIN job => s \in DOMAIN job' /\ job'[s] = job[s]
        BY <2>1, <2>2, OtherJobsKept
      <3>2. UNCHANGED call
        BY <1>3, WorkEffect
      <3> QED
        BY <3>1, <3>2, HolderKept
    <2>3. ASSUME NEW t \in Requests PROVE TxHeld(t)'
      <3>1. CASE txLock'[t] = w
        BY <1>2, <2>1, <3>1, OwnTxHeld DEF TxHeld
      <3>2. CASE txLock'[t] = txLock[t] /\ txLock[t] # w
        BY <1>2, <2>2, <3>2 DEF TxHeld
      <3> QED
        BY <2>1, <3>1, <3>2, OthersLocks DEF TxHeld
    <2>4. ASSUME NEW u \in Users PROVE WalletHeld(u)'
      <3>1. CASE walletLock'[u] = w
        BY <1>2, <1>3, <2>1, <3>1, OwnWalletHeld DEF WalletHeld
      <3>2. CASE walletLock'[u] = walletLock[u] /\ walletLock[u] # w
        BY <1>2, <2>2, <3>2 DEF WalletHeld
      <3> QED
        BY <2>1, <3>1, <3>2, OthersLocks DEF WalletHeld
    <2> QED
      BY <2>3, <2>4 DEF LocksHaveHolders
  <1>4. CASE GateStep
    <2>1. UNCHANGED <<tx, txLock, job>>
      BY <1>4, GateEffect
    <2>2. PICK c \in Calls :
             CallStep(c) \/ RunFails(c) \/ \E u \in Users, f \in Features : CallFeature(c, u, f)
      BY <1>4, GateEffect
    <2>3. ASSUME NEW s, s # c
          PROVE  /\ \A t \in Requests : HoldsTx(s, t) => HoldsTx(s, t)'
                 /\ \A u \in Users : HoldsWallet(s, u) => HoldsWallet(s, u)'
      <3>1. s \in DOMAIN call => s \in DOMAIN call' /\ call'[s] = call[s]
        BY <2>2, <2>3, CallMoves
      <3> QED
        BY <2>1, <3>1, HolderKept
    <2>4. ASSUME NEW t \in Requests PROVE TxHeld(t)'
      BY <1>1, <1>2, <2>1, <2>2, <2>3, <2>4 DEF TxHeld
    <2>5. ASSUME NEW u \in Users PROVE WalletHeld(u)'
      <3>1. CASE walletLock'[u] # Free /\ walletLock'[u] = c
        <4>1. c \notin DOMAIN job'
          BY <1>1, <2>1, <2>2
        <4>2. walletLock[u] = c => c \in DOMAIN call /\ call[c].state = "commit"
          BY <1>1, <1>2, <2>2 DEF WalletHeld, HoldsWallet, Reached
        <4>3. SpendCredits(c) /\ LockWallet(c, call[c].user)
          <5>1. ~ReleaseWallets(c)
            BY <1>1, <2>2, <3>1 DEF ReleaseWallets
          <5>2. walletLock' # walletLock \/ ~Reached(c, "check")
            BY <3>1, <4>2 DEF Reached
          <5> QED
            BY <2>2, <3>1, <4>2, <5>1, <5>2
               DEF CallStep, CallFeature, CheckEntitlement, SpendCredits, CommitRun, RunFails, Reached, tables
        <4>4. c \in DOMAIN call /\ call[c] \in Call
          BY <4>3 DEF SpendCredits, Reached, TypeOK, GateTypeOK
        <4>5. call[c].user = u
          BY <1>1, <3>1, <4>2, <4>3 DEF SpendCredits, Reached, LockWallet
        <4>6. call' = [call EXCEPT ![c] = [call[c] EXCEPT !.state = "commit", !.balance = wallet[u]]]
          BY <1>1, <3>1, <4>2, <4>3, <4>5 DEF SpendCredits, Reached, LockWallet
        <4>7. c \in DOMAIN call' /\ call'[c].state = "commit" /\ call'[c].user = u
          BY <4>4, <4>5, <4>6 DEF Call
        <4> QED
          BY <3>1, <4>7 DEF WalletHeld, HoldsWallet, Reached
      <3>2. CASE walletLock'[u] = walletLock[u] /\ walletLock[u] # c
        BY <1>2, <2>3, <3>2 DEF WalletHeld
      <3>3. walletLock'[u] \in {walletLock[u], Free, c}
        BY <1>1, <2>2
           DEF CallStep, CallFeature, CheckEntitlement, SpendCredits, CommitRun, RunFails,
               LockWallet, ReleaseWallets, tables
      <3> QED
        BY <3>1, <3>2, <3>3 DEF WalletHeld
    <2> QED
      BY <2>4, <2>5 DEF LocksHaveHolders
  <1>5. CASE UNCHANGED <<txLock, walletLock, job, call>>
    <2>1. \A s : /\ \A t \in Requests : HoldsTx(s, t) => HoldsTx(s, t)'
                 /\ \A u \in Users : HoldsWallet(s, u) => HoldsWallet(s, u)'
      BY <1>5, HolderKept
    <2> QED
      BY <1>2, <1>5, <2>1 DEF LocksHaveHolders, TxHeld, WalletHeld
  <1>6. WorkStep \/ GateStep \/ UNCHANGED <<txLock, walletLock, job, call>>
    BY ApiEffect, StatusEffect, AdminEffect DEF Next, Terminating, tables, vars
  <1> QED
    BY <1>3, <1>4, <1>5, <1>6

\* At first no lock is taken.
LEMMA HoldersInit == Init => LocksHaveHolders
  BY DEF Init, TablesInit, LocksHaveHolders, TxHeld, WalletHeld

\* A session waits for a lock at one statement only, and the holder of a wallet is
\* past all of them.
LEMMA WaitsAreShort ==
    ASSUME TypeOK, ReferencesOK, LocksHaveHolders
    PROVE  NoCircularWait
  <1>1. /\ DOMAIN job \subseteq Workers /\ DOMAIN call \subseteq Calls
        /\ Workers \cap Calls = {} /\ Free \notin Sessions
        /\ \A w \in DOMAIN job : Target(w) \in Requests
        /\ \A w \in DOMAIN job : job[w].state = "grant" => Buyer(w) \in Users
        /\ \A c \in DOMAIN call : call[c].user \in Users
    <2>1. \A w \in DOMAIN job : Target(w) \in Requests
      BY DEF TypeOK, WorkerTypeOK, Job, Message, Target
    <2>2. \A w \in DOMAIN job : job[w].state = "grant" => Buyer(w) \in Users
      BY DEF TypeOK, TablesTypeOK, TxRow, ReferencesOK, Buyer
    <2> QED
      BY <2>1, <2>2, SessionsAssumption DEF TypeOK, WorkerTypeOK, GateTypeOK, Call
  <1>2. ASSUME NEW s \in Sessions, NEW h \in Sessions, WaitsFor(s, h)
        PROVE  \/ \E t \in Requests : HoldsTx(h, t)
               \/ \E u \in Users : HoldsWallet(h, u)
    BY <1>1, <1>2 DEF WaitsFor, LocksHaveHolders, TxHeld, WalletHeld, InState, Reached
  <1>3. ASSUME NEW k \in Sessions, NEW u \in Users, HoldsWallet(k, u), NEW x \in Sessions, WaitsFor(k, x)
        PROVE  FALSE
    BY <1>1, <1>3 DEF HoldsWallet, WaitsFor, InState, Reached
  <1>4. ASSUME NEW h \in Sessions, NEW t \in Requests, HoldsTx(h, t), NEW k \in Sessions, WaitsFor(h, k)
        PROVE  \E u \in Users : HoldsWallet(k, u)
    BY <1>1, <1>4 DEF HoldsTx, WaitsFor, InState, Reached, LocksHaveHolders, WalletHeld
  <1>5. \A h : (\E t \in Requests : HoldsTx(h, t)) \/ (\E u \in Users : HoldsWallet(h, u)) => AtWork(h)
    BY DEF HoldsTx, HoldsWallet, Reached, AtWork, RunPending
  <1> QED
    BY <1>2, <1>3, <1>4, <1>5 DEF NoCircularWait

\* However many calls, runs and workers there are, they never wait for one
\* another in a circle, nor for a lock whose holder is gone.
THEOREM WaitingEnds == Spec => []NoCircularWait
  <1>1. Init => IInv /\ LocksHaveHolders
    BY InitIInv, HoldersInit
  <1>2. IInv /\ LocksHaveHolders /\ [Next]_vars => (IInv /\ LocksHaveHolders)'
    BY IInvStep, HoldersStep DEF IInv
  <1>3. IInv /\ LocksHaveHolders => NoCircularWait
    BY WaitsAreShort DEF IInv
  <1> QED
    BY <1>1, <1>2, <1>3, PTL DEF Spec

-----------------------------------------------------------------------------
(* What a step does to the terms of the purchases.                         *)

Terms == [t \in DOMAIN tx |-> [user |-> tx[t].user, credits |-> tx[t].credits]]

Credited == {t \in DOMAIN tx : Entries(tx[t].user, TxRef(t)) # {}}

Held == [u \in Users |-> Owned(u)]

\* A row that appears is the one row of an INSERT.
LEMMA OneRowAtATime ==
    ASSUME TypeOK, ReferencesOK, RowsHaveWriters, [Next]_vars
    PROVE  \/ DOMAIN tx' = DOMAIN tx
           \/ \E r \in Requests :
                /\ r \notin DOMAIN tx /\ DOMAIN tx' = DOMAIN tx \cup {r}
                /\ tx'[r].user \in Users /\ tx'[r].credits \in Credits
  <1>1. CASE ~ApiStep
    BY <1>1, TxRowsKept
  <1>2. CASE ApiStep
    <2>1. PICK r \in Requests : UNCHANGED tx \/ RequestStep(r)
      BY <1>2, ApiEffect
    <2>2. CASE UNCHANGED tx
      BY <2>2
    <2>3. CASE Insert(r) /\ r \notin DOMAIN tx /\ tx' = Put(tx, r, PendingRow(r))
      <3>1. req[r].user \in Users /\ req[r].credits \in Credits
        BY <2>3 DEF Insert, At, ReferencesOK, TypeOK, ApiTypeOK, Request
      <3>2. DOMAIN tx' = DOMAIN tx \cup {r} /\ tx'[r].user = req[r].user
            /\ tx'[r].credits = req[r].credits
        BY <2>3 DEF Put, PendingRow
      <3> QED
        BY <2>3, <3>1, <3>2
    <2> QED
      BY <2>1, <2>2, <2>3, RequestMoves
  <1> QED
    BY <1>1, <1>2

\* Nothing is posted for a purchase that is still pending, or that is not yet
\* there.
LEMMA PendingHasNoEntry ==
    ASSUME GrantsMatchPurchases, NEW u \in Users, NEW t \in Requests,
           t \in DOMAIN tx => tx[t].status = "pending"
    PROVE  Entries(u, TxRef(t)) = {}
  BY DEF GrantsMatchPurchases, Entries

-----------------------------------------------------------------------------
(* Settled purchases.                                                      *)

LEMMA SettledStep ==
    ASSUME IInv, [Next]_vars, NEW t \in DOMAIN tx
    PROVE  /\ tx[t].status # "pending" => tx'[t].status \in {tx[t].status, "failed"}
           /\ tx[t].status = "failed" =>
                Entries(tx[t].user, TxRef(t))' = Entries(tx[t].user, TxRef(t))
  <1> USE DEF IInv
  <1>1. tx'[t].user = tx[t].user /\ tx[t].user \in Users
    BY TxRowsKept DEF TypeOK, TablesTypeOK, TxRow
  <1>2. CASE Idle
    BY <1>1, <1>2 DEF Idle, Entries
  <1>3. ASSUME NEW s \in Requests, Granted(s)
        PROVE  /\ tx[t].status # "pending" => tx'[t].status = tx[t].status
               /\ tx[t].status # "pending" =>
                    Entries(tx[t].user, TxRef(t))' = Entries(tx[t].user, TxRef(t))
    <2> SUFFICES ASSUME tx[t].status # "pending"
                 PROVE  /\ tx'[t].status = tx[t].status
                        /\ Entries(tx[t].user, TxRef(t))' = Entries(tx[t].user, TxRef(t))
      OBVIOUS
    <2>1. t # s
      BY <1>3 DEF Granted
    <2>2. tx'[t] = tx[t]
      BY <1>3, <2>1, GrantedRows
    <2>3. \A i \in DOMAIN ledger'[tx[t].user] :
            ledger'[tx[t].user][i].ref = TxRef(t) =>
              i \in DOMAIN ledger[tx[t].user] /\ ledger'[tx[t].user][i] = ledger[tx[t].user][i]
      BY <1>1, <1>3, <2>1, GrantedLedger, RefsDiffer
    <2>4. \A i \in DOMAIN ledger[tx[t].user] :
            i \in DOMAIN ledger'[tx[t].user] /\ ledger'[tx[t].user][i] = ledger[tx[t].user][i]
      BY <1>1, <1>3, GrantedLedger
    <2> QED
      BY <2>2, <2>3, <2>4 DEF Entries
  <1>4. ASSUME NEW c \in Calls, Ran(c)
        PROVE  /\ tx' = tx
               /\ Entries(tx[t].user, TxRef(t))' = Entries(tx[t].user, TxRef(t))
    <2>1. /\ \A v \in Users : \A i \in DOMAIN ledger[v] :
               i \in DOMAIN ledger'[v] /\ ledger'[v][i] = ledger[v][i]
          /\ \A v \in Users : \A i \in DOMAIN ledger'[v] :
               \/ i \in DOMAIN ledger[v] /\ ledger'[v][i] = ledger[v][i]
               \/ ledger'[v][i].ref = RunRef(c)
          /\ tx' = tx
      BY <1>4, RanRef, PostRows DEF Ran
    <2>2. \A i \in DOMAIN ledger'[tx[t].user] :
            ledger'[tx[t].user][i].ref = TxRef(t) =>
              i \in DOMAIN ledger[tx[t].user] /\ ledger'[tx[t].user][i] = ledger[tx[t].user][i]
      BY <1>1, <2>1, RefsDiffer
    <2> QED
      BY <1>1, <2>1, <2>2 DEF Entries
  <1> QED
    BY <1>2, <1>3, <1>4, BooksStep

\* A purchase that is settled is never settled otherwise than as failed, and
\* one that has failed is never credited later.
THEOREM SettledStaysSettled == Spec => SettledForGood
  <1>1. IInv /\ [Next]_vars =>
          [\A t \in DOMAIN tx :
             /\ tx[t].status # "pending" => tx'[t].status \in {tx[t].status, "failed"}
             /\ tx[t].status = "failed" =>
                  Entries(tx[t].user, TxRef(t))' = Entries(tx[t].user, TxRef(t))]_vars
    BY SettledStep
  <1> QED
    BY <1>1, Invariant, PTL DEF Spec, SettledForGood

-----------------------------------------------------------------------------
(* Purchases left pending.                                                 *)

\* A copy of m that waits for t and has been retried no oftener than faults
\* have happened; a worker that still has t to do, likewise.
Waits(m, t) == m.tx = t /\ queue[m] > 0 /\ m.retries <= faults

Works(w, t) ==
    /\ job[w].msg.tx = t /\ job[w].state # "ack"
    /\ job[w].msg.retries <= faults
    /\ job[w].state = "retry" => job[w].msg.retries < faults

TooMany == faults > 1 \/ faults > MaxRetries

Attempted(t) ==
    \/ At(t, "enqueue") \/ At(t, "error") \/ TooMany
    \/ \E m \in Message : Waits(m, t)
    \/ \E w \in DOMAIN job : Works(w, t)

PendingAttempted == \A t \in DOMAIN tx : tx[t].status = "pending" => Attempted(t)

LEMMA FaultsGrow ==
    ASSUME NEW w \in Workers, WorkerStep(w) \/ WorkerFault(w)
    PROVE  faults' \in {faults, faults + 1}
  <1>1. CASE WorkerFault(w)
    BY <1>1 DEF WorkerFault, RaiseEarly, RaiseLate, MarkFailedRaises, RetryLost, Crash,
                Redeliver, Fault
  <1>2. CASE WorkerStep(w)
    BY <1>2 DEF WorkerStep, Deliver, SelectTx, PackageActive, PackageInactive, GrantCredits,
                GrantOverflows, ReadEntitlements, CommitGrant, MarkFailed, Retry, Ack, Fault
  <1> QED
    BY <1>1, <1>2

\* A message that waits goes on waiting or is taken by the worker that steps.
LEMMA MessagesKept ==
    ASSUME TypeOK, NEW w \in Workers, WorkerStep(w) \/ WorkerFault(w),
           NEW t \in Requests, NEW m \in Message, Waits(m, t)
    PROVE  Waits(m, t)' \/ (w \in DOMAIN job' /\ Works(w, t)')
  <1> USE DEF Waits
  <1>1. /\ queue \in [Message -> Nat] /\ faults \in Nat /\ m.retries \in Nat
        /\ \A x \in DOMAIN job : job[x].msg \in Message
    BY BoundsAssumption DEF TypeOK, QueueTypeOK, Message, WorkerTypeOK, Job
  <1>2. ASSUME NEW n \in Message, Deliver(w, n)
        PROVE  Waits(m, t)' \/ (w \in DOMAIN job' /\ Works(w, t)')
    <2>1. queue' = [queue EXCEPT ![n] = @ - 1] /\ faults' = faults
      BY <1>2 DEF Deliver, Consume
    <2>2. /\ w \in DOMAIN job' /\ job'[w].msg = n /\ job'[w].state = "select"
      BY <1>2 DEF Deliver, Put
    <2> QED
      BY <1>1, <2>1, <2>2 DEF Works
  <1>3. CASE WorkerFault(w)
    <2>1. faults' = faults + 1 /\ queue'[m] \in Nat /\ queue'[m] > 0
      BY <1>1, <1>3 DEF WorkerFault, RaiseEarly, RaiseLate, MarkFailedRaises, RetryLost, Crash,
                        Redeliver, Fault, Publish
    <2> QED
      BY <1>1, <2>1
  <1>4. CASE Retry(w)
    <2>1. job[w].msg \in Message /\ faults' = faults
      BY <1>1, <1>4 DEF Retry, InState
    <2>2. queue' = queue \/ \E n : queue' = [queue EXCEPT ![n] = @ + 1]
      BY <1>4 DEF Retry, Publish
    <2>3. queue'[m] \in Nat /\ queue'[m] > 0
      BY <1>1, <2>2
    <2> QED
      BY <1>1, <2>1, <2>3
  <1>5. CASE WorkerStep(w) /\ ~(\E n \in Message : Deliver(w, n)) /\ ~Retry(w)
    <2>1. queue' = queue /\ faults' \in {faults, faults + 1}
      BY <1>5 DEF WorkerStep, SelectTx, PackageActive, PackageInactive, GrantCredits,
                  GrantOverflows, ReadEntitlements, CommitGrant, MarkFailed, Ack, Fault
    <2> QED
      BY <1>1, <2>1
  <1> QED
    BY <1>2, <1>3, <1>4, <1>5

\* What other workers do to one that works for t.
LEMMA OthersWork ==
    ASSUME TypeOK, NEW w \in Workers, WorkerStep(w) \/ WorkerFault(w),
           NEW t \in Requests, NEW v \in DOMAIN job, v # w, Works(v, t)
    PROVE  v \in DOMAIN job' /\ Works(v, t)'
  <1>1. faults \in Nat /\ job[v].msg.retries \in Nat
    BY BoundsAssumption DEF TypeOK, QueueTypeOK, Message, WorkerTypeOK, Job
  <1>2. v \in DOMAIN job' /\ job'[v] = job[v]
    BY OtherJobsKept
  <1>3. faults' \in {faults, faults + 1}
    BY FaultsGrow
  <1> QED
    BY <1>1, <1>2, <1>3 DEF Works

\* A worker that has t to do goes on with it, publishes it again, settles it,
\* or is stopped by one fault too many.
LEMMA OwnWork ==
    ASSUME TypeOK, NEW w \in Workers, WorkerStep(w) \/ WorkerFault(w),
           NEW t \in DOMAIN tx, tx[t].status = "pending", tx'[t].status = "pending",
           w \in DOMAIN job, Works(w, t)
    PROVE  \/ TooMany' \/ (w \in DOMAIN job' /\ Works(w, t)')
           \/ \E m \in Message : Waits(m, t)'
  <1> DEFINE msg == job[w].msg
  <1>1. /\ queue \in [Message -> Nat] /\ faults \in Nat /\ MaxRetries \in Nat
        /\ job[w] \in Job /\ msg \in Message /\ msg.retries \in 0 .. MaxRetries /\ msg.tx = t
        /\ Target(w) = t /\ job[w].state # "ack" /\ msg.retries <= faults
        /\ job[w].state = "retry" => msg.retries < faults
    BY BoundsAssumption DEF TypeOK, QueueTypeOK, Message, WorkerTypeOK, Job, Works, Target
  <1>2. /\ tx[t] \in TxRow /\ t \in Requests
        /\ \A s \in {"failed", "completed"} : tx' = [tx EXCEPT ![t].status = s] => tx'[t].status = s
    BY DEF TypeOK, TablesTypeOK, TxRow
  <1>3. ASSUME NEW row \in Job, job' = [job EXCEPT ![w] = row], row.msg = msg,
               faults' \in {faults, faults + 1}, row.state # "ack",
               row.state = "retry" => faults' = faults + 1
        PROVE  w \in DOMAIN job' /\ Works(w, t)'
    <2>1. w \in DOMAIN job' /\ job'[w] = row
      BY <1>3
    <2> QED
      BY <1>1, <1>3, <2>1 DEF Works
  <1>4. ASSUME NEW state \in JobState, state # "ack", Proceed(w, state),
               faults' \in {faults, faults + 1}, state = "retry" => faults' = faults + 1
        PROVE  w \in DOMAIN job' /\ Works(w, t)'
    <2> DEFINE row == [job[w] EXCEPT !.state = state]
    <2>1. job' = [job EXCEPT ![w] = row] /\ row \in Job /\ row.msg = msg /\ row.state = state
      BY <1>1, <1>4 DEF Proceed, Job
    <2> HIDE DEF row
    <2> QED
      BY <1>3, <1>4, <2>1
  <1>5. ASSUME NEW m \in Message, m.tx = t, m.retries <= faults', Publish(m)
        PROVE  Waits(m, t)'
    BY <1>1, <1>5 DEF Publish, Waits
  <1> HIDE DEF msg
  <1>6. CASE \E m \in Message : Deliver(w, m)
    BY <1>6 DEF Deliver
  <1>7. CASE SelectTx(w)
    <2>1. Proceed(w, "package") /\ faults' = faults
      BY <1>1, <1>7 DEF SelectTx, IsPending
    <2> QED
      BY <1>4, <2>1 DEF JobState
  <1>8. CASE PackageActive(w) \/ GrantOverflows(w)
    <2>1. (Proceed(w, "grant") \/ Proceed(w, "failing")) /\ faults' = faults
      BY <1>8 DEF PackageActive, GrantOverflows
    <2> QED
      BY <1>4, <2>1 DEF JobState
  <1>9. CASE GrantCredits(w)
    <2> DEFINE row == [job[w] EXCEPT !.state = "unlock", !.balance = wallet[Buyer(w)]]
    <2>1. job' = [job EXCEPT ![w] = row] /\ faults' = faults
      BY <1>9 DEF GrantCredits
    <2>2. wallet[Buyer(w)] \in Int
      BY <1>1 DEF TypeOK, TablesTypeOK, TxRow, Buyer
    <2>3. row \in Job /\ row.msg = msg /\ row.state = "unlock"
      BY <1>1, <2>2 DEF Job, JobState, msg
    <2> HIDE DEF row
    <2> QED
      BY <1>3, <2>1, <2>3
  <1>10. CASE ReadEntitlements(w)
    <2> DEFINE row == [job[w] EXCEPT !.state = "commit",
                                     !.new = pkg[Bought(w)].features \ Owned(Buyer(w))]
    <2>1. job' = [job EXCEPT ![w] = row] /\ faults' = faults /\ w \in DOMAIN job'
      BY <1>10 DEF ReadEntitlements
    <2>2. row.msg = msg /\ row.state = "commit" /\ job'[w] = row
      BY <1>1, <2>1 DEF Job, msg
    <2> HIDE DEF row
    <2> QED
      BY <1>1, <2>1, <2>2 DEF Works, msg
  <1>11. CASE PackageInactive(w) \/ MarkFailed(w)
    <2>1. tx' = [tx EXCEPT ![t].status = "failed"]
      BY <1>1, <1>11 DEF PackageInactive, MarkFailed
    <2> QED
      BY <1>2, <2>1
  <1>12. CASE CommitGrant(w)
    <2>1. CASE Conflicts(w)
      <3>1. Proceed(w, "failing") /\ faults' = faults
        BY <1>12, <2>1 DEF CommitGrant
      <3> QED
        BY <1>4, <3>1 DEF JobState
    <2>2. CASE ~Conflicts(w)
      <3>1. tx' = [tx EXCEPT ![t].status = "completed"]
        BY <1>1, <1>12, <2>2 DEF CommitGrant
      <3> QED
        BY <1>2, <3>1
    <2> QED
      BY <2>1, <2>2
  <1>13. CASE Retry(w)
    <2>1. msg.retries < faults /\ faults' = faults
      BY <1>1, <1>13 DEF Retry, InState
    <2>2. CASE Again(msg)
      <3> DEFINE again == [msg EXCEPT !.retries = @ + 1]
      <3>1. Publish(again)
        BY <1>13, <2>2 DEF Retry, msg
      <3>2. again \in Message /\ again.tx = t /\ again.retries = msg.retries + 1
        BY <1>1, <2>2 DEF Again, Message
      <3>3. again.retries <= faults'
        BY <1>1, <2>1, <3>2
      <3> HIDE DEF again
      <3> QED
        BY <1>5, <3>1, <3>2, <3>3
    <2>3. CASE ~Again(msg)
      BY <1>1, <2>1, <2>3 DEF Again, TooMany
    <2> QED
      BY <2>2, <2>3
  <1>14. CASE Ack(w)
    BY <1>1, <1>14 DEF Ack, InState
  <1>15. CASE RaiseEarly(w) \/ RaiseLate(w) \/ MarkFailedRaises(w)
    <2>1. (Proceed(w, "retry") \/ Proceed(w, "failing")) /\ faults' = faults + 1
      BY <1>15 DEF RaiseEarly, RaiseLate, MarkFailedRaises, Fault
    <2> QED
      BY <1>4, <2>1 DEF JobState
  <1>16. CASE RetryLost(w)
    <2>1. msg.retries < faults /\ faults' = faults + 1
      BY <1>1, <1>16 DEF RetryLost, InState, Fault
    <2> QED
      BY <1>1, <2>1 DEF TooMany
  <1>17. CASE Crash(w) \/ Redeliver(w)
    <2>1. Publish(msg) /\ faults' = faults + 1
      BY <1>17 DEF Crash, Redeliver, Fault, msg
    <2> QED
      BY <1>1, <1>5, <2>1
  <1> QED
    BY <1>6, <1>7, <1>8, <1>9, <1>10, <1>11, <1>12, <1>13, <1>14, <1>15, <1>16, <1>17
       DEF WorkerStep, WorkerFault

\* A handler publishes the row it has inserted, or ends in an error.
LEMMA HandlersAttempt ==
    ASSUME TypeOK, RowsHaveWriters, ApiStep,
           NEW t \in DOMAIN tx', t \in DOMAIN tx => Attempted(t)
    PROVE  Attempted(t)'
  <1>1. PICK r \in Requests :
          /\ UNCHANGED job
          /\ \/ /\ r \notin DOMAIN req /\ UNCHANGED tx
                /\ \E u \in Users, k \in Keys, p \in Packages : Receive(r, u, k, p)
             \/ RequestStep(r)
             \/ RequestFails(r) /\ UNCHANGED tx
    BY DEF ApiStep, ApiNext, RequestFails, Receive, tables, workerVars
  <1>2. /\ queue \in [Message -> Nat] /\ faults \in Nat /\ MaxRetries \in Nat
        /\ \A m \in Message : m.retries \in Nat
        /\ \A w \in DOMAIN job : job[w].msg.retries \in Nat
    BY BoundsAssumption DEF TypeOK, QueueTypeOK, Message, WorkerTypeOK, Job
  <1>3. /\ faults' \in {faults, faults + 1}
        /\ queue' = queue \/ (Enqueue(r) /\ Publish([tx |-> r, retries |-> 0]))
    BY <1>1 DEF RequestStep, Receive, Replay, LoadPackage, Insert, Enqueue, RequestFails, Fault
  <1>4. [tx |-> r, retries |-> 0] \in Message
    BY BoundsAssumption DEF Message
  <1>5. \A m \in Message : queue'[m] >= queue[m]
    BY <1>2, <1>3 DEF Publish
  <1>6. ASSUME \/ TooMany
               \/ \E m \in Message : Waits(m, t)
               \/ \E w \in DOMAIN job : Works(w, t)
        PROVE  Attempted(t)'
    <2>1. CASE TooMany
      BY <1>2, <1>3, <2>1 DEF TooMany, Attempted
    <2>2. CASE \E m \in Message : Waits(m, t)
      <3>1. PICK m \in Message : Waits(m, t)
        BY <2>2
      <3>2. queue[m] \in Nat /\ queue'[m] >= queue[m] /\ m.retries \in Nat
        BY <1>2, <1>5
      <3>3. queue'[m] > 0
        BY <1>2, <1>3, <1>4, <3>1 DEF Waits, Publish
      <3>4. Waits(m, t)'
        BY <1>2, <1>3, <3>1, <3>2, <3>3 DEF Waits
      <3> QED
        BY <3>4 DEF Attempted
    <2>3. CASE \E w \in DOMAIN job : Works(w, t)
      BY <1>1, <1>2, <1>3, <2>3 DEF Works, Attempted
    <2> QED
      BY <1>6, <2>1, <2>2, <2>3
  <1>7. CASE RequestFails(r) /\ UNCHANGED tx
    <2>1. \A s \in DOMAIN req : s # r => req'[s] = req[s]
      BY <1>7, RequestEnds
    <2>2. At(r, "error")' /\ DOMAIN req' = DOMAIN req
      BY <1>7, RequestEnds DEF At
    <2> QED
      BY <1>6, <1>7, <2>1, <2>2 DEF Attempted, At
  <1>8. CASE \E u \in Users, k \in Keys, p \in Packages : Receive(r, u, k, p) /\ UNCHANGED tx
    BY <1>6, <1>8 DEF Receive, Put, Attempted, At
  <1>9. CASE RequestStep(r)
    <2>1. /\ r \in DOMAIN req /\ DOMAIN req' = DOMAIN req
          /\ \A s \in DOMAIN req : s # r => req'[s] = req[s]
          /\ \/ /\ UNCHANGED tx /\ req[r].state \in {"replay", "load", "insert", "conflict"}
             \/ /\ UNCHANGED tx /\ req[r].state = "enqueue" /\ req'[r].state = "accepted"
             \/ /\ r \notin DOMAIN tx /\ tx' = Put(tx, r, PendingRow(r))
                /\ req'[r].state = "enqueue"
      BY <1>9, RequestMoves
    <2>2. CASE t # r
      <3>1. t \in DOMAIN tx /\ (At(t, "enqueue") => At(t, "enqueue")')
                            /\ (At(t, "error") => At(t, "error")')
        BY <2>1, <2>2 DEF Put, At
      <3> QED
        BY <1>6, <3>1 DEF Attempted
    <2>3. CASE t = r /\ UNCHANGED tx
      <3>1. req[r].state = "enqueue" /\ t \in DOMAIN tx
        BY <2>1, <2>3 DEF RowsHaveWriters
      <3>2. Enqueue(r)
        BY <1>9, <3>1 DEF RequestStep, Replay, LoadPackage, Insert, At
      <3>3. queue'[[tx |-> r, retries |-> 0]] > 0 /\ faults' = faults
        BY <1>2, <1>4, <3>2 DEF Enqueue, Publish
      <3>4. Waits([tx |-> r, retries |-> 0], t)'
        BY <1>2, <2>3, <3>3 DEF Waits
      <3> QED
        BY <1>4, <3>4 DEF Attempted
    <2>4. CASE t = r /\ req'[r].state = "enqueue"
      BY <2>1, <2>4 DEF Attempted, At
    <2> QED
      BY <2>1, <2>2, <2>3, <2>4
  <1> QED
    BY <1>1, <1>7, <1>8, <1>9

LEMMA AttemptedStep ==
    ASSUME IInv, PendingAttempted, [Next]_vars
    PROVE  PendingAttempted'
  <1> USE DEF IInv
  <1>1. SUFFICES ASSUME NEW t \in DOMAIN tx', tx'[t].status = "pending"
                 PROVE  Attempted(t)'
    BY DEF PendingAttempted
  <1>2. t \in DOMAIN tx => tx[t].status = "pending" /\ Attempted(t)
    BY <1>1, SettledStep DEF PendingAttempted
  <1>3. CASE ApiStep
    BY <1>2, <1>3, HandlersAttempt
  <1>4. CASE WorkStep /\ ~ApiStep
    <2>1. PICK w \in Workers : WorkerStep(w) \/ WorkerFault(w)
      BY <1>4, WorkEffect
    <2>2. UNCHANGED req
      BY <1>4, WorkEffect
    <2>3. t \in DOMAIN tx /\ t \in Requests
      BY <1>4, TxRowsKept DEF TypeOK, TablesTypeOK
    <2>4. CASE At(t, "enqueue") \/ At(t, "error")
      BY <2>2, <2>4 DEF At, Attempted
    <2>5. CASE TooMany
      <3>1. faults' \in {faults, faults + 1} /\ faults \in Nat /\ MaxRetries \in Nat
        BY <2>1, FaultsGrow, BoundsAssumption DEF TypeOK, QueueTypeOK
      <3> QED
        BY <2>5, <3>1 DEF TooMany, Attempted
    <2>6. CASE \E m \in Message : Waits(m, t)
      BY <2>1, <2>3, <2>6, MessagesKept DEF Attempted
    <2>7. ASSUME NEW v \in DOMAIN job, Works(v, t) PROVE Attempted(t)'
      <3>1. CASE v = w
        BY <1>1, <1>2, <2>1, <2>3, <2>7, <3>1, OwnWork DEF Attempted
      <3>2. CASE v # w
        BY <2>1, <2>3, <2>7, <3>2, OthersWork DEF Attempted
      <3> QED
        BY <3>1, <3>2
    <2> QED
      BY <1>2, <2>3, <2>4, <2>5, <2>6, <2>7 DEF Attempted
  <1>5. CASE GateStep \/ StatusStep \/ AdminStep \/ UNCHANGED vars
    <2>1. UNCHANGED <<tx, req, job>>
      BY <1>5, GateEffect, StatusEffect, AdminEffect DEF vars, tables
    <2>2. queue' = queue /\ faults' \in {faults, faults + 1}
      BY <1>5, StatusEffect, AdminEffect
         DEF vars, GateStep, GateNext, CallStep, CallFeature, CheckEntitlement, SpendCredits,
             CommitRun, RunFails, Fault
    <2>3. faults \in Nat /\ MaxRetries \in Nat /\ (\A m \in Message : m.retries \in Nat)
          /\ \A w \in DOMAIN job : job[w].msg.retries \in Nat
      BY BoundsAssumption DEF TypeOK, QueueTypeOK, Message, WorkerTypeOK, Job
    <2>4. Attempted(t)
      BY <1>2, <2>1
    <2> QED
      BY <2>1, <2>2, <2>3, <2>4 DEF Attempted, At, TooMany, Waits, Works
  <1> QED
    BY <1>3, <1>4, <1>5 DEF Next, Terminating

\* No single fault of the broker, the database or a worker leaves an accepted
\* purchase pending for ever with no task: self.retry, acks_late and the
\* publish after the commit see to it, for any number of calls and workers.
THEOREM NoneStrandedByOneFault == Spec => []StrandedOnlyByFaults
  <1>1. Init => PendingAttempted
    <2>1. Init => DOMAIN tx = {}
      BY DEF Init, TablesInit
    <2> QED
      BY <2>1 DEF PendingAttempted
  <1>2. IInv /\ PendingAttempted => StrandedOnlyByFaults
    BY DEF PendingAttempted, Attempted, StrandedOnlyByFaults, HasTask, TooMany, Waits, Works, Target
  <1>3. IInv /\ PendingAttempted /\ [Next]_vars => PendingAttempted'
    BY AttemptedStep
  <1> QED
    BY <1>1, <1>2, <1>3, Invariant, PTL DEF Spec

-----------------------------------------------------------------------------
(* What the answers of the status call include, although its three reads   *)
(* are no snapshot.                                                        *)

\* What call q knows after each of its reads, and what stays true of it.
Knows(q) ==
    LET u == poll[q].user
        t == poll[q].tx
        s == poll[q].state
    IN  poll[q].status = "completed" =>
          /\ t \in DOMAIN tx /\ tx[t].status # "pending" /\ tx[t].user = u
          /\ \E i \in DOMAIN ledger[u] :
               /\ ledger[u][i].ref = TxRef(t)
               /\ s \in {"entitlements", "answered"} =>
                    \E j \in DOMAIN ledger[u] : i <= j /\ ledger[u][j].after = poll[q].balance
          /\ s = "answered" => \A e \in ents : e.source = t => e.feature \in poll[q].entitlements

PollsKnow ==
    \A q \in DOMAIN poll :
        /\ poll[q].state \in {"balance", "entitlements"} => poll[q].status = "completed"
        /\ Knows(q)

\* No step of another actor takes away what a call knows.
LEMMA KnowledgeKept ==
    ASSUME IInv, [Next]_vars, NEW q \in DOMAIN poll, Knows(q), q \in DOMAIN poll',
           poll'[q] = poll[q]
    PROVE  Knows(q)'
  <1> USE DEF IInv
  <1> DEFINE u == poll[q].user
             t == poll[q].tx
  <1>1. SUFFICES ASSUME poll[q].status = "completed"
                 PROVE  Knows(q)'
    BY DEF Knows
  <1>2. /\ t \in DOMAIN tx /\ tx[t].status # "pending" /\ tx[t].user = u
        /\ poll[q].user \in Users
    BY <1>1 DEF Knows, TypeOK, TablesTypeOK, TxRow
  <1>3. t \in DOMAIN tx' /\ tx'[t].user = u
    BY <1>2, TxRowsKept
  <1>4. ASSUME tx'[t].status # "pending",
               \A i \in DOMAIN ledger[u] : i \in DOMAIN ledger'[u] /\ ledger'[u][i] = ledger[u][i],
               \A e \in ents' : e \in ents \/ e.source # t
        PROVE  Knows(q)'
    BY <1>1, <1>2, <1>3, <1>4 DEF Knows
  <1>5. CASE Idle
    BY <1>2, <1>4, <1>5 DEF Idle
  <1>6. ASSUME NEW s \in Requests, Granted(s)
        PROVE  Knows(q)'
    <2>1. t # s
      BY <1>2, <1>6 DEF Granted
    <2>2. tx'[t] = tx[t]
      BY <1>2, <1>6, <2>1, GrantedRows
    <2>3. \A e \in ents' : e \in ents \/ e.source # t
      BY <1>6, <2>1 DEF Granted
    <2> QED
      BY <1>2, <1>4, <1>6, <2>2, <2>3, GrantedLedger
  <1>7. ASSUME NEW c \in Calls, Ran(c)
        PROVE  Knows(q)'
    BY <1>2, <1>4, <1>7, RanRef, PostRows DEF Ran
  <1> QED
    BY <1>5, <1>6, <1>7, BooksStep

\* The last row of a ledger carries the balance.
LEMMA LastRow ==
    ASSUME TypeOK, RunningTotal, NEW u \in Users, DOMAIN ledger[u] # {}
    PROVE  \E j \in DOMAIN ledger[u] :
             ledger[u][j].after = wallet[u] /\ \A i \in DOMAIN ledger[u] : i <= j
  <1> DEFINE n == Len(ledger[u])
  <1>1. n \in Nat /\ DOMAIN ledger[u] = 1 .. n
    BY DEF TypeOK, TablesTypeOK
  <1>2. wallet[u] = Before(ledger[u], n + 1)
    BY DEF RunningTotal, Before
  <1> HIDE DEF n
  <1>3. n \in DOMAIN ledger[u] /\ Before(ledger[u], n + 1) = ledger[u][n].after
    BY <1>1 DEF Before
  <1> QED
    BY <1>1, <1>2, <1>3

\* What a call learns by its own reads.
LEMMA ReadsKnow ==
    ASSUME IInv, PollsKnow, StatusStep
    PROVE  PollsKnow'
  <1> USE DEF IInv
  <1>1. UNCHANGED tables
    BY StatusEffect
  <1>2. PICK q \in Polls : \/ \E u \in Users, t \in Requests : AskStatus(q, u, t)
                           \/ PollStep(q)
    BY DEF StatusStep, PollNext
  <1>3. ASSUME NEW p \in DOMAIN poll, p # q
        PROVE  p \in DOMAIN poll' /\ poll'[p] = poll[p]
    BY <1>2, <1>3 DEF PollStep, AskStatus, ReadStatus, ReadBalance, ReadOwned, Put
  <1>4. \A p \in DOMAIN poll' : p \in DOMAIN poll \/ p = q
    BY <1>2 DEF PollStep, AskStatus, ReadStatus, ReadBalance, ReadOwned, Put
  <1>5. ASSUME q \in DOMAIN poll' =>
                 /\ poll'[q].state \in {"balance", "entitlements"} => poll'[q].status = "completed"
                 /\ Knows(q)'
        PROVE  PollsKnow'
    BY <1>1, <1>3, <1>4, <1>5 DEF PollsKnow, Knows, tables
  <1>6. CASE \E u \in Users, t \in Requests : AskStatus(q, u, t)
    BY <1>5, <1>6 DEF AskStatus, Put, Knows
  <1>7. ASSUME PollStep(q)
        PROVE  /\ q \in DOMAIN poll /\ poll[q] \in Poll /\ DOMAIN poll' = DOMAIN poll
    BY <1>7 DEF PollStep, ReadStatus, ReadBalance, ReadOwned, Polling, TypeOK, PollTypeOK
  <1>8. CASE ReadStatus(q)
    <2>1. q \in DOMAIN poll /\ poll[q] \in Poll /\ poll[q].state = "status"
      BY <1>7, <1>8 DEF PollStep, ReadStatus, Polling
    <2>2. CASE ~Visible(q)
      <3>1. poll'[q] = [poll[q] EXCEPT !.state = "not_found"]
        BY <1>8, <2>1, <2>2 DEF ReadStatus
      <3>2. /\ poll'[q].state = "not_found" /\ poll'[q].status = poll[q].status
            /\ poll'[q].tx = poll[q].tx /\ poll'[q].user = poll[q].user
        BY <2>1, <3>1 DEF Poll
      <3> QED
        BY <1>1, <1>5, <2>1, <3>2 DEF PollsKnow, Knows, tables
    <2>3. CASE Visible(q)
      <3> DEFINE s == tx[poll[q].tx].status
      <3>1. poll'[q] = [poll[q] EXCEPT !.status = s,
                          !.state = IF s = "completed" THEN "balance" ELSE "answered"]
        BY <1>8, <2>1, <2>3 DEF ReadStatus
      <3>2. /\ poll'[q].state = IF s = "completed" THEN "balance" ELSE "answered"
            /\ poll'[q].status = s
            /\ poll'[q].tx = poll[q].tx /\ poll'[q].user = poll[q].user
        BY <2>1, <3>1 DEF Poll
      <3>3. CASE s # "completed"
        BY <1>5, <3>2, <3>3 DEF Knows
      <3>4. CASE s = "completed"
        <4>1. /\ poll[q].tx \in DOMAIN tx /\ tx[poll[q].tx].user = poll[q].user
              /\ \E i \in DOMAIN ledger[poll[q].user] :
                   ledger[poll[q].user][i].ref = TxRef(poll[q].tx)
          BY <2>3, <3>4 DEF Visible, GrantsMatchPurchases, Entries
        <4>2. Knows(q)'
          BY <1>1, <3>2, <3>4, <4>1 DEF Knows, tables
        <4> QED
          BY <1>5, <3>2, <3>4, <4>2
      <3> QED
        BY <3>3, <3>4
    <2> QED
      BY <2>2, <2>3
  <1>9. CASE ReadBalance(q)
    <2> DEFINE u == poll[q].user
    <2>1. q \in DOMAIN poll /\ poll[q] \in Poll /\ poll[q].state = "balance"
      BY <1>7, <1>9 DEF PollStep, ReadBalance, Polling
    <2>2. poll'[q] = [poll[q] EXCEPT !.state = "entitlements", !.balance = wallet[u]]
      BY <1>9, <2>1 DEF ReadBalance
    <2>3. /\ poll'[q].state = "entitlements" /\ poll'[q].balance = wallet[u]
          /\ poll'[q].status = poll[q].status
          /\ poll'[q].tx = poll[q].tx /\ poll'[q].user = poll[q].user
      BY <2>1, <2>2 DEF Poll
    <2>4. /\ poll[q].status = "completed" /\ u \in Users
          /\ poll[q].tx \in DOMAIN tx /\ tx[poll[q].tx].status # "pending"
          /\ tx[poll[q].tx].user = u
          /\ \E i \in DOMAIN ledger[u] : ledger[u][i].ref = TxRef(poll[q].tx)
      BY <2>1 DEF PollsKnow, Knows, Poll
    <2>5. \E j \in DOMAIN ledger[u] :
            ledger[u][j].after = wallet[u] /\ \A i \in DOMAIN ledger[u] : i <= j
      BY <2>4, LastRow
    <2>6. Knows(q)'
      BY <1>1, <2>3, <2>4, <2>5 DEF Knows, tables
    <2> QED
      BY <1>5, <2>3, <2>4, <2>6
  <1>10. CASE ReadOwned(q)
    <2> DEFINE u == poll[q].user
    <2>1. q \in DOMAIN poll /\ poll[q] \in Poll /\ poll[q].state = "entitlements"
      BY <1>7, <1>10 DEF PollStep, ReadOwned, Polling
    <2>2. poll'[q] = [poll[q] EXCEPT !.state = "answered", !.entitlements = Owned(u)]
      BY <1>10, <2>1 DEF ReadOwned
    <2>3. /\ poll'[q].state = "answered" /\ poll'[q].entitlements = Owned(u)
          /\ poll'[q].balance = poll[q].balance /\ poll'[q].status = poll[q].status
          /\ poll'[q].tx = poll[q].tx /\ poll'[q].user = poll[q].user
      BY <2>1, <2>2 DEF Poll
    <2>4. /\ poll[q].status = "completed" /\ Knows(q)
          /\ poll[q].tx \in DOMAIN tx /\ tx[poll[q].tx].user = u
      BY <2>1 DEF PollsKnow, Knows
    <2>5. \A e \in ents : e.source = poll[q].tx => e.feature \in Owned(u)
      BY <2>4 DEF EntitlementsAreBought, Owned
    <2>6. Knows(q)'
      BY <1>1, <2>1, <2>3, <2>4, <2>5 DEF Knows, tables
    <2> QED
      BY <1>5, <2>3, <2>6
  <1> QED
    BY <1>2, <1>6, <1>8, <1>9, <1>10 DEF PollStep

LEMMA PollsStep ==
    ASSUME IInv, PollsKnow, [Next]_vars
    PROVE  PollsKnow'
  <1>1. CASE StatusStep
    BY <1>1, ReadsKnow
  <1>2. CASE ~StatusStep
    <2>1. UNCHANGED poll
      BY <1>2, ApiEffect, WorkEffect, GateEffect, AdminEffect DEF Next, Terminating, vars
    <2> QED
      BY <2>1, KnowledgeKept DEF PollsKnow
  <1> QED
    BY <1>1, <1>2

\* An answer that says "completed" includes what the purchase brought, whatever
\* is committed between the three reads of get_transaction_status.
THEOREM AnswersIncludeGrants == Spec => []CompletedAnswerShowsGrant
  <1>1. Init => IInv /\ PollsKnow
    BY InitIInv DEF Init, PollInit, PollsKnow
  <1>2. IInv /\ PollsKnow /\ [Next]_vars => (IInv /\ PollsKnow)'
    BY IInvStep, PollsStep
  <1>3. IInv /\ PollsKnow => CompletedAnswerShowsGrant
    BY DEF PollsKnow, Knows, CompletedAnswerShowsGrant
  <1> QED
    BY <1>1, <1>2, <1>3, PTL DEF Spec

-----------------------------------------------------------------------------
(* The refinement.                                                         *)

LEMMA BookInit == Init => Book!Init
  <1> SUFFICES ASSUME Init PROVE Book!Init
    OBVIOUS
  <1>1. tx = [t \in {} |-> {}] /\ runs = [c \in {} |-> {}] /\ wallet = [u \in Users |-> 0]
    BY DEF Init, TablesInit
  <1>2. DOMAIN tx = {}
    BY <1>1
  <1>3. \A u \in Users : Owned(u) = {}
    BY DEF Init, TablesInit, Owned
  <1> QED
    BY <1>1, <1>2, <1>3 DEF Book!Init

\* The purchases credited grow by the one whose grant is committed.
LEMMA CreditedStep ==
    ASSUME IInv, [Next]_vars
    PROVE  /\ Idle \/ (\E c \in Calls : Ran(c)) => Credited' = Credited
           /\ \A s \in Requests : Granted(s) =>
                s \notin Credited /\ Credited' = Credited \cup {s}
  <1> USE DEF IInv
  <1>1. /\ DOMAIN tx \subseteq DOMAIN tx' /\ DOMAIN tx' \subseteq Requests
        /\ \A t \in DOMAIN tx : tx'[t].user = tx[t].user
        /\ \A t \in DOMAIN tx' : tx'[t].user \in Users
    BY TxRowsKept, TypeStep DEF TypeOK, TablesTypeOK, TxRow
  <1>2. GrantsMatchPurchases'
    BY IInvStep
  <1>3. \A t \in DOMAIN tx : t \in Credited <=> \E i \in DOMAIN ledger[tx[t].user] : ledger[tx[t].user][i].ref = TxRef(t)
    BY DEF Credited, Entries
  <1>4. \A t \in DOMAIN tx' : t \in Credited' <=>
          \E i \in DOMAIN ledger'[tx'[t].user] : ledger'[tx'[t].user][i].ref = TxRef(t)
    BY DEF Credited, Entries
  <1>5. Credited \subseteq DOMAIN tx /\ Credited' \subseteq DOMAIN tx'
    BY DEF Credited
  <1>6. CASE Idle
    <2>1. \A t \in DOMAIN tx' \ DOMAIN tx : t \notin Credited'
      <3>1. ASSUME NEW t \in DOMAIN tx' \ DOMAIN tx, t \in Credited'
            PROVE  FALSE
        <4>1. PICK i \in DOMAIN ledger'[tx'[t].user] : ledger'[tx'[t].user][i].ref = TxRef(t)
          BY <1>4, <3>1
        <4>2. tx'[t].status # "pending"
          BY <1>1, <1>2, <4>1 DEF GrantsMatchPurchases
        <4> QED
          BY <1>6, <3>1, <4>2 DEF Idle
      <3> QED
        BY <3>1
    <2>2. \A t \in DOMAIN tx : t \in Credited' <=> t \in Credited
      BY <1>1, <1>3, <1>4, <1>6 DEF Idle
    <2>3. Credited' = Credited
      BY <1>1, <1>5, <2>1, <2>2
    <2>4. ~\E s \in Requests : Granted(s)
      <3>1. ASSUME NEW s \in Requests, Granted(s)
            PROVE  FALSE
        <4>1. s \in DOMAIN tx /\ tx'[s].status = "completed" /\ tx[s].status = "pending"
          BY <3>1, GrantedRows DEF Granted
        <4> QED
          BY <1>6, <4>1 DEF Idle
      <3> QED
        BY <3>1
    <2> QED
      BY <2>3, <2>4
  <1>7. ASSUME NEW s \in Requests, Granted(s)
        PROVE  s \notin Credited /\ Credited' = Credited \cup {s}
    <2>1. /\ DOMAIN tx' = DOMAIN tx /\ s \in DOMAIN tx /\ tx[s].user \in Users
          /\ tx[s].status = "pending"
      BY <1>7, GrantedRows DEF Granted
    <2>2. s \notin Credited
      BY <2>1, PendingHasNoEntry DEF Credited
    <2>3. s \in Credited'
      <3>1. \E i \in DOMAIN ledger'[tx[s].user] : ledger'[tx[s].user][i].ref = TxRef(s)
        BY <1>7, GrantedLedger
      <3>2. tx'[s].user = tx[s].user
        BY <1>1, <2>1
      <3> QED
        BY <1>4, <2>1, <3>1, <3>2
    <2>4. ASSUME NEW t \in DOMAIN tx, t # s
          PROVE  t \in Credited' <=> t \in Credited
      <3>1. \A i \in DOMAIN ledger'[tx[t].user] :
              ledger'[tx[t].user][i].ref = TxRef(t) =>
                i \in DOMAIN ledger[tx[t].user] /\ ledger'[tx[t].user][i] = ledger[tx[t].user][i]
        BY <1>1, <1>7, <2>4, GrantedLedger, RefsDiffer
      <3>2. \A i \in DOMAIN ledger[tx[t].user] :
              i \in DOMAIN ledger'[tx[t].user] /\ ledger'[tx[t].user][i] = ledger[tx[t].user][i]
        BY <1>1, <1>7, <2>1, GrantedLedger
      <3> QED
        BY <1>1, <1>3, <1>4, <2>1, <3>1, <3>2
    <2> QED
      BY <1>5, <2>1, <2>2, <2>3, <2>4
  <1>8. ASSUME NEW c \in Calls, Ran(c)
        PROVE  Credited' = Credited
    <2>1. /\ \A v \in Users : \A i \in DOMAIN ledger[v] :
               i \in DOMAIN ledger'[v] /\ ledger'[v][i] = ledger[v][i]
          /\ \A v \in Users : \A i \in DOMAIN ledger'[v] :
               \/ i \in DOMAIN ledger[v] /\ ledger'[v][i] = ledger[v][i]
               \/ ledger'[v][i].ref = RunRef(c)
          /\ tx' = tx
      BY <1>8, RanRef, PostRows DEF Ran
    <2>2. \A t \in DOMAIN tx : t \in Credited' <=> t \in Credited
      BY <1>1, <1>3, <1>4, <2>1, RefsDiffer
    <2> QED
      BY <1>5, <2>1, <2>2
  <1> QED
    BY <1>6, <1>7, <1>8

\* The features held grow by those the grant inserts, and by no other step.
LEMMA HeldStep ==
    ASSUME IInv
    PROVE  /\ Idle \/ (\E c \in Calls : Ran(c)) => Held' = Held
           /\ \A s \in Requests : Granted(s) => \E new \in SUBSET Features :
                Held' = [Held EXCEPT ![tx[s].user] = @ \cup new]
  <1>1. UNCHANGED ents => Held' = Held
    BY DEF Held, Owned
  <1>2. ASSUME NEW s \in Requests, Granted(s)
        PROVE  \E new \in SUBSET Features : Held' = [Held EXCEPT ![tx[s].user] = @ \cup new]
    <2>1. PICK new \in SUBSET Features :
            ents' = ents \cup {[user |-> tx[s].user, feature |-> f, source |-> s] : f \in new}
      BY <1>2 DEF Granted
    <2>2. ASSUME NEW u \in Users
          PROVE  Owned(u)' = IF u = tx[s].user THEN Owned(u) \cup new ELSE Owned(u)
      <3> DEFINE rows == {[user |-> tx[s].user, feature |-> f, source |-> s] : f \in new}
      <3>1. \A f : f \in Owned(u)' <=> \E e \in ents \cup rows : e.user = u /\ e.feature = f
        BY <2>1 DEF Owned
      <3>2. \A f : (\E e \in rows : e.user = u /\ e.feature = f) <=> u = tx[s].user /\ f \in new
        <4>1. \A e \in rows : e.user = tx[s].user /\ e.feature \in new
          OBVIOUS
        <4>2. \A f \in new : \E e \in rows : e.user = tx[s].user /\ e.feature = f
          <5> SUFFICES ASSUME NEW f \in new
                       PROVE  \E e \in rows : e.user = tx[s].user /\ e.feature = f
            OBVIOUS
          <5> WITNESS [user |-> tx[s].user, feature |-> f, source |-> s] \in rows
          <5> QED
            OBVIOUS
        <4> HIDE DEF rows
        <4> QED
          BY <4>1, <4>2
      <3>3. \A f : f \in Owned(u) <=> \E e \in ents : e.user = u /\ e.feature = f
        BY DEF Owned
      <3> QED
        BY <3>1, <3>2, <3>3
    <2> QED
      BY <2>2 DEF Held
  <1> QED
    BY <1>1, <1>2 DEF Idle, Ran

\* Every step of the backend is a step of the book, or none.
LEMMA BookStep ==
    ASSUME IInv, [Next]_vars
    PROVE  [Book!Next]_(Book!bookVars)
  <1> USE DEF IInv
  <1>1. /\ DOMAIN tx \subseteq DOMAIN tx'
        /\ \A t \in DOMAIN tx : tx'[t].user = tx[t].user /\ tx'[t].credits = tx[t].credits
    BY TxRowsKept
  <1>2. CASE Idle
    <2>1. Credited' = Credited /\ Held' = Held /\ UNCHANGED <<wallet, runs>>
      BY <1>2, CreditedStep, HeldStep DEF Idle
    <2>2. CASE DOMAIN tx' = DOMAIN tx
      <3>1. Terms' = Terms
        BY <1>1, <2>2 DEF Terms
      <3> QED
        BY <2>1, <3>1 DEF Book!bookVars, Terms, Credited, Held
    <2>3. ASSUME NEW r \in Requests, NEW u \in Users, NEW n \in Credits,
                 r \notin DOMAIN tx, DOMAIN tx' = DOMAIN tx \cup {r},
                 tx'[r].user = u, tx'[r].credits = n
          PROVE  Book!Next
      <3>1. Book!Accept(r, u, n)
        BY <1>1, <2>1, <2>3 DEF Book!Accept, Book!With, Terms, Credited, Held
      <3> QED
        BY <3>1 DEF Book!Next
    <2>4. DOMAIN tx' = DOMAIN tx \/ Book!Next
      BY <2>3, OneRowAtATime
    <2> QED
      BY <2>2, <2>4
  <1>3. ASSUME NEW s \in Requests, Granted(s)
        PROVE  \E new \in SUBSET Features : Book!Credit(s, new)
    <2>1. /\ s \in DOMAIN tx /\ DOMAIN tx' = DOMAIN tx /\ UNCHANGED runs
          /\ wallet' = [wallet EXCEPT ![tx[s].user] = wallet[tx[s].user] + tx[s].credits]
      BY <1>3, GrantedRows DEF Granted, Post
    <2>2. s \notin Credited /\ Credited' = Credited \cup {s}
      BY <1>3, CreditedStep
    <2>3. Terms' = Terms
      BY <1>1, <2>1 DEF Terms
    <2>4. PICK new \in SUBSET Features : Held' = [Held EXCEPT ![tx[s].user] = @ \cup new]
      BY <1>3, HeldStep
    <2>5. Book!Credit(s, new)
      BY <2>1, <2>2, <2>3, <2>4 DEF Book!Credit, Terms, Credited, Held
    <2> QED
      BY <2>5
  <1>4. ASSUME NEW c \in Calls, Ran(c)
        PROVE  Book!Pay(c, call[c].user, call[c].feature)
    <2>1. Credited' = Credited /\ Terms' = Terms /\ Held' = Held
      BY <1>4, CreditedStep, HeldStep DEF Ran, Terms
    <2>2. /\ c \notin DOMAIN runs /\ wallet[call[c].user] >= Cost[call[c].feature]
          /\ runs' = Put(runs, c, [user |-> call[c].user, feature |-> call[c].feature])
          /\ wallet' = [wallet EXCEPT ![call[c].user] =
                           wallet[call[c].user] + (-Cost[call[c].feature])]
      BY <1>4 DEF Ran, Post
    <2>3. call[c].user \in Users /\ wallet[call[c].user] \in Int
          /\ Cost[call[c].feature] \in Nat /\ wallet \in [Users -> Int]
      BY <1>4 DEF Ran, TypeOK, TablesTypeOK
    <2>4. wallet' = [wallet EXCEPT ![call[c].user] =
                       wallet[call[c].user] - Cost[call[c].feature]]
      BY <2>2, <2>3
    <2> QED
      BY <1>4, <2>1, <2>2, <2>3, <2>4 DEF Book!Pay, Book!With, Put, Terms, Credited, Held, Ran
  <1>5. \A c \in Calls : Ran(c) => call[c].user \in Users /\ call[c].feature \in Features
    BY DEF Ran
  <1> QED
    BY <1>2, <1>3, <1>4, <1>5, BooksStep DEF Book!Next

\* The backend implements CreditBook: whatever its sessions, locks, messages and
\* retries do, a buyer sees purchases accepted, credited at most once with what was
\* accepted and with their features at the same moment, and runs of features that
\* are held paid out of a balance that covers them.
THEOREM BackendKeepsTheBook == Spec => BookSpec
  BY BookInit, BookStep, Invariant, PTL DEF Spec, Book!Spec, BookSpec

-----------------------------------------------------------------------------
(* The server of the pages.                                                *)

Failed == {t \in DOMAIN tx : tx[t].status = "failed"}

\* A step that posts nothing makes at most one purchase fail.
LEMMA FailedStep ==
    ASSUME IInv, [Next]_vars, Idle
    PROVE  Failed' = Failed \/ \E t \in Requests : t \notin Failed /\ Failed' = Failed \cup {t}
  <1> USE DEF IInv
  <1>1. DOMAIN tx \subseteq DOMAIN tx' /\ DOMAIN tx \subseteq Requests
    BY TxRowsKept DEF TypeOK, TablesTypeOK
  <1>2. PICK o : \A t \in DOMAIN tx : t # o => tx'[t] = tx[t]
    BY DEF Idle
  <1>3. /\ \A t \in DOMAIN tx : tx'[t].status \in {tx[t].status, "failed"}
        /\ \A t \in DOMAIN tx' \ DOMAIN tx : tx'[t].status = "pending"
    BY DEF Idle
  <1>4. Failed \subseteq Failed' /\ Failed' \subseteq Failed \cup {o}
    BY <1>1, <1>2, <1>3 DEF Failed
  <1>5. o \in Failed' => o \in Requests
    BY <1>1, <1>3 DEF Failed
  <1> QED
    BY <1>4, <1>5

\* A row reads as the server's: the grant of a completed purchase is in the
\* ledger, and that of a pending one is not.
LEMMA StatusesAgree ==
    ASSUME IInv
    PROVE  \A t \in DOMAIN tx : tx[t].status = Server!StatusOf(t)
  <1> SUFFICES ASSUME NEW t \in DOMAIN tx
               PROVE  tx[t].status = Server!StatusOf(t)
    OBVIOUS
  <1>1. t \in Requests /\ tx[t].user \in Users /\ tx[t].status \in {"pending", "completed", "failed"}
    BY DEF IInv, TypeOK, TablesTypeOK, TxRow
  <1>2. tx[t].status = "pending" => Entries(tx[t].user, TxRef(t)) = {}
    BY <1>1, PendingHasNoEntry DEF IInv
  <1>3. tx[t].status = "completed" => Entries(tx[t].user, TxRef(t)) # {}
    BY DEF IInv, GrantsMatchPurchases
  <1> QED
    BY <1>1, <1>2, <1>3 DEF Server!StatusOf

LEMMA ServerInit == Init => Server!Init
  BY DEF Init, TablesInit, Server!Init

LEMMA ServerStep ==
    ASSUME IInv, [Next]_vars
    PROVE  [Server!Next]_(Server!serverVars)
  <1> USE DEF IInv
  <1>1. CASE Idle
    <2>1. Credited' = Credited
      BY <1>1, CreditedStep
    <2>2. ASSUME NEW t \in Requests, t \notin Failed, Failed' = Failed \cup {t}
          PROVE  Server!Fail(t)
      BY <2>1, <2>2 DEF Server!Fail, Credited, Failed
    <2>3. Failed' = Failed => UNCHANGED Server!serverVars
      BY <2>1 DEF Server!serverVars, Credited, Failed
    <2> QED
      BY <1>1, <2>2, <2>3, FailedStep DEF Server!Next
  <1>2. ASSUME NEW s \in Requests, Granted(s)
        PROVE  Server!Grant(s)
    <2>1. s \notin Credited /\ Credited' = Credited \cup {s}
      BY <1>2, CreditedStep
    <2>2. s \notin Failed /\ Failed' = Failed
      BY <1>2, GrantedRows DEF Granted, Failed
    <2> QED
      BY <2>1, <2>2 DEF Server!Grant, Credited, Failed
  <1>3. ASSUME NEW c \in Calls, Ran(c)
        PROVE  UNCHANGED Server!serverVars
    <2>1. Credited' = Credited /\ Failed' = Failed
      BY <1>3, CreditedStep DEF Ran, Failed
    <2> QED
      BY <2>1 DEF Server!serverVars, Credited, Failed
  <1> QED
    BY <1>1, <1>2, <1>3, BooksStep DEF Server!Next

\* What the page is checked against is what the backend does: whatever calls,
\* workers, retries and crashes there are, purchases are granted once and fail as
\* the server of StorePurchase lets them, and their rows say so.
THEOREM BackendServesThePages == Spec => ServerSpec
  BY ServerInit, ServerStep, StatusesAgree, Invariant, PTL DEF Spec, Server!Spec, ServerSpec

-----------------------------------------------------------------------------
(* What a credited purchase unlocks.                                       *)

\* A worker about to commit inserts all the buyer lacks of the package.
InsertsTheRest(w) ==
    job[w].state = "commit" =>
        pkg[Bought(w)].features \subseteq job[w].new \cup Owned(Buyer(w))

Unlocks(t) == pkg[tx[t].package].features \subseteq Owned(tx[t].user)

UnlockInv ==
    edits = 0 =>
        /\ \A w \in DOMAIN job : InsertsTheRest(w)
        /\ \A t \in DOMAIN tx : t \in Credited => Unlocks(t)

\* Unless a step is an edit, packages stay as they are, and no step takes a
\* feature away.
LEMMA CatalogKept ==
    ASSUME IInv, [Next]_vars, edits' = 0
    PROVE  /\ edits = 0 /\ pkg' = pkg
           /\ \A u \in Users : Owned(u) \subseteq Owned(u)'
  <1> USE DEF IInv
  <1>1. edits = 0 /\ pkg' = pkg
    <2>1. CASE AdminStep
      <3>1. edits \in Nat /\ edits' = edits + 1
        BY <2>1, MaxEditsAssumption
           DEF AdminStep, AdminNext, CreatePackage, UpdatePackage, DeactivatePackage, Edit,
               TypeOK, AdminTypeOK
      <3> QED
        BY <3>1
    <2>2. CASE StatusStep
      BY <2>2, StatusEffect DEF tables
    <2>3. CASE ApiStep \/ WorkStep \/ GateStep
      BY <2>3, ApiEffect, WorkEffect, GateEffect
    <2>4. CASE Terminating \/ UNCHANGED vars
      BY <2>4 DEF Terminating, vars, tables
    <2> QED
      BY <2>1, <2>2, <2>3, <2>4 DEF Next
  <1>2. ents \subseteq ents'
    BY BooksStep DEF Idle, Granted, Ran
  <1> QED
    BY <1>1, <1>2 DEF Owned

\* A worker's record changes by its own steps, and the state before its commit is
\* entered by reading the entitlements.
LEMMA CommitEntered ==
    ASSUME TypeOK, [Next]_vars, NEW w \in DOMAIN job', job'[w].state = "commit"
    PROVE  \/ w \in DOMAIN job /\ job'[w] = job[w]
           \/ /\ w \in DOMAIN job /\ job'[w].msg = job[w].msg
              /\ job[w].state = "unlock"
              /\ job'[w].new = pkg[Bought(w)].features \ Owned(Buyer(w))
  <1>1. \A v \in DOMAIN job : job[v] \in Job
    BY DEF TypeOK, WorkerTypeOK
  <1>2. CASE UNCHANGED job
    BY <1>2
  <1>3. CASE WorkStep
    <2>1. PICK v \in Workers : WorkerStep(v) \/ WorkerFault(v)
      BY <1>3, WorkEffect
    <2>2. CASE ReadEntitlements(v)
      <3> DEFINE rest == pkg[Bought(v)].features \ Owned(Buyer(v))
      <3>1. /\ v \in DOMAIN job /\ job[v].state = "unlock"
            /\ job' = [job EXCEPT ![v] = [job[v] EXCEPT !.state = "commit", !.new = rest]]
        BY <2>2 DEF ReadEntitlements, InState
      <3> HIDE DEF rest
      <3>2. job'[v].msg = job[v].msg /\ job'[v].new = rest
        BY <1>1, <3>1 DEF Job
      <3> QED
        BY <3>1, <3>2 DEF rest
    <2>3. CASE \E m \in Message : Deliver(v, m)
      <3>1. PICK m \in Message :
              job' = Put(job, v, [msg |-> m, state |-> "select", balance |-> 0, new |-> {}])
        BY <2>3 DEF Deliver
      <3>2. w = v => job'[w] = [msg |-> m, state |-> "select", balance |-> 0, new |-> {}]
        BY <3>1 DEF Put
      <3> QED
        BY <3>1, <3>2 DEF Put
    <2>4. CASE Ack(v) \/ Crash(v)
      BY <2>4 DEF Ack, Crash, Drop
    <2>5. CASE Redeliver(v)
      BY <2>5 DEF Redeliver
    <2>6. CASE GrantCredits(v)
      <3>1. v \in DOMAIN job
            /\ job' = [job EXCEPT ![v] = [job[v] EXCEPT !.state = "unlock", !.balance = wallet[Buyer(v)]]]
        BY <2>6 DEF GrantCredits, InState
      <3> QED
        BY <1>1, <3>1 DEF Job
    <2>7. CASE \/ SelectTx(v) \/ PackageActive(v) \/ PackageInactive(v) \/ GrantOverflows(v)
               \/ CommitGrant(v) \/ MarkFailed(v) \/ Retry(v)
               \/ RaiseEarly(v) \/ RaiseLate(v) \/ MarkFailedRaises(v) \/ RetryLost(v)
      <3>1. \E st \in {"package", "ack", "grant", "retry", "failing"} :
              job' = [job EXCEPT ![v].state = st]
        BY <2>7 DEF SelectTx, PackageActive, PackageInactive, GrantOverflows, CommitGrant,
                    MarkFailed, Retry, RaiseEarly, RaiseLate, MarkFailedRaises, RetryLost, Proceed
      <3> QED
        BY <1>1, <3>1 DEF Job
    <2> QED
      BY <2>1, <2>2, <2>3, <2>4, <2>5, <2>6, <2>7 DEF WorkerStep, WorkerFault
  <1> QED
    BY <1>2, <1>3, ApiEffect, GateEffect, StatusEffect, AdminEffect DEF Next, Terminating, vars

LEMMA UnlockStep ==
    ASSUME IInv, UnlockInv, [Next]_vars
    PROVE  UnlockInv'
  <1> USE DEF IInv
  <1> SUFFICES ASSUME edits' = 0
               PROVE  /\ \A w \in DOMAIN job' : InsertsTheRest(w)'
                      /\ \A t \in DOMAIN tx' : t \in Credited' => Unlocks(t)'
    BY DEF UnlockInv
  <1>1. /\ pkg' = pkg
        /\ \A u \in Users : Owned(u) \subseteq Owned(u)'
        /\ \A w \in DOMAIN job : InsertsTheRest(w)
        /\ \A t \in DOMAIN tx : t \in Credited => Unlocks(t)
    BY CatalogKept DEF UnlockInv
  <1>2. /\ DOMAIN tx \subseteq DOMAIN tx'
        /\ \A t \in DOMAIN tx : tx'[t].user = tx[t].user /\ tx'[t].package = tx[t].package
        /\ \A t \in DOMAIN tx : tx[t].user \in Users
    BY TxRowsKept DEF TypeOK, TablesTypeOK, TxRow
  <1>3. ASSUME NEW w \in DOMAIN job', job'[w].state = "commit"
        PROVE  (pkg[Bought(w)].features \subseteq job[w].new \cup Owned(Buyer(w)))'
    <2>1. w \in DOMAIN job /\ job'[w].msg = job[w].msg /\ job[w].state \in {"unlock", "commit"}
      BY <1>3, CommitEntered
    <2>2. Target(w) \in DOMAIN tx
      BY <2>1 DEF ReferencesOK
    <2>3. Bought(w)' = Bought(w) /\ Buyer(w)' = Buyer(w) /\ Buyer(w) \in Users
      BY <1>2, <2>1, <2>2 DEF Bought, Buyer, Target
    <2>4. pkg[Bought(w)].features \subseteq job'[w].new \cup Owned(Buyer(w))
      BY <1>1, <1>3, CommitEntered DEF InsertsTheRest
    <2> QED
      BY <1>1, <2>3, <2>4
  <1>4. ASSUME NEW t \in DOMAIN tx', t \in Credited'
        PROVE  Unlocks(t)'
    <2>1. CASE t \in Credited
      <3>1. t \in DOMAIN tx /\ Unlocks(t)
        BY <1>1, <2>1 DEF Credited
      <3> QED
        BY <1>1, <1>2, <3>1 DEF Unlocks
    <2>2. CASE t \notin Credited
      <3>1. t \in DOMAIN tx /\ tx[t].status = "pending" /\ tx'[t].status = "completed"
        BY <1>4, <2>2, BooksStep, CreditedStep, GrantedRows DEF Granted
      <3>2. PICK w \in Workers : CommitGrant(w) /\ ~Conflicts(w)
        BY <3>1, StepKinds, RunPosts
      <3>3. /\ w \in DOMAIN job /\ job[w].state = "commit"
            /\ tx' = [tx EXCEPT ![Target(w)].status = "completed"]
            /\ ents' = ents \cup NewRows(w)
        BY <3>2, GrantPosts DEF CommitGrant, InState
      <3>4. t = Target(w)
        BY <3>1, <3>3
      <3>5. pkg[tx[t].package].features \subseteq job[w].new \cup Owned(tx[t].user)
        BY <1>1, <3>3, <3>4 DEF InsertsTheRest, Bought, Buyer
      <3>6. ASSUME NEW f \in job[w].new
            PROVE  f \in Owned(tx[t].user)'
        <4> DEFINE e == [user |-> tx[t].user, feature |-> f, source |-> t]
        <4>1. e \in ents' /\ e.user = tx[t].user /\ e.feature = f
          BY <3>3, <3>4 DEF NewRows, Buyer
        <4>2. tx'[t].user = tx[t].user
          BY <1>2, <3>1
        <4> QED
          BY <4>1, <4>2 DEF Owned
      <3> QED
        BY <1>1, <1>2, <3>1, <3>5, <3>6 DEF Unlocks
    <2> QED
      BY <2>1, <2>2
  <1> QED
    BY <1>3, <1>4 DEF InsertsTheRest

\* Nobody pays for features process_purchase does not insert, and nobody holds one
\* it did not insert for a purchase of theirs: what a worker reads under the lock
\* of the wallet is what is missing when it commits credits and features together.
THEOREM PurchasesAreUnlocked == Spec => []EntitlementsMatchPurchases
  <1>1. Init => UnlockInv
    BY DEF Init, WorkerInit, TablesInit, UnlockInv, Credited
  <1>2. IInv /\ UnlockInv /\ [Next]_vars => UnlockInv'
    BY UnlockStep
  <1>3. IInv /\ UnlockInv => EntitlementsMatchPurchases
    BY DEF IInv, UnlockInv, Unlocks, Credited, EntitlementsMatchPurchases, PurchasesUnlock
  <1> QED
    BY <1>1, <1>2, <1>3, Invariant, PTL DEF Spec

=============================================================================
