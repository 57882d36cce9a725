---------------------------- MODULE CreditTables ----------------------------
(***************************************************************************)
(* The PostgreSQL tables of CreditOS (models/credits.py, models/catalog.py,*)
(* models/feature_run.py), the row locks SELECT ... FOR UPDATE takes on    *)
(* them, and services/credit_service.py, which posts to the wallet and to  *)
(* the ledger.  Every component of the backend extends this module: the    *)
(* tables are the state the components share.                              *)
(*                                                                         *)
(* The isolation level is READ COMMITTED.  A session's uncommitted writes  *)
(* are invisible to the others and to be undone at any moment, so they are *)
(* kept in the session's own record (its buffer) and reach the tables in   *)
(* the one step that models the COMMIT; row locks are held until then.     *)
(***************************************************************************)
EXTENDS Integers, Sequences

CONSTANTS
    Users,      \* buyers; each has a wallet row, inserted together with it
    Packages,   \* package ids
    Features,   \* feature keys; the features table is only ever seeded
    Keys,       \* normalized Idempotency-Key values
    Requests,   \* POST /purchases calls; also the id of the row a call inserts
    Calls,      \* POST /features/{key}/run calls; also the id of its run row
    Workers,    \* processes of the Celery worker pool
    Credits,    \* credit amounts a package may carry
    SeedPackages, \* the rows db/seed.py puts into packages before anything runs
    Cost,       \* Cost[f]: credits one run of feature f spends
    IntMax,     \* largest value of the INTEGER columns balance, balance_after
    Free        \* the holder of a row lock nobody holds

Sessions == Workers \cup Calls  \* the database sessions that take row locks

ASSUME CreditsAssumption == Credits \subseteq Nat \ {0}
ASSUME CostAssumption == Cost \in [Features -> Nat \ {0}]
ASSUME IntMaxAssumption == IntMax \in Nat
ASSUME SessionsAssumption == Workers \cap Calls = {} /\ Free \notin Sessions

VARIABLES
    tx,         \* transactions: a function from the ids present to the rows
    wallet,     \* user_credits.balance of each user
    ledger,     \* credit_ledger rows of each user, in the order of commits
    ents,       \* user_entitlements rows
    runs,       \* feature_runs: a function from the ids present to the rows
    pkg,        \* packages: a function from the ids present to the rows
    txLock,     \* holder of the row lock of each transaction
    walletLock  \* holder of the row lock of each wallet

tables == <<tx, wallet, ledger, ents, runs, pkg, txLock, walletLock>>

-----------------------------------------------------------------------------

TxRow == [user : Users, key : Keys, package : Packages, credits : Credits,
          status : {"pending", "completed", "failed"}]

Ref == [type : {"transaction"}, id : Requests] \cup [type : {"feature_run"}, id : Calls]

LedgerRow == [delta : Int, ref : Ref, after : Int]

Entitlement == [user : Users, feature : Features, source : Requests]

PackageRow == [active : BOOLEAN, credits : Credits, features : SUBSET Features]

RunRow == [user : Users, feature : Features]

ASSUME SeedAssumption ==
    /\ DOMAIN SeedPackages \subseteq Packages
    /\ SeedPackages \in [DOMAIN SeedPackages -> PackageRow]

TablesTypeOK ==
    /\ DOMAIN tx \subseteq Requests /\ tx \in [DOMAIN tx -> TxRow]
    /\ wallet \in [Users -> Int]
    /\ ledger \in [Users -> Seq(LedgerRow)]
    /\ ents \subseteq Entitlement
    /\ DOMAIN runs \subseteq Calls /\ runs \in [DOMAIN runs -> RunRow]
    /\ DOMAIN pkg \subseteq Packages /\ pkg \in [DOMAIN pkg -> PackageRow]
    /\ txLock \in [Requests -> Workers \cup {Free}]
    /\ walletLock \in [Users -> Sessions \cup {Free}]

\* Buyers have signed up (auth_service.signup: balance 0, no ledger row) and
\* have bought nothing yet; the catalog is the seeded one.
TablesInit ==
    /\ tx = [t \in {} |-> {}]
    /\ wallet = [u \in Users |-> 0]
    /\ ledger = [u \in Users |-> << >>]
    /\ ents = {}
    /\ runs = [c \in {} |-> {}]
    /\ pkg = SeedPackages
    /\ txLock = [t \in Requests |-> Free]
    /\ walletLock = [u \in Users |-> Free]

-----------------------------------------------------------------------------

\* f with the row x inserted or overwritten, and f without the row x.
Put(f, x, row) == [y \in DOMAIN f \cup {x} |-> IF y = x THEN row ELSE f[y]]
Drop(f, x) == [y \in DOMAIN f \ {x} |-> f[y]]

\* The feature keys a user holds.
Owned(u) == {e.feature : e \in {r \in ents : r.user = u}}

\* The ledger rows of user u that refer to r, as positions.
Entries(u, r) == {i \in DOMAIN ledger[u] : ledger[u][i].ref = r}

TxRef(t) == [type |-> "transaction", id |-> t]
RunRef(c) == [type |-> "feature_run", id |-> c]

-----------------------------------------------------------------------------
(* Row locks.                                                              *)

\* Mutants: the wallet is read with no FOR UPDATE; so is the transaction.
LockWallet_NoForUpdate(s, u) == walletLock' = [walletLock EXCEPT ![u] = s]
LockTx_NoForUpdate(s, t) == txLock' = [txLock EXCEPT ![t] = s]

\* SELECT ... FOR UPDATE waits until the row is free and holds it until the
\* session commits or rolls back.
LockWallet(s, u) ==
    /\ walletLock[u] = Free
    /\ walletLock' = [walletLock EXCEPT ![u] = s]

LockTx(s, t) ==
    /\ txLock[t] = Free
    /\ txLock' = [txLock EXCEPT ![t] = s]

\* COMMIT, ROLLBACK and the death of the session release what it holds.
ReleaseWallets(s) ==
    walletLock' = [u \in Users |-> IF walletLock[u] = s THEN Free ELSE walletLock[u]]

ReleaseTxs(s) ==
    txLock' = [t \in Requests |-> IF txLock[t] = s THEN Free ELSE txLock[t]]

-----------------------------------------------------------------------------
(* credit_service: grant_credits and spend_credits set the balance to a    *)
(* value computed from the one read under the lock, and append a ledger    *)
(* row that repeats it.                                                    *)

\* Mutant: the ledger row records the balance before the change.
Post_BalanceBefore(u, balance, delta, ref) ==
    /\ wallet' = [wallet EXCEPT ![u] = balance + delta]
    /\ ledger' = [ledger EXCEPT ![u] =
                    Append(@, [delta |-> delta, ref |-> ref, after |-> balance])]

Post(u, balance, delta, ref) ==
    /\ wallet' = [wallet EXCEPT ![u] = balance + delta]
    /\ ledger' = [ledger EXCEPT ![u] =
                    Append(@, [delta |-> delta, ref |-> ref, after |-> balance + delta])]

\* Mutant: the balance is not compared with the cost.
Affords_Unchecked(balance, amount) == TRUE

\* spend_credits raises InsufficientCreditsError before it writes anything.
Affords(balance, amount) == balance >= amount

\* A value above the width of the column makes the flush raise DataError.
Fits(n) == n <= IntMax

=============================================================================
