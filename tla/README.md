# CreditOS in TLA+

This directory specifies CreditOS, a shop for credit packages: a FastAPI
backend over PostgreSQL, Redis and Celery (`src/backend/app`) and a React
frontend (`src/frontend/src`). Buyers buy packages of credits, a package unlocks
features, and a run of a feature spends credits. The specification covers what
moves credits, what tells a buyer about it, how the catalog is changed, who a
browser thinks is logged in, and how a container starts; TLC checks it on small
instances and TLAPS proves much of it for all instances.

Paths below are relative to `src/`; `app/` is short for `backend/app/`.

## 1. Inventory

### 1.1 The parts, their state and their operations

| Part | State it keeps | Operations that change state | Module |
|---|---|---|---|
| Tables (`app/models/*.py`) | `transactions`, `user_credits`, `credit_ledger`, `user_entitlements`, `feature_runs`, `packages`; row locks | those of the parts below | `CreditTables` |
| Credits (`app/services/credit_service.py`) | none of its own | `grant_credits`, `spend_credits`: lock a wallet, set the balance, append a ledger row | `CreditTables` |
| Task queue (Celery over Redis, `app/worker/celery_app.py`) | messages waiting and delivered | publish, deliver, acknowledge, deliver again | `TaskQueue` |
| Purchase API (`app/routers/purchases.py`, `app/services/purchase_service.py`) | the calls under way | `POST /purchases`: replay check, package, INSERT, enqueue | `PurchaseApi` |
| Purchase worker (`app/worker/tasks.py`) | the task each process runs | `process_purchase`: lock, grant, unlock, commit; mark failed; retry | `PurchaseWorker` |
| Feature gate (`app/services/feature_service.py`) | the calls under way | `POST /features/{key}/run`: check, spend, record | `FeatureGate` |
| Purchase status (`get_transaction_status`) | the calls under way | none on the tables: three reads | `PurchaseStatus` |
| Catalog administration (`app/services/catalog_service.py`) | `packages`, `package_features` | POST, PATCH, DELETE of `/packages` | `CatalogRules`; its effect on purchases: `CatalogAdmin` |
| Catalog cache (`app/core/cache.py`, `app/routers/packages.py`) | one Redis key | fill by a buyer's GET, deletion by a write, expiry | `CatalogCache` |
| Purchase poller (`hooks/usePurchasePoller.ts`) | React state, `countRef`, `timerRef`, chains of requests and timers | `start`, `reset`, `poll` | `PurchasePoller` |
| Store page (`pages/Store.tsx`, `api/purchases.ts`) | modal, call under way, balance shown | open, pay, close, effect on completion | `StorePurchase` |
| Admin page (`pages/Admin.tsx`) | list, dialogs, form, calls under way | open, save, delete, load | `AdminPage` |
| Playground page (`pages/Playground.tsx`, `GET /wallet`) | wallet shown, runs and loads under way | run a feature, load the wallet | `Playground` |
| Browser session (`context/AuthContext.tsx`, `api/client.ts`, `app/routers/auth.py`) | cookie jar, localStorage, `user` of each tab | log in, log out, session check, redirect on 401 | `BrowserSession` |
| Start of a container (`backend/entrypoint.sh`, `app/db/seed.py`, Alembic) | schema version, seeded rows | migrate, seed, serve, crash | `SeedBoot` |
| Legacy purchase, dashboard, shell, load test | see section 7 | | none |

### 1.2 How they interact

The API and the worker share no memory. They meet in PostgreSQL, under READ
COMMITTED with `SELECT ... FOR UPDATE` on a transaction and on a wallet, and in
the broker. `POST /purchases` commits a `pending` row, then publishes a message,
then answers 202. A worker takes the message, locks the row, locks the wallet,
and commits balance, ledger row, entitlements and status together. The
page polls `GET /purchases/{id}/status` until it sees a final status. Feature
runs compete with workers for the wallet lock. An administrator edits packages
between any two statements of the others. Buyers read the packages through a
Redis key that the administrator's writes delete.

Administrators meet in the rows of `packages` and `package_features`: what a
request writes is the difference to what it loaded, and only the keys of the
tables hold between its SELECTs and its commit. The tabs of a browser share a
cookie jar and localStorage and nothing else. Backend and worker containers
start from one image, so each migrates and seeds the database, at once at the
first start and again at every restart, while the other may be serving.

### 1.3 What is hard, and what makes each part correct

* **One key, one purchase.** Two calls with one `Idempotency-Key` can both find
  nothing and both insert; the unique constraint decides and the loser replays
  the winner. Correct: `AnswersMatchTransactions`.
* **At-least-once delivery.** `acks_late`, redelivery, retries and crashes run a
  task several times, also at the same time. Correct: `PostedOnce`,
  `SettledForGood`, `GrantsMatchPurchases`.
* **Lost updates.** Workers and runs read a balance and write a new one.
  Correct: `RunningTotal`, `NeverOverdrawn`, `RunsArePaid`.
* **Stale reads.** The package is read at the POST, by the worker, and again for
  its features, and may be edited between. Correct: `GrantsMatchPurchases`,
  `NoEntitlementConflict`; for the status call, `CompletedAnswerShowsGrant`.
* **Credits with their features.** Two purchases of one buyer grant the same
  features, each may be retried or fail, and each inserts only what the other has
  not. Correct: `EntitlementsMatchPurchases`.
* **Partial failure.** A commit may succeed and still raise; a publish may be
  lost after the commit before it. Correct: `AcceptedSettles` with one fault; and
  the documents' claims of section 5.
* **Waiting.** Calls and workers wait for each other's locks. Correct:
  `NoCircularWait`, `CallsAnswered`.
* **A cache beside the database.** Filling and deleting are not atomic with the
  reads and commits. Correct: `StaleOnlyAfterRaceOrLoss`,
  `ServedStaleOnlyByRace`, `FreshInTheEnd`.
* **A page that outlives its requests.** Modals close while calls, polls and
  timers are under way. Correct: `OnePostAtATime`, `NoFalseSuccess`,
  `PollingEnds`.
* **A row left behind.** The row is committed before its task is published, and
  retries run out. Correct: `StrandedOnlyByFaults`: one fault of a worker or the
  broker never leaves a purchase pending for ever, and what does is named.
* **Writers of one catalog.** Slugs looked up and then written, PATCHes of one
  row at once, a form filled in from an old list. Correct: `SlugsUnique`,
  `OthersFieldsKept`, `FeaturelessOnlyBySkew`, `SlugAnswerHasCause`,
  `SeenInactiveStays`, `PageSettles`.
* **Answers out of order.** A page that shows each balance it is told.
  Correct: `RestIsUpToDate`, `CreditsComeWithFeatures`, `PageRests`.
* **One cookie, several tabs.** A session check answers after a logout, a
  logout after a login. Correct: `ShownIsSession`, `RedirectsEnd`.
* **Starting twice.** Two seeds at once, one of them killed. Correct:
  `SeededOnce`, `WholeSeeds`, `DriftOnlyByReseed`, `BootsServe`.

`PROJECT.json` lists each hazard at its line, with the properties for it. For some
of them the bad outcome is what the code does. The property then has it as a named
exception, and says that it is the only one, so it does not catch the hazard itself
but every other way to the same outcome: a seed that sets a demo balance back
(`reseeded` in `DriftOnlyByReseed`), the slug of a seeded package given up (`renamed`
in `WholeSeeds` and `BootsServe`), answers and tabs that overtake one another
(`sure` in `ShownIsSession`), overlapping PATCHes of grants (`skewed` in
`FeaturelessOnlyBySkew`), a form filled in from an old list (`shown` in
`SeenInactiveStays`), wallet answers out of order (`disturbed` in `RestIsUpToDate`),
and the success of an earlier purchase shown in a later modal (`NoFalseSuccess`).

## 2. Modules and plan

    CreditTables          tables, row locks, posting to wallet and ledger
      TaskQueue           the broker, the fault counter
        PurchaseApi  PurchaseWorker  FeatureGate  PurchaseStatus  CatalogAdmin
          CreditOS        composes the five; properties, fairness, IInv
            MCCreditOS         values for TLC
            CreditOS_proofs    types, locks, one transaction for a key
              PurchaseSafety_proofs    the invariant, the safety of purchases,
                                       waiting, status answers, refinements
    CreditBook            what the backend promises buyers about credits
    PurchaseServer        what it makes of purchases, as their status shows it
    CatalogCache          -> CatalogCache_proofs, MCCatalogCache
    PurchasePoller -> StorePurchase -> StorePurchase_proofs, MCStorePurchase
    CatalogRules -> AdminPage       -> AdminPage_proofs, MCAdminPage
    Playground                      -> Playground_proofs, MCPlayground
    BrowserSession                  -> BrowserSession_proofs, MCBrowserSession
    SeedBoot                        -> SeedBoot_proofs, MCSeedBoot

The order was: the credit core, since everything a buyer can lose is in it; its
abstract specification; the cache and the store page; then the browser session,
the start of containers, the rules of the catalog with its page, and the
playground. The modules of the second half keep their own small picture of the
tables (a history of commits, a row count, a function from ids to rows) rather
than extend `CreditTables`: their properties need other detail of them, and a
composition would multiply state spaces that share no race.

Two specifications are abstract. `CreditOS` implements `CreditBook` (`BookSpec`):
purchases are accepted, credited at most once together with their features, and
runs are paid for out of what is held. It implements `PurchaseServer` too
(`ServerSpec`), and `StorePurchase` takes the same module for its server, so what is
shown of the page holds over a server that the backend refines.

What is planned next:

1. The status call in `StorePurchase` in the three reads of `PurchaseStatus`; it
   answers in one step now.
2. A `CatalogServer` between `CatalogRules` and `CatalogAdmin`, as `PurchaseServer`
   is between `CreditOS` and `StorePurchase`: both change packages, with the edits
   of the one a part of those of the other.

## 3. How the modules correspond to the code

**Granularity.** One action is one database statement, one publish, one Redis
command or one browser event, with the Python or JavaScript around it up to the
next of these. Between two of them any other actor may act. `PROJECT.json`, "map",
gives the lines of each definition.

**Sessions.** What a session has flushed and not committed is invisible to
others and lost on rollback, so it stays in the session's own record
(`job[w]`, `call[c]`) and reaches the tables in the step of the COMMIT. Row locks
live in `txLock` and `walletLock` from the SELECT to the end of the session.
The balance a worker or a run writes is computed from the balance it *read*
(`job[w].balance`, `call[c].balance`), never from the table at commit, so that
taking the lock away loses updates in the model as it would in the database.

**PurchaseApi.** `Receive` is the call with a valid header; `Replay` is
`_replay_purchase`, both before the INSERT and after an IntegrityError;
`LoadPackage` copies the credits; `Insert` is flush and commit, with the unique
constraint; `Enqueue` is `process_purchase.delay` and the 202; `RequestFails` is
an exception, a lost publish or the death of the process. A fingerprint is
`package:<id>`, so comparing packages is comparing fingerprints. Prices are data
no property tells apart and are left out.

**PurchaseWorker.** `Deliver`, `SelectTx`, `PackageActive`/`PackageInactive`,
`GrantCredits`/`GrantOverflows`, `ReadEntitlements`, `CommitGrant`, `Retry`, `Ack`
are the task in its order. `RaiseEarly` (before the `try`) is retried with the
row still pending; `RaiseLate` (inside it) goes through `MarkFailed`, the
`except` clause that reads with no lock. A commit that succeeds and raises is the
second disjunct of `CommitGrant`. `Crash` returns the message to the broker;
`Redeliver` duplicates it while its worker lives. `processing` is flushed and
never committed (`tasks.py:32`), so it is no value of the model: no other session
ever sees it.

**FeatureGate, PurchaseStatus, CatalogAdmin.** One step per statement. The
entitlement is checked before the wallet is locked, as in the code; the status
call's three reads are three steps. `CatalogAdmin` has only the committed effect
of a write on what purchases read: credits, features and `active`. Its update may
leave a package with no feature, as two overlapping PATCHes can (`CatalogRules`).

**CatalogCache.** A catalog is the number of commits it includes, so that two
versions compare. A read is two statements (`selectinload`), and a cached value
therefore has two versions. `raced` is not in the code: it records that an
invalidation ran after the first statement and before the store.

**PurchasePoller, StorePurchase.** Each transaction has a chain: the request,
answer or timer that `poll` waits for. The hook's refs are one record for all
chains, as in the code: a second chain moves the count and the timer of the
first. `stop()` sets `abortedRef` and its only caller `reset()` clears it within
one event, so the flag is constantly false wherever it is read and has no
variable. The server is `PurchaseServer`: it settles a transaction at any moment,
and may mark it failed after its grant, as `PurchaseWorker` may; `ServerSpec` is the
claim that it does nothing else. A
timeout of the page has the status `"timeout"` to tell it from the server's
`failed`; in the code both are `failed`.

**CatalogRules.** `Begin` is a request up to its first check, `CheckSlug` the
SELECT by slug and, in a PATCH, the loading of its features, `CommitUpdate` and
`CommitCreate` flush and commit. SQLAlchemy writes what differs from what was
loaded, so `Changed`, `Removed` and `Granted` compare the patch with `loaded` and
not with the row of today. `RowRefused` and `GrantsHeld` are the constraints,
whose IntegrityError the code answers with `PACKAGE_SLUG_EXISTS`; `GrantsGone` is
SQLAlchemy's StaleDataError, which it does not catch. Name, badge, description,
price and credits are one field `body`, valid or not. `skewed` is
history: packages whose grants changed under a PATCH of them.

**AdminPage.** One action per event of `Admin.tsx`. A save is a call of
`CatalogRules` by the caller `Save(g)`, a delete one by `Del(g)`; other callers use
the API. `page[g].list` is the list of the last load and may be old, and
`form.shown` records what it said when the form was opened. Answers may be lost.
`sent` keeps the form as it was when Save was pressed.

**Playground.** The buyer's wallet is a `history` of commits, and what a page or an
answer holds is a position in it, so that "older" means something. `ServeRun` is
`run_feature` up to its commit, `RefreshBalance` the re-read after it, when the
lock is gone; `ReadBalance` and `ReadOwned` are the two statements of
`get_wallet`. `RunFails` includes a run that the server has committed or is yet to
serve (`orphan`).

**BrowserSession.** A tab has one request of each kind under way: the session
check of the mount, a login or signup, a logout, and another call. A request carries the
cookie of the moment it is sent, so its answer is fixed then. `Load` replaces the
document, by the redirect of `client.ts` or by the user, and drops what is under
way, but the answer of a login or logout may have reached the jar by then.
`sure` and `late` are history: whether an event the tab is not told of (expiry, an
answer for another tab, an earlier logout) has come since.

**SeedBoot.** A container is in one state of `entrypoint.sh`. The seed is four
groups of reads, each followed by its flush, and one commit; rows a session has
flushed stay in `added` until then. An INSERT of a key another session has
inserted waits for it (`Awaits`) and fails if it committed, which rolls the start
back and ends the container (`set -e`, `main` catches nothing); Docker starts it
again. `rows` counts each seeded row, since ledger rows have no key of their own.
Two packages stand for the four, one of `BUYER_PURCHASES` (`Purchased`) and one of
the others. A package is found by its slug, so a PATCH of the slug (`ChangeSlug`)
makes it another row: the seeded one is gone until a seed inserts it again or a
package is given its slug, and `renamed` records that. Any other PATCH is `Edit`,
which a seed undoes. `_get_or_create_user` flushes only a user it creates and the
session does not flush by itself (`session.py:10`), so in a container whose accounts
are there a package that is missing stays in `missing` up to the last flush, and
`_seed_buyer_transactions` gives a demo purchase the id it does not have yet: the
NULL of `Refused`. `stale` are containers that loaded a package before another write
of it; SQLAlchemy writes what differs from what was loaded, so such a seed may leave
part of the edit (`Commit`), or fail at a grant that is gone (`SetsBackStale`).

## 4. Runs

All runs end within three minutes on two cores. `Users`, `Keys` and
the rest are model values; symmetric only in safety runs, and only in sets no
constant distinguishes.

| Run | Question | Bounds |
|---|---|---|
| `purchase_races` | Do races of calls, workers, retries, crashes and edits keep purchases right, is none stranded by one fault, and does the backend implement `PurchaseServer`? | 2 calls, 2 keys, 2 packages, 2 workers, 1 retry, 2 faults, 1 edit |
| `wallet_races` | Do workers and runs at one wallet keep balances right, do credits come with their features, do they wait in a circle, and does the backend implement `CreditBook`? | 2 purchases, 2 runs, 2 workers, 2 features, balance at most 3, 1 fault |
| `status_reads` | Does a completed answer include what the purchase brought? | 2 buyers, 2 purchases, 1 run, 1 status call |
| `settling` | Is every accepted purchase settled and every call answered? | 2 purchases, 1 run, 2 workers, 1 fault, `FairSpec` |
| `catalog_cache` | When is the cache stale, and does it end? | 2 GETs, 2 administrators, 2 writes, `FairSpec` |
| `store_purchase` | Can the page show a success that did not happen, post twice, or poll for ever? | 2 purchases, 2 polls, `FairSpec` |
| `catalog_rules` | What do writers of one catalog do to one another, and to the page of one of them? | 1 page with its 2 calls and 2 API callers, 2 ids, 2 slugs, 2 features, 2 requests, `FairSpec` |
| `playground` | Does the wallet shown at rest account for every run the page started? | 2 runs of 2 features, 1 purchase, 3 loads, `FairSpec` |
| `browser_session` | Whose session does a tab show, and does it come to rest? | 2 tabs, 2 accounts, 2 logins, `FairSpec` |
| `seed_boot` | What do starts at once, crashes and restarts leave in the database? | 3 containers, 2 of one configuration and 1 of another, 2 migrations, 1 posting for each demo buyer, 1 crash, 1 edit or slug given up, `FairSpec` |

**Why the bounds are enough.** Each hazard is a race of two actors, so two of
each kind are there, and one wallet or one key for them to race for. Two calls
under two keys with two packages cover the same key with the same package, with
another package, and two purchases that grant the same feature. `MaxRetries = 1`
has both sides of the comparison (the code's 3 adds no new state of a task); two
faults allow one to hit the handling of the other, e.g. a lost commit
acknowledgement and then a redelivery. `Credits` 2 against costs 2 and 1 makes
balances on both sides of a cost; `IntMax = 3` in `wallet_races` lets a second
grant of 2 overflow, the code's 2^31-1 being out of reach of any number of small
purchases. Two polls before the page gives up stand for 40. `MaxEdits` and
`MaxWrites` cap the administrator, `MaxFaults` the environment: without them the
state space is infinite (the queue grows with every duplicate).

Two requests at once make every race of `CatalogRules`, as no check of it looks at
more than one other row; the patches are slug, active and features by themselves, with
explicit nulls, what the page sends, and a whole row. `doc_package_saved` needs one. In `playground`
each run can start in the shadow of the other's loads, and the mount's load is the
third. In `browser_session` two logins let a tab be overtaken by the other's login
as someone else, and by its own after a logout. In `seed_boot` the third container is
one whose `SEED_*` settings name other accounts, which is what `docker-compose.yml`
does to the worker where they are set for the backend. Its administrator writes
once: an edit, or a slug given up, which a package may then take again (`writes`
does not count that, as it needs a slug that was given up before). With
the crash that is enough for a seed that is interrupted, overtaken or repeated on
either; 505 thousand states. Several writes in one behaviour are covered by
the proofs of its safety properties only.

**Deadlock** is checked in every run. `SeedBoot` and `Playground` rest in a step of
that name, enabled only when every container serves or no request is under way.
`CreditOS` ends in `Terminating`, which is enabled only when every call is answered
and no task is left, so a wait that ends never is reported where all actors are
caught in it. `NoCircularWait` says more: no circle of some of them is left while
others go on, and nobody waits for a lock that its session left behind. Workers lock a transaction before a wallet, runs lock only a wallet, and
`failed` is written after a rollback; from this order `WaitingEnds` follows for any
number of them.

**What each property excludes.** For every property of a passing run,
`PROJECT.json` lists a mutant: a plausible bug of the code (no `FOR UPDATE`, an
unchecked status, a credit taken from the package of today, a key deleted that is
not the one read, ...) under which TLC finds the property violated.

### Fairness

* `CreditOS!FairSpec`: weak fairness of each handler and each worker. The thread
  pool of the API and the prefork pool of Celery run their work to its end, and
  PostgreSQL queues waiters for a row, so that nobody starves. Not fair: arrival
  of calls, edits, faults, and `RequestFails` in particular.
* `AcceptedSettles` holds in `settling` with one fault. With more it does not,
  and cannot: faults may use up all retries, and nothing then sets the row to
  `failed` (section 5). It speaks of *accepted* calls: one whose publish is lost
  never answers 202. `StrandedOnlyByFaults` is the safety side of it.
* `CatalogCache!FairSpec`: a handler goes on to its end or fails, and Redis
  expires keys.
* `StorePurchase!FairSpec`: a request is answered or rejected, and a timer
  fires. Nothing of the buyer is fair, and neither is the worker.
* `AdminPage!FairSpec`: a request under way at the server and an answer under way
  to the page come to their end. Administrators and API callers owe nothing.
* `Playground!FairSpec`: every request ends, answered or not.
* `BrowserSession!FairSpec`: a redirect is carried out (weak), and a session check
  that is asked again and again, by one document after another, is answered once
  (strong): a network that loses every `getMe` would let `/login` and the page
  behind it send a tab to each other for ever, and the code has nothing against that.
* `SeedBoot!FairSpec`: a container that runs goes on, and Docker starts one that has
  ended (`restart: unless-stopped`). Crashes are bounded, not fair.

## 5. Where the code and the documents disagree

Two are runs that TLC ends with a counterexample to what a document or the
program itself says.

| Run | Document | Code |
|---|---|---|
| `doc_failed_no_credits` | design 35: `failed` means "no credits granted" | `tasks.py:74-84` writes `failed` also when only the acknowledgement of the commit was lost; the credits stay |
| `doc_package_saved` | `Admin.tsx:134`: "Package saved. Catalog updated." | the page sends the ticked grants as `features`; `PackageUpdate` knows `feature_keys` only and ignores the rest, so the PATCH succeeds and the grants stay (and a POST, which requires `feature_keys`, is always 422) |

"design" is `docs/scaling-hardening-design.md`. More disagreements show in the
modules and need no run of their own:

* Design 32 says a `pending` row has its task enqueued. A crash or a refused
  publish between the commit and `delay` (`routers/purchases.py:34-39`,
  `RequestFails`) leaves one that has none; `StrandedOnlyByFaults` has this case as
  its first exception.
* Design 35 says `failed` follows exhausted retries. The first exception inside the
  `try` marks the row, and the retries then find nothing to do (`MarkFailed`).
* Design 124 says the end of the retries sets `failed`. Nothing does; a row whose
  attempts all failed before the `try` stays `pending` (`RetryLost`, `Again`).
* `processing` is never committed, so a purchase never goes through it as design
  28 says (`tx` has no such status).
* README 166 says the cache is "invalidated on admin POST/PATCH/DELETE". A read
  overtaken by the invalidation stores the old list after it, for a time to live
  (`raced` in `CatalogCache`).
* README 167 names an "abort guard". `reset()` clears the flag it has just set, so
  a late answer sets the state of the next modal (`PurchasePoller`).
* The page's timeout is the state `failed` (`usePurchasePoller.ts:40-47`,
  `TimerFires`), where design 404 wants it to be "not an error".
* README 535 says the seed "skips existing rows". It sets the seeded packages and
  the demo buyer's balance back (`seed.py:140-146`, `155`; `Commit` of `SeedBoot`).
* README 535 calls the seed "idempotent". Once an administrator has changed the
  slug of `starter` or `creator` (`catalog_service.py:118-129`), it is not: the next
  seed adds the package anew (`seed.py:136-139`), flushes it only at the end, and
  writes its id, still `None`, into `transactions.package_id` (`seed.py:187`). The
  column is NOT NULL, so every start of a container whose accounts exist fails
  (`Refused` of `SeedBoot`), until a package has that slug again. `BootsServe` has
  this case as its second disjunct; without it TLC shows the loop.
* `docs/VERIFICATION.md` 132 says `GET /wallet/purchases` returns "Completed
  transactions". `list_purchases` has no condition on the status.
* A PATCH with an explicit null, and one that grants what another request has
  just granted, are answered with "slug exists" (`SlugAnswerHasCause` lists the
  causes that answer has).

## 6. Proofs

TLAPS checks these for all values of the constants: any number of users, calls,
keys, packages, workers, retries, faults, polls and writes.

| Module | Theorems |
|---|---|
| `CreditOS_proofs` | `TypeCorrect`, `KeysAreIdempotent` |
| `PurchaseSafety_proofs` | `Invariant`, `NothingPostedTwice`, `GrantsAreRight`, `LedgerAddsUp`, `BalancesInRange`, `RunsPaid`, `NoConflictAtCommit`, `WaitingEnds`, `SettledStaysSettled`, `NoneStrandedByOneFault`, `AnswersIncludeGrants`, `PurchasesAreUnlocked`; `BackendKeepsTheBook`: `CreditOS` implements `CreditBook`; `BackendServesThePages`: it implements `PurchaseServer` |
| `CatalogCache_proofs` | `CacheInvariant`, `CacheTypes`, `StaleIsExplained`, `OldAnswersAreRaces` |
| `StorePurchase_proofs` | `PageInvariant`, `PageTypes`, `NoSecondPost`, `SuccessIsTrue` |
| `AdminPage_proofs` | `AdminInvariant`, `AdminTypes`, `SlugsStayUnique`, `FeaturelessMeansSkew`, `FieldsAreKept`, `SlugAnswersAreCaused`, `InactiveStays` |
| `Playground_proofs` | `PlayInvariant`, `PlayTypes`, `FeaturesComeWithCredits`, `RestShowsEveryRun` |
| `BrowserSession_proofs` | `SessionInvariant`, `SessionTypes`, `ShownUserIsReal` |
| `SeedBoot_proofs` | `SeedInvariant`, `SeedTypes`, `NoRowTwice`, `NoPartOfASeed`, `NoOtherDrift` |

Every safety invariant and every action property that a passing run checks is a
theorem too, and so are both refinements. The type invariants of `CatalogCache`,
`StorePurchase`, `BrowserSession` and `SeedBoot` are theorems only.

### The invariant of CreditOS

None of the properties is inductive alone. `CreditOS!IInv` adds:

* `ReferencesOK`: a worker past its SELECT, and a row, refer to rows that exist.
  `TypeOK` needs it already: without it `CommitGrant` could write a row for a
  transaction there is none of.
* `RowsHaveWriters`: a transaction has the id and the input of the call that
  inserted it, and that call is past its INSERT. So a call that comes to its
  INSERT has no row yet, and a run that comes to its commit is not recorded yet:
  a reference in the ledger is new whenever it is posted.
* `WorkersHoldLocks`: a worker past its status check holds the row lock of its
  transaction, which is still pending; past its wallet's SELECT it holds the
  wallet's lock, and the balance and the entitlements it read are the current
  ones. This is what the two `FOR UPDATE` are for.
* `RunsHoldLocks`: the same of a feature run and the wallet. The entitlement it
  checked earlier, with no lock, is still there because none is ever removed.

`StepKinds` then reduces every step to one of three (`BooksStep`): a commit
that grants (`Granted`), a commit that charges (`Ran`), or a step that leaves
the books alone and at most inserts a pending row or makes a row failed
(`Idle`). Only the first two post, each exactly one ledger row (`PostRows`) under a
reference not used before. From these follow each property's step, and the
refinements. In `CreditBook`, `Granted` is `Credit`, `Ran` is `Pay`, and `Idle` is
`Accept` or a stutter (`BookStep`); that a grant brings exactly its features and that
nothing takes one away is `HeldStep`. In `PurchaseServer`, `Granted` is `Grant`, `Ran` is
a stutter, and `Idle` is `Fail` or a stutter (`ServerStep`), since it makes at most one
purchase fail (`FailedStep`). `StatusesAgree` needs no step: a row is `completed`
exactly if its grant is in the ledger and it has not failed.

`WaitingEnds` needs the converse of `WorkersHoldLocks` and `RunsHoldLocks`,
`LocksHaveHolders`: a row lock that is taken is held by a session that is still at
work, a transaction's by a worker whose task it is, and a wallet's by one past its
SELECT of the wallet. Without it a failed run could leave a wallet locked, and
every worker that comes to the wallet would wait for nobody. A worker that waits for
a transaction waits for a worker past its first SELECT, that one waits at most for a
wallet, and who holds a wallet waits for nothing (`WaitsAreShort`).

`AnswersIncludeGrants` adds `PollsKnow`: after each of its three reads a status
call knows something that no later step takes back. This is why reading the
status first is right and reading it last would not be.

`PurchasesAreUnlocked` adds `UnlockInv`: a worker about to commit has read all that
the buyer lacks of the package (`InsertsTheRest`), and a credited purchase has
unlocked its package (`Unlocks`). The state before the commit is entered only by
reading the entitlements (`CommitEntered`), and what was there then stays
(`CatalogKept`). That no more than this is held is `EntitlementsAreBought`, which is
a part of `IInv`.

`NoneStrandedByOneFault` rests on `PendingAttempted`: a pending purchase is about
to be published, or its call has failed, or some message or worker that still has
it to do has been retried no oftener than there were faults (`Waits`, `Works`). The
count is what makes this inductive: a worker that gives up for want of retries
has then seen more faults than `MaxRetries`, and a worker that finds nothing to do
has found the row settled.

### The rules of the catalog and its page

`AdminPage_proofs!AdminInv` adds two things.

* `UnderWay`: what the checks in Python have established of a request that is still to
  commit, e.g. that the features it names are known ones and at least one. It says nothing of the catalog, which may have moved on: `SlugsUnique`
  follows from the index at the commit alone (`SlugHeld`), and the proof has no use for
  the SELECT by slug before it. If the grants are still those that were loaded, the
  PATCH leaves the features it names, so not none; if they are not, the package is
  skewed by its own commit, which is `FeaturelessOnlyBySkew`.
* `WritesAsSent` and `TickedIsShown`: a call of the page sends what its form said when
  Save was pressed, and a form has Active ticked only if the list showed the package
  active or the administrator ticked it. `InactiveStays` follows a commit back through
  both.

`OthersFieldsKept` and `SlugAnswerHasCause` need no more than `RulesInv`: their proofs
go through the three kinds of commit (`CommitUpdate`, `CommitCreate`, and the commits
that are refused).

### The playground

`Playground_proofs!PlayInv` orders the positions in `history` that loads and runs have
read. A load reads its balance before its features (`ReadInOrder`) and features are
never taken away (`OwnedGrows`), from which `FeaturesComeWithCredits` follows; read the
other way round, it would not. `Recovers` is what makes `RestIsUpToDate` inductive: while
nothing is disturbed, either the page shows a balance no older than its last run, or
something that will bring one is under way (`Brings`: a run's answer, or a load that
reads late enough), and the same for the order of what it shows.

### The other modules

`CatalogCache_proofs!IInv` extends each of the two claims about the cached value to
the values calls have read and not yet stored (`OldWasRaced`, `StaleWasRaced`): a
value stored after an invalidation was known to be overtaken before it was stored.

`StorePurchase_proofs!IInv` says that `purchasing` stays true while a call is under
way (`SentKeepsDisabled`), that only accepted purchases are polled
(`ChainsAreAccepted`), and that an answer under way reports nothing that is not
so (`AnswersAreTrue`); grants being final, it does not become false on its way.

`BrowserSession_proofs!SessionInv` adds `ChecksAreCurrent`: a session check that
nothing has overtaken was sent under the cookie of now, so its answer may be
believed when it comes.

`SeedBoot_proofs!SeedInv` relates what a container has found missing or inserted to
the tables. `Apart`: two open sessions never hold the same key (one waits).
`BootOK`: keyed rows in `added` are in no table yet, and what a group has read is
missing, inserted, there, or a package renamed since (`ChangeSlugStep`: a slug that is
given up enters `renamed`, and one that is taken was free in tables and sessions). `GiftsOK`: whoever inserts a wallet, a transaction, an
entitlement or a ledger row of a buyer inserts the buyer in the same transaction,
which protects the ledger rows, which have no key.

### Assumptions

The proofs assume of the constants only the `ASSUME`s of the modules, which TLC
evaluates in the runs: `Credits` are positive (`CreditsAssumption`; `_validate_positive` of
`catalog_service.py` sees to it), and so are costs; `IntMax` and the bounds are naturals; workers and calls
are different sessions; the seeded packages are packages; `Empty` is no catalog.
`BoundsAssumption`, `MaxEditsAssumption` and `MaxWritesAssumption` say no more than
that a bound is some natural number, so that the theorems hold whatever the
bound. Of `SeedBoot` they assume that each container has one pair of accounts and
that there is a migration; of `BrowserSession`, that nobody is no account. Of
`CatalogRules` they assume that the seeded packages have different slugs and a feature
each (`SeededAssumption`: `PACKAGES` of `app/db/seed.py` under the unique index of
`models/catalog.py`) and that a payload gives a field a value of its type or null
(`PatchesAssumption`: what `schemas/catalog.py` lets through); of `AdminPage`, that the
callers are its calls and the API's clients and that what the page sends is a payload.
`Playground` has costs and credits in the naturals. No set is assumed finite.

### What is only model-checked

Liveness (`AcceptedSettles`, `CallsAnswered`, `FreshInTheEnd`, `PollingEnds`,
`PageSettles`, `PageRests`, `RedirectsEnd`, `BootsServe`) and absence of deadlock in
TLC's sense: TLAPS proves nothing about fairness or `ENABLED`. `WaitingEnds` is the part
of the latter that can be said without them. The counterexamples of section 5 are runs
by nature.

## 7. Not modelled

* `purchase_package` (`purchase_service.py:98-172`), the synchronous purchase: no
  route calls it any more.
* `GET /wallet/purchases` and `/wallet/ledger`: single reads of rows that
  `CreditOS` has, formatted. The dashboard, which shows them, keeps nothing.
* Password hashing, JWT, CSRF tokens, roles, the `Authorization` header and rate
  limits: the models start from calls that passed them. The CSRF cookie is set and
  deleted with the other one. `Signup.tsx` is `Login.tsx` with another call.
* The rest of the store page: its first load, which features a package unlocks,
  and unmounting.
* In `CatalogRules`: duplicate `feature_keys` in one request, and the deadlocks
  that PostgreSQL may detect between two transactions that delete several grants
  in different orders (it would end one of them with a 500, as `GrantsGone` does).
* In `SeedBoot`: downgrades, and the columns a migration adds; the password, role
  and initials a seed may rewrite; the signup of a user under a demo address; and
  the locks foreign keys take, for which a seed may wait longer than here.
* The load test and its validator, which are clients of the system.
* Price, names, mock results, formatting: data that no property tells apart.
* Serialization failures cannot occur under READ COMMITTED. PostgreSQL's own
  crashes are faults of single statements here: what was committed stays.
