------------------------------ MODULE SeedBoot ------------------------------
(***************************************************************************)
(* The start of a container: entrypoint.sh, which migrates the schema and  *)
(* runs db/seed.py before it serves.  The backend and the Celery worker    *)
(* are started from one image, so two containers do this at once, and each *)
(* does it again whenever it is restarted, while the other is serving.     *)
(*                                                                         *)
(* The seed is one transaction of four flushes.  Under READ COMMITTED its  *)
(* reads see what others have committed; an INSERT of a key that another   *)
(* session has inserted waits for that session, and fails if it committed. *)
(***************************************************************************)
EXTENDS Integers

CONSTANTS
    Containers,   \* containers started from the image of the backend
    Accounts,     \* pairs of demo accounts that SEED_* settings can name
    Of,           \* Of[c]: the pair the settings of container c name
    Shared,       \* the owner of the rows all settings have in common
    Head,         \* number of migrations
    SeedBalance,  \* the balance of a demo buyer, 32 in seed.py
    Deltas,       \* what a purchase or a run adds to a balance
    MaxPosts,     \* bound on the purchases and runs of each demo buyer
    MaxCrashes,   \* bound on the crashes of one behaviour
    MaxWrites     \* bound on the administrator's writes of one behaviour

ASSUME AccountsAssumption == Of \in [Containers -> Accounts] /\ Shared \notin Accounts
ASSUME HeadAssumption == Head \in Nat \ {0}
ASSUME BalanceAssumption == SeedBalance \in Nat /\ Deltas \subseteq Int
ASSUME BoundsAssumption == MaxPosts \in Nat /\ MaxCrashes \in Nat /\ MaxWrites \in Nat

VARIABLES
    schema,     \* migrations applied
    rows,       \* how often each seeded row is in its table
    balance,    \* user_credits.balance of each demo buyer
    posted,     \* sum of the ledger rows of each demo buyer that are not seeded
    posts,      \* their number
    edited,     \* seeded packages in which an administrator's edit stands
    writes,     \* an administrator's writes so far
    boot,       \* the containers
    stale,      \* containers that hold an edited package as it is no more
    crashes,    \* crashes so far
    renamed,    \* history: seeded packages moved to other slugs and not seeded again
    reseeded    \* history: buyers whose changed balance a seed has set back

vars == <<schema, rows, balance, posted, posts, edited, writes, boot, stale, crashes,
          renamed, reseeded>>

-----------------------------------------------------------------------------

\* Two packages stand for the four: one of BUYER_PURCHASES and one of the others.
\* A row is identified by its slug, so a package that is renamed is another row.
Purchased == <<"starter", Shared>>
Packages == {Purchased, <<"growth", Shared>>}

\* Any slug that no seeded package has.
Elsewhere == <<"elsewhere", Shared>>

Item == Packages \cup {<<"features", Shared>>}
          \cup ({"admin", "user", "wallet", "transactions", "entitlements", "ledger"} \X Accounts)

\* credit_ledger has no key but its id.
Unique(i) == i[1] # "ledger"

\* What each of the four flushes inserts where it is missing.
Group(c, g) ==
    CASE g = 1 -> {<<"features", Shared>>}
      [] g = 2 -> Packages \cup {<<"admin", Of[c]>>}
      [] g = 3 -> {<<"user", Of[c]>>}
      [] g = 4 -> {"wallet", "transactions", "entitlements", "ledger"} \X {Of[c]}

Seed(c) == UNION {Group(c, g) : g \in 1 .. 4}

Wallet(a) == <<"wallet", a>>

\* missing is what the reads have not found and no flush has inserted yet, added
\* what the session has inserted; restore are the edited packages it sets back,
\* reset tells whether it sets a changed balance back.
Boot == [state : {"down", "migrate", "upgrade", "read", "flush", "commit", "serving"},
         version : 0 .. Head, group : 1 .. 4, missing : SUBSET Item, added : SUBSET Item,
         restore : SUBSET Packages, reset : BOOLEAN]

\* Every variable holds a value of its type.
TypeOK ==
    /\ schema \in 0 .. Head
    /\ rows \in [Item -> Nat]
    /\ balance \in [Accounts -> Int]
    /\ posted \in [Accounts -> Int]
    /\ posts \in [Accounts -> 0 .. MaxPosts]
    /\ edited \subseteq Packages /\ renamed \subseteq Packages
    /\ writes \in 0 .. MaxWrites
    /\ boot \in [Containers -> Boot]
    /\ stale \subseteq Containers
    /\ crashes \in 0 .. MaxCrashes
    /\ reseeded \subseteq Accounts

Down == [state |-> "down", version |-> 0, group |-> 1, missing |-> {}, added |-> {},
         restore |-> {}, reset |-> FALSE]

\* The first start: an empty database.
Init ==
    /\ schema = 0
    /\ rows = [i \in Item |-> 0]
    /\ balance = [a \in Accounts |-> 0]
    /\ posted = [a \in Accounts |-> 0]
    /\ posts = [a \in Accounts |-> 0]
    /\ edited = {} /\ renamed = {}
    /\ writes = 0
    /\ boot = [c \in Containers |-> Down]
    /\ stale = {}
    /\ crashes = 0
    /\ reseeded = {}

InState(c, state) == boot[c].state = state

Database == <<rows, balance, posted, posts, edited, writes, renamed, reseeded>>

\* Mutant: what has failed is tried again as it was.
Fail_SameAgain(c) == UNCHANGED vars

\* set -e: whatever fails ends the container; its transaction is rolled back.
Fail(c) ==
    /\ boot' = [boot EXCEPT ![c] = Down]
    /\ stale' = stale \ {c}
    /\ UNCHANGED <<schema, Database, crashes>>

-----------------------------------------------------------------------------
(* Migration: alembic upgrade head, one transaction.                       *)

Start(c) ==
    /\ InState(c, "down")
    /\ boot' = [boot EXCEPT ![c].state = "migrate"]
    /\ UNCHANGED <<schema, Database, stale, crashes>>

ReadVersion(c) ==
    /\ InState(c, "migrate")
    /\ boot' = [boot EXCEPT ![c].version = schema,
                            ![c].state = IF schema = Head THEN "read" ELSE "upgrade"]
    /\ UNCHANGED <<schema, Database, stale, crashes>>

\* The DDL of two containers excludes one another, and what the other has
\* created in the meantime cannot be created again.
Upgrade(c) ==
    /\ InState(c, "upgrade")
    /\ IF schema # boot[c].version THEN Fail(c)
       ELSE /\ schema' = Head
            /\ boot' = [boot EXCEPT ![c].state = "read"]
            /\ UNCHANGED <<Database, stale, crashes>>

-----------------------------------------------------------------------------
(* Seeding.                                                                *)

\* The reads of one group: which rows are missing, and which packages, or whether
\* the balance, are not as the seed wants them.
ReadGroup(c) ==
    /\ InState(c, "read")
    /\ LET g == boot[c].group IN
       boot' = [boot EXCEPT
         ![c].state = "flush",
         ![c].missing = @ \cup {i \in Group(c, g) : rows[i] = 0},
         ![c].restore = IF g = 2 THEN edited ELSE @,
         ![c].reset = g = 4 /\ rows[Wallet(Of[c])] > 0 /\ balance[Of[c]] # SeedBalance]
    /\ UNCHANGED <<schema, Database, stale, crashes>>

\* _get_or_create_user flushes only the user it creates; what comes before a
\* user who is there waits for the next flush (autoflush is off).
Flushes(c) ==
    CASE boot[c].group = 2 -> <<"admin", Of[c]>> \in boot[c].missing
      [] boot[c].group = 3 -> <<"user", Of[c]>> \in boot[c].missing
      [] OTHER -> TRUE

\* Whether the session has flushed what it wants of the packages, and so locks
\* each row it sets back.
HasFlushed(c) ==
    InState(c, "commit") \/ {<<"admin", Of[c]>>, <<"user", Of[c]>>} \cap boot[c].added # {}

Restoring(c, i) == i \in boot[c].restore /\ HasFlushed(c)

\* Another session's uncommitted rows or updates the flush of c must wait for.
Awaits(c, d) ==
    \/ \E i \in boot[c].missing \cap boot[d].added : Unique(i)
    \/ ~HasFlushed(c) /\ \E i \in boot[c].restore : Restoring(d, i)
    \/ boot[c].reset /\ boot[d].reset /\ Of[c] = Of[d] /\ InState(d, "commit")

\* The flush inserts a key that has been committed meanwhile, or gives a demo
\* purchase the id of a package that has none before it is flushed itself: a
\* NULL in transactions.package_id.  Nothing catches the IntegrityError.
Refused(c) ==
    \/ \E i \in boot[c].missing : Unique(i) /\ rows[i] > 0
    \/ boot[c].group = 4 /\ Purchased \in boot[c].missing

\* A package the flush sets back is not what was loaded: if its features are
\* others by now, grants to delete are gone or grants to insert are there.
SetsBackStale(c) == c \in stale /\ ~HasFlushed(c)

\* On to the next group, or to the commit.
GoOn(c, added, missing) ==
    boot' = [boot EXCEPT
       ![c].state = IF boot[c].group = 4 THEN "commit" ELSE "read",
       ![c].group = IF @ = 4 THEN 4 ELSE @ + 1,
       ![c].added = added,
       ![c].missing = missing]

\* Mutant: one flush at the end, which skips what is there by now (ON CONFLICT
\* DO NOTHING).
Flush_OnceSkipping(c) ==
    /\ InState(c, "flush")
    /\ boot[c].group = 4 => \A d \in Containers \ {c} : ~Awaits(c, d)
    /\ IF boot[c].group < 4 THEN GoOn(c, {}, boot[c].missing)
       ELSE GoOn(c, {i \in boot[c].missing : Unique(i) => rows[i] = 0}, {})
    /\ UNCHANGED <<schema, Database, stale, crashes>>

\* The INSERTs and UPDATEs, or an error that ends the start.
Flush(c) ==
    /\ InState(c, "flush")
    /\ Flushes(c) => \A d \in Containers \ {c} : ~Awaits(c, d)
    /\ \/ Flushes(c) /\ (Refused(c) \/ SetsBackStale(c)) /\ Fail(c)
       \/ /\ Flushes(c) /\ ~Refused(c) /\ GoOn(c, boot[c].added \cup boot[c].missing, {})
          /\ UNCHANGED <<schema, Database, stale, crashes>>
       \/ /\ ~Flushes(c) /\ GoOn(c, boot[c].added, boot[c].missing)
          /\ UNCHANGED <<schema, Database, stale, crashes>>

\* Mutants: the balance is set whatever was read; each group is committed by
\* itself, so a crash leaves a part.
Sets_Always(c) == TRUE
Commit_BeforeBelongings(c) ==
    /\ boot[c].state \in {"read", "commit"} /\ boot[c].group = 4
    /\ rows' = [i \in Item |-> IF i \in boot[c].added THEN rows[i] + 1 ELSE rows[i]]
    /\ balance' = IF InState(c, "commit") THEN [balance EXCEPT ![Of[c]] = SeedBalance] ELSE balance
    /\ boot' = [boot EXCEPT ![c] = [@ EXCEPT !.added = {},
                  !.state = IF InState(c, "commit") THEN "serving" ELSE "read"]]
    /\ UNCHANGED <<schema, posted, posts, crashes, edited, writes, renamed, reseeded, stale>>

\* Who has loaded one of these packages to set it back.
Loaded(packages) == {c \in Containers : boot[c].restore \cap packages # {}}

\* The UPDATE of a balance is emitted only where the value read was another; a
\* wallet that was missing is inserted with the balance.
Sets(c) == boot[c].reset \/ Wallet(Of[c]) \in boot[c].added

\* One commit for the whole seed; then the container serves.  Of a package that
\* was edited again after it was loaded, what was still the seed's then is not
\* written, so an edit may remain.
Commit(c) ==
    /\ InState(c, "commit")
    /\ rows' = [i \in Item |-> IF i \in boot[c].added THEN rows[i] + 1 ELSE rows[i]]
    /\ renamed' = renamed \ boot[c].added
    /\ \/ edited' = edited \ boot[c].restore
       \/ c \in stale /\ edited' = edited
    /\ balance' = IF Sets(c) THEN [balance EXCEPT ![Of[c]] = SeedBalance] ELSE balance
    /\ reseeded' = IF boot[c].reset THEN reseeded \cup {Of[c]} ELSE reseeded
    /\ boot' = [boot EXCEPT ![c] = [Down EXCEPT !.state = "serving"]]
    /\ stale' = (stale \cup Loaded(boot[c].restore)) \ {c}
    /\ UNCHANGED <<schema, posted, posts, writes, crashes>>

\* The container is killed or restarted, in whatever state.
Crash(c) ==
    /\ crashes < MaxCrashes /\ ~InState(c, "down")
    /\ crashes' = crashes + 1
    /\ boot' = [boot EXCEPT ![c] = Down]
    /\ stale' = stale \ {c}
    /\ UNCHANGED <<schema, Database>>

BootStep(c) ==
    Start(c) \/ ReadVersion(c) \/ Upgrade(c) \/ ReadGroup(c) \/ Flush(c) \/ Commit(c)

-----------------------------------------------------------------------------
(* What the containers that serve do to seeded rows.                       *)

Serving == \E c \in Containers : InState(c, "serving")

\* A purchase or a run of demo buyer a: the wallet and its ledger, under the
\* row lock of the wallet, which a seed that has updated it holds as well.
Post(a, delta) ==
    /\ Serving /\ rows[Wallet(a)] > 0 /\ posts[a] < MaxPosts
    /\ balance[a] + delta >= 0
    /\ ~\E c \in Containers : InState(c, "commit") /\ boot[c].reset /\ Of[c] = a
    /\ balance' = [balance EXCEPT ![a] = @ + delta]
    /\ posted' = [posted EXCEPT ![a] = @ + delta]
    /\ posts' = [posts EXCEPT ![a] = @ + 1]
    /\ UNCHANGED <<schema, rows, edited, writes, boot, stale, crashes, renamed, reseeded>>

\* The row of package i, which a seed that sets it back has locked.
CanWrite(i) ==
    /\ i \in Packages => rows[i] > 0
    /\ ~\E c \in Containers : Restoring(c, i)

\* PATCH: an administrator reprices a seeded package, deactivates it or changes
\* its features.
Edit(i) ==
    /\ Serving /\ writes < MaxWrites /\ CanWrite(i)
    /\ writes' = writes + 1
    /\ edited' = edited \cup {i}
    /\ stale' = stale \cup Loaded({i})
    /\ UNCHANGED <<schema, rows, balance, posted, posts, boot, crashes, renamed, reseeded>>

\* PATCH of a slug: the package is another row from now on, also for a seed that
\* has loaded it.  A package from elsewhere is one that was renamed or created
\* before; POST comes from elsewhere too.  The index refuses a slug that is
\* there, and waits for a session that has inserted it.
ChangeSlug(from, to) ==
    /\ Serving /\ from # to /\ CanWrite(from)
    /\ to \in Packages => rows[to] = 0 /\ \A c \in Containers : to \notin boot[c].added
    /\ IF from = Elsewhere THEN UNCHANGED writes ELSE writes < MaxWrites /\ writes' = writes + 1
    /\ rows' = [i \in Item |-> CASE i = from -> 0 [] i = to -> 1 [] OTHER -> rows[i]]
    /\ renamed' = (renamed \cup ({from} \cap Packages)) \ {to}
    /\ \E changed \in SUBSET ({to} \cap Packages) : edited' = (edited \ {from}) \cup changed
    /\ stale' = stale \cup Loaded({from})
    /\ boot' = [c \in Containers |-> [boot[c] EXCEPT !.restore = @ \ {from}]]
    /\ UNCHANGED <<schema, balance, posted, posts, crashes, reseeded>>

\* Everything serves and the bounds are reached: nothing is left to do.
Rest == (\A c \in Containers : InState(c, "serving")) /\ UNCHANGED vars

Next ==
    \/ \E c \in Containers : BootStep(c) \/ Crash(c)
    \/ \E a \in Accounts, delta \in Deltas : Post(a, delta)
    \/ \E i \in Packages : Edit(i)
    \/ \E from, to \in Packages \cup {Elsewhere} : ChangeSlug(from, to)
    \/ Rest

Spec == Init /\ [][Next]_vars

\* Docker restarts what has ended (restart: unless-stopped), and a container
\* that runs goes on.
FairSpec == Spec /\ \A c \in Containers : WF_vars(BootStep(c))

-----------------------------------------------------------------------------
(* What the rest of the system relies on.                                  *)

\* No seeded row is there twice, also no ledger row, which no key protects: a
\* second one would end every later seed (scalar_one_or_none).
SeededOnce == \A i \in Item : rows[i] <= 1

\* A container that serves has the schema and its whole seed, except for packages
\* an administrator has moved to other slugs since they were seeded, and a buyer
\* is never there with a part of what the seed gives, whoever crashed at what.
WholeSeeds ==
    /\ \A c \in Containers : InState(c, "serving") =>
         schema = Head /\ \A i \in Seed(c) : rows[i] > 0 \/ i \in renamed
    /\ \A a \in Accounts, part \in {"wallet", "transactions", "entitlements", "ledger"} :
         rows[<<part, a>>] = rows[<<"user", a>>]

\* A demo buyer's balance is the seeded one and what was posted since, unless
\* a seed found another balance than the seeded one and set it back: a seed
\* that found none to set back loses no posting made while it ran.
DriftOnlyByReseed ==
    \A a \in Accounts \ reseeded :
        rows[Wallet(a)] > 0 => balance[a] = SeedBalance + posted[a]

\* Once no container crashes any more all serve, although each may have ended
\* the other's start by inserting first, unless the slug of a package of the demo
\* purchases has been given up: no start survives that.
BootsServe ==
    \/ <>[](\A c \in Containers : InState(c, "serving"))
    \/ <>[](Purchased \in renamed)

=============================================================================
