---------------------------- MODULE CatalogCache ----------------------------
(***************************************************************************)
(* GET /packages of a buyer behind the Redis cache (core/cache.py) and the *)
(* administrator's writes that delete it (routers/packages.py).  A catalog *)
(* is abstracted to the number of commits it includes.  Several API        *)
(* processes serve buyers and administrators at once; Redis has no         *)
(* transaction in common with PostgreSQL.  An administrator's own GET      *)
(* bypasses the cache.                                                     *)
(***************************************************************************)
EXTENDS Integers

CONSTANTS
    Buyers,     \* GET /packages calls that may run at the same time
    Admins,     \* catalog writes that may run at the same time
    MaxWrites,  \* bound on the writes of one behaviour
    Empty       \* what cache_get returns on a miss

ASSUME MaxWritesAssumption == MaxWrites \in Nat

VARIABLES
    catalog,    \* commits of the packages and package_features tables
    cache,      \* the value under PACKAGES_CACHE_KEY, or Empty
    get,        \* what each buyer's call does, and what it has read so far
    write,      \* what each administrator's call does
    lost,       \* an invalidation was lost and none has succeeded since
    announced   \* the latest commit whose write was answered with success

vars == <<catalog, cache, get, write, lost, announced>>

Version == 0 .. MaxWrites

\* rows and grants come from two statements; raced is not in the code: it says
\* that an invalidation ran between the first of them and now.
Entry == [rows : Version, grants : Version, raced : BOOLEAN]

ASSUME EmptyAssumption == Empty \notin Entry

\* since is the latest announced commit when the call arrived.
Get == [state : {"idle", "get", "rows", "grants", "set", "served"},
        seen : Entry, since : Version]

Write == [state : {"idle", "invalidate"}, version : Version]

TypeOK ==
    /\ catalog \in Version
    /\ cache \in Entry \cup {Empty}
    /\ get \in [Buyers -> Get]
    /\ write \in [Admins -> Write]
    /\ lost \in BOOLEAN
    /\ announced \in Version

Nothing == [rows |-> 0, grants |-> 0, raced |-> FALSE]

Init ==
    /\ catalog = 0
    /\ cache = Empty
    /\ get = [b \in Buyers |-> [state |-> "idle", seen |-> Nothing, since |-> 0]]
    /\ write = [a \in Admins |-> [state |-> "idle", version |-> 0]]
    /\ lost = FALSE
    /\ announced = 0

-----------------------------------------------------------------------------
(* A buyer's GET /packages.                                                *)

Ask(b) ==
    /\ get[b].state \in {"idle", "served"}
    /\ get' = [get EXCEPT ![b] = [state |-> "get", seen |-> Nothing, since |-> announced]]
    /\ UNCHANGED <<catalog, cache, write, lost, announced>>

\* A hit is the answer; a miss goes to the database.
CacheGet(b) ==
    /\ get[b].state = "get"
    /\ get' = [get EXCEPT ![b] = IF cache = Empty
                                 THEN [@ EXCEPT !.state = "rows"]
                                 ELSE [@ EXCEPT !.state = "served", !.seen = cache]]
    /\ UNCHANGED <<catalog, cache, write, lost, announced>>

\* list_packages selects the packages, and selectinload their features.
SelectPackages(b) ==
    /\ get[b].state = "rows"
    /\ get' = [get EXCEPT ![b].state = "grants", ![b].seen.rows = catalog]
    /\ UNCHANGED <<catalog, cache, write, lost, announced>>

SelectFeatures(b) ==
    /\ get[b].state = "grants"
    /\ get' = [get EXCEPT ![b].state = "set", ![b].seen.grants = catalog]
    /\ UNCHANGED <<catalog, cache, write, lost, announced>>

\* What was read is stored, whatever has been committed or deleted since.
CacheSet(b) ==
    /\ get[b].state = "set"
    /\ cache' = get[b].seen
    /\ get' = [get EXCEPT ![b].state = "served"]
    /\ UNCHANGED <<catalog, write, lost, announced>>

\* Redis or PostgreSQL raises, or the process dies: 500, and nothing is stored.
GetFails(b) ==
    /\ get[b].state \notin {"idle", "served"}
    /\ get' = [get EXCEPT ![b] = [state |-> "idle", seen |-> Nothing, since |-> 0]]
    /\ UNCHANGED <<catalog, cache, write, lost, announced>>

-----------------------------------------------------------------------------
(* An administrator's POST, PATCH or DELETE.                               *)

\* create_package, update_package and deactivate_package end in a commit.
Commit(a) ==
    /\ write[a].state = "idle"
    /\ catalog < MaxWrites
    /\ catalog' = catalog + 1
    /\ write' = [write EXCEPT ![a] = [state |-> "invalidate", version |-> catalog + 1]]
    /\ UNCHANGED <<cache, get, lost, announced>>

\* Mutant: the key that is deleted is not the one that is read.
Deleted_OtherKey == cache

\* cache_delete of PACKAGES_CACHE_KEY.
Deleted == Empty

\* invalidate_catalog_cache, then the answer.  A buyer's call that has read the
\* packages by then keeps what it has read.
Invalidate(a) ==
    /\ write[a].state = "invalidate"
    /\ cache' = Deleted
    /\ get' = [b \in Buyers |-> IF get[b].state \in {"grants", "set"}
                                THEN [get[b] EXCEPT !.seen.raced = TRUE]
                                ELSE get[b]]
    /\ write' = [write EXCEPT ![a].state = "idle"]
    /\ lost' = FALSE
    /\ announced' = IF write[a].version > announced THEN write[a].version ELSE announced
    /\ UNCHANGED catalog

\* Redis raises or the process dies after the commit: 500 for a write that has
\* happened, and the old catalog stays in the cache.
InvalidateFails(a) ==
    /\ write[a].state = "invalidate"
    /\ write' = [write EXCEPT ![a].state = "idle"]
    /\ lost' = TRUE
    /\ UNCHANGED <<catalog, cache, get, announced>>

\* Mutant: the value is stored without ex=ttl.
HasTtl_Never == FALSE

\* catalog_cache_ttl_seconds is passed on every cache_set.
HasTtl == TRUE

\* Redis drops the entry when its time to live is over.
Expire ==
    /\ cache # Empty
    /\ HasTtl
    /\ cache' = Empty
    /\ UNCHANGED <<catalog, get, write, lost, announced>>

-----------------------------------------------------------------------------

GetStep(b) == CacheGet(b) \/ SelectPackages(b) \/ SelectFeatures(b) \/ CacheSet(b)

Next ==
    \/ \E b \in Buyers : Ask(b) \/ GetStep(b) \/ GetFails(b)
    \/ \E a \in Admins : Commit(a) \/ Invalidate(a) \/ InvalidateFails(a)
    \/ Expire

Spec == Init /\ [][Next]_vars

\* Handlers run to their end, and Redis keeps its clock.
FairSpec ==
    /\ Spec
    /\ \A b \in Buyers : WF_vars(GetStep(b))
    /\ \A a \in Admins : WF_vars(Invalidate(a) \/ InvalidateFails(a))
    /\ WF_vars(Expire)

-----------------------------------------------------------------------------

\* What the database holds now.
Current(e) == e.rows = catalog /\ e.grants = catalog

\* The cache is stale only because an invalidation is still to come or was
\* lost, or because a read that it overtook was stored after it: reading before
\* the delete and storing after it is the only race of the design.
StaleOnlyAfterRaceOrLoss ==
    cache # Empty /\ ~Current(cache) =>
        cache.raced \/ lost \/ \E a \in Admins : write[a].state = "invalidate"

\* An answer to a call that came after the success of a write, and that does not
\* include the write, was cached by a read the write's invalidation overtook.
ServedStaleOnlyByRace ==
    \A b \in Buyers :
        get[b].state = "served" /\ get[b].seen.rows < get[b].since => get[b].seen.raced

\* The number of writes being bounded, the cache is in the end never stale
\* again: every entry expires, and only a read that was under way can store an
\* old one once more.
FreshInTheEnd == <>[](cache = Empty \/ Current(cache))

=============================================================================
