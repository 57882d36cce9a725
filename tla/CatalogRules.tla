---------------------------- MODULE CatalogRules ----------------------------
(***************************************************************************)
(* services/catalog_service.py: creating, updating and deactivating a      *)
(* package while others do the same.  A request is a few SELECTs, a check  *)
(* in Python of what they returned, and one commit; under READ COMMITTED   *)
(* the rows may have changed in between, and only the keys of the tables   *)
(* still hold.  What is written is the difference to what was loaded.      *)
(***************************************************************************)
EXTENDS Naturals, FiniteSets

CONSTANTS
    Callers,    \* requests under way at once, one of each
    Ids,        \* ids packages can get
    Slugs,
    Bodies,     \* values of name, badge, description, price and credits
    Features,   \* the feature catalog
    Null,       \* an explicit null
    Invalid,    \* a body with an empty name, a price of zero and the like
    Unknown,    \* a feature key that is not in the catalog
    None,       \* no package
    Patches,    \* the payloads: functions from the fields that are set
    Seeded,     \* the catalog at first
    MaxCalls    \* bound on the requests of one behaviour

Field == {"slug", "body", "active", "features"}

Row == [slug : Slugs, body : Bodies, active : BOOLEAN, features : SUBSET Features]

\* What a payload can have in a field, by the types of PackageUpdate.
Payload == [slug |-> Slugs \cup {Null}, body |-> Bodies \cup {Null, Invalid},
            active |-> BOOLEAN \cup {Null},
            features |-> SUBSET (Features \cup {Unknown}) \cup {Null}]

ASSUME NoneAssumption == None \notin Ids /\ None \notin Row
\* The index keeps slugs apart, and each package of seed.py has a feature.
ASSUME SeededAssumption ==
    /\ Seeded \in [Ids -> Row \cup {None}]
    /\ \A p, q \in Ids : Seeded[p] # None /\ Seeded[q] # None /\ Seeded[p].slug = Seeded[q].slug => p = q
    /\ \A p \in Ids : Seeded[p] # None => Seeded[p].features # {}
ASSUME PatchesAssumption ==
    \A patch \in Patches :
        DOMAIN patch \subseteq Field /\ \A f \in DOMAIN patch : patch[f] \in Payload[f]
ASSUME MaxCallsAssumption == MaxCalls \in Nat

VARIABLES
    pkgs,     \* packages and package_features, by id
    call,     \* the request of each caller, kept when it has been answered
    calls,    \* requests so far
    skewed    \* history: packages whose grants changed under an update of them

vars == <<pkgs, call, calls, skewed>>

Answer == {"OK", "PACKAGE_NOT_FOUND", "INVALID_PACKAGE", "UNKNOWN_FEATURE",
           "PACKAGE_SLUG_EXISTS", "INTERNAL_ERROR"}

NoPatch == [f \in {} |-> Null]

Deactivation == [active |-> FALSE]

Call == [op : {"create", "update", "delete"}, id : Ids \cup {None},
         patch : Patches \cup {NoPatch, Deactivation}, loaded : Row \cup {None},
         state : {"slug", "commit", "answered"}, answer : Answer]

\* Every variable holds a value of its type.
RulesTypeOK ==
    /\ pkgs \in [Ids -> Row \cup {None}]
    /\ call \in [Callers -> Call]
    /\ calls \in 0 .. MaxCalls
    /\ skewed \subseteq Ids

NoCall == [op |-> "update", id |-> None, patch |-> NoPatch, loaded |-> None,
           state |-> "answered", answer |-> "OK"]

RulesInit ==
    /\ pkgs = Seeded
    /\ call = [a \in Callers |-> NoCall]
    /\ calls = 0
    /\ skewed = {}

Existing == {p \in Ids : pkgs[p] # None}

SetsTo(patch, f, v) == f \in DOMAIN patch /\ patch[f] = v

-----------------------------------------------------------------------------
(* Reading and checking.                                                   *)

Goes(a, state) == call' = [call EXCEPT ![a].state = state] /\ UNCHANGED <<pkgs, calls, skewed>>

Answers(a, answer) ==
    /\ call' = [call EXCEPT ![a].state = "answered", ![a].answer = answer]
    /\ UNCHANGED <<pkgs, calls, skewed>>

\* A request comes in, and its first SELECTs and checks are done.
Begin(a, op, p, patch, refusal) ==
    /\ call[a].state = "answered" /\ calls < MaxCalls
    /\ calls' = calls + 1
    /\ call' = [call EXCEPT ![a] =
         [op |-> op, id |-> p, patch |-> patch,
          loaded |-> IF p = None THEN None ELSE pkgs[p],
          state |-> IF refusal # "OK" THEN "answered" ELSE IF op = "delete" THEN "commit" ELSE "slug",
          answer |-> refusal]]
    /\ UNCHANGED <<pkgs, skewed>>

\* _load_features: an explicit null counts as an empty list.
FeatureRefusal(keys) ==
    CASE keys \in {Null, {}} -> "INVALID_PACKAGE"
      [] keys \notin {Null, {}} /\ keys \subseteq Features -> "OK"
      [] OTHER -> "UNKNOWN_FEATURE"

\* POST: PackageCreate wants every field and no null (active is TRUE if unset).
CreatePackage(a, patch) ==
    Begin(a, "create", None, patch,
      IF DOMAIN patch \cup {"active"} # Field \/ \E f \in DOMAIN patch : patch[f] \in {Null, Invalid}
      THEN "INVALID_PACKAGE" ELSE FeatureRefusal(patch.features))

\* PATCH: the checks of the fields let an explicit null pass.
UpdatePackage(a, p, patch) ==
    Begin(a, "update", p, patch,
      IF pkgs[p] = None THEN "PACKAGE_NOT_FOUND"
      ELSE IF SetsTo(patch, "body", Invalid) THEN "INVALID_PACKAGE" ELSE "OK")

DeactivatePackage(a, p) ==
    Begin(a, "delete", p, Deactivation, IF pkgs[p] = None THEN "PACKAGE_NOT_FOUND" ELSE "OK")

\* Mutant: the slug is looked up also where the package has it already.
AsksForSlug_Always(r) == "slug" \in DOMAIN r.patch

\* An update looks the slug up only where it is to change.
AsksForSlug(r) ==
    "slug" \in DOMAIN r.patch /\ (r.op = "update" => r.patch.slug # r.loaded.slug)

\* Mutant: an empty list of features is taken as it is.
RefusedFeatures_NotEmpty(r) ==
    r.op = "update" /\ "features" \in DOMAIN r.patch /\ r.patch.features # {}
    /\ FeatureRefusal(r.patch.features) # "OK"

RefusedFeatures(r) ==
    r.op = "update" /\ "features" \in DOMAIN r.patch /\ FeatureRefusal(r.patch.features) # "OK"

\* The SELECT by slug; an update loads its features after it.
CheckSlug(a) ==
    LET r == call[a] IN
    /\ r.state = "slug"
    /\ \/ /\ AsksForSlug(r) /\ \E p \in Existing : pkgs[p].slug = r.patch.slug
          /\ Answers(a, "PACKAGE_SLUG_EXISTS")
       \/ /\ ~(AsksForSlug(r) /\ \E p \in Existing : pkgs[p].slug = r.patch.slug)
          /\ IF RefusedFeatures(r) THEN Answers(a, FeatureRefusal(r.patch.features))
             ELSE Goes(a, "commit")

-----------------------------------------------------------------------------
(* Committing.                                                             *)

\* The columns an UPDATE names, the grants it deletes and inserts: those that
\* differ from what was loaded.
Changed(r) == {f \in DOMAIN r.patch \ {"features"} : r.patch[f] # r.loaded[f]}

Removed(r) == IF "features" \in DOMAIN r.patch THEN r.loaded.features \ r.patch.features ELSE {}

Granted(r) == IF "features" \in DOMAIN r.patch THEN r.patch.features \ r.loaded.features ELSE {}

\* Mutant: no unique index on slug.
SlugHeld_Nowhere(r) == FALSE

\* The unique index on packages.slug.
SlugHeld(r) == \E q \in Existing \ {r.id} : pkgs[q].slug = r.patch.slug

\* Mutant: the columns take a NULL.
RowRefused_Nullable(r) == "slug" \in Changed(r) /\ SlugHeld(r)

\* The UPDATE of packages violates a constraint, slug's or NOT NULL.
RowRefused(r) ==
    \/ \E f \in Changed(r) : r.patch[f] = Null
    \/ "slug" \in Changed(r) /\ SlugHeld(r)

\* DELETEs of grants that are gone (SQLAlchemy's StaleDataError, which is no
\* IntegrityError), INSERTs of grants that are there.
GrantsGone(r) == ~(Removed(r) \subseteq pkgs[r.id].features)

GrantsHeld(r) == Granted(r) \cap pkgs[r.id].features # {}

\* Mutant: the whole row is written as it was loaded and patched.
Patched_WholeRow(r) ==
    [f \in Field |-> IF f \in DOMAIN r.patch THEN r.patch[f] ELSE r.loaded[f]]

\* The row when the difference has been written.
Patched(r) ==
    [f \in Field |->
       IF f = "features" THEN (pkgs[r.id].features \ Removed(r)) \cup Granted(r)
       ELSE IF f \in Changed(r) THEN r.patch[f] ELSE pkgs[r.id][f]]

\* The commit of a PATCH or a DELETE; every IntegrityError is answered as a
\* slug that exists.
CommitUpdate(a) ==
    LET r == call[a] IN
    /\ r.state = "commit" /\ r.op # "create"
    /\ \/ RowRefused(r) /\ Answers(a, "PACKAGE_SLUG_EXISTS")
       \/ ~RowRefused(r) /\ GrantsGone(r) /\ Answers(a, "INTERNAL_ERROR")
       \/ ~RowRefused(r) /\ ~GrantsGone(r) /\ GrantsHeld(r) /\ Answers(a, "PACKAGE_SLUG_EXISTS")
       \/ /\ ~RowRefused(r) /\ ~GrantsGone(r) /\ ~GrantsHeld(r)
          /\ pkgs' = [pkgs EXCEPT ![r.id] = Patched(r)]
          /\ call' = [call EXCEPT ![a].state = "answered"]
          /\ skewed' = IF "features" \in DOMAIN r.patch /\ pkgs[r.id].features # r.loaded.features
                       THEN skewed \cup {r.id} ELSE skewed
          /\ UNCHANGED calls

\* The commit of a POST, which the index alone can refuse.
CommitCreate(a) ==
    LET r == call[a] IN
    /\ r.state = "commit" /\ r.op = "create"
    /\ \/ SlugHeld(r) /\ Answers(a, "PACKAGE_SLUG_EXISTS")
       \/ /\ ~SlugHeld(r)
          /\ \E p \in Ids \ Existing :
               /\ pkgs' = [pkgs EXCEPT ![p] =
                    [f \in Field |-> IF f \in DOMAIN r.patch THEN r.patch[f] ELSE TRUE]]
               /\ call' = [call EXCEPT ![a].state = "answered", ![a].id = p]
          /\ UNCHANGED <<calls, skewed>>

Request(a) ==
    \/ \E patch \in Patches : CreatePackage(a, patch)
    \/ \E p \in Ids, patch \in Patches : UpdatePackage(a, p, patch)
    \/ \E p \in Ids : DeactivatePackage(a, p)

ServerStep(a) == CheckSlug(a) \/ CommitUpdate(a) \/ CommitCreate(a)

-----------------------------------------------------------------------------
(* What the store and the purchases rely on.                               *)

\* No two packages have one slug, whoever looked before the other committed.
SlugsUnique == \A p, q \in Existing : pkgs[p].slug = pkgs[q].slug => p = q

\* A package of the catalog has a feature, unless two updates of its features
\* overlapped: each removes what it has not been told to keep, and both checks
\* passed.
FeaturelessOnlyBySkew == \A p \in Existing \ skewed : pkgs[p].features # {}

\* A commit of caller a, on package p.
Commits(a, p) == call[a].state = "commit" /\ call'[a].state = "answered" /\ call[a].id = p

WritesWhatIsNamed ==
    \A p \in Existing, f \in Field : pkgs'[p][f] # pkgs[p][f] =>
        \E a \in Callers : /\ Commits(a, p) /\ f \in DOMAIN call[a].patch
                           /\ f # "features" => pkgs'[p][f] = call[a].patch[f]

\* Writes of different fields of one package keep one another's: a committed
\* row differs only in what a request under way has named.
OthersFieldsKept == [][WritesWhatIsNamed]_vars

\* A request is told that the slug exists.
ToldSlugExists(a) ==
    /\ call[a].state # "answered"
    /\ call'[a].state = "answered" /\ call'[a].answer = "PACKAGE_SLUG_EXISTS"

SlugCause(r) ==
    \/ "slug" \in DOMAIN r.patch /\ \E q \in Existing \ {r.id} : pkgs[q].slug = r.patch.slug
    \/ \E f \in DOMAIN r.patch : r.patch[f] = Null
    \/ r.op = "update" /\ pkgs[r.id].slug # r.loaded.slug
    \/ r.op = "update" /\ pkgs[r.id].features # r.loaded.features

SlugAnswersCaused == \A a \in Callers : ToldSlugExists(a) => SlugCause(call[a])

\* Whoever is told that the slug exists asked for a slug another has, sent a
\* null, or lost a race for the same package's slug or features.
SlugAnswerHasCause == [][SlugAnswersCaused]_vars

=============================================================================
