------------------------ MODULE CatalogCache_proofs ------------------------
(***************************************************************************)
(* The two claims about staleness of CatalogCache hold for any number of   *)
(* buyers, administrators and writes.  The invariant behind them extends   *)
(* each claim from the value in the cache to the values that buyers' calls *)
(* have read and not yet stored.                                           *)
(***************************************************************************)
EXTENDS CatalogCache, TLAPS

\* A call that has read the packages and not yet stored them.
Reading(b) == get[b].state \in {"grants", "set"}

\* The announced writes are among the committed ones.
Announced ==
    /\ announced <= catalog
    /\ \A a \in Admins : write[a].version <= catalog
    /\ \A b \in Buyers : get[b].since <= announced

\* What was read before an announced write was overtaken by its invalidation.
OldWasRaced ==
    /\ \A b \in Buyers : Reading(b) /\ get[b].seen.rows < announced => get[b].seen.raced
    /\ cache # Empty /\ cache.rows < announced => cache.raced

\* An invalidation is to come, or was lost.
Excused == lost \/ \E a \in Admins : write[a].state = "invalidate"

\* As StaleOnlyAfterRaceOrLoss, of what is about to be stored.
StaleWasRaced ==
    \A b \in Buyers :
        /\ get[b].state = "grants" /\ get[b].seen.rows # catalog =>
               get[b].seen.raced \/ Excused
        /\ get[b].state = "set" /\ ~Current(get[b].seen) =>
               get[b].seen.raced \/ Excused

IInv ==
    /\ TypeOK
    /\ Announced
    /\ OldWasRaced
    /\ StaleWasRaced
    /\ StaleOnlyAfterRaceOrLoss
    /\ ServedStaleOnlyByRace

-----------------------------------------------------------------------------

\* Version 0, the catalog before the first write, is what a call starts with.
LEMMA NothingTyped == 0 \in Version /\ Nothing \in Entry
<1>1. 0 \in Version
  BY MaxWritesAssumption DEF Version
<1> QED  BY <1>1 DEF Nothing, Entry

(* The inductive step, one lemma per actor.                                *)

\* CacheGet either copies the cache into an answer or goes to the database.
LEMMA CacheGetStep ==
    ASSUME IInv, NEW b \in Buyers, CacheGet(b)
    PROVE  IInv'
<1>1. TypeOK'
  BY DEF IInv, TypeOK, CacheGet, Get
<1>2. Announced'
  BY DEF IInv, TypeOK, Announced, CacheGet, Get
<1>3. OldWasRaced'
  BY DEF IInv, TypeOK, OldWasRaced, Reading, CacheGet, Get
<1>4. StaleWasRaced'
  BY DEF IInv, TypeOK, StaleWasRaced, Excused, Current, CacheGet, Get
<1>5. StaleOnlyAfterRaceOrLoss'
  BY DEF IInv, StaleOnlyAfterRaceOrLoss, Current, CacheGet
<1>6. ServedStaleOnlyByRace'
  BY EmptyAssumption DEF IInv, TypeOK, Announced, OldWasRaced, ServedStaleOnlyByRace,
     CacheGet, Get, Entry, Version
<1> QED  BY <1>1, <1>2, <1>3, <1>4, <1>5, <1>6 DEF IInv

\* The two reads see the committed catalog, which includes what is announced.
LEMMA SelectsStep ==
    ASSUME IInv, NEW b \in Buyers, SelectPackages(b) \/ SelectFeatures(b)
    PROVE  IInv'
<1>1. TypeOK'
  BY DEF IInv, TypeOK, SelectPackages, SelectFeatures, Get, Entry
<1>2. Announced'
  BY DEF IInv, TypeOK, Announced, SelectPackages, SelectFeatures, Get
<1>3. OldWasRaced'
  BY MaxWritesAssumption DEF IInv, TypeOK, Announced, OldWasRaced, Reading,
     SelectPackages, SelectFeatures, Get, Entry, Version
<1>4. StaleWasRaced'
  BY DEF IInv, TypeOK, StaleWasRaced, Excused, Current,
     SelectPackages, SelectFeatures, Get, Entry
<1>5. StaleOnlyAfterRaceOrLoss'
  BY DEF IInv, StaleOnlyAfterRaceOrLoss, Current, SelectPackages, SelectFeatures
<1>6. ServedStaleOnlyByRace'
  BY DEF IInv, TypeOK, ServedStaleOnlyByRace, SelectPackages, SelectFeatures, Get
<1> QED  BY <1>1, <1>2, <1>3, <1>4, <1>5, <1>6 DEF IInv

\* What a call stores and answers is covered by what was known of its reading.
LEMMA CacheSetStep ==
    ASSUME IInv, NEW b \in Buyers, CacheSet(b)
    PROVE  IInv'
<1>1. TypeOK'
  BY DEF IInv, TypeOK, CacheSet, Get
<1>2. Announced'
  BY DEF IInv, TypeOK, Announced, CacheSet, Get
<1>3. OldWasRaced'
  BY DEF IInv, TypeOK, OldWasRaced, Reading, CacheSet, Get
<1>4. StaleWasRaced'
  BY DEF IInv, TypeOK, StaleWasRaced, Excused, Current, CacheSet, Get
<1>5. StaleOnlyAfterRaceOrLoss'
  BY DEF IInv, TypeOK, StaleWasRaced, Excused, StaleOnlyAfterRaceOrLoss, Current, CacheSet
<1>6. ServedStaleOnlyByRace'
  BY MaxWritesAssumption DEF IInv, TypeOK, Announced, OldWasRaced, Reading,
     ServedStaleOnlyByRace, CacheSet, Get, Entry, Version
<1> QED  BY <1>1, <1>2, <1>3, <1>4, <1>5, <1>6 DEF IInv

\* Arriving and failing leave a call that has read nothing.
LEMMA AsksStep ==
    ASSUME IInv, NEW b \in Buyers, Ask(b) \/ GetFails(b)
    PROVE  IInv'
<1>1. TypeOK'
  <2>1. UNCHANGED <<catalog, cache, write, lost, announced>>
    BY DEF Ask, GetFails
  <2>2. [state |-> "get", seen |-> Nothing, since |-> announced] \in Get
    BY NothingTyped DEF IInv, TypeOK, Get
  <2>3. [state |-> "idle", seen |-> Nothing, since |-> 0] \in Get
    BY NothingTyped DEF Get
  <2>4. get' \in [Buyers -> Get]
    BY <2>2, <2>3 DEF IInv, TypeOK, Ask, GetFails
  <2> QED  BY <2>1, <2>4 DEF IInv, TypeOK
<1>2. Announced'
  BY MaxWritesAssumption DEF IInv, TypeOK, Announced, Ask, GetFails, Get, Version
<1>3. OldWasRaced'
  BY DEF IInv, TypeOK, OldWasRaced, Reading, Ask, GetFails, Get
<1>4. StaleWasRaced'
  BY DEF IInv, TypeOK, StaleWasRaced, Excused, Current, Ask, GetFails, Get
<1>5. StaleOnlyAfterRaceOrLoss'
  BY DEF IInv, StaleOnlyAfterRaceOrLoss, Current, Ask, GetFails
<1>6. ServedStaleOnlyByRace'
  BY DEF IInv, TypeOK, ServedStaleOnlyByRace, Ask, GetFails, Get
<1> QED  BY <1>1, <1>2, <1>3, <1>4, <1>5, <1>6 DEF IInv

\* A commit makes readings and the cache stale, and its invalidation is to come.
LEMMA CommitStep ==
    ASSUME IInv, NEW a \in Admins, Commit(a)
    PROVE  IInv'
<1>1. Excused'
  BY DEF IInv, TypeOK, Excused, Commit, Write
<1>2. TypeOK'
  BY MaxWritesAssumption DEF IInv, TypeOK, Commit, Write, Version
<1>3. Announced'
  BY MaxWritesAssumption DEF IInv, TypeOK, Announced, Commit, Write, Version
<1>4. OldWasRaced'
  BY DEF IInv, OldWasRaced, Reading, Commit
<1>5. StaleWasRaced'
  BY <1>1 DEF StaleWasRaced
<1>6. StaleOnlyAfterRaceOrLoss'
  BY <1>1 DEF StaleOnlyAfterRaceOrLoss, Excused
<1>7. ServedStaleOnlyByRace'
  BY DEF IInv, ServedStaleOnlyByRace, Commit
<1> QED  BY <1>2, <1>3, <1>4, <1>5, <1>6, <1>7 DEF IInv

\* An invalidation empties the cache and overtakes every reading under way; a
\* call that has been served, or has read nothing, is as before.
LEMMA InvalidateStep ==
    ASSUME IInv, NEW a \in Admins, Invalidate(a)
    PROVE  IInv'
<1>1. /\ cache' = Empty
      /\ UNCHANGED catalog
  BY DEF Invalidate, Deleted
<1>2. ASSUME NEW b \in Buyers
      PROVE  /\ get'[b] \in Get
             /\ get'[b].state = get[b].state
             /\ get'[b].since = get[b].since
             /\ Reading(b) => get'[b].seen.raced
             /\ ~Reading(b) => get'[b] = get[b]
  BY DEF IInv, TypeOK, Invalidate, Reading, Get, Entry
<1>3. announced' \in Version /\ announced <= announced' /\ announced' <= catalog
  BY MaxWritesAssumption DEF IInv, TypeOK, Announced, Invalidate, Write, Version
<1>4. TypeOK'
  <2>1. get' \in [Buyers -> Get]
    BY <1>2 DEF Invalidate
  <2> QED  BY <1>1, <1>3, <2>1 DEF IInv, TypeOK, Invalidate, Write
<1>5. Announced'
  BY <1>1, <1>2, <1>3, MaxWritesAssumption
  DEF IInv, TypeOK, Announced, Invalidate, Get, Write, Version
<1>6. OldWasRaced'
  BY <1>1, <1>2 DEF OldWasRaced, Reading
<1>7. StaleWasRaced'
  BY <1>2 DEF StaleWasRaced, Reading
<1>8. StaleOnlyAfterRaceOrLoss'
  BY <1>1 DEF StaleOnlyAfterRaceOrLoss
<1>9. ServedStaleOnlyByRace'
  BY <1>2 DEF IInv, ServedStaleOnlyByRace, Reading
<1> QED  BY <1>4, <1>5, <1>6, <1>7, <1>8, <1>9 DEF IInv

\* A lost invalidation excuses everything stale; expiry leaves nothing to excuse.
LEMMA LossStep ==
    ASSUME IInv,
           (\E a \in Admins : InvalidateFails(a)) \/ Expire
    PROVE  IInv'
<1>1. TypeOK'
  BY DEF IInv, TypeOK, InvalidateFails, Expire, Write
<1>2. Announced'
  BY DEF IInv, TypeOK, Announced, InvalidateFails, Expire, Write
<1>3. OldWasRaced'
  BY DEF IInv, OldWasRaced, Reading, InvalidateFails, Expire
<1>4. StaleWasRaced'
  BY DEF IInv, StaleWasRaced, Excused, Current, InvalidateFails, Expire
<1>5. StaleOnlyAfterRaceOrLoss'
  BY DEF IInv, StaleOnlyAfterRaceOrLoss, Current, InvalidateFails, Expire
<1>6. ServedStaleOnlyByRace'
  BY DEF IInv, ServedStaleOnlyByRace, InvalidateFails, Expire
<1> QED  BY <1>1, <1>2, <1>3, <1>4, <1>5, <1>6 DEF IInv

-----------------------------------------------------------------------------

LEMMA InitIInv == Init => IInv
<1> SUFFICES ASSUME Init PROVE IInv
  OBVIOUS
<1>1. TypeOK
  BY NothingTyped DEF Init, TypeOK, Get, Write
<1>2. Announced
  BY DEF Init, Announced
<1>3. OldWasRaced /\ StaleWasRaced
  BY DEF Init, OldWasRaced, StaleWasRaced, Reading
<1>4. StaleOnlyAfterRaceOrLoss /\ ServedStaleOnlyByRace
  BY DEF Init, StaleOnlyAfterRaceOrLoss, ServedStaleOnlyByRace
<1> QED  BY <1>1, <1>2, <1>3, <1>4 DEF IInv

LEMMA IInvStep == IInv /\ [Next]_vars => IInv'
<1> SUFFICES ASSUME IInv, [Next]_vars PROVE IInv'
  OBVIOUS
<1>1. CASE UNCHANGED vars
  BY <1>1 DEF vars, IInv, TypeOK, Announced, OldWasRaced, StaleWasRaced, Reading,
     Excused, Current, StaleOnlyAfterRaceOrLoss, ServedStaleOnlyByRace
<1>2. ASSUME NEW b \in Buyers, Ask(b) \/ GetStep(b) \/ GetFails(b)
      PROVE  IInv'
  BY <1>2, AsksStep, CacheGetStep, SelectsStep, CacheSetStep DEF GetStep
<1>3. ASSUME NEW a \in Admins, Commit(a) \/ Invalidate(a) \/ InvalidateFails(a)
      PROVE  IInv'
  BY <1>3, CommitStep, InvalidateStep, LossStep
<1>4. CASE Expire
  BY <1>4, LossStep
<1> QED  BY <1>1, <1>2, <1>3, <1>4 DEF Next

\* The invariant holds in every reachable state.
THEOREM CacheInvariant == Spec => []IInv
BY InitIInv, IInvStep, PTL DEF Spec

\* invalidate_catalog_cache is enough but for one race and for its own failure:
\* a stale value in Redis has an invalidation still to come or lost, or was
\* stored by index after an invalidation overtook it.
THEOREM StaleIsExplained == Spec => []StaleOnlyAfterRaceOrLoss
BY CacheInvariant, PTL DEF IInv

\* A buyer whose GET /packages came after a write had been answered, and who is
\* served the catalog from before it, was served what that race had stored.
THEOREM OldAnswersAreRaces == Spec => []ServedStaleOnlyByRace
BY CacheInvariant, PTL DEF IInv

\* What index stores, the marker of an empty cache included, is a catalog read
\* by two statements: cache_get never decodes anything else.
THEOREM CacheTypes == Spec => []TypeOK
BY CacheInvariant, PTL DEF IInv

=============================================================================
