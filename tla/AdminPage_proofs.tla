--------------------------- MODULE AdminPage_proofs --------------------------
(***************************************************************************)
(* Proofs about CatalogRules and AdminPage: for any number of pages, API   *)
(* callers, packages and payloads.                                         *)
(***************************************************************************)
EXTENDS AdminPage, TLAPS

-----------------------------------------------------------------------------
(* The inductive invariant.                                                *)

\* What the checks in Python have established for a request that is still to
\* commit; the catalog itself may have moved on since.
UnderWay(a) ==
    LET r == call[a] IN
    r.state # "answered" =>
      /\ r.answer = "OK"
      /\ \/ /\ r.op = "create" /\ r.id = None
            /\ r.patch \in Patches /\ DOMAIN r.patch \cup {"active"} = Field
            /\ \A f \in DOMAIN r.patch : r.patch[f] \notin {Null, Invalid}
            /\ FeatureRefusal(r.patch.features) = "OK"
         \/ /\ r.op = "update" /\ r.id \in Existing /\ r.loaded \in Row
            /\ r.patch \in Patches /\ ~SetsTo(r.patch, "body", Invalid)
            /\ r.state = "commit" => ~RefusedFeatures(r)
         \/ /\ r.op = "delete" /\ r.id \in Existing /\ r.loaded \in Row
            /\ r.patch = Deactivation /\ r.state = "commit"

RulesInv ==
    /\ RulesTypeOK
    /\ \A a \in Callers : UnderWay(a)
    /\ SlugsUnique
    /\ FeaturelessOnlyBySkew

\* What a page has under way is what it has sent, unless an API caller has its name.
WritesAsSent(g) ==
    /\ Save(g) \notin Clients /\ call[Save(g)].state # "answered" =>
          call[Save(g)].patch = PagePatch(page[g].sent.body, page[g].sent.active)
    /\ Del(g) \notin Clients /\ call[Del(g)].state # "answered" =>
          call[Del(g)].patch = Deactivation

\* A form with Active ticked was opened on a package shown as active, unless
\* the administrator has ticked it.
TickedIsShown(form) == form.active => form.shown

AdminInv ==
    /\ RulesInv
    /\ page \in [Pages -> Page]
    /\ \A g \in Pages : /\ WritesAsSent(g)
                        /\ TickedIsShown(page[g].form) /\ TickedIsShown(page[g].sent)

-----------------------------------------------------------------------------
(* Payloads and rows.                                                      *)

\* The values of the fields a payload sets.
LEMMA PatchValues ==
    ASSUME NEW patch \in Patches
    PROVE  /\ DOMAIN patch \subseteq Field
           /\ "slug" \in DOMAIN patch => patch.slug \in Slugs \cup {Null}
           /\ "body" \in DOMAIN patch => patch.body \in Bodies \cup {Null, Invalid}
           /\ "active" \in DOMAIN patch => patch.active \in BOOLEAN \cup {Null}
  <1>1. \A f \in DOMAIN patch : patch[f] \in Payload[f]
    BY PatchesAssumption
  <1>2. /\ Payload["slug"] = Slugs \cup {Null}
        /\ Payload["body"] = Bodies \cup {Null, Invalid}
        /\ Payload["active"] = BOOLEAN \cup {Null}
    BY DEF Payload
  <1> QED
    BY <1>1, <1>2, PatchesAssumption, Zenon

\* _load_features accepts known features only, and at least one; it never
\* answers that a slug exists.
LEMMA FeatureAnswers ==
    ASSUME NEW keys
    PROVE  /\ FeatureRefusal(keys) \in {"OK", "INVALID_PACKAGE", "UNKNOWN_FEATURE"}
           /\ FeatureRefusal(keys) = "OK" => keys \subseteq Features /\ keys # {} /\ keys # Null
  <1>1. CASE keys \in {Null, {}}
    BY <1>1 DEF FeatureRefusal
  <1>2. CASE keys \notin {Null, {}} /\ keys \subseteq Features
    BY <1>2 DEF FeatureRefusal
  <1>3. CASE ~(keys \in {Null, {}}) /\ ~(keys \notin {Null, {}} /\ keys \subseteq Features)
    BY <1>3 DEF FeatureRefusal
  <1> QED
    BY <1>1, <1>2, <1>3

\* A function on the fields with the values of a row is one.
LEMMA RowIntro ==
    ASSUME NEW row, row = [f \in Field |-> row[f]],
           row["slug"] \in Slugs, row["body"] \in Bodies,
           row["active"] \in BOOLEAN, row["features"] \subseteq Features
    PROVE  row \in Row
  <1>1. row = [slug |-> row["slug"], body |-> row["body"],
               active |-> row["active"], features |-> row["features"]]
    BY DEF Field
  <1> QED
    BY <1>1 DEF Row

\* A deactivation sets Active to false and nothing else.
LEMMA DeactivationSets == DOMAIN Deactivation = {"active"} /\ Deactivation.active = FALSE
  BY DEF Deactivation

\* The row that an update or a deactivation writes is a row, takes each field
\* that changed from the payload, and has the features of the payload where
\* nobody else has changed them.
LEMMA PatchedRow ==
    ASSUME RulesTypeOK, NEW a \in Callers, UnderWay(a),
           call[a].state = "commit", call[a].op # "create", ~RowRefused(call[a])
    PROVE  LET r == call[a]
               row == Patched(r)
               old == pkgs[r.id]
           IN  /\ r.id \in Existing /\ row \in Row
               /\ \A f \in Field : row[f] # old[f] => f \in DOMAIN r.patch
               /\ \A f \in Field \ {"features"} : row[f] # old[f] => row[f] = r.patch[f]
               /\ row.slug # old.slug => ~SlugHeld(r)
               /\ "features" \notin DOMAIN r.patch => row.features = old.features
               /\ "features" \in DOMAIN r.patch /\ old.features = r.loaded.features =>
                    row.features = r.patch.features /\ row.features # {}
  <1> DEFINE r == call[a]
             row == Patched(r)
             old == pkgs[r.id]
  <1>1. /\ r.id \in Existing /\ r.loaded \in Row
        /\ \/ r.patch \in Patches /\ r.op = "update" /\ ~SetsTo(r.patch, "body", Invalid)
              /\ ~RefusedFeatures(r)
           \/ r.patch = Deactivation
    BY DEF UnderWay
  <1>2. old \in Row
    BY <1>1 DEF RulesTypeOK, Existing
  <1>3. /\ DOMAIN r.patch \subseteq Field
        /\ "slug" \in DOMAIN r.patch => r.patch.slug \in Slugs \cup {Null}
        /\ "body" \in DOMAIN r.patch => r.patch.body \in Bodies \cup {Null}
        /\ "active" \in DOMAIN r.patch => r.patch.active \in BOOLEAN \cup {Null}
        /\ "features" \in DOMAIN r.patch => r.patch.features \subseteq Features /\ r.patch.features # {}
    <2>1. CASE r.patch = Deactivation
      <3>1. DOMAIN r.patch = {"active"}
        BY <2>1, DeactivationSets
      <3>2. r.patch.active \in BOOLEAN
        BY <2>1, DeactivationSets, Zenon
      <3>3. {"slug", "body", "features"} \cap DOMAIN r.patch = {} /\ DOMAIN r.patch \subseteq Field
        BY <3>1 DEF Field
      <3> QED
        BY <3>2, <3>3
    <2>2. CASE r.patch \in Patches /\ r.op = "update" /\ ~SetsTo(r.patch, "body", Invalid)
               /\ ~RefusedFeatures(r)
      <3>1. "features" \in DOMAIN r.patch => FeatureRefusal(r.patch.features) = "OK"
        BY <2>2 DEF RefusedFeatures
      <3>2. "body" \in DOMAIN r.patch => r.patch.body # Invalid
        BY <2>2 DEF SetsTo
      <3> QED
        BY <2>2, <3>1, <3>2, PatchValues, FeatureAnswers, Zenon
    <2> QED
      BY <1>1, <2>1, <2>2
  <1>4. /\ row = [f \in Field |-> row[f]]
        /\ row["features"] = (old.features \ Removed(r)) \cup Granted(r)
        /\ \A f \in Field \ {"features"} : row[f] = IF f \in Changed(r) THEN r.patch[f] ELSE old[f]
    BY DEF Patched, Field
  <1>5. \A f \in Changed(r) : f \in DOMAIN r.patch \ {"features"} /\ r.patch[f] # Null
    BY DEF Changed, RowRefused
  <1>6. Removed(r) \cup Granted(r) # {} => "features" \in DOMAIN r.patch
    BY DEF Removed, Granted
  <1>7. row["features"] \subseteq Features
    BY <1>2, <1>3, <1>4 DEF Granted, Row
  <1>8. row["slug"] \in Slugs /\ row["body"] \in Bodies /\ row["active"] \in BOOLEAN
    <2>1. old["slug"] \in Slugs /\ old["body"] \in Bodies /\ old["active"] \in BOOLEAN
      BY <1>2 DEF Row
    <2>2. {"slug", "body", "active"} \subseteq Field \ {"features"}
      BY DEF Field
    <2> QED
      BY <1>3, <1>4, <1>5, <2>1, <2>2
  <1>9. row \in Row
    BY <1>4, <1>7, <1>8, RowIntro
  <1>10. \A f \in Field : row[f] # old[f] => f \in DOMAIN r.patch
    <2>1. row["features"] # old["features"] => "features" \in DOMAIN r.patch
      BY <1>4, <1>6
    <2> QED
      BY <1>4, <1>5, <2>1
  <1>11. \A f \in Field \ {"features"} : row[f] # old[f] => row[f] = r.patch[f]
    BY <1>4
  <1>12. row.slug # old.slug => ~SlugHeld(r)
    BY <1>4 DEF RowRefused, Field
  <1>13. "features" \notin DOMAIN r.patch => row.features = old.features
    BY <1>4, <1>6
  <1>14. "features" \in DOMAIN r.patch /\ old.features = r.loaded.features =>
           row.features = r.patch.features /\ row.features # {}
    BY <1>3, <1>4 DEF Removed, Granted
  <1> QED
    BY <1>1, <1>9, <1>10, <1>11, <1>12, <1>13, <1>14

\* The row that a creation inserts is the payload, which is complete.
LEMMA CreatedRow ==
    ASSUME NEW a \in Callers, UnderWay(a), call[a].state # "answered", call[a].op = "create"
    PROVE  LET patch == call[a].patch
               row == [f \in Field |-> IF f \in DOMAIN patch THEN patch[f] ELSE TRUE]
           IN  /\ row \in Row
               /\ "slug" \in DOMAIN patch /\ row.slug = patch.slug
               /\ row.features # {}
  <1> DEFINE patch == call[a].patch
             row == [f \in Field |-> IF f \in DOMAIN patch THEN patch[f] ELSE TRUE]
  <1>1. /\ patch \in Patches /\ DOMAIN patch \cup {"active"} = Field
        /\ \A f \in DOMAIN patch : patch[f] \notin {Null, Invalid}
        /\ FeatureRefusal(patch.features) = "OK"
    BY DEF UnderWay
  <1>2. {"slug", "body", "features"} \subseteq DOMAIN patch
    BY <1>1 DEF Field
  <1>3. /\ row["slug"] = patch.slug /\ row["body"] = patch.body /\ row["features"] = patch.features
        /\ row["active"] = IF "active" \in DOMAIN patch THEN patch.active ELSE TRUE
    BY <1>2 DEF Field
  <1>4. /\ patch.slug \in Slugs /\ patch.body \in Bodies
        /\ "active" \in DOMAIN patch => patch.active \in BOOLEAN
    <2>1. /\ patch.slug \in Slugs \cup {Null} /\ patch.body \in Bodies \cup {Null, Invalid}
          /\ "active" \in DOMAIN patch => patch.active \in BOOLEAN \cup {Null}
      BY <1>1, <1>2, PatchValues, Zenon
    <2> QED
      BY <1>1, <1>2, <2>1
  <1>5. patch.features \subseteq Features /\ patch.features # {}
    BY <1>1, FeatureAnswers
  <1>6. row \in Row
    <2>1. row = [f \in Field |-> row[f]]
      OBVIOUS
    <2>2. row["active"] \in BOOLEAN
      BY <1>3, <1>4
    <2> HIDE DEF row
    <2> QED
      BY <1>3, <1>4, <1>5, <2>1, <2>2, RowIntro
  <1> QED
    BY <1>2, <1>3, <1>5, <1>6

-----------------------------------------------------------------------------
(* What requests and their steps do to the calls.                          *)

\* The call of a alone becomes r.
CallBecomes(a, r) == call' = [call EXCEPT ![a] = r]

\* A request that comes in replaces an answered one and changes no package.
LEMMA BeginMoves ==
    ASSUME RulesTypeOK, NEW a \in Callers, NEW op \in {"create", "update", "delete"},
           NEW p \in Ids \cup {None}, NEW patch \in Patches \cup {NoPatch, Deactivation},
           NEW refusal \in Answer, Begin(a, op, p, patch, refusal)
    PROVE  \E r \in Call :
             /\ CallBecomes(a, r) /\ call[a].state = "answered"
             /\ calls' \in 0 .. MaxCalls /\ UNCHANGED <<pkgs, skewed>>
             /\ r.op = op /\ r.id = p /\ r.patch = patch /\ r.answer = refusal
             /\ p # None => r.loaded = pkgs[p]
             /\ r.state = IF refusal # "OK" THEN "answered" ELSE IF op = "delete" THEN "commit" ELSE "slug"
  <1> DEFINE r == [op |-> op, id |-> p, patch |-> patch,
                   loaded |-> IF p = None THEN None ELSE pkgs[p],
                   state |-> IF refusal # "OK" THEN "answered"
                             ELSE IF op = "delete" THEN "commit" ELSE "slug",
                   answer |-> refusal]
  <1>1. (IF p = None THEN None ELSE pkgs[p]) \in Row \cup {None}
    BY DEF RulesTypeOK
  <1>2. r \in Call
    BY <1>1 DEF Call
  <1>3. calls' \in 0 .. MaxCalls
    BY MaxCallsAssumption DEF Begin, RulesTypeOK
  <1>4. CallBecomes(a, r) /\ call[a].state = "answered" /\ UNCHANGED <<pkgs, skewed>>
    BY DEF Begin, CallBecomes
  <1>5. /\ r.op = op /\ r.id = p /\ r.patch = patch /\ r.answer = refusal
        /\ p # None => r.loaded = pkgs[p]
        /\ r.state = IF refusal # "OK" THEN "answered" ELSE IF op = "delete" THEN "commit" ELSE "slug"
    OBVIOUS
  <1> HIDE DEF r
  <1> QED
    BY <1>2, <1>3, <1>4, <1>5

\* A request comes in, and what its checks have established is known of it.
ComesIn(a) ==
    /\ \E r \in Call : CallBecomes(a, r)
    /\ call[a].state = "answered"
    /\ calls' \in 0 .. MaxCalls /\ UNCHANGED <<pkgs, skewed>>
    /\ UnderWay(a)'

LEMMA CreateMoves ==
    ASSUME RulesTypeOK, NEW a \in Callers, NEW patch \in Patches, CreatePackage(a, patch)
    PROVE  ComesIn(a) /\ call'[a].patch = patch
  <1> DEFINE refused == DOMAIN patch \cup {"active"} # Field
                        \/ \E f \in DOMAIN patch : patch[f] \in {Null, Invalid}
             refusal == IF refused THEN "INVALID_PACKAGE" ELSE FeatureRefusal(patch.features)
  <1>1. refusal \in Answer
    BY FeatureAnswers DEF Answer
  <1>2. Begin(a, "create", None, patch, refusal)
    BY DEF CreatePackage
  <1> HIDE DEF refusal
  <1>3. PICK r \in Call :
             /\ CallBecomes(a, r) /\ call[a].state = "answered"
             /\ calls' \in 0 .. MaxCalls /\ UNCHANGED <<pkgs, skewed>>
             /\ r.op = "create" /\ r.id = None /\ r.patch = patch /\ r.answer = refusal
             /\ r.state = IF refusal # "OK" THEN "answered" ELSE "slug"
    BY <1>1, <1>2, BeginMoves
  <1>4. call'[a] = r
    BY <1>3 DEF CallBecomes, RulesTypeOK
  <1>5. UnderWay(a)'
    <2> SUFFICES ASSUME r.state # "answered"
                 PROVE  /\ r.answer = "OK"
                        /\ r.op = "create" /\ r.id = None
                        /\ r.patch \in Patches /\ DOMAIN r.patch \cup {"active"} = Field
                        /\ \A f \in DOMAIN r.patch : r.patch[f] \notin {Null, Invalid}
                        /\ FeatureRefusal(r.patch.features) = "OK"
      BY <1>4 DEF UnderWay, FeatureRefusal
    <2>1. refusal = "OK"
      BY <1>3
    <2>2. ~refused /\ FeatureRefusal(patch.features) = "OK"
      BY <2>1 DEF refusal
    <2> QED
      BY <1>3, <2>1, <2>2
  <1> QED
    BY <1>3, <1>4, <1>5 DEF ComesIn

LEMMA UpdateMoves ==
    ASSUME RulesTypeOK, NEW a \in Callers, NEW p \in Ids, NEW patch \in Patches,
           UpdatePackage(a, p, patch)
    PROVE  ComesIn(a) /\ call'[a].patch = patch
  <1> DEFINE refusal == IF pkgs[p] = None THEN "PACKAGE_NOT_FOUND"
                        ELSE IF SetsTo(patch, "body", Invalid) THEN "INVALID_PACKAGE" ELSE "OK"
  <1>1. refusal \in Answer
    BY DEF Answer
  <1>2. Begin(a, "update", p, patch, refusal)
    BY DEF UpdatePackage
  <1> HIDE DEF refusal
  <1>3. PICK r \in Call :
             /\ CallBecomes(a, r) /\ call[a].state = "answered"
             /\ calls' \in 0 .. MaxCalls /\ UNCHANGED <<pkgs, skewed>>
             /\ r.op = "update" /\ r.id = p /\ r.patch = patch /\ r.answer = refusal
             /\ r.loaded = pkgs[p]
             /\ r.state = IF refusal # "OK" THEN "answered" ELSE "slug"
    BY <1>1, <1>2, BeginMoves, NoneAssumption
  <1>4. call'[a] = r
    BY <1>3 DEF CallBecomes, RulesTypeOK
  <1>5. UnderWay(a)'
    <2> SUFFICES ASSUME r.state # "answered"
                 PROVE  /\ r.answer = "OK"
                        /\ r.op = "update" /\ r.id \in Existing' /\ r.loaded \in Row
                        /\ r.patch \in Patches /\ ~SetsTo(r.patch, "body", Invalid)
                        /\ r.state # "commit"
      BY <1>4 DEF UnderWay
    <2>1. refusal = "OK"
      BY <1>3
    <2>2. pkgs[p] # None /\ ~SetsTo(patch, "body", Invalid)
      BY <2>1 DEF refusal
    <2>3. r.loaded \in Row /\ p \in Existing'
      BY <1>3, <2>2 DEF RulesTypeOK, Existing
    <2> QED
      BY <1>3, <2>1, <2>2, <2>3
  <1> QED
    BY <1>3, <1>4, <1>5 DEF ComesIn

LEMMA DeactivateMoves ==
    ASSUME RulesTypeOK, NEW a \in Callers, NEW p \in Ids, DeactivatePackage(a, p)
    PROVE  ComesIn(a) /\ call'[a].patch = Deactivation
  <1> DEFINE refusal == IF pkgs[p] = None THEN "PACKAGE_NOT_FOUND" ELSE "OK"
  <1>1. refusal \in Answer
    BY DEF Answer
  <1>2. Begin(a, "delete", p, Deactivation, refusal)
    BY DEF DeactivatePackage
  <1> HIDE DEF refusal
  <1>3. PICK r \in Call :
             /\ CallBecomes(a, r) /\ call[a].state = "answered"
             /\ calls' \in 0 .. MaxCalls /\ UNCHANGED <<pkgs, skewed>>
             /\ r.op = "delete" /\ r.id = p /\ r.patch = Deactivation /\ r.answer = refusal
             /\ r.loaded = pkgs[p]
             /\ r.state = IF refusal # "OK" THEN "answered" ELSE "commit"
    BY <1>1, <1>2, BeginMoves, NoneAssumption
  <1>4. call'[a] = r
    BY <1>3 DEF CallBecomes, RulesTypeOK
  <1>5. r.state # "answered" => /\ r.answer = "OK"
                                /\ r.id \in Existing' /\ r.loaded \in Row
    BY <1>3 DEF RulesTypeOK, Existing, refusal
  <1>6. UnderWay(a)'
    BY <1>3, <1>4, <1>5 DEF UnderWay
  <1> QED
    BY <1>3, <1>4, <1>6 DEF ComesIn

\* A step at the server either leaves the catalog alone, or writes the row of an
\* update or a deactivation, or inserts one.
LEMMA ServerMoves ==
    ASSUME RulesTypeOK, NEW a \in Callers, UnderWay(a), ServerStep(a)
    PROVE  LET r == call[a]
               s == call'[a]
           IN
           /\ r.state # "answered" /\ s \in Call /\ CallBecomes(a, s)
           /\ s.patch = r.patch /\ UNCHANGED calls
           /\ UnderWay(a)'
           /\ \/ UNCHANGED <<pkgs, skewed>>
              \/ /\ r.state = "commit" /\ s.state = "answered" /\ s.answer = "OK"
                 /\ r.op # "create" /\ ~RowRefused(r)
                 /\ pkgs' = [pkgs EXCEPT ![r.id] = Patched(r)]
                 /\ skewed' = IF "features" \in DOMAIN r.patch /\ pkgs[r.id].features # r.loaded.features
                              THEN skewed \cup {r.id} ELSE skewed
              \/ /\ r.state = "commit" /\ s.state = "answered" /\ s.answer = "OK"
                 /\ r.op = "create" /\ ~SlugHeld(r) /\ UNCHANGED skewed
                 /\ \E p \in Ids \ Existing : pkgs' = [pkgs EXCEPT ![p] =
                      [f \in Field |-> IF f \in DOMAIN r.patch THEN r.patch[f] ELSE TRUE]]
  <1> DEFINE r == call[a]
             s == call'[a]
  <1>t. call \in [Callers -> Call] /\ r \in Call
    BY DEF RulesTypeOK
  <1>1. ASSUME NEW answer \in Answer, Answers(a, answer), r.state # "answered"
        PROVE  /\ s \in Call /\ CallBecomes(a, s) /\ s.patch = r.patch /\ s.state = "answered"
               /\ UNCHANGED <<pkgs, calls, skewed>>
    <2>1. s = [r EXCEPT !.state = "answered", !.answer = answer] /\ CallBecomes(a, s)
      BY <1>1, <1>t DEF Answers, CallBecomes
    <2>2. s \in Call /\ s.patch = r.patch /\ s.state = "answered"
      BY <2>1, <1>t DEF Call
    <2> QED
      BY <1>1, <2>1, <2>2 DEF Answers
  <1>2. \A answer \in Answer : Answers(a, answer) /\ r.state # "answered" => UnderWay(a)'
    BY <1>1 DEF UnderWay
  <1>3. CASE CheckSlug(a)
    <2>1. r.state = "slug"
      BY <1>3 DEF CheckSlug
    <2>2. CASE \E answer \in Answer : Answers(a, answer)
      BY <2>1, <2>2, <1>1, <1>2
    <2>3. CASE Goes(a, "commit") /\ ~RefusedFeatures(r)
      <3>1. s = [r EXCEPT !.state = "commit"] /\ CallBecomes(a, s) /\ UNCHANGED <<pkgs, calls, skewed>>
        BY <2>3, <1>t DEF Goes, CallBecomes
      <3>2. s \in Call /\ s.state = "commit" /\ s.op = r.op /\ s.id = r.id /\ s.patch = r.patch
            /\ s.loaded = r.loaded /\ s.answer = r.answer
        BY <3>1, <1>t DEF Call
      <3>3. RefusedFeatures(s) = RefusedFeatures(r) /\ Existing' = Existing
        BY <3>1, <3>2 DEF RefusedFeatures, Existing
      <3>4. UnderWay(a)'
        BY <2>1, <2>3, <3>2, <3>3 DEF UnderWay, RefusedFeatures
      <3> QED
        BY <2>1, <3>1, <3>2, <3>4
    <2>4. FeatureRefusal(r.patch.features) \in Answer
      BY FeatureAnswers DEF Answer
    <2> QED
      BY <1>3, <2>2, <2>3, <2>4 DEF CheckSlug, Answer
  <1>4. CASE CommitUpdate(a)
    <2>1. r.state = "commit" /\ r.op # "create"
      BY <1>4 DEF CommitUpdate
    <2>2. CASE \E answer \in Answer : Answers(a, answer)
      BY <2>1, <2>2, <1>1, <1>2
    <2>3. CASE /\ ~RowRefused(r)
               /\ pkgs' = [pkgs EXCEPT ![r.id] = Patched(r)]
               /\ call' = [call EXCEPT ![a].state = "answered"]
               /\ skewed' = IF "features" \in DOMAIN r.patch /\ pkgs[r.id].features # r.loaded.features
                            THEN skewed \cup {r.id} ELSE skewed
               /\ UNCHANGED calls
      <3>1. s = [r EXCEPT !.state = "answered"] /\ CallBecomes(a, s)
        BY <2>3, <1>t DEF CallBecomes
      <3>2. s \in Call /\ s.state = "answered" /\ s.patch = r.patch /\ s.answer = r.answer
        BY <3>1, <1>t DEF Call
      <3>3. r.answer = "OK"
        BY <2>1 DEF UnderWay
      <3>4. UnderWay(a)'
        BY <3>2 DEF UnderWay
      <3> QED
        BY <2>1, <2>3, <3>1, <3>2, <3>3, <3>4
    <2> QED
      BY <1>4, <2>2, <2>3 DEF CommitUpdate, Answer
  <1>5. CASE CommitCreate(a)
    <2>1. r.state = "commit" /\ r.op = "create"
      BY <1>5 DEF CommitCreate
    <2>2. CASE \E answer \in Answer : Answers(a, answer)
      BY <2>1, <2>2, <1>1, <1>2
    <2>3. ASSUME NEW p \in Ids \ Existing, ~SlugHeld(r),
                 pkgs' = [pkgs EXCEPT ![p] =
                   [f \in Field |-> IF f \in DOMAIN r.patch THEN r.patch[f] ELSE TRUE]],
                 call' = [call EXCEPT ![a].state = "answered", ![a].id = p],
                 UNCHANGED <<calls, skewed>>
          PROVE  /\ s \in Call /\ CallBecomes(a, s) /\ s.patch = r.patch /\ s.state = "answered"
                 /\ s.answer = "OK" /\ UnderWay(a)'
      <3>1. s = [r EXCEPT !.state = "answered", !.id = p] /\ CallBecomes(a, s)
        BY <2>3, <1>t DEF CallBecomes
      <3>2. s \in Call /\ s.state = "answered" /\ s.patch = r.patch /\ s.answer = r.answer
        BY <3>1, <1>t DEF Call
      <3>3. r.answer = "OK"
        BY <2>1 DEF UnderWay
      <3>4. UnderWay(a)'
        BY <3>2 DEF UnderWay
      <3> QED
        BY <3>1, <3>2, <3>3, <3>4
    <2>4. CASE ~(\E answer \in Answer : Answers(a, answer))
      <3>1. PICK p \in Ids \ Existing :
                 /\ ~SlugHeld(r)
                 /\ pkgs' = [pkgs EXCEPT ![p] =
                      [f \in Field |-> IF f \in DOMAIN r.patch THEN r.patch[f] ELSE TRUE]]
                 /\ call' = [call EXCEPT ![a].state = "answered", ![a].id = p]
                 /\ UNCHANGED <<calls, skewed>>
        BY <1>5, <2>4 DEF CommitCreate, Answer
      <3> QED
        BY <2>1, <2>3, <3>1
    <2> QED
      BY <2>2, <2>4
  <1> QED
    BY <1>3, <1>4, <1>5 DEF ServerStep

-----------------------------------------------------------------------------
(* What they do to the catalog.                                            *)

\* One update writes its row and nothing else, and no other package has its slug.
LEMMA UpdateWrites ==
    ASSUME RulesInv, NEW a \in Callers, call[a].state = "commit", call[a].op # "create",
           ~RowRefused(call[a]), pkgs' = [pkgs EXCEPT ![call[a].id] = Patched(call[a])],
           skewed' = IF /\ "features" \in DOMAIN call[a].patch
                        /\ pkgs[call[a].id].features # call[a].loaded.features
                     THEN skewed \cup {call[a].id} ELSE skewed
    PROVE  /\ pkgs' \in [Ids -> Row \cup {None}] /\ Existing' = Existing /\ skewed' \subseteq Ids
           /\ SlugsUnique' /\ FeaturelessOnlyBySkew'
  <1> DEFINE r == call[a]
             p == r.id
             row == Patched(r)
  <1>t. pkgs \in [Ids -> Row \cup {None}] /\ skewed \subseteq Ids
    BY DEF RulesInv, RulesTypeOK
  <1>1. /\ p \in Existing /\ row \in Row
        /\ row.slug # pkgs[p].slug => ~SlugHeld(r)
        /\ "features" \notin DOMAIN r.patch => row.features = pkgs[p].features
        /\ "features" \in DOMAIN r.patch /\ pkgs[p].features = r.loaded.features => row.features # {}
        /\ row.slug # pkgs[p].slug => row.slug = r.patch.slug
    <2>1. "slug" \in Field \ {"features"}
      BY DEF Field
    <2> QED
      BY <2>1, PatchedRow DEF RulesInv
  <1> HIDE DEF row
  <1>2. pkgs' = [pkgs EXCEPT ![p] = row] /\ p \in Ids
    BY <1>1 DEF row, Existing
  <1>3. pkgs' \in [Ids -> Row \cup {None}] /\ Existing' = Existing /\ skewed' \subseteq Ids
    BY <1>t, <1>1, <1>2, NoneAssumption DEF Existing
  <1>4. pkgs'[p] = row /\ \A q \in Existing \ {p} : pkgs'[q] = pkgs[q]
    BY <1>t, <1>2 DEF Existing
  <1>5. \A q \in Existing \ {p} : pkgs[q].slug # row.slug
    <2>1. CASE row.slug = pkgs[p].slug
      BY <1>1, <2>1 DEF RulesInv, SlugsUnique
    <2>2. CASE row.slug # pkgs[p].slug
      BY <1>1, <2>2 DEF SlugHeld
    <2> QED
      BY <2>1, <2>2
  <1>6. SlugsUnique'
    BY <1>3, <1>4, <1>5 DEF RulesInv, SlugsUnique
  <1>7. FeaturelessOnlyBySkew'
    <2> SUFFICES ASSUME NEW q \in Existing, q \notin skewed'
                 PROVE  pkgs'[q].features # {}
      BY <1>3 DEF FeaturelessOnlyBySkew
    <2>1. q \notin skewed /\ pkgs[q].features # {}
      BY DEF RulesInv, FeaturelessOnlyBySkew
    <2>2. CASE q = p
      BY <1>1, <1>4, <2>1, <2>2
    <2> QED
      BY <1>4, <2>1, <2>2
  <1> QED
    BY <1>3, <1>6, <1>7

\* A creation adds one row, and no other package has its slug.
LEMMA CreateWrites ==
    ASSUME RulesInv, NEW a \in Callers, call[a].state = "commit", call[a].op = "create",
           ~SlugHeld(call[a]), UNCHANGED skewed, NEW p \in Ids \ Existing,
           pkgs' = [pkgs EXCEPT ![p] =
             [f \in Field |-> IF f \in DOMAIN call[a].patch THEN call[a].patch[f] ELSE TRUE]]
    PROVE  /\ pkgs' \in [Ids -> Row \cup {None}] /\ Existing' = Existing \cup {p}
           /\ skewed' \subseteq Ids /\ \A q \in Existing : pkgs'[q] = pkgs[q]
           /\ SlugsUnique' /\ FeaturelessOnlyBySkew'
  <1> DEFINE patch == call[a].patch
             row == [f \in Field |-> IF f \in DOMAIN patch THEN patch[f] ELSE TRUE]
  <1>t. pkgs \in [Ids -> Row \cup {None}] /\ skewed \subseteq Ids
    BY DEF RulesInv, RulesTypeOK
  <1>1. row \in Row /\ row.slug = patch.slug /\ row.features # {}
    BY CreatedRow DEF RulesInv
  <1>2. pkgs' = [pkgs EXCEPT ![p] = row]
    OBVIOUS
  <1> HIDE DEF row
  <1>3. pkgs' \in [Ids -> Row \cup {None}] /\ Existing' = Existing \cup {p}
    <2>1. row # None /\ p \in Ids
      BY <1>1, NoneAssumption
    <2>2. pkgs' \in [Ids -> Row \cup {None}]
      BY <1>t, <1>1, <1>2
    <2>3. \A q \in Ids : pkgs'[q] = IF q = p THEN row ELSE pkgs[q]
      BY <1>t, <1>2
    <2> QED
      BY <2>1, <2>2, <2>3 DEF Existing
  <1>4. pkgs'[p] = row /\ \A q \in Existing : pkgs'[q] = pkgs[q]
    BY <1>t, <1>2 DEF Existing
  <1>5. \A q \in Existing : pkgs[q].slug # row.slug
    <2>1. call[a].id \notin Existing
      BY NoneAssumption DEF RulesInv, UnderWay, Existing
    <2> QED
      BY <1>1, <2>1 DEF SlugHeld
  <1>6. SlugsUnique'
    <2> SUFFICES ASSUME NEW q \in Existing \cup {p}, NEW s \in Existing \cup {p},
                        pkgs'[q].slug = pkgs'[s].slug
                 PROVE  q = s
      BY <1>3 DEF SlugsUnique
    <2>1. CASE q \in Existing /\ s \in Existing
      BY <1>4, <2>1 DEF RulesInv, SlugsUnique
    <2> QED
      BY <1>4, <1>5, <2>1
  <1>7. FeaturelessOnlyBySkew'
    BY <1>1, <1>3, <1>4 DEF RulesInv, FeaturelessOnlyBySkew
  <1> QED
    BY <1>t, <1>3, <1>4, <1>6, <1>7

\* The catalog stays as it should, whoever takes a step.
LEMMA ServerKeeps ==
    ASSUME RulesInv, NEW a \in Callers, ServerStep(a)
    PROVE  /\ pkgs' \in [Ids -> Row \cup {None}] /\ Existing \subseteq Existing'
           /\ skewed' \subseteq Ids /\ SlugsUnique' /\ FeaturelessOnlyBySkew'
  <1>1. RulesTypeOK /\ UnderWay(a)
    BY DEF RulesInv
  <1>2. CASE UNCHANGED <<pkgs, skewed>>
    BY <1>2 DEF RulesInv, RulesTypeOK, Existing, SlugsUnique, FeaturelessOnlyBySkew
  <1>3. CASE /\ call[a].state = "commit" /\ call[a].op # "create" /\ ~RowRefused(call[a])
             /\ pkgs' = [pkgs EXCEPT ![call[a].id] = Patched(call[a])]
             /\ skewed' = IF /\ "features" \in DOMAIN call[a].patch
                             /\ pkgs[call[a].id].features # call[a].loaded.features
                          THEN skewed \cup {call[a].id} ELSE skewed
    BY <1>3, UpdateWrites
  <1>4. CASE /\ call[a].state = "commit" /\ call[a].op = "create" /\ ~SlugHeld(call[a])
             /\ UNCHANGED skewed
             /\ \E p \in Ids \ Existing : pkgs' = [pkgs EXCEPT ![p] =
                  [f \in Field |-> IF f \in DOMAIN call[a].patch THEN call[a].patch[f] ELSE TRUE]]
    BY <1>4, CreateWrites
  <1> QED
    BY <1>1, <1>2, <1>3, <1>4, ServerMoves

\* What is known of another's request stays true: its package stays there.
LEMMA OthersUnderWay ==
    ASSUME RulesTypeOK, NEW a \in Callers, NEW b \in Callers, a # b, UnderWay(b),
           NEW r, CallBecomes(a, r), Existing \subseteq Existing'
    PROVE  UnderWay(b)'
  <1>1. call'[b] = call[b]
    BY DEF RulesTypeOK, CallBecomes
  <1> QED
    BY <1>1 DEF UnderWay, RefusedFeatures, FeatureRefusal, SetsTo

\* RulesInv holds at first,
LEMMA RulesInitInv == RulesInit => RulesInv
  <1> SUFFICES ASSUME RulesInit PROVE RulesInv
    OBVIOUS
  <1>1. NoCall \in Call /\ NoCall.state = "answered"
    BY DEF NoCall, Call, Answer
  <1>2. RulesTypeOK
    BY <1>1, SeededAssumption, MaxCallsAssumption DEF RulesInit, RulesTypeOK
  <1>3. \A a \in Callers : UnderWay(a)
    BY <1>1 DEF RulesInit, UnderWay
  <1>4. SlugsUnique /\ FeaturelessOnlyBySkew
    BY SeededAssumption DEF RulesInit, SlugsUnique, FeaturelessOnlyBySkew, Existing
  <1> QED
    BY <1>2, <1>3, <1>4 DEF RulesInv

\* when a request comes in,
LEMMA RequestKeepsInv ==
    ASSUME RulesInv, NEW a \in Callers, ComesIn(a)
    PROVE  RulesInv'
  <1>1. PICK r \in Call : CallBecomes(a, r)
    BY DEF ComesIn
  <1>2. calls' \in 0 .. MaxCalls /\ UNCHANGED <<pkgs, skewed>> /\ UnderWay(a)' /\ Existing' = Existing
    BY DEF ComesIn, Existing
  <1>3. RulesTypeOK'
    BY <1>1, <1>2 DEF RulesInv, RulesTypeOK, CallBecomes
  <1>4. \A b \in Callers : UnderWay(b)'
    BY <1>1, <1>2, OthersUnderWay DEF RulesInv
  <1>5. SlugsUnique' /\ FeaturelessOnlyBySkew'
    BY <1>2 DEF RulesInv, SlugsUnique, FeaturelessOnlyBySkew
  <1> QED
    BY <1>3, <1>4, <1>5 DEF RulesInv

\* and when the server takes a step.
LEMMA ServerKeepsInv ==
    ASSUME RulesInv, NEW a \in Callers, ServerStep(a)
    PROVE  RulesInv'
  <1>1. RulesTypeOK /\ UnderWay(a)
    BY DEF RulesInv
  <1>2. call'[a] \in Call /\ CallBecomes(a, call'[a]) /\ UNCHANGED calls /\ UnderWay(a)'
    BY <1>1, ServerMoves
  <1>3. /\ pkgs' \in [Ids -> Row \cup {None}] /\ Existing \subseteq Existing'
        /\ skewed' \subseteq Ids /\ SlugsUnique' /\ FeaturelessOnlyBySkew'
    BY ServerKeeps
  <1>4. RulesTypeOK'
    <2>1. call' \in [Callers -> Call]
      BY <1>1, <1>2 DEF RulesTypeOK, CallBecomes
    <2> QED
      BY <1>1, <1>2, <1>3, <2>1 DEF RulesTypeOK
  <1>5. \A b \in Callers : UnderWay(b)'
    BY <1>1, <1>2, <1>3, OthersUnderWay DEF RulesInv
  <1> QED
    BY <1>3, <1>4, <1>5 DEF RulesInv

-----------------------------------------------------------------------------
(* Action properties of the rules.                                         *)

\* A step at the server changes only fields that its payload names.
LEMMA ServerWritesNamed ==
    ASSUME RulesInv, NEW a \in Callers, ServerStep(a)
    PROVE  WritesWhatIsNamed
  <1> SUFFICES ASSUME NEW p \in Existing, NEW f \in Field, pkgs'[p][f] # pkgs[p][f]
               PROVE  /\ Commits(a, p) /\ f \in DOMAIN call[a].patch
                      /\ f # "features" => pkgs'[p][f] = call[a].patch[f]
    BY DEF WritesWhatIsNamed
  <1> DEFINE r == call[a]
  <1>1. RulesTypeOK /\ UnderWay(a) /\ pkgs \in [Ids -> Row \cup {None}] /\ p \in Ids
    BY DEF RulesInv, RulesTypeOK, Existing
  <1>2. CASE UNCHANGED <<pkgs, skewed>>
    BY <1>2
  <1>3. CASE /\ r.state = "commit" /\ call'[a].state = "answered" /\ r.op # "create" /\ ~RowRefused(r)
             /\ pkgs' = [pkgs EXCEPT ![r.id] = Patched(r)]
    <2>1. r.id = p /\ pkgs'[p] = Patched(r)
      BY <1>1, <1>3
    <2>2. f \in DOMAIN r.patch /\ (f # "features" => pkgs'[p][f] = r.patch[f])
      BY <1>1, <1>3, <2>1, PatchedRow
    <2> QED
      BY <1>3, <2>1, <2>2 DEF Commits
  <1>4. CASE \E q \in Ids \ Existing : pkgs' = [pkgs EXCEPT ![q] =
               [g \in Field |-> IF g \in DOMAIN r.patch THEN r.patch[g] ELSE TRUE]]
    BY <1>1, <1>4
  <1> QED
    BY <1>1, <1>2, <1>3, <1>4, ServerMoves

\* Of the checks and commits, only those with a cause answer that a slug exists.
LEMMA ServerAnswersCaused ==
    ASSUME RulesInv, NEW a \in Callers, ServerStep(a), ToldSlugExists(a)
    PROVE  SlugCause(call[a])
  <1> DEFINE r == call[a]
             told == "PACKAGE_SLUG_EXISTS"
  <1>1. RulesTypeOK /\ UnderWay(a) /\ r \in Call /\ r.answer = "OK"
    BY DEF RulesInv, RulesTypeOK, UnderWay, ToldSlugExists
  <1>2. \A answer : Answers(a, answer) => answer = told
    <2> SUFFICES ASSUME NEW answer, Answers(a, answer)
                 PROVE  answer = call'[a].answer
      BY DEF ToldSlugExists
    <2>1. call'[a] = [r EXCEPT !.state = "answered", !.answer = answer]
      BY <1>1 DEF Answers, RulesTypeOK
    <2> QED
      BY <2>1, <1>1 DEF Call
  <1>3. r.op # "create" => r.id \in Existing /\ r.loaded \in Row /\ pkgs[r.id] \in Row
    BY <1>1 DEF UnderWay, ToldSlugExists, RulesTypeOK, Existing
  <1>4. \A c : call' = [call EXCEPT ![a] = c] => call'[a] = c
    BY <1>1 DEF RulesTypeOK
  <1>5. CASE CheckSlug(a)
    <2>1. FeatureRefusal(r.patch.features) # told
      BY FeatureAnswers
    <2>2. ~Goes(a, "commit")
      <3> SUFFICES ASSUME Goes(a, "commit") PROVE FALSE
        OBVIOUS
      <3>1. call'[a] = [r EXCEPT !.state = "commit"]
        BY <1>4 DEF Goes
      <3> QED
        BY <1>1, <3>1 DEF Call, ToldSlugExists
    <2>3. AsksForSlug(r) /\ \E q \in Existing : pkgs[q].slug = r.patch.slug
      BY <1>2, <1>5, <2>1, <2>2 DEF CheckSlug
    <2>4. PICK q \in Existing : pkgs[q].slug = r.patch.slug
      BY <2>3
    <2>5. CASE q = r.id
      <3>1. r.op = "update"
        BY <1>1, <1>5, <2>5, NoneAssumption DEF UnderWay, ToldSlugExists, CheckSlug, Existing
      <3>2. pkgs[r.id].slug # r.loaded.slug
        BY <2>3, <2>4, <2>5, <3>1 DEF AsksForSlug
      <3> QED
        BY <3>1, <3>2 DEF SlugCause
    <2>6. CASE q # r.id
      BY <2>3, <2>4, <2>6 DEF SlugCause, AsksForSlug
    <2> QED
      BY <2>5, <2>6
  <1>6. CASE CommitUpdate(a)
    <2>1. ~(call' = [call EXCEPT ![a].state = "answered"])
      <3> SUFFICES ASSUME call' = [call EXCEPT ![a].state = "answered"] PROVE FALSE
        OBVIOUS
      <3>1. call'[a] = [r EXCEPT !.state = "answered"]
        BY <1>4
      <3> QED
        BY <1>1, <3>1 DEF Call, ToldSlugExists
    <2>2. CASE RowRefused(r)
      <3>1. \A f \in Changed(r) : f \in DOMAIN r.patch
        BY DEF Changed
      <3> QED
        BY <2>2, <3>1 DEF RowRefused, SlugHeld, SlugCause
    <2>3. CASE GrantsHeld(r)
      <3>1. "features" \in DOMAIN r.patch
        BY <2>3 DEF GrantsHeld, Granted
      <3>2. r.op = "update"
        BY <1>1, <1>6, <3>1, DeactivationSets DEF UnderWay, ToldSlugExists, CommitUpdate
      <3>3. pkgs[r.id].features # r.loaded.features
        BY <2>3 DEF GrantsHeld, Granted
      <3> QED
        BY <3>2, <3>3 DEF SlugCause
    <2> QED
      BY <1>2, <1>6, <2>1, <2>2, <2>3 DEF CommitUpdate
  <1>7. CASE CommitCreate(a)
    <2>1. ASSUME NEW p \in Ids, call' = [call EXCEPT ![a].state = "answered", ![a].id = p]
          PROVE  FALSE
      <3>1. call'[a] = [r EXCEPT !.state = "answered", !.id = p]
        BY <1>1, <2>1 DEF RulesTypeOK
      <3> QED
        BY <1>1, <3>1 DEF Call, ToldSlugExists
    <2>2. SlugHeld(r)
      BY <1>7, <2>1 DEF CommitCreate
    <2>3. "slug" \in DOMAIN r.patch
      BY <1>1, <1>7, CreatedRow DEF CommitCreate
    <2> QED
      BY <2>2, <2>3 DEF SlugHeld, SlugCause
  <1> QED
    BY <1>5, <1>6, <1>7 DEF ServerStep

\* Both properties, for a step at the server and a request that comes in.
LEMMA StepsKeepRules ==
    ASSUME RulesInv, NEW a \in Callers, ServerStep(a) \/ ComesIn(a)
    PROVE  WritesWhatIsNamed /\ SlugAnswersCaused
  <1>1. RulesTypeOK /\ UnderWay(a)
    BY DEF RulesInv
  <1>2. \E r : CallBecomes(a, r)
    BY <1>1, ServerMoves DEF ComesIn
  <1>3. \A b \in Callers \ {a} : call'[b] = call[b]
    BY <1>1, <1>2 DEF CallBecomes, RulesTypeOK
  <1>4. \A b \in Callers : ToldSlugExists(b) => b = a
    BY <1>3 DEF ToldSlugExists
  <1>5. CASE ServerStep(a)
    BY <1>4, <1>5, ServerWritesNamed, ServerAnswersCaused DEF SlugAnswersCaused
  <1>6. CASE ComesIn(a)
    BY <1>4, <1>6 DEF ComesIn, WritesWhatIsNamed, SlugAnswersCaused, ToldSlugExists
  <1> QED
    BY <1>5, <1>6

-----------------------------------------------------------------------------
(* Pages.                                                                  *)

\* The callers of a page are callers, and no two of them are the same.
LEMMA CallersOfPages ==
    ASSUME NEW g \in Pages
    PROVE  /\ Save(g) \in Callers /\ Del(g) \in Callers
           /\ \A h \in Pages : /\ Save(g) # Del(h)
                               /\ (Save(g) = Save(h) \/ Del(g) = Del(h)) => g = h
  BY CallersAssumption DEF Save, Del

\* The page of g alone changes, and its forms stay true to what was shown.
PageChanges(g, r) ==
    /\ Becomes(g, r) /\ r \in Page
    /\ TickedIsShown(r.form) /\ TickedIsShown(r.sent)

\* A form is opened, or what is open is closed: nothing is sent.
LEMMA DialogSteps ==
    ASSUME AdminInv, NEW g \in Pages,
           \/ OpenCreate(g) \/ Cancel(g)
           \/ \E p \in Ids : OpenEdit(g, p) \/ OpenDelete(g, p)
    PROVE  UNCHANGED Server /\ \E r : PageChanges(g, r) /\ r.sent = page[g].sent
  <1>t. page[g] \in Page /\ TickedIsShown(page[g].form) /\ TickedIsShown(page[g].sent)
    BY DEF AdminInv
  <1>1. CASE OpenCreate(g)
    <2> DEFINE r == [page[g] EXCEPT !.modalOpen = TRUE, !.form = EmptyForm]
    <2>1. EmptyForm \in Form /\ TickedIsShown(EmptyForm)
      BY DEF EmptyForm, Form, TickedIsShown
    <2>2. r \in Page /\ r.form = EmptyForm /\ r.sent = page[g].sent
      BY <1>t, <2>1 DEF Page
    <2> HIDE DEF r
    <2> QED
      BY <1>1, <1>t, <2>1, <2>2 DEF OpenCreate, PageChanges, r
  <1>2. CASE Cancel(g)
    <2> DEFINE r == Closed(page[g])
    <2>1. r \in Page /\ r.form = page[g].form /\ r.sent = page[g].sent
      BY <1>t DEF Page, Closed
    <2> HIDE DEF r
    <2> QED
      BY <1>2, <1>t, <2>1 DEF Cancel, PageChanges, r
  <1>3. ASSUME NEW p \in Ids, OpenEdit(g, p)
        PROVE  UNCHANGED Server /\ \E r : PageChanges(g, r) /\ r.sent = page[g].sent
    <2> DEFINE row == page[g].list[p]
               form == [id |-> p, body |-> row.body, active |-> row.active,
                        features |-> row.features, shown |-> row.active]
               r == [page[g] EXCEPT !.modalOpen = TRUE, !.form = form]
    <2>1. row \in Row
      BY <1>3, <1>t DEF OpenEdit, Listed, Page, Catalog
    <2>2. form \in Form
      BY <2>1 DEF Form, Row
    <2>3. TickedIsShown(form)
      BY DEF TickedIsShown
    <2>4. Becomes(g, r) /\ UNCHANGED Server
      BY <1>3 DEF OpenEdit
    <2> HIDE DEF form
    <2>5. r \in Page /\ r.form = form /\ r.sent = page[g].sent
      BY <1>t, <2>2 DEF Page
    <2> HIDE DEF r
    <2> QED
      BY <1>t, <2>3, <2>4, <2>5 DEF PageChanges
  <1>4. ASSUME NEW p \in Ids, OpenDelete(g, p)
        PROVE  UNCHANGED Server /\ \E r : PageChanges(g, r) /\ r.sent = page[g].sent
    <2> DEFINE r == [page[g] EXCEPT !.deleteTarget = p]
    <2>1. r \in Page /\ r.form = page[g].form /\ r.sent = page[g].sent
      BY <1>t DEF Page
    <2> HIDE DEF r
    <2> QED
      BY <1>4, <1>t, <2>1 DEF OpenDelete, PageChanges, r
  <1> QED
    BY <1>1, <1>2, <1>3, <1>4

\* A page sends a write, and remembers the form it sent.
LEMMA SubmitStep ==
    ASSUME AdminInv, NEW g \in Pages, NEW body \in Bodies \cup {Invalid},
           NEW active \in BOOLEAN, NEW features \in SUBSET Features,
           Submit(g, body, active, features)
    PROVE  ComesIn(Save(g)) /\ \E r : PageChanges(g, r) /\ WritesAsSent(g)'
  <1> DEFINE form == page[g].form
             sent == [form EXCEPT !.body = body, !.active = active, !.features = features,
                                  !.shown = @ \/ active # form.active]
             r == [page[g] EXCEPT !.saving = "sent", !.sent = sent]
             patch == PagePatch(body, active)
  <1>t. page[g] \in Page /\ form \in Form /\ TickedIsShown(form)
    BY DEF AdminInv, Page
  <1>1. sent \in Form /\ sent.body = body /\ sent.active = active
    <2>1. (form.shown \/ active # form.active) \in BOOLEAN
      OBVIOUS
    <2> QED
      BY <1>t, <2>1 DEF Form
  <1>2. TickedIsShown(sent)
    <2>1. sent.shown = (form.shown \/ active # form.active)
      BY <1>t DEF Form
    <2>2. active /\ ~form.shown => active # form.active
      BY <1>t DEF TickedIsShown
    <2> HIDE DEF sent
    <2> QED
      BY <1>1, <2>1, <2>2 DEF TickedIsShown
  <1>3. Becomes(g, r)
    BY DEF Submit
  <1>4. ComesIn(Save(g)) /\ call'[Save(g)].patch = patch
    <2>1. patch \in Patches
      BY PagePatchesAssumption
    <2>2. Save(g) \in Callers /\ RulesTypeOK
      BY CallersOfPages DEF AdminInv, RulesInv
    <2>3. CASE form.id = None
      BY <2>1, <2>2, <2>3, CreateMoves DEF Submit
    <2>4. CASE form.id # None
      <3>1. form.id \in Ids /\ UpdatePackage(Save(g), form.id, patch)
        BY <1>t, <2>4 DEF Submit, Form
      <3> QED
        BY <2>1, <2>2, <3>1, UpdateMoves
    <2> QED
      BY <2>3, <2>4
  <1> HIDE DEF sent
  <1>5. r \in Page /\ r.form = form /\ r.sent = sent
    BY <1>t, <1>1 DEF Page
  <1> HIDE DEF r
  <1>6. page'[g] = r
    BY <1>3 DEF Becomes, AdminInv
  <1>7. WritesAsSent(g)'
    <2>1. call'[Save(g)].patch = PagePatch(page'[g].sent.body, page'[g].sent.active)
      BY <1>1, <1>4, <1>5, <1>6
    <2>2. call'[Del(g)] = call[Del(g)]
      BY <1>4, CallersOfPages DEF ComesIn, CallBecomes, AdminInv, RulesInv, RulesTypeOK
    <2> QED
      BY <2>1, <2>2 DEF AdminInv, WritesAsSent, PagePatch, Deactivation
  <1> QED
    BY <1>t, <1>2, <1>3, <1>4, <1>5, <1>7 DEF PageChanges

\* A deactivation is sent.
LEMMA ConfirmStep ==
    ASSUME AdminInv, NEW g \in Pages, Confirm(g)
    PROVE  /\ ComesIn(Del(g)) /\ call'[Del(g)].patch = Deactivation
           /\ \E r : PageChanges(g, r) /\ r.sent = page[g].sent
  <1> DEFINE r == [page[g] EXCEPT !.deleting = "sent"]
  <1>t. page[g] \in Page /\ TickedIsShown(page[g].form) /\ TickedIsShown(page[g].sent)
    BY DEF AdminInv
  <1>1. page[g].deleteTarget \in Ids
    BY <1>t DEF Confirm, Page
  <1>2. ComesIn(Del(g)) /\ call'[Del(g)].patch = Deactivation
    BY <1>1, CallersOfPages, DeactivateMoves DEF Confirm, AdminInv, RulesInv
  <1>3. r \in Page /\ r.form = page[g].form /\ r.sent = page[g].sent
    BY <1>t DEF Page
  <1>4. Becomes(g, r)
    BY DEF Confirm
  <1> HIDE DEF r
  <1> QED
    BY <1>t, <1>2, <1>3, <1>4 DEF PageChanges

\* An answer comes, a list is read, or comes, or fails.
LEMMA NetworkStep ==
    ASSUME AdminInv, NEW g \in Pages, Network(g)
    PROVE  UNCHANGED Server /\ \E r : PageChanges(g, r) /\ r.sent = page[g].sent
  <1> DEFINE old == page[g]
  <1>t. old \in Page /\ TickedIsShown(old.form) /\ TickedIsShown(old.sent)
    BY DEF AdminInv
  <1>c. pkgs \in Catalog
    BY DEF AdminInv, RulesInv, RulesTypeOK, Catalog
  <1>s. ASSUME NEW r \in Page, Becomes(g, r), r.form = old.form, r.sent = old.sent
        PROVE  \E s : PageChanges(g, s) /\ s.sent = old.sent
    BY <1>s, <1>t DEF PageChanges
  <1>l. ASSUME NEW l \in Loader, NEW state \in {"idle", "sent", "read"}
        PROVE  [old.load EXCEPT ![l].state = state] \in [Loader -> Load]
    BY <1>t DEF Page, Load
  <1>n. NoLoad \in Load
    BY DEF NoLoad, NoRows, Load, Catalog
  <1>1. ASSUME NEW x \in {"save", "delete"}, NEW r \in Page,
               r.form = old.form, r.sent = old.sent, r.load = old.load
        PROVE  Reloads(r, x) \in Page /\ Reloads(r, x).form = old.form /\ Reloads(r, x).sent = old.sent
    <2>1. [r.load EXCEPT ![x].state = "sent"] \in [Loader -> Load]
      BY <1>1, <1>l DEF Loader
    <2>2. Reloads(r, x) = [r EXCEPT !.loading = TRUE, !.load = [r.load EXCEPT ![x].state = "sent"]]
      BY DEF Reloads, Page
    <2> QED
      BY <1>1, <2>1, <2>2 DEF Page
  <1>2. CASE SaveAnswered(g)
    <2> DEFINE r == [Closed(old) EXCEPT !.saving = "reload"]
               s == [old EXCEPT !.saving = "no"]
    <2>1. r \in Page /\ r.form = old.form /\ r.sent = old.sent /\ r.load = old.load
      BY <1>t DEF Closed, Page
    <2>2. s \in Page /\ s.form = old.form /\ s.sent = old.sent
      BY <1>t DEF Page
    <2>3. (Becomes(g, Reloads(r, "save")) \/ Becomes(g, s)) /\ UNCHANGED Server
      BY <1>2 DEF SaveAnswered
    <2> HIDE DEF r, s
    <2> QED
      BY <1>1, <1>s, <2>1, <2>2, <2>3
  <1>3. CASE DeleteAnswered(g)
    <2> DEFINE r == [Closed(old) EXCEPT !.deleting = "reload"]
               s == [old EXCEPT !.deleting = "no"]
    <2>1. r \in Page /\ r.form = old.form /\ r.sent = old.sent /\ r.load = old.load
      BY <1>t DEF Closed, Page
    <2>2. s \in Page /\ s.form = old.form /\ s.sent = old.sent
      BY <1>t DEF Page
    <2>3. (Becomes(g, Reloads(r, "delete")) \/ Becomes(g, s)) /\ UNCHANGED Server
      BY <1>3 DEF DeleteAnswered
    <2> HIDE DEF r, s
    <2> QED
      BY <1>1, <1>s, <2>1, <2>2, <2>3
  <1>4. ASSUME NEW l \in Loader, NEW r \in Page, r.form = old.form, r.sent = old.sent
        PROVE  Settled(r, l) \in Page /\ Settled(r, l).form = old.form /\ Settled(r, l).sent = old.sent
    <2>1. [r.load EXCEPT ![l] = NoLoad] \in [Loader -> Load]
      BY <1>n DEF Page
    <2>2. Settled(r, l) = [r EXCEPT !.loading = FALSE, !.load = [r.load EXCEPT ![l] = NoLoad],
                                    !.saving = IF l = "save" THEN "no" ELSE r.saving,
                                    !.deleting = IF l = "delete" THEN "no" ELSE r.deleting]
      BY DEF Settled, Page
    <2> QED
      BY <1>4, <2>1, <2>2 DEF Page
  <1>5. ASSUME NEW l \in Loader, ListPackages(g, l)
        PROVE  UNCHANGED Server /\ \E s : PageChanges(g, s) /\ s.sent = old.sent
    <2> DEFINE read == [state |-> "read", rows |-> pkgs]
               r == [old EXCEPT !.load = [old.load EXCEPT ![l] = read]]
    <2>1. read \in Load
      BY <1>c DEF Load
    <2> HIDE DEF read
    <2>2. [old.load EXCEPT ![l] = read] \in [Loader -> Load]
      BY <1>t, <2>1 DEF Page
    <2>3. r \in Page /\ r.form = old.form /\ r.sent = old.sent
      BY <1>t, <2>2 DEF Page
    <2>4. Becomes(g, r) /\ UNCHANGED Server
      BY <1>5, <1>t DEF ListPackages, Page, read
    <2> HIDE DEF r
    <2> QED
      BY <1>s, <2>3, <2>4
  <1>6. ASSUME NEW l \in Loader, Loaded(g, l)
        PROVE  UNCHANGED Server /\ \E s : PageChanges(g, s) /\ s.sent = old.sent
    <2> DEFINE r == [old EXCEPT !.list = old.load[l].rows]
    <2>1. old.load[l].rows \in Catalog
      BY <1>t DEF Page, Load
    <2>2. r \in Page /\ r.form = old.form /\ r.sent = old.sent
      BY <1>t, <2>1 DEF Page
    <2>3. Becomes(g, Settled(r, l)) /\ UNCHANGED Server
      BY <1>6 DEF Loaded
    <2> HIDE DEF r
    <2> QED
      BY <1>4, <1>s, <2>2, <2>3
  <1>7. ASSUME NEW l \in Loader, LoadFails(g, l)
        PROVE  UNCHANGED Server /\ \E s : PageChanges(g, s) /\ s.sent = old.sent
    <2>1. Becomes(g, Settled(old, l)) /\ UNCHANGED Server
      BY <1>7 DEF LoadFails
    <2> QED
      BY <1>t, <1>4, <1>s, <2>1
  <1> QED
    BY <1>2, <1>3, <1>5, <1>6, <1>7 DEF Network

-----------------------------------------------------------------------------
(* The invariant, and what follows from it.                                *)

\* At first every page waits for its list and nothing has been sent.
LEMMA AdminInit == Init => AdminInv
  <1> SUFFICES ASSUME Init PROVE AdminInv
    OBVIOUS
  <1>1. RulesInv
    BY RulesInitInv DEF Init
  <1>2. EmptyForm \in Form /\ TickedIsShown(EmptyForm)
    BY DEF EmptyForm, Form, TickedIsShown
  <1>3. NoRows \in Catalog /\ NoLoad \in Load /\ [NoLoad EXCEPT !.state = "sent"] \in Load
    BY DEF NoRows, Catalog, NoLoad, Load
  <1> DEFINE load == [l \in Loader |-> IF l = "mount" THEN [NoLoad EXCEPT !.state = "sent"] ELSE NoLoad]
             first == [list |-> NoRows, loading |-> TRUE, modalOpen |-> FALSE, form |-> EmptyForm,
                       deleteTarget |-> None, saving |-> "no", deleting |-> "no",
                       sent |-> EmptyForm, load |-> load]
  <1>4. load \in [Loader -> Load]
    BY <1>3
  <1> HIDE DEF load
  <1>5. first \in Page /\ first.form = EmptyForm /\ first.sent = EmptyForm
    BY <1>2, <1>3, <1>4 DEF Page
  <1>6. page = [g \in Pages |-> first]
    BY DEF Init, load
  <1> HIDE DEF first
  <1>7. \A g \in Pages : WritesAsSent(g)
    <2>1. \A a \in Callers : call[a].state = "answered"
      BY <1>1 DEF Init, RulesInit, NoCall
    <2> QED
      BY <2>1, CallersOfPages DEF WritesAsSent
  <1> QED
    BY <1>1, <1>2, <1>5, <1>6, <1>7 DEF AdminInv

\* Whatever step is taken, at most one request comes in or goes on, and at most one
\* page changes; a page changes what it has sent together with the request.
LEMMA StepKinds ==
    ASSUME AdminInv, [Next]_pageVars
    PROVE  \/ UNCHANGED page /\ (UNCHANGED vars \/ \E a \in Callers : ServerStep(a))
           \/ \E a \in Clients : UNCHANGED page /\ a \in Callers /\ ComesIn(a)
           \/ \E g \in Pages : \E r : /\ PageChanges(g, r)
                                      /\ \/ UNCHANGED vars /\ r.sent = page[g].sent
                                         \/ ComesIn(Del(g)) /\ call'[Del(g)].patch = Deactivation /\ r.sent = page[g].sent
                                         \/ ComesIn(Save(g)) /\ WritesAsSent(g)'
  <1>t. RulesTypeOK
    BY DEF AdminInv, RulesInv
  <1>1. CASE UNCHANGED pageVars
    BY <1>1 DEF pageVars, vars
  <1>2. ASSUME NEW a \in Clients, Request(a), UNCHANGED page
        PROVE  a \in Callers /\ ComesIn(a)
    <2>1. a \in Callers
      BY CallersAssumption
    <2> QED
      BY <1>2, <1>t, <2>1, CreateMoves, UpdateMoves, DeactivateMoves DEF Request
  <1>3. ASSUME NEW g \in Pages, User(g)
        PROVE  \E r : /\ PageChanges(g, r)
                      /\ \/ UNCHANGED vars /\ r.sent = page[g].sent
                         \/ ComesIn(Del(g)) /\ call'[Del(g)].patch = Deactivation /\ r.sent = page[g].sent
                         \/ ComesIn(Save(g)) /\ WritesAsSent(g)'
    <2>1. CASE OpenCreate(g) \/ Cancel(g)
      BY <2>1, DialogSteps DEF Server, vars
    <2>2. CASE \E p \in Ids : OpenEdit(g, p) \/ OpenDelete(g, p)
      BY <2>2, DialogSteps DEF Server, vars
    <2>3. CASE Confirm(g)
      BY <2>3, ConfirmStep
    <2>4. CASE \E body \in Bodies \cup {Invalid}, active \in BOOLEAN, features \in SUBSET Features :
                 Submit(g, body, active, features)
      BY <2>4, SubmitStep
    <2> QED
      BY <1>3, <2>1, <2>2, <2>3, <2>4 DEF User
  <1>4. ASSUME NEW g \in Pages, Network(g)
        PROVE  \E r : PageChanges(g, r) /\ UNCHANGED vars /\ r.sent = page[g].sent
    BY <1>4, NetworkStep DEF Server, vars
  <1> QED
    BY <1>1, <1>2, <1>3, <1>4 DEF Next

\* A page that is as it was and whose save has not been replaced has sent what
\* its call says.
LEMMA SentAsBefore ==
    ASSUME AdminInv, NEW g \in Pages, page'[g].sent = page[g].sent,
           NEW a \in Callers, NEW r \in Call, CallBecomes(a, r),
           \/ a \notin {Save(g), Del(g)} \/ a \in Clients
           \/ call[a].state # "answered" /\ r.patch = call[a].patch
           \/ a = Del(g) /\ r.patch = Deactivation
    PROVE  WritesAsSent(g)'
  <1>1. WritesAsSent(g) /\ Save(g) \in Callers /\ Del(g) \in Callers /\ Save(g) # Del(g)
    BY CallersOfPages DEF AdminInv
  <1>2. \A b \in Callers : call'[b] = IF a = b THEN r ELSE call[b]
    BY DEF AdminInv, RulesInv, RulesTypeOK, CallBecomes
  <1> QED
    BY <1>1, <1>2 DEF WritesAsSent, PagePatch, Deactivation

\* No step leaves the invariant.
LEMMA AdminInvStep == AdminInv /\ [Next]_pageVars => AdminInv'
  <1> SUFFICES ASSUME AdminInv, [Next]_pageVars PROVE AdminInv'
    OBVIOUS
  <1>t. RulesInv /\ page \in [Pages -> Page]
    BY DEF AdminInv
  <1>1. CASE UNCHANGED page /\ (UNCHANGED vars \/ \E a \in Callers : ServerStep(a))
    <2>1. CASE UNCHANGED vars
      BY <1>1, <2>1 DEF AdminInv, RulesInv, RulesTypeOK, UnderWay, Existing, SlugsUnique, vars,
           FeaturelessOnlyBySkew, WritesAsSent, TickedIsShown, RefusedFeatures, FeatureRefusal,
           SetsTo, PagePatch
    <2>2. ASSUME NEW a \in Callers, ServerStep(a)
          PROVE  AdminInv'
      <3>1. RulesInv'
        BY <1>t, <2>2, ServerKeepsInv
      <3>2. /\ call[a].state # "answered" /\ call'[a] \in Call
            /\ CallBecomes(a, call'[a]) /\ call'[a].patch = call[a].patch
        BY <1>t, <2>2, ServerMoves DEF RulesInv
      <3>3. \A g \in Pages : WritesAsSent(g)'
        BY <1>1, <3>2, SentAsBefore
      <3> QED
        BY <1>1, <3>1, <3>3 DEF AdminInv, TickedIsShown
    <2> QED
      BY <1>1, <2>1, <2>2
  <1>2. ASSUME NEW a \in Clients, UNCHANGED page, a \in Callers, ComesIn(a)
        PROVE  AdminInv'
    <2>1. RulesInv'
      BY <1>t, <1>2, RequestKeepsInv
    <2>2. \A g \in Pages : WritesAsSent(g)'
      BY <1>2, SentAsBefore DEF ComesIn
    <2> QED
      BY <1>2, <2>1, <2>2 DEF AdminInv, TickedIsShown
  <1>3. ASSUME NEW g \in Pages, NEW r, PageChanges(g, r),
               \/ UNCHANGED vars /\ r.sent = page[g].sent
               \/ ComesIn(Del(g)) /\ call'[Del(g)].patch = Deactivation /\ r.sent = page[g].sent
               \/ ComesIn(Save(g)) /\ WritesAsSent(g)'
        PROVE  AdminInv'
    <2>1. /\ page' \in [Pages -> Page] /\ page'[g] = r
          /\ \A h \in Pages \ {g} : page'[h] = page[h]
      BY <1>t, <1>3 DEF PageChanges, Becomes
    <2>2. \A h \in Pages : TickedIsShown(page[h].form)' /\ TickedIsShown(page[h].sent)'
      BY <1>3, <2>1 DEF PageChanges, AdminInv, TickedIsShown
    <2>3. CASE UNCHANGED vars /\ r.sent = page[g].sent
      <3>1. RulesInv'
        BY <1>t, <2>3 DEF RulesInv, RulesTypeOK, UnderWay, Existing, SlugsUnique, vars,
             FeaturelessOnlyBySkew, RefusedFeatures, FeatureRefusal, SetsTo
      <3>2. \A h \in Pages : WritesAsSent(h)'
        BY <2>1, <2>3 DEF AdminInv, WritesAsSent, PagePatch, vars
      <3> QED
        BY <2>1, <2>2, <3>1, <3>2 DEF AdminInv
    <2>4. CASE ComesIn(Del(g)) /\ call'[Del(g)].patch = Deactivation /\ r.sent = page[g].sent
      <3>1. RulesInv'
        BY <1>t, <2>4, CallersOfPages, RequestKeepsInv
      <3>2. \A h \in Pages : WritesAsSent(h)'
        <4>1. PICK s \in Call : CallBecomes(Del(g), s)
          BY <2>4 DEF ComesIn
        <4>2. s.patch = Deactivation
          BY <1>t, <2>4, <4>1, CallersOfPages DEF CallBecomes, RulesInv, RulesTypeOK
        <4>3. \A h \in Pages : page'[h].sent = page[h].sent
          BY <2>1, <2>4
        <4>4. \A h \in Pages : Del(g) \notin {Save(h), Del(h)} \/ Del(g) = Del(h)
          BY CallersOfPages
        <4> QED
          BY <4>1, <4>2, <4>3, <4>4, CallersOfPages, SentAsBefore
      <3> QED
        BY <2>1, <2>2, <3>1, <3>2 DEF AdminInv
    <2>5. CASE ComesIn(Save(g)) /\ WritesAsSent(g)'
      <3>1. RulesInv'
        BY <1>t, <2>5, CallersOfPages, RequestKeepsInv
      <3>2. \A h \in Pages \ {g} : WritesAsSent(h)'
        BY <2>1, <2>5, CallersOfPages, SentAsBefore DEF ComesIn
      <3> QED
        BY <2>1, <2>2, <2>5, <3>1, <3>2 DEF AdminInv
    <2> QED
      BY <1>3, <2>3, <2>4, <2>5
  <1> QED
    BY <1>1, <1>2, <1>3, StepKinds

\* The action properties of the rules hold of every step.
LEMMA StepsFollowRules ==
    ASSUME AdminInv, [Next]_pageVars
    PROVE  [WritesWhatIsNamed /\ SlugAnswersCaused]_vars
  <1>1. RulesInv
    BY DEF AdminInv
  <1> QED
    BY <1>1, CallersOfPages, StepKinds, StepsKeepRules

\* A package comes back by the API or by a page that has ticked it knowingly: what a
\* page commits is what it has sent.
LEMMA ReactivationStep ==
    ASSUME AdminInv, [Next]_pageVars
    PROVE  ReactivatesKnowingly
  <1> SUFFICES ASSUME NEW p \in Existing, Reactivated(p)
               PROVE  \E a \in Callers :
                        /\ Commits(a, p)
                        /\ a \in Clients \/ \E g \in Pages : a = Save(g) /\ page[g].sent.shown
    BY DEF ReactivatesKnowingly
  <1>t. RulesInv /\ RulesTypeOK /\ p \in Ids
    BY DEF AdminInv, RulesInv, Existing
  <1>1. pkgs'[p]["active"] # pkgs[p]["active"] /\ "active" \in Field /\ "active" # "features"
    BY DEF Reactivated, Field
  <1>2. ~UNCHANGED pkgs
    BY <1>1
  <1>3. WritesWhatIsNamed
    BY <1>2, StepsFollowRules DEF vars
  <1>4. PICK a \in Callers : /\ Commits(a, p) /\ "active" \in DOMAIN call[a].patch
                             /\ pkgs'[p]["active"] = call[a].patch["active"]
    BY <1>1, <1>3 DEF WritesWhatIsNamed
  <1>5. call[a].patch.active
    BY <1>4 DEF Reactivated
  <1>6. CASE a \in Clients
    BY <1>4, <1>6
  <1>7. ASSUME NEW g \in Pages, a = Save(g), a \notin Clients
        PROVE  page[g].sent.shown
    <2>1. call[a].patch = PagePatch(page[g].sent.body, page[g].sent.active)
      BY <1>4, <1>7 DEF AdminInv, WritesAsSent, Commits
    <2>2. page[g].sent.active
      BY <1>5, <2>1 DEF PagePatch
    <2> QED
      BY <2>2 DEF AdminInv, TickedIsShown
  <1>8. ASSUME NEW g \in Pages, a = Del(g), a \notin Clients
        PROVE  FALSE
    <2>1. call[a].patch = Deactivation
      BY <1>4, <1>8 DEF AdminInv, WritesAsSent, Commits
    <2> QED
      BY <1>5, <2>1, DeactivationSets
  <1> QED
    BY <1>4, <1>6, <1>7, <1>8, CallersAssumption

-----------------------------------------------------------------------------
(* What holds of every behaviour.                                          *)

\* AdminInv holds throughout: what the Python checks established of a request
\* under way, what each page has sent, and the state of the catalog.
THEOREM AdminInvariant == Spec => []AdminInv
  BY AdminInit, AdminInvStep, PTL DEF Spec

\* The catalog, the requests and the pages keep their types: no update writes a
\* null or an invalid body, however it races.
THEOREM AdminTypes == Spec => []TypeOK
  <1>1. AdminInv => TypeOK
    BY DEF AdminInv, RulesInv, TypeOK
  <1> QED
    BY <1>1, AdminInvariant, PTL

\* No two packages ever have one slug, whatever creations and updates race
\* between the SELECT by slug and the commit.
THEOREM SlugsStayUnique == Spec => []SlugsUnique
  <1>1. AdminInv => SlugsUnique
    BY DEF AdminInv, RulesInv
  <1> QED
    BY <1>1, AdminInvariant, PTL

\* A package loses its last feature only where two updates of its features
\* overlapped.
THEOREM FeaturelessMeansSkew == Spec => []FeaturelessOnlyBySkew
  <1>1. AdminInv => FeaturelessOnlyBySkew
    BY DEF AdminInv, RulesInv
  <1> QED
    BY <1>1, AdminInvariant, PTL

\* A commit changes no field of a package but those its payload names: updates
\* of different fields keep one another's.
THEOREM FieldsAreKept == Spec => OthersFieldsKept
  <1>1. AdminInv /\ [Next]_pageVars => [WritesWhatIsNamed]_vars
    BY StepsFollowRules
  <1> QED
    BY <1>1, AdminInvariant, PTL DEF Spec, OthersFieldsKept

\* The answer that a slug exists has one of its four causes.
THEOREM SlugAnswersAreCaused == Spec => SlugAnswerHasCause
  <1>1. AdminInv /\ [Next]_pageVars => [SlugAnswersCaused]_vars
    BY StepsFollowRules
  <1> QED
    BY <1>1, AdminInvariant, PTL DEF Spec, SlugAnswerHasCause

\* A page brings a deactivated package back only if its administrator ticked
\* Active or was shown it active.
THEOREM InactiveStays == Spec => SeenInactiveStays
  <1>1. AdminInv /\ [Next]_pageVars => [ReactivatesKnowingly]_pageVars
    BY ReactivationStep
  <1> QED
    BY <1>1, AdminInvariant, PTL DEF Spec, SeenInactiveStays

=============================================================================
