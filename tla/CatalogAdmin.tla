---------------------------- MODULE CatalogAdmin ----------------------------
(***************************************************************************)
(* The administrator's writes of the catalog as the other components see   *)
(* them: services/catalog_service.py commits the fields and the feature    *)
(* grants of one package in one commit.  CatalogRules looks at the requests *)
(* step by step; here is what they can leave in the tables.                *)
(***************************************************************************)
EXTENDS TaskQueue

CONSTANT MaxEdits   \* bound on the writes of one behaviour

ASSUME MaxEditsAssumption == MaxEdits \in Nat

VARIABLE edits      \* writes so far

adminVars == <<edits>>

AdminTypeOK == edits \in 0 .. MaxEdits

AdminInit == edits = 0

Edit(p, row) ==
    /\ edits < MaxEdits
    /\ edits' = edits + 1
    /\ pkg' = Put(pkg, p, row)
    /\ UNCHANGED <<tx, wallet, ledger, ents, runs, txLock, walletLock, queue, faults>>

\* A created package has at least one feature.
CreatePackage(p, row) == p \notin DOMAIN pkg /\ row.features # {} /\ Edit(p, row)

\* Two updates that overlap can leave a package without any.
UpdatePackage(p, row) == p \in DOMAIN pkg /\ Edit(p, row)

\* DELETE keeps the row.
DeactivatePackage(p) ==
    p \in DOMAIN pkg /\ Edit(p, [pkg[p] EXCEPT !.active = FALSE])

AdminNext ==
    \E p \in Packages :
        \/ \E row \in PackageRow : CreatePackage(p, row) \/ UpdatePackage(p, row)
        \/ DeactivatePackage(p)

=============================================================================
