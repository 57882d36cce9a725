------------------------------ MODULE AdminPage ------------------------------
(***************************************************************************)
(* pages/Admin.tsx over CatalogRules: administrators whose forms and lists *)
(* show the catalog of some moment in the past, while others, with a page  *)
(* or with the API, go on changing it.                                     *)
(***************************************************************************)
EXTENDS CatalogRules

CONSTANTS
    Pages,    \* open administration pages
    Clients   \* callers of the API without a page

Save(g) == <<g, "save">>
Del(g) == <<g, "delete">>

\* handleSave sends no slug, no badge, and the features under a name that the
\* server does not know.
PagePatch(body, active) == [body |-> body, active |-> active]

ASSUME CallersAssumption ==
    Callers = Clients \cup {Save(g) : g \in Pages} \cup {Del(g) : g \in Pages}
ASSUME PagePatchesAssumption ==
    \A body \in Bodies \cup {Invalid}, active \in BOOLEAN : PagePatch(body, active) \in Patches

VARIABLE page   \* the React state of each page

pageVars == <<pkgs, call, calls, skewed, page>>

Catalog == [Ids -> Row \cup {None}]

Loader == {"mount", "save", "delete"}

\* shown tells what the list said when the form was opened.
Form == [id : Ids \cup {None}, body : Bodies \cup {Invalid}, active : BOOLEAN,
         features : SUBSET Features, shown : BOOLEAN]

\* A list request is under way, or has been answered with the rows.
Load == [state : {"idle", "sent", "read"}, rows : Catalog]

Page == [list : Catalog, loading : BOOLEAN, modalOpen : BOOLEAN, form : Form,
         deleteTarget : Ids \cup {None}, saving : {"no", "sent", "reload"},
         deleting : {"no", "sent", "reload"}, sent : Form, load : [Loader -> Load]]

\* Every variable holds a value of its type.
TypeOK == RulesTypeOK /\ page \in [Pages -> Page]

NoRows == [p \in Ids |-> None]
NoLoad == [state |-> "idle", rows |-> NoRows]

EmptyForm == [id |-> None, body |-> Invalid, active |-> TRUE, features |-> {}, shown |-> TRUE]

Init ==
    /\ RulesInit
    /\ page = [g \in Pages |->
         [list |-> NoRows, loading |-> TRUE, modalOpen |-> FALSE, form |-> EmptyForm,
          deleteTarget |-> None, saving |-> "no", deleting |-> "no", sent |-> EmptyForm,
          load |-> [l \in Loader |-> IF l = "mount" THEN [NoLoad EXCEPT !.state = "sent"] ELSE NoLoad]]]

Becomes(g, r) == page' = [page EXCEPT ![g] = r]

Server == <<pkgs, call, calls, skewed>>

-----------------------------------------------------------------------------
(* What the administrator does.                                            *)

\* A dialog lies over the page and its buttons.
DialogOpen(g) == page[g].modalOpen \/ page[g].deleteTarget # None

OpenCreate(g) ==
    /\ ~DialogOpen(g)
    /\ Becomes(g, [page[g] EXCEPT !.modalOpen = TRUE, !.form = EmptyForm])
    /\ UNCHANGED Server

\* The table, with its buttons, is there when nothing is loading.
Listed(g, p) == ~page[g].loading /\ page[g].list[p] # None

\* Mutant: the form starts with Active ticked.
OpenEdit_Active(g, p) ==
    /\ ~DialogOpen(g) /\ Listed(g, p)
    /\ LET row == page[g].list[p] IN
       Becomes(g, [page[g] EXCEPT !.modalOpen = TRUE,
         !.form = [id |-> p, body |-> row.body, active |-> TRUE,
                   features |-> row.features, shown |-> row.active]])
    /\ UNCHANGED Server

OpenEdit(g, p) ==
    /\ ~DialogOpen(g) /\ Listed(g, p)
    /\ LET row == page[g].list[p] IN
       Becomes(g, [page[g] EXCEPT !.modalOpen = TRUE,
         !.form = [id |-> p, body |-> row.body, active |-> row.active,
                   features |-> row.features, shown |-> row.active]])
    /\ UNCHANGED Server

OpenDelete(g, p) ==
    /\ ~DialogOpen(g) /\ Listed(g, p)
    /\ Becomes(g, [page[g] EXCEPT !.deleteTarget = p])
    /\ UNCHANGED Server

Closed(r) == [r EXCEPT !.modalOpen = FALSE, !.deleteTarget = None]

\* closeModal: Cancel, also while what the dialog has sent is under way.
Cancel(g) == DialogOpen(g) /\ Becomes(g, Closed(page[g])) /\ UNCHANGED Server

\* handleSave, with the form as the administrator has filled it in; the page
\* checks all of the body but the description.
Submit(g, body, active, features) ==
    LET form == page[g].form IN
    /\ page[g].modalOpen /\ page[g].saving = "no" /\ features # {}
    /\ IF form.id = None THEN CreatePackage(Save(g), PagePatch(body, active))
       ELSE UpdatePackage(Save(g), form.id, PagePatch(body, active))
    /\ Becomes(g, [page[g] EXCEPT !.saving = "sent",
         !.sent = [form EXCEPT !.body = body, !.active = active, !.features = features,
                               !.shown = @ \/ active # form.active]])

\* handleDelete.
Confirm(g) ==
    /\ page[g].deleteTarget # None /\ ~page[g].modalOpen /\ page[g].deleting = "no"
    /\ DeactivatePackage(Del(g), page[g].deleteTarget)
    /\ Becomes(g, [page[g] EXCEPT !.deleting = "sent"])

-----------------------------------------------------------------------------
(* Answers.                                                                *)

Reloads(r, l) == [r EXCEPT !.loading = TRUE, !.load[l].state = "sent"]

\* A success closes whatever dialog is open by now and loads the list again;
\* a failure is a toast.  An answer can be lost, which looks like a failure.
SaveAnswered(g) ==
    /\ page[g].saving = "sent" /\ call[Save(g)].state = "answered"
    /\ \/ /\ call[Save(g)].answer = "OK"
          /\ Becomes(g, Reloads([Closed(page[g]) EXCEPT !.saving = "reload"], "save"))
       \/ Becomes(g, [page[g] EXCEPT !.saving = "no"])
    /\ UNCHANGED Server

DeleteAnswered(g) ==
    /\ page[g].deleting = "sent" /\ call[Del(g)].state = "answered"
    /\ \/ /\ call[Del(g)].answer = "OK"
          /\ Becomes(g, Reloads([Closed(page[g]) EXCEPT !.deleting = "reload"], "delete"))
       \/ Becomes(g, [page[g] EXCEPT !.deleting = "no"])
    /\ UNCHANGED Server

\* The server answers GET /packages for an administrator from the tables.
ListPackages(g, l) ==
    /\ page[g].load[l].state = "sent"
    /\ Becomes(g, [page[g] EXCEPT !.load[l] = [state |-> "read", rows |-> pkgs]])
    /\ UNCHANGED Server

\* What waited for the list: finally, and the toast of success.
Settled(r, l) ==
    [r EXCEPT !.loading = FALSE, !.load[l] = NoLoad,
              !.saving = IF l = "save" THEN "no" ELSE @,
              !.deleting = IF l = "delete" THEN "no" ELSE @]

\* Mutant: the buttons are released where the list has come only.
LoadFails_NoFinally(g, l) ==
    /\ page[g].load[l].state # "idle"
    /\ Becomes(g, [page[g] EXCEPT !.load[l] = NoLoad])
    /\ UNCHANGED Server

Loaded(g, l) ==
    /\ page[g].load[l].state = "read"
    /\ Becomes(g, Settled([page[g] EXCEPT !.list = page[g].load[l].rows], l))
    /\ UNCHANGED Server

\* loadData swallows its error: the list stays as it was.
LoadFails(g, l) ==
    /\ page[g].load[l].state # "idle"
    /\ Becomes(g, Settled(page[g], l))
    /\ UNCHANGED Server

-----------------------------------------------------------------------------

User(g) ==
    \/ OpenCreate(g) \/ Cancel(g) \/ Confirm(g)
    \/ \E p \in Ids : OpenEdit(g, p) \/ OpenDelete(g, p)
    \/ \E body \in Bodies \cup {Invalid}, active \in BOOLEAN, features \in SUBSET Features :
         Submit(g, body, active, features)

Network(g) ==
    \/ SaveAnswered(g) \/ DeleteAnswered(g)
    \/ \E l \in Loader : ListPackages(g, l) \/ Loaded(g, l) \/ LoadFails(g, l)

Next ==
    \/ \E a \in Clients : Request(a) /\ UNCHANGED page
    \/ \E a \in Callers : ServerStep(a) /\ UNCHANGED page
    \/ \E g \in Pages : User(g) \/ Network(g)

Spec == Init /\ [][Next]_pageVars

\* The server answers what it has been sent, and requests end.
FairSpec ==
    /\ Spec
    /\ \A a \in Callers : WF_pageVars(ServerStep(a) /\ UNCHANGED page)
    /\ \A g \in Pages :
         /\ WF_pageVars(SaveAnswered(g)) /\ WF_pageVars(DeleteAnswered(g))
         /\ \A l \in Loader : WF_pageVars(ListPackages(g, l)) /\ WF_pageVars(Loaded(g, l) \/ LoadFails(g, l))

-----------------------------------------------------------------------------
(* What an administrator may rely on.                                      *)

Reactivated(p) == ~pkgs[p].active /\ pkgs'[p].active

ReactivatesKnowingly ==
    \A p \in Existing : Reactivated(p) =>
        \E a \in Callers :
            /\ Commits(a, p)
            /\ a \in Clients \/ \E g \in Pages : a = Save(g) /\ page[g].sent.shown

\* A package that was deactivated, here or elsewhere, comes back only by the
\* API, by an administrator who has ticked Active, or from a form that was
\* opened while the list still showed it active.
SeenInactiveStays == [][ReactivatesKnowingly]_pageVars

\* Whatever fails, the buttons of the page come back and the list does not
\* stay hidden.
PageSettles ==
    \A g \in Pages :
        [](page[g].saving # "no" \/ page[g].deleting # "no" \/ page[g].loading =>
             <>(page[g].saving = "no" /\ page[g].deleting = "no" /\ ~page[g].loading))

\* Admin.tsx:134: "Package saved. Catalog updated."
DocCatalogUpdated ==
    [][\A g \in Pages : page[g].saving = "reload" /\ page'[g].saving = "no" =>
         LET sent == page[g].sent IN
         sent.id # None => /\ pkgs[sent.id].body = sent.body
                           /\ pkgs[sent.id].active = sent.active
                           /\ pkgs[sent.id].features = sent.features]_pageVars

=============================================================================
