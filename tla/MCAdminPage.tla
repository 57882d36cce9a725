----------------------------- MODULE MCAdminPage -----------------------------
(***************************************************************************)
(* Values of the constants of AdminPage for the runs of TLC.               *)
(***************************************************************************)
EXTENDS AdminPage, TLC

CONSTANTS p1, p2, s1, s2, b1, b2, f1, f2, g1, a1, a2

OneEach == (p1 :> [slug |-> s1, body |-> b1, active |-> TRUE, features |-> {f1, f2}]
            @@ p2 :> None)

\* Every value of every field by itself, what the page sends, and a whole row.
ApiPatches ==
    [{"slug"} -> {s1, s2, Null}]
      \cup [{"active"} -> {FALSE, Null}]
      \cup [{"features"} -> SUBSET {f1, f2} \cup {Null, {Unknown}}]
      \cup {PagePatch(body, active) : body \in Bodies \cup {Invalid}, active \in BOOLEAN}
      \cup {[slug |-> s, body |-> b1, features |-> {f1}] : s \in {s1, s2}}

PageCallers == {Save(g1), Del(g1)}
AllCallers == PageCallers \cup {a1, a2}

=============================================================================
