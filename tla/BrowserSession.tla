--------------------------- MODULE BrowserSession ---------------------------
(***************************************************************************)
(* Who the pages of one browser think is logged in: context/AuthContext    *)
(* and api/client of the frontend, with the cookies that routers/auth.py   *)
(* sets and deletes.  The tabs share the cookie jar and localStorage; each *)
(* has React state of its own, and answers reach it in any order.          *)
(*                                                                         *)
(* A request carries the cookie of the moment it is sent, and that cookie  *)
(* alone decides its answer: a token outlives its cookie and no user is    *)
(* ever deleted.  The answer is therefore fixed when the request is sent.  *)
(***************************************************************************)
EXTENDS Naturals

CONSTANTS
    Tabs,       \* tabs of the browser with the application open
    Users,      \* accounts
    None,       \* nobody: no cookie, no entry in localStorage, user null
    Idle,       \* no request of the kind is under way
    MaxLogins   \* bound on the logins and signups of one behaviour

ASSUME MaxLoginsAssumption == MaxLogins \in Nat
ASSUME NobodyAssumption == None \notin Users /\ Idle \notin Users /\ None # Idle

VARIABLES
    cookie,     \* whose creditos_access_token the jar holds
    stored,     \* creditos:user of localStorage
    tab,        \* what each tab shows and has under way
    logins      \* logins and signups so far

vars == <<cookie, stored, tab, logins>>

Somebody == Users \cup {None}

\* check is the getMe of the mount, as whom it was sent; form the login or
\* signup under way; data another call of a page, with the answer it will get.
\* logout tells whether a logout call is under way.  late and sure are history:
\* whether the session has changed since the getMe was sent, and whether the
\* user shown comes from an answer that no change has overtaken.
Tab == [page : {"open", "leaving"}, user : Somebody, check : Somebody \cup {Idle},
        form : Users \cup {Idle}, data : {"idle", "served", "refused"},
        logout : BOOLEAN, late : BOOLEAN, sure : BOOLEAN]

\* Every variable holds a value of its type.
TypeOK ==
    /\ cookie \in Somebody
    /\ stored \in Somebody
    /\ tab \in [Tabs -> Tab]
    /\ logins \in 0 .. MaxLogins

\* A document that has just been loaded shows the user of localStorage and
\* asks the server who it is.
Mounted(jar) ==
    [page |-> "open", user |-> stored, check |-> jar, form |-> Idle, data |-> "idle",
     logout |-> FALSE, late |-> FALSE, sure |-> FALSE]

Init ==
    /\ cookie = None
    /\ stored = None
    /\ tab = [t \in Tabs |-> Mounted(None)]
    /\ logins = 0

-----------------------------------------------------------------------------
(* History.                                                                *)

\* The jar now holds another session's cookie, or none.
Overtaken(r) == [r EXCEPT !.sure = FALSE, !.late = (r.check # Idle)]

-----------------------------------------------------------------------------
(* The session check of the mount.                                         *)

\* Mutants: a 200 does not replace the user taken from localStorage; a 401 is
\* kept from the state and from localStorage.
CheckAnswered_KeepsShown(t) ==
    /\ tab[t].check # Idle
    /\ tab' = [tab EXCEPT ![t].user = IF tab[t].check = None \/ @ = None THEN tab[t].check ELSE @,
                          ![t].check = Idle, ![t].late = FALSE, ![t].sure = ~tab[t].late]
    /\ stored' = tab[t].check
    /\ UNCHANGED <<cookie, logins>>
CheckAnswered_Ignores401(t) ==
    /\ tab[t].check # Idle
    /\ IF tab[t].check = None
       THEN tab' = [tab EXCEPT ![t].check = Idle, ![t].late = FALSE] /\ UNCHANGED stored
       ELSE /\ tab' = [tab EXCEPT ![t].user = tab[t].check, ![t].check = Idle,
                                  ![t].late = FALSE, ![t].sure = ~tab[t].late]
            /\ stored' = tab[t].check
    /\ UNCHANGED <<cookie, logins>>

\* 200 sets the state and localStorage to the server's user, 401 clears both,
\* whatever either has become since the request was sent.
CheckAnswered(t) ==
    /\ tab[t].check # Idle
    /\ tab' = [tab EXCEPT ![t].user = tab[t].check, ![t].check = Idle,
                          ![t].late = FALSE, ![t].sure = ~tab[t].late]
    /\ stored' = tab[t].check
    /\ UNCHANGED <<cookie, logins>>

\* Any other error leaves the state intact.
CheckFails(t) ==
    /\ tab[t].check # Idle
    /\ tab' = [tab EXCEPT ![t].check = Idle, ![t].late = FALSE]
    /\ UNCHANGED <<cookie, stored, logins>>

-----------------------------------------------------------------------------
(* Login and signup: one form, two pages.                                  *)

\* The login page's form, which it shows to a visitor who has no user.
ShowsForm(t) == tab[t].page = "open" /\ tab[t].user = None

\* The answer of a login or signup puts the user's token in the jar.
SetAuthCookies(u) == cookie' = u

\* The button is disabled while a call is under way.
Submit(t, u) ==
    /\ ShowsForm(t) /\ tab[t].form = Idle
    /\ logins < MaxLogins
    /\ logins' = logins + 1
    /\ tab' = [tab EXCEPT ![t].form = u]
    /\ UNCHANGED <<cookie, stored>>

\* The handler of that answer sets localStorage and the state.
LoggedIn(t) ==
    /\ tab[t].form # Idle
    /\ SetAuthCookies(tab[t].form)
    /\ stored' = tab[t].form
    /\ tab' = [s \in Tabs |->
                 IF s = t THEN [Overtaken(tab[t]) EXCEPT !.user = tab[t].form, !.form = Idle,
                                                         !.sure = TRUE]
                 ELSE Overtaken(tab[s])]
    /\ UNCHANGED logins

\* The form shows the message of an error and can be used again.
Refused(t) ==
    /\ tab[t].form # Idle
    /\ tab' = [tab EXCEPT ![t].form = Idle]
    /\ UNCHANGED <<cookie, stored, logins>>

-----------------------------------------------------------------------------
(* Logout.                                                                 *)

\* The local state is cleared at once; nobody waits for the call.  (A tab has
\* one logout call under way at a time: a bound.)
Logout(t) ==
    /\ tab[t].user # None /\ ~tab[t].logout
    /\ tab' = [tab EXCEPT ![t] = [Overtaken(@) EXCEPT !.user = None, !.logout = TRUE]]
    /\ stored' = None
    /\ UNCHANGED <<cookie, logins>>

\* The answer deletes the cookie there is by then.
LogoutAnswered(t) ==
    /\ tab[t].logout
    /\ cookie' = None
    /\ tab' = [s \in Tabs |-> [Overtaken(tab[s]) EXCEPT !.logout = @ /\ s # t]]
    /\ UNCHANGED <<stored, logins>>

\* Its errors are swallowed; the cookie stays.
LogoutFails(t) ==
    /\ tab[t].logout
    /\ tab' = [tab EXCEPT ![t].logout = FALSE]
    /\ UNCHANGED <<cookie, stored, logins>>

-----------------------------------------------------------------------------
(* The other calls of a page, and the redirect on 401.                     *)

\* ProtectedRoute renders the pages that make them only with a user.
ShowsPages(t) == tab[t].page = "open" /\ tab[t].user # None

\* They answer 401 without a cookie.
Call(t) ==
    /\ ShowsPages(t) /\ tab[t].data = "idle"
    /\ tab' = [tab EXCEPT ![t].data = IF cookie = None THEN "refused" ELSE "served"]
    /\ UNCHANGED <<cookie, stored, logins>>

\* The interceptor answers a 401 by leaving for /login: a new document, but
\* until it is there this one goes on.
CallAnswered(t) ==
    /\ tab[t].data # "idle"
    /\ tab' = [tab EXCEPT ![t].data = "idle",
                          ![t].page = IF tab[t].data = "refused" THEN "leaving" ELSE @]
    /\ UNCHANGED <<cookie, stored, logins>>

CallFails(t) ==
    /\ tab[t].data # "idle"
    /\ tab' = [tab EXCEPT ![t].data = "idle"]
    /\ UNCHANGED <<cookie, stored, logins>>

\* The document is replaced, by that redirect or by its user, and the requests
\* under way are dropped; the answer of a login or a logout may by then have
\* reached the jar, if not the page.
Load(t) ==
    \E jar \in {cookie} \cup ({tab[t].form} \ {Idle})
                        \cup (IF tab[t].logout THEN {None} ELSE {}) :
        /\ cookie' = jar
        /\ tab' = [s \in Tabs |-> IF s = t THEN Mounted(jar)
                                  ELSE IF jar = cookie THEN tab[s] ELSE Overtaken(tab[s])]
        /\ UNCHANGED <<stored, logins>>

\* The cookie's max_age passes.
Expire ==
    /\ cookie # None
    /\ cookie' = None
    /\ tab' = [t \in Tabs |-> Overtaken(tab[t])]
    /\ UNCHANGED <<stored, logins>>

-----------------------------------------------------------------------------

TabStep(t) ==
    \/ CheckAnswered(t) \/ CheckFails(t)
    \/ (\E u \in Users : Submit(t, u)) \/ LoggedIn(t) \/ Refused(t)
    \/ Logout(t) \/ LogoutAnswered(t) \/ LogoutFails(t)
    \/ Call(t) \/ CallAnswered(t) \/ CallFails(t)
    \/ Load(t)

Next == Expire \/ \E t \in Tabs : TabStep(t)

Spec == Init /\ [][Next]_vars

\* A redirect is carried out, and the network does not keep the answer of the
\* session check from every document that asks.  Users do as they like.
FairSpec ==
    /\ Spec
    /\ \A t \in Tabs : WF_vars(tab[t].page = "leaving" /\ Load(t)) /\ SF_vars(CheckAnswered(t))

-----------------------------------------------------------------------------
(* What a user relies on.                                                  *)

\* A tab shows the user whose session its calls run under, unless since the
\* answer it has that user from the cookie expired, another tab logged in or
\* out, or an answer sent for earlier arrived after its login or logout
\* (AuthProvider: getMe, login, logout).
ShownIsSession ==
    \A t \in Tabs : tab[t].sure /\ tab[t].user # None => cookie = tab[t].user

\* A tab whose session is gone is not sent round in circles: it stays on the
\* login page in the end, although /login sends a visitor with a user on to a
\* page whose calls answer 401, and those send it to /login.
RedirectsEnd == \A t \in Tabs : <>[](tab[t].page = "open")

=============================================================================
