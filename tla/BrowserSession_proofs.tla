------------------------ MODULE BrowserSession_proofs -----------------------
(***************************************************************************)
(* Proofs about BrowserSession: for any number of tabs, accounts and       *)
(* logins, the user a tab shows is the session's user unless an event the  *)
(* tab is not told of has happened since.                                  *)
(***************************************************************************)
EXTENDS BrowserSession, TLAPS

\* A session check that nothing has overtaken was sent under today's cookie,
\* which is why its answer may be believed.
ChecksAreCurrent ==
    \A t \in Tabs : tab[t].check # Idle /\ ~tab[t].late => tab[t].check = cookie

SessionInv == TypeOK /\ ChecksAreCurrent /\ ShownIsSession

-----------------------------------------------------------------------------
(* Documents.                                                              *)

\* A fresh document is a tab, and so is one with its history brought up to date.
LEMMA MountedTab ==
    ASSUME TypeOK, NEW jar \in Somebody
    PROVE  /\ Mounted(jar) \in Tab
           /\ Mounted(jar).check = jar /\ ~Mounted(jar).sure /\ ~Mounted(jar).late
  BY DEF TypeOK, Mounted, Tab, Somebody

LEMMA OvertakenTab ==
    ASSUME NEW r \in Tab
    PROVE  /\ Overtaken(r) \in Tab
           /\ ~Overtaken(r).sure
           /\ Overtaken(r).check # Idle => Overtaken(r).late
  BY DEF Overtaken, Tab

\* A tab whose logout flag is set or reset is a tab.
LEMMA LogoutFlag ==
    ASSUME NEW r \in Tab, NEW b \in BOOLEAN
    PROVE  [r EXCEPT !.logout = b] \in Tab
  BY DEF Tab

\* Initially nobody is logged in and every tab asks.
LEMMA SessionInit == Init => SessionInv
  <1> SUFFICES ASSUME Init PROVE SessionInv
    OBVIOUS
  <1>1. cookie \in Somebody /\ stored \in Somebody /\ logins \in 0 .. MaxLogins
    BY MaxLoginsAssumption DEF Init, Somebody
  <1>2. tab \in [Tabs -> Tab] /\ \A t \in Tabs : tab[t].check = cookie /\ ~tab[t].sure
    BY DEF Init, Mounted, Tab, Somebody
  <1> QED
    BY <1>1, <1>2 DEF SessionInv, TypeOK, ChecksAreCurrent, ShownIsSession

-----------------------------------------------------------------------------
(* Steps.                                                                  *)

\* No step of a tab leaves the types.
LEMMA TypeStep ==
    ASSUME TypeOK, NEW t \in Tabs, TabStep(t)
    PROVE  TypeOK'
  <1> USE NobodyAssumption
  <1>t. tab[t] \in Tab /\ \A s \in Tabs : tab[s] \in Tab /\ Overtaken(tab[s]) \in Tab
    BY OvertakenTab DEF TypeOK
  <1>1. CASE CheckAnswered(t)
    BY <1>1, <1>t DEF TypeOK, CheckAnswered, Tab, Somebody
  <1>2. CASE CheckFails(t)
    BY <1>2, <1>t DEF TypeOK, CheckFails, Tab
  <1>3. CASE \E u \in Users : Submit(t, u)
    BY <1>3, <1>t, MaxLoginsAssumption DEF TypeOK, Submit, ShowsForm, Tab
  <1>4. CASE LoggedIn(t)
    <2>1. tab[t].form \in Users
      BY <1>4, <1>t DEF LoggedIn, SetAuthCookies, Tab
    <2>2. \A r \in Tab : [r EXCEPT !.user = tab[t].form, !.form = Idle, !.sure = TRUE] \in Tab
      BY <2>1 DEF Tab, Somebody
    <2> QED
      BY <1>4, <1>t, <2>1, <2>2 DEF TypeOK, LoggedIn, SetAuthCookies, Somebody
  <1>5. CASE Refused(t)
    BY <1>5, <1>t DEF TypeOK, Refused, Tab
  <1>6. CASE Logout(t)
    <2>1. \A r \in Tab : [r EXCEPT !.user = None, !.logout = TRUE] \in Tab
      BY DEF Tab, Somebody
    <2> QED
      BY <1>6, <1>t, <2>1 DEF TypeOK, Logout, Somebody
  <1>7. CASE LogoutAnswered(t)
    <2>1. \A r \in Tab, s \in Tabs : [r EXCEPT !.logout = @ /\ s # t] \in Tab
      <3> SUFFICES ASSUME NEW r \in Tab, NEW s \in Tabs
                   PROVE  [r EXCEPT !.logout = @ /\ s # t] \in Tab
        OBVIOUS
      <3>1. (r.logout /\ s # t) \in BOOLEAN
        OBVIOUS
      <3> QED
        BY <3>1, LogoutFlag, Zenon
    <2> QED
      BY <1>7, <1>t, <2>1 DEF TypeOK, LogoutAnswered, Somebody
  <1>8. CASE LogoutFails(t)
    BY <1>8, <1>t DEF TypeOK, LogoutFails, Tab
  <1>9. CASE Call(t)
    BY <1>9, <1>t DEF TypeOK, Call, ShowsPages, Tab
  <1>10. CASE CallAnswered(t)
    BY <1>10, <1>t DEF TypeOK, CallAnswered, Tab
  <1>11. CASE CallFails(t)
    BY <1>11, <1>t DEF TypeOK, CallFails, Tab
  <1>12. CASE Load(t)
    <2>1. PICK jar \in {cookie} \cup ({tab[t].form} \ {Idle})
                                \cup (IF tab[t].logout THEN {None} ELSE {}) :
              /\ cookie' = jar
              /\ tab' = [s \in Tabs |-> IF s = t THEN Mounted(jar)
                                        ELSE IF jar = cookie THEN tab[s] ELSE Overtaken(tab[s])]
              /\ UNCHANGED <<stored, logins>>
      BY <1>12 DEF Load
    <2>2. jar \in Somebody
      BY <1>t DEF TypeOK, Tab, Somebody
    <2>3. Mounted(jar) \in Tab
      BY <2>2, MountedTab
    <2> QED
      BY <2>1, <2>2, <2>3, <1>t DEF TypeOK
  <1> QED
    BY <1>1, <1>2, <1>3, <1>4, <1>5, <1>6, <1>7, <1>8, <1>9, <1>10, <1>11, <1>12 DEF TabStep

\* Nor does it make a tab sure of a user who is not the session's.
LEMMA SureStep ==
    ASSUME SessionInv, NEW t \in Tabs, TabStep(t)
    PROVE  ChecksAreCurrent' /\ ShownIsSession'
  <1> USE NobodyAssumption DEF SessionInv
  <1>t. tab \in [Tabs -> Tab] /\ tab[t] \in Tab
    BY DEF TypeOK
  <1>o. \A s \in Tabs : /\ ~Overtaken(tab[s]).sure
                        /\ Overtaken(tab[s]).check # Idle => Overtaken(tab[s]).late
                        /\ Overtaken(tab[s]) \in Tab
    BY <1>t, OvertakenTab
  <1>1. CASE CheckAnswered(t)
    BY <1>1, <1>t DEF ChecksAreCurrent, ShownIsSession, CheckAnswered, Tab
  <1>2. CASE CheckFails(t)
    BY <1>2, <1>t DEF ChecksAreCurrent, ShownIsSession, CheckFails, Tab
  <1>3. CASE \E u \in Users : Submit(t, u)
    BY <1>3, <1>t DEF ChecksAreCurrent, ShownIsSession, Submit, ShowsForm, Tab
  <1>4. CASE LoggedIn(t)
    BY <1>4, <1>t DEF ChecksAreCurrent, ShownIsSession, LoggedIn, SetAuthCookies, Overtaken, Tab
  <1>5. CASE Refused(t)
    BY <1>5, <1>t DEF ChecksAreCurrent, ShownIsSession, Refused, Tab
  <1>6. CASE Logout(t)
    BY <1>6, <1>t DEF ChecksAreCurrent, ShownIsSession, Logout, Overtaken, Tab
  <1>7. CASE LogoutAnswered(t)
    BY <1>7, <1>t DEF ChecksAreCurrent, ShownIsSession, LogoutAnswered, Overtaken, Tab
  <1>8. CASE LogoutFails(t)
    BY <1>8, <1>t DEF ChecksAreCurrent, ShownIsSession, LogoutFails, Tab
  <1>9. CASE Call(t)
    BY <1>9, <1>t DEF ChecksAreCurrent, ShownIsSession, Call, ShowsPages, Tab
  <1>10. CASE CallAnswered(t)
    BY <1>10, <1>t DEF ChecksAreCurrent, ShownIsSession, CallAnswered, Tab
  <1>11. CASE CallFails(t)
    BY <1>11, <1>t DEF ChecksAreCurrent, ShownIsSession, CallFails, Tab
  <1>12. CASE Load(t)
    <2>1. PICK jar \in {cookie} \cup ({tab[t].form} \ {Idle})
                                \cup (IF tab[t].logout THEN {None} ELSE {}) :
              /\ cookie' = jar
              /\ tab' = [s \in Tabs |-> IF s = t THEN Mounted(jar)
                                        ELSE IF jar = cookie THEN tab[s] ELSE Overtaken(tab[s])]
      BY <1>12 DEF Load
    <2>2. jar \in Somebody
      BY <1>t DEF TypeOK, Tab, Somebody
    <2>3. tab'[t].check = cookie' /\ ~tab'[t].sure
      BY <2>1, <2>2, MountedTab
    <2>4. ASSUME NEW s \in Tabs, s # t
          PROVE  \/ tab'[s] = tab[s] /\ cookie' = cookie
                 \/ ~tab'[s].sure /\ (tab'[s].check # Idle => tab'[s].late)
      BY <2>1, <2>4, <1>o
    <2> QED
      BY <2>3, <2>4 DEF ChecksAreCurrent, ShownIsSession
  <1> QED
    BY <1>1, <1>2, <1>3, <1>4, <1>5, <1>6, <1>7, <1>8, <1>9, <1>10, <1>11, <1>12 DEF TabStep

\* When the cookie expires every tab becomes unsure and every check old.
LEMMA ExpireStep == SessionInv /\ Expire => SessionInv'
  <1> SUFFICES ASSUME SessionInv, Expire PROVE SessionInv'
    OBVIOUS
  <1>t. \A s \in Tabs : /\ tab'[s] = Overtaken(tab[s]) /\ tab'[s] \in Tab
                        /\ ~tab'[s].sure
                        /\ tab'[s].check # Idle => tab'[s].late
    BY OvertakenTab DEF SessionInv, TypeOK, Expire
  <1>1. TypeOK'
    BY <1>t DEF SessionInv, TypeOK, Expire, Somebody
  <1>2. ChecksAreCurrent' /\ ShownIsSession'
    BY <1>t DEF ChecksAreCurrent, ShownIsSession
  <1> QED
    BY <1>1, <1>2 DEF SessionInv

LEMMA SessionStep == SessionInv /\ [Next]_vars => SessionInv'
  <1> SUFFICES ASSUME SessionInv, [Next]_vars PROVE SessionInv'
    OBVIOUS
  <1>1. CASE Expire
    BY <1>1, ExpireStep
  <1>2. CASE \E t \in Tabs : TabStep(t)
    BY <1>2, TypeStep, SureStep DEF SessionInv
  <1>3. CASE UNCHANGED vars
    BY <1>3 DEF vars, SessionInv, TypeOK, ChecksAreCurrent, ShownIsSession
  <1> QED
    BY <1>1, <1>2, <1>3 DEF Next

-----------------------------------------------------------------------------
(* The theorems.                                                           *)

THEOREM SessionInvariant == Spec => []SessionInv
  <1>1. Init => SessionInv
    BY SessionInit
  <1>2. SessionInv /\ [Next]_vars => SessionInv'
    BY SessionStep
  <1> QED
    BY <1>1, <1>2, PTL DEF Spec

\* Every variable of the browser keeps its type.
THEOREM SessionTypes == Spec => []TypeOK
  <1>1. SessionInv => TypeOK
    BY DEF SessionInv
  <1> QED
    BY <1>1, SessionInvariant, PTL

\* A tab that is sure of its user shows the user its calls run as.
THEOREM ShownUserIsReal == Spec => []ShownIsSession
  <1>1. SessionInv => ShownIsSession
    BY DEF SessionInv
  <1> QED
    BY <1>1, SessionInvariant, PTL

=============================================================================
