------------------------ MODULE StorePurchase_proofs ------------------------
(***************************************************************************)
(* The safety of the checkout page for any number of purchases, packages   *)
(* and polls.  What carries the proof is that a chain of polls belongs to  *)
(* a purchase that was accepted, and that an answer on its way was true    *)
(* when the server gave it and, grants being final, still is.              *)
(***************************************************************************)
EXTENDS StorePurchase, FiniteSetTheorems, TLAPS

\* What PollerTypeOK says of the hook.
Hook == [state : {"idle", "polling", "completed", "failed"},
         status : Status \cup {None}, count : Nat, timer : Purchases \cup {None}]

\* The Pay button stays disabled while a call is under way.
SentKeepsDisabled == \A t \in DOMAIN post : post[t].state = "sent" => purchasing

\* Only accepted purchases are polled.
ChainsAreAccepted ==
    \A t \in Purchases : chain[t] # "none" => t \in DOMAIN post /\ post[t].state = "accepted"

\* An answer under way reports no grant and no balance that did not happen.
AnswersAreTrue ==
    \A t \in Purchases : chain[t] = "answer" =>
        /\ reply[t] \in Status
        /\ reply[t].status = "completed" => t \in credited
        /\ reply[t].balance <= Cardinality(credited)

IInv ==
    /\ TypeOK
    /\ IsFiniteSet(credited)
    /\ OnePostAtATime
    /\ SentKeepsDisabled
    /\ ChainsAreAccepted
    /\ AnswersAreTrue
    /\ NoFalseSuccess

-----------------------------------------------------------------------------
(* The inductive step, one lemma per kind of event.                        *)

\* The timer that is cleared, if any, belongs to a chain that had begun.
LEMMA ClearedChains ==
    ASSUME TypeOK, NEW t \in Purchases
    PROVE  /\ Cleared \in [Purchases -> {"none", "request", "answer", "timer", "ended"}]
           /\ Cleared[t] # "none" => chain[t] # "none"
           /\ Cleared[t] = "answer" => chain[t] = "answer"
BY DEF TypeOK, PollerTypeOK, Cleared

\* Opening and closing a modal touch the hook and its one timer only.
LEMMA ModalStep ==
    ASSUME IInv, (\E p \in Packages : OpenModal(p)) \/ CloseModal
    PROVE  IInv'
<1>1. /\ UNCHANGED <<reply, credited, failed, purchasing, post, balance, toast>>
      /\ chain' = Cleared
      /\ hook' = [Idle EXCEPT !.timer = hook.timer]
      /\ selected' \in Packages \cup {None}
  BY DEF OpenModal, CloseModal, Reset, StillPurchasing
<1>2. TypeOK'
  BY <1>1, ClearedChains DEF IInv, TypeOK, PollerTypeOK, Idle, Cleared
<1>3. (IsFiniteSet(credited) /\ OnePostAtATime /\ SentKeepsDisabled)'
  BY <1>1 DEF IInv, OnePostAtATime, SentKeepsDisabled
<1>4. ChainsAreAccepted' /\ AnswersAreTrue'
  BY <1>1, ClearedChains DEF IInv, ChainsAreAccepted, AnswersAreTrue
<1>5. NoFalseSuccess'
  BY <1>1 DEF IInv, NoFalseSuccess, Idle
<1> QED  BY <1>2, <1>3, <1>4, <1>5 DEF IInv

\* A call starts only when none is under way: purchasing is false.
LEMMA PayStep ==
    ASSUME IInv, NEW t \in Purchases, Pay(t)
    PROVE  IInv'
<1>1. /\ UNCHANGED <<hook, chain, reply, credited, failed, selected, balance, toast>>
      /\ ~purchasing /\ purchasing'
      /\ t \notin DOMAIN post
      /\ DOMAIN post' = DOMAIN post \cup {t}
      /\ post'[t].state = "sent"
      /\ \A s \in DOMAIN post : post'[s] = post[s]
  BY DEF Pay, CanPay, pollerVars
<1>2. TypeOK'
  <2>1. [package |-> selected, state |-> "sent"] \in Post
    BY DEF IInv, TypeOK, Pay, CanPay, Post
  <2>2. DOMAIN post' \subseteq Purchases /\ post' \in [DOMAIN post' -> Post]
    BY <2>1 DEF IInv, TypeOK, Pay
  <2> QED  BY <1>1, <2>2 DEF IInv, TypeOK, PollerTypeOK, Pay
<1>3. IsFiniteSet(credited)' /\ OnePostAtATime' /\ SentKeepsDisabled'
  BY <1>1 DEF IInv, OnePostAtATime, SentKeepsDisabled
<1>4. ChainsAreAccepted' /\ AnswersAreTrue'
  BY <1>1 DEF IInv, ChainsAreAccepted, AnswersAreTrue
<1>5. NoFalseSuccess'
  BY <1>1 DEF IInv, TypeOK, PollerTypeOK, ChainsAreAccepted, NoFalseSuccess
<1> QED  BY <1>2, <1>3, <1>4, <1>5 DEF IInv

\* The answer ends the one call there was; a 202 starts a chain of its own.
LEMMA PostAnsweredStep ==
    ASSUME IInv, NEW t \in Purchases, PayAccepted(t) \/ PayRefused(t)
    PROVE  IInv'
<1>1. /\ t \in DOMAIN post /\ post[t].state = "sent"
      /\ chain[t] = "none"
      /\ \A s \in DOMAIN post : post[s].state = "sent" => s = t
  BY DEF IInv, PayAccepted, PayRefused, ChainsAreAccepted, OnePostAtATime
<1>2. /\ UNCHANGED <<reply, credited, failed, selected, balance, toast>>
      /\ DOMAIN post' = DOMAIN post
      /\ post'[t].state \in {"accepted", "refused"}
      /\ \A s \in DOMAIN post \ {t} : post'[s] = post[s]
  BY DEF IInv, TypeOK, PayAccepted, PayRefused, Post, pollerVars
<1>3. ASSUME NEW s \in Purchases, s # t
      PROVE  /\ chain'[s] # "none" => chain[s] # "none"
             /\ chain'[s] = "answer" => chain[s] = "answer"
  BY <1>3, ClearedChains
  DEF IInv, TypeOK, PollerTypeOK, PayAccepted, PayRefused, Start, pollerVars
<1>4. /\ chain'[t] # "answer"
      /\ chain'[t] # "none" => post'[t].state = "accepted"
  BY <1>1, ClearedChains
  DEF IInv, TypeOK, PollerTypeOK, PayAccepted, PayRefused, Start, Post, pollerVars
<1>5. TypeOK'
  <2>1. post' \in [DOMAIN post' -> Post] /\ purchasing' \in BOOLEAN
    BY DEF IInv, TypeOK, PayAccepted, PayRefused, Post
  <2>2. chain' \in [Purchases -> {"none", "request", "answer", "timer", "ended"}]
    BY ClearedChains
    DEF IInv, TypeOK, PollerTypeOK, PayAccepted, PayRefused, Start, pollerVars
  <2>3. hook' \in Hook
    <3>1. CASE PayAccepted(t)
      <4>1. hook' = [state |-> "polling", status |-> None, count |-> 0, timer |-> hook.timer]
        BY <3>1 DEF PayAccepted, Start, Idle
      <4>2. hook.timer \in Purchases \cup {None}
        BY DEF IInv, TypeOK, PollerTypeOK
      <4> QED  BY <4>1, <4>2 DEF Hook
    <3>2. CASE PayRefused(t)
      BY <3>2 DEF IInv, TypeOK, PollerTypeOK, PayRefused, pollerVars, Hook
    <3> QED  BY <3>1, <3>2
  <2> QED  BY <1>2, <2>1, <2>2, <2>3 DEF IInv, TypeOK, PollerTypeOK, Hook
<1>6. IsFiniteSet(credited)' /\ OnePostAtATime' /\ SentKeepsDisabled'
  BY <1>1, <1>2 DEF IInv, OnePostAtATime, SentKeepsDisabled
<1>7. ChainsAreAccepted'
  BY <1>1, <1>2, <1>3, <1>4 DEF IInv, ChainsAreAccepted
<1>8. AnswersAreTrue'
  BY <1>2, <1>3, <1>4 DEF IInv, AnswersAreTrue
<1>9. NoFalseSuccess'
  <2>1. (toast # None => toast.tx \in DOMAIN post)' /\ (balance <= Cardinality(credited))'
    BY <1>2 DEF IInv, NoFalseSuccess
  <2>2. CASE PayAccepted(t)
    BY <2>1, <2>2 DEF PayAccepted, Start, Idle, NoFalseSuccess
  <2>3. CASE PayRefused(t)
    BY <1>1, <1>2, <2>1, <2>3 DEF IInv, TypeOK, PollerTypeOK, ChainsAreAccepted,
       NoFalseSuccess, PayRefused, pollerVars
  <2> QED  BY <2>2, <2>3
<1> QED  BY <1>5, <1>6, <1>7, <1>8, <1>9 DEF IInv

\* The server tells the truth of the moment.
LEMMA ServerAnswersStep ==
    ASSUME IInv, NEW t \in Purchases, ServerAnswers(t),
           UNCHANGED <<selected, purchasing, post, balance, toast>>
    PROVE  IInv'
<1>1. Cardinality(credited) \in Nat
  BY FS_CardinalityType DEF IInv
<1>2. StatusOf(t) \in Status /\ StatusOf(t).balance = Cardinality(credited)
      /\ (StatusOf(t).status = "completed" => t \in credited)
  BY <1>1 DEF StatusOf, Server!StatusOf, Status
<1>3. TypeOK'
  BY <1>2 DEF IInv, TypeOK, PollerTypeOK, ServerAnswers
<1>4. IsFiniteSet(credited)' /\ OnePostAtATime' /\ SentKeepsDisabled'
  BY DEF IInv, OnePostAtATime, SentKeepsDisabled, ServerAnswers
<1>5. ChainsAreAccepted'
  BY DEF IInv, TypeOK, PollerTypeOK, ChainsAreAccepted, ServerAnswers
<1>6. AnswersAreTrue'
  BY <1>1, <1>2 DEF IInv, TypeOK, PollerTypeOK, AnswersAreTrue, ServerAnswers
<1>7. NoFalseSuccess'
  BY DEF IInv, TypeOK, PollerTypeOK, NoFalseSuccess, ServerAnswers
<1> QED  BY <1>3, <1>4, <1>5, <1>6, <1>7 DEF IInv

\* Errors and timers go on with the chain, or end it in a failure.
LEMMA TimerStep ==
    ASSUME IInv, NEW t \in Purchases, Hiccup(t) \/ TimerFires(t),
           UNCHANGED <<selected, purchasing, post, balance, toast>>
    PROVE  IInv'
<1>1. /\ UNCHANGED <<reply, credited, failed>>
      /\ chain[t] \in {"request", "answer", "timer"}
      /\ chain' \in [Purchases -> {"none", "request", "answer", "timer", "ended"}]
      /\ chain'[t] \in {"request", "timer", "ended"}
      /\ \A s \in Purchases \ {t} : chain'[s] = chain[s]
  BY DEF IInv, TypeOK, PollerTypeOK, Hiccup, TimerFires
<1>2. hook'.state = hook.state \/ hook'.state = "failed"
  BY DEF IInv, TypeOK, PollerTypeOK, Hiccup, TimerFires
<1>3. TypeOK'
  <2>1. [tx |-> t, status |-> "timeout", balance |-> 0] \in Status
    BY DEF Status
  <2>2. hook \in Hook
    BY DEF IInv, TypeOK, PollerTypeOK, Hook
  <2>3. CASE Hiccup(t)
    <3>1. hook' = [hook EXCEPT !.count = hook.count + 1, !.timer = t]
      BY <2>3 DEF Hiccup, CountedHiccup
    <3>2. hook.count + 1 \in Nat /\ t \in Purchases \cup {None}
      BY <2>2 DEF Hook
    <3>3. hook' \in Hook
      <4> DEFINE n == hook.count + 1
      <4>1. n \in Nat /\ hook' = [hook EXCEPT !.count = n, !.timer = t]
        BY <3>1, <3>2
      <4> HIDE DEF n
      <4> QED  BY <2>2, <3>2, <4>1 DEF Hook
    <3> QED  BY <1>1, <3>3 DEF IInv, TypeOK, PollerTypeOK, Hook
  <2>4. CASE TimerFires(t)
    <3>1. hook' \in Hook
      BY <2>1, <2>2, <2>4 DEF TimerFires, Hook
    <3> QED  BY <1>1, <3>1 DEF IInv, TypeOK, PollerTypeOK, Hook
  <2> QED  BY <2>3, <2>4
<1>4. IsFiniteSet(credited)' /\ OnePostAtATime' /\ SentKeepsDisabled'
  BY <1>1 DEF IInv, OnePostAtATime, SentKeepsDisabled
<1>5. ChainsAreAccepted'
  BY <1>1 DEF IInv, ChainsAreAccepted
<1>6. AnswersAreTrue'
  BY <1>1 DEF IInv, AnswersAreTrue
<1>7. NoFalseSuccess'
  BY <1>1, <1>2 DEF IInv, TypeOK, PollerTypeOK, NoFalseSuccess
<1> QED  BY <1>3, <1>4, <1>5, <1>6, <1>7 DEF IInv

\* An answer is shown: success only for a transaction that was credited.
LEMMA AnswerStep ==
    ASSUME IInv, NEW t \in Purchases, Answer(t)
    PROVE  IInv'
<1>1. /\ UNCHANGED <<reply, credited, failed, selected, purchasing, post>>
      /\ chain[t] = "answer"
      /\ chain' \in [Purchases -> {"none", "request", "answer", "timer", "ended"}]
      /\ chain'[t] \in {"timer", "ended"}
      /\ \A s \in Purchases \ {t} : chain'[s] = chain[s]
  BY DEF IInv, TypeOK, PollerTypeOK, Answer, ShowAnswer
<1>2. /\ reply[t] \in Status
      /\ reply[t].status = "completed" => t \in credited
      /\ reply[t].balance <= Cardinality(credited)
      /\ t \in DOMAIN post /\ post[t].state = "accepted"
  BY <1>1 DEF IInv, AnswersAreTrue, ChainsAreAccepted
<1>3. hook' \in Hook /\ hook'.status = reply[t]
  <2>1. hook \in Hook /\ reply[t] \in Status \cup {None}
    BY <1>2 DEF IInv, TypeOK, PollerTypeOK, Hook
  <2>2. \/ hook' = [hook EXCEPT !.status = reply[t], !.state = "completed"]
        \/ hook' = [hook EXCEPT !.status = reply[t], !.state = "failed"]
        \/ hook' = [hook EXCEPT !.status = reply[t], !.count = hook.count + 1, !.timer = t]
    BY DEF Answer, ShowAnswer
  <2>3. hook.count + 1 \in Nat /\ t \in Purchases \cup {None}
    BY <2>1 DEF Hook
  <2> DEFINE n == hook.count + 1
  <2> HIDE DEF n
  <2>4. ASSUME hook' = [hook EXCEPT !.status = reply[t], !.count = n, !.timer = t], n \in Nat
        PROVE  hook' \in Hook /\ hook'.status = reply[t]
    BY <2>1, <2>3, <2>4 DEF Hook
  <2>5. CASE hook' = [hook EXCEPT !.status = reply[t], !.count = hook.count + 1, !.timer = t]
    BY <2>3, <2>4, <2>5 DEF n
  <2> QED  BY <2>1, <2>2, <2>5 DEF Hook
<1>4. \/ hook'.state = "completed" /\ reply[t].status = "completed" /\ chain'[t] = "ended"
      \/ hook'.state = "failed"
      \/ hook'.state = hook.state
  BY DEF IInv, TypeOK, PollerTypeOK, Answer, ShowAnswer, Succeeded
<1>5. \/ balance' = balance
      \/ balance' = reply[t].balance
  BY <1>3 DEF Answer
<1>6. \/ toast' = toast
      \/ selected # None /\ toast' = [names |-> selected, tx |-> t]
  BY DEF Answer
<1>7. TypeOK'
  <2>1. balance' \in Nat
    BY <1>2, <1>5 DEF IInv, TypeOK, Status
  <2>2. toast' \in Toast \cup {None}
    BY <1>6 DEF IInv, TypeOK, Toast
  <2> QED  BY <1>1, <1>3, <2>1, <2>2 DEF IInv, TypeOK, PollerTypeOK, Hook
<1>8. IsFiniteSet(credited)' /\ OnePostAtATime' /\ SentKeepsDisabled'
  BY <1>1 DEF IInv, OnePostAtATime, SentKeepsDisabled
<1>9. ChainsAreAccepted'
  BY <1>1, <1>2 DEF IInv, ChainsAreAccepted
<1>10. AnswersAreTrue'
  BY <1>1 DEF IInv, AnswersAreTrue
<1>11. NoFalseSuccess'
  <2>1. (hook.state = "completed" =>
            \E s \in credited : post[s].state = "accepted" /\ chain[s] = "ended")'
    BY <1>1, <1>2, <1>4 DEF IInv, TypeOK, PollerTypeOK, NoFalseSuccess
  <2>2. (toast # None => toast.tx \in DOMAIN post)'
    BY <1>1, <1>2, <1>6 DEF IInv, NoFalseSuccess
  <2>3. (balance <= Cardinality(credited))'
    BY <1>1, <1>2, <1>5 DEF IInv, NoFalseSuccess
  <2> QED  BY <2>1, <2>2, <2>3 DEF NoFalseSuccess
<1> QED  BY <1>7, <1>8, <1>9, <1>10, <1>11 DEF IInv

\* A grant is never taken back, so what was true of the grants stays true.
LEMMA WorkerStep ==
    ASSUME IInv, NEW t \in Purchases, WorkerSettles(t)
    PROVE  IInv'
<1>1. /\ UNCHANGED <<hook, chain, reply, selected, purchasing, post, balance, toast>>
      /\ credited' \subseteq Purchases /\ failed' \subseteq Purchases
      /\ credited' = credited \/ (t \notin credited /\ credited' = credited \cup {t})
  BY DEF IInv, TypeOK, PollerTypeOK, WorkerSettles, Server!Grant, Server!Fail
<1>2. /\ IsFiniteSet(credited')
      /\ Cardinality(credited) \in Nat /\ Cardinality(credited') \in Nat
      /\ Cardinality(credited) <= Cardinality(credited')
  <2>1. IsFiniteSet(credited) /\ Cardinality(credited) \in Nat
    BY FS_CardinalityType DEF IInv
  <2>2. /\ IsFiniteSet(credited \cup {t})
        /\ t \notin credited => Cardinality(credited \cup {t}) = Cardinality(credited) + 1
    BY <2>1, FS_AddElement
  <2>3. CASE credited' = credited
    BY <2>1, <2>3
  <2>4. CASE t \notin credited /\ credited' = credited \cup {t}
    BY <2>1, <2>2, <2>4
  <2> QED  BY <1>1, <2>3, <2>4
<1>3. TypeOK'
  BY <1>1 DEF IInv, TypeOK, PollerTypeOK
<1>4. OnePostAtATime' /\ SentKeepsDisabled' /\ ChainsAreAccepted'
  BY <1>1 DEF IInv, OnePostAtATime, SentKeepsDisabled, ChainsAreAccepted
<1>5. AnswersAreTrue'
  BY <1>1, <1>2 DEF IInv, AnswersAreTrue, Status
<1>6. NoFalseSuccess'
  BY <1>1, <1>2 DEF IInv, TypeOK, NoFalseSuccess
<1> QED  BY <1>2, <1>3, <1>4, <1>5, <1>6 DEF IInv

-----------------------------------------------------------------------------

LEMMA InitIInv == Init => IInv
<1> SUFFICES ASSUME Init PROVE IInv
  OBVIOUS
<1>1. TypeOK
  BY DEF Init, PollerInit, Server!Init, TypeOK, PollerTypeOK, Idle
<1>2. IsFiniteSet(credited) /\ Cardinality(credited) = 0
  BY FS_EmptySet DEF Init, PollerInit, Server!Init
<1>3. OnePostAtATime /\ SentKeepsDisabled
  BY DEF Init, OnePostAtATime, SentKeepsDisabled
<1>4. ChainsAreAccepted /\ AnswersAreTrue
  BY DEF Init, PollerInit, Server!Init, ChainsAreAccepted, AnswersAreTrue
<1>5. NoFalseSuccess
  BY <1>2 DEF Init, PollerInit, Server!Init, Idle, NoFalseSuccess
<1> QED  BY <1>1, <1>2, <1>3, <1>4, <1>5 DEF IInv

LEMMA IInvStep == IInv /\ [Next]_vars => IInv'
<1> SUFFICES ASSUME IInv, [Next]_vars PROVE IInv'
  OBVIOUS
<1>1. CASE UNCHANGED vars
  BY <1>1 DEF vars, pollerVars, IInv, TypeOK, PollerTypeOK, OnePostAtATime,
     SentKeepsDisabled, ChainsAreAccepted, AnswersAreTrue, NoFalseSuccess
<1>2. CASE (\E p \in Packages : OpenModal(p)) \/ CloseModal
  BY <1>2, ModalStep
<1>3. ASSUME NEW t \in Purchases, Pay(t) \/ PayAccepted(t) \/ PayRefused(t)
      PROVE  IInv'
  BY <1>3, PayStep, PostAnsweredStep
<1>4. ASSUME NEW t \in Purchases, PollStep(t) \/ WorkerSettles(t)
      PROVE  IInv'
  BY <1>4, ServerAnswersStep, TimerStep, AnswerStep, WorkerStep DEF PollStep
<1> QED  BY <1>1, <1>2, <1>3, <1>4 DEF Next

\* The invariant holds in every reachable state.
THEOREM PageInvariant == Spec => []IInv
BY InitIInv, IInvStep, PTL DEF Spec

\* handlePurchase of Store.tsx posts a second purchase only after the first
\* was answered, however many modals were closed and opened in between.
THEOREM NoSecondPost == Spec => []OnePostAtATime
BY PageInvariant, PTL DEF IInv

\* Store.tsx and usePurchasePoller show a success only when the server has
\* granted credits for one of the page's purchases, and a balance only when the
\* wallet has reached it.
THEOREM SuccessIsTrue == Spec => []NoFalseSuccess
BY PageInvariant, PTL DEF IInv

\* The page and its hook stay in the states that Store.tsx and
\* usePurchasePoller declare, and only purchases it has made are polled.
THEOREM PageTypes == Spec => []TypeOK
BY PageInvariant, PTL DEF IInv

=============================================================================
