---------------------------- MODULE StorePurchase ----------------------------
(***************************************************************************)
(* Buying in the browser: the checkout modal of pages/Store.tsx over the   *)
(* polling hook, and as much of the server as its answers show.  The       *)
(* buyer may close the modal and open another at any moment.               *)
(***************************************************************************)
EXTENDS PurchasePoller

CONSTANT Packages   \* the packages on the page

VARIABLES
    selected,   \* selectedPkg
    purchasing, \* whether createPurchase is awaited
    post,       \* the calls of createPurchase: their package and progress
    balance,    \* the balance in the page's header
    toast       \* the last "... purchased" message: the package it names, and
                \* the transaction whose answer caused it

vars == <<pollerVars, selected, purchasing, post, balance, toast>>

Post == [package : Packages, state : {"sent", "accepted", "refused"}]

Toast == [names : Packages, tx : Purchases]

TypeOK ==
    /\ PollerTypeOK
    /\ selected \in Packages \cup {None}
    /\ purchasing \in BOOLEAN
    /\ DOMAIN post \subseteq Purchases /\ post \in [DOMAIN post -> Post]
    /\ balance \in Nat
    /\ toast \in Toast \cup {None}

Init ==
    /\ PollerInit
    /\ selected = None
    /\ purchasing = FALSE
    /\ post = [t \in {} |-> {}]
    /\ balance = 0
    /\ toast = None

-----------------------------------------------------------------------------

OpenModal(p) ==
    /\ selected = None
    /\ selected' = p
    /\ Reset
    /\ UNCHANGED <<reply, credited, failed, purchasing, post, balance, toast>>

\* Mutant: closing the modal forgets the call under way.
StillPurchasing_Forget == FALSE

\* Closing the modal resets the hook and nothing else.
StillPurchasing == purchasing

CloseModal ==
    /\ selected # None
    /\ selected' = None
    /\ purchasing' = StillPurchasing
    /\ Reset
    /\ UNCHANGED <<reply, credited, failed, post, balance, toast>>

\* The Pay button is disabled while a call or a poll is under way.
CanPay == selected # None /\ ~purchasing /\ hook.state = "idle"

\* handlePurchase up to its await; every call carries a fresh Idempotency-Key.
Pay(t) ==
    /\ CanPay
    /\ t \notin DOMAIN post
    /\ post' = [s \in DOMAIN post \cup {t} |->
                  IF s = t THEN [package |-> selected, state |-> "sent"] ELSE post[s]]
    /\ purchasing' = TRUE
    /\ UNCHANGED <<pollerVars, selected, balance, toast>>

\* The 202 arrives, whatever modal is open by then.
PayAccepted(t) ==
    /\ t \in DOMAIN post /\ post[t].state = "sent"
    /\ post' = [post EXCEPT ![t].state = "accepted"]
    /\ purchasing' = FALSE
    /\ Start(t)
    /\ UNCHANGED <<reply, credited, failed, selected, balance, toast>>

\* An error arrives.  If only the answer was lost, the server goes on with a
\* purchase this page knows nothing about.
PayRefused(t) ==
    /\ t \in DOMAIN post /\ post[t].state = "sent"
    /\ post' = [post EXCEPT ![t].state = "refused"]
    /\ purchasing' = FALSE
    /\ UNCHANGED <<pollerVars, selected, balance, toast>>

\* An answer is shown; the effect on state, status and selectedPkg runs after
\* it and takes the balance and, in an open modal, its package's name.
Answer(t) ==
    /\ ShowAnswer(t)
    /\ IF hook'.state = "completed"
       THEN /\ balance' = IF hook'.status.status = "completed" THEN hook'.status.balance ELSE balance
            /\ toast' = IF selected = None THEN toast ELSE [names |-> selected, tx |-> t]
       ELSE UNCHANGED <<balance, toast>>
    /\ UNCHANGED <<reply, credited, failed, selected, purchasing, post>>

\* The worker completes a transaction that was posted, or marks one failed,
\* possibly after its grant was committed.
WorkerSettles(t) ==
    /\ t \in DOMAIN post
    /\ Server!Grant(t) \/ Server!Fail(t)
    /\ UNCHANGED <<hook, chain, reply, selected, purchasing, post, balance, toast>>

PollStep(t) ==
    \/ (ServerAnswers(t) \/ Hiccup(t) \/ TimerFires(t))
         /\ UNCHANGED <<selected, purchasing, post, balance, toast>>
    \/ Answer(t)

Next ==
    \/ \E p \in Packages : OpenModal(p)
    \/ CloseModal
    \/ \E t \in Purchases :
         Pay(t) \/ PayAccepted(t) \/ PayRefused(t) \/ PollStep(t) \/ WorkerSettles(t)

Spec == Init /\ [][Next]_vars

\* Every request is answered or fails (axios rejects when the connection is
\* lost), and every timer fires.
FairSpec ==
    /\ Spec
    /\ \A t \in Purchases : WF_vars(PollStep(t)) /\ WF_vars(PayAccepted(t) \/ PayRefused(t))

-----------------------------------------------------------------------------

\* Whatever the buyer opens and closes, a second purchase is posted only after
\* the first was answered (the guard of the Pay button).
OnePostAtATime ==
    \A s, t \in DOMAIN post : post[s].state = "sent" /\ post[t].state = "sent" => s = t

\* The page says "Purchase complete" only after one of its purchases has been
\* credited, and never shows a balance the wallet had not reached.
NoFalseSuccess ==
    /\ hook.state = "completed" => \E t \in credited : post[t].state = "accepted" /\ chain[t] = "ended"
    /\ toast # None => toast.tx \in DOMAIN post
    /\ balance <= Cardinality(credited)

\* "Processing your purchase..." does not stay: with a network that only fails,
\* a worker that never comes, and chains left over from modals closed before.
PollingEnds == hook.state = "polling" ~> hook.state # "polling"

=============================================================================
