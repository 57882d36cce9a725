--------------------------- MODULE PurchasePoller ---------------------------
(***************************************************************************)
(* The React hook hooks/usePurchasePoller.ts.  JavaScript runs one event   *)
(* at a time, so a step is an event: a click, an answer, a timer.  Every   *)
(* transaction polled has a chain of requests and timers; reset() clears   *)
(* the one timer it remembers, and an answer under way comes all the same. *)
(*                                                                         *)
(* stop() sets abortedRef, and reset(), its only caller, clears it in the  *)
(* same event: no later check of abortedRef sees it set, and it has no     *)
(* variable here.                                                          *)
(***************************************************************************)
EXTENDS Integers, FiniteSets

CONSTANTS
    Purchases,  \* the purchases the page may post, and their transaction ids
    MaxPolls,   \* MAX_POLLS
    None        \* null

ASSUME MaxPollsAssumption == MaxPolls \in Nat \ {0}

VARIABLES
    hook,       \* the hook's state, status, countRef and timerRef
    chain,      \* what the chain of each transaction waits for
    reply,      \* the answer on its way to each chain
    credited,   \* on the server: the transactions whose credits were granted
    failed      \* on the server: those that read as failed

pollerVars == <<hook, chain, reply, credited, failed>>

\* What the backend makes of purchases: CreditOS implements it.
Server == INSTANCE PurchaseServer

\* An answer of GET /purchases/{id}/status, or the hook's own timeout.
Status == [tx : Purchases, status : {"pending", "completed", "failed", "timeout"},
           balance : Nat]

PollerTypeOK ==
    /\ hook \in [state : {"idle", "polling", "completed", "failed"},
                 status : Status \cup {None}, count : Nat, timer : Purchases \cup {None}]
    /\ chain \in [Purchases -> {"none", "request", "answer", "timer", "ended"}]
    /\ reply \in [Purchases -> Status \cup {None}]
    /\ credited \subseteq Purchases /\ failed \subseteq Purchases

Idle == [state |-> "idle", status |-> None, count |-> 0, timer |-> None]

PollerInit ==
    /\ hook = Idle
    /\ chain = [t \in Purchases |-> "none"]
    /\ reply = [t \in Purchases |-> None]
    /\ Server!Init

-----------------------------------------------------------------------------

\* clearTimeout of the remembered timer, if it is still pending.
Cleared == [t \in Purchases |-> IF t = hook.timer /\ chain[t] = "timer" THEN "ended" ELSE chain[t]]

Reset == hook' = [Idle EXCEPT !.timer = hook.timer] /\ chain' = Cleared

\* reset, then the first poll.
Start(t) ==
    /\ hook' = [Idle EXCEPT !.timer = hook.timer, !.state = "polling"]
    /\ chain' = [Cleared EXCEPT ![t] = "request"]

\* What get_transaction_status finds; the balance counts the grants so far.
StatusOf(t) == [tx |-> t, status |-> Server!StatusOf(t), balance |-> Cardinality(credited)]

ServerAnswers(t) ==
    /\ chain[t] = "request"
    /\ chain' = [chain EXCEPT ![t] = "answer"]
    /\ reply' = [reply EXCEPT ![t] = StatusOf(t)]
    /\ UNCHANGED <<hook, credited, failed>>

\* Mutant: any answer that is not pending any more counts as success.
Succeeded_NotPending(status) == status # "pending"

Succeeded(status) == status = "completed"

\* The answer is shown, whichever purchase it is about; the chain ends with a
\* final status and otherwise counts one more poll and sets its timer.
ShowAnswer(t) ==
    LET s == reply[t].status
    IN  /\ chain[t] = "answer"
        /\ \/ /\ Succeeded(s)
              /\ hook' = [hook EXCEPT !.status = reply[t], !.state = "completed"]
              /\ chain' = [chain EXCEPT ![t] = "ended"]
           \/ /\ ~Succeeded(s) /\ s = "failed"
              /\ hook' = [hook EXCEPT !.status = reply[t], !.state = "failed"]
              /\ chain' = [chain EXCEPT ![t] = "ended"]
           \/ /\ ~Succeeded(s) /\ s # "failed"
              /\ hook' = [hook EXCEPT !.status = reply[t], !.count = @ + 1, !.timer = t]
              /\ chain' = [chain EXCEPT ![t] = "timer"]

\* Mutant: polls that met an error are not counted.
CountedHiccup_Not(n) == n

CountedHiccup(n) == n + 1

\* The request fails: the catch clause swallows it and polling goes on.
Hiccup(t) ==
    /\ chain[t] \in {"request", "answer"}
    /\ hook' = [hook EXCEPT !.count = CountedHiccup(@), !.timer = t]
    /\ chain' = [chain EXCEPT ![t] = "timer"]
    /\ UNCHANGED <<reply, credited, failed>>

\* The next poll, or after MAX_POLLS the verdict of the page itself.
TimerFires(t) ==
    /\ chain[t] = "timer"
    /\ IF hook.count >= MaxPolls
       THEN /\ hook' = [hook EXCEPT !.state = "failed",
                          !.status = [tx |-> t, status |-> "timeout", balance |-> 0]]
            /\ chain' = [chain EXCEPT ![t] = "ended"]
       ELSE UNCHANGED hook /\ chain' = [chain EXCEPT ![t] = "request"]
    /\ UNCHANGED <<reply, credited, failed>>

=============================================================================
