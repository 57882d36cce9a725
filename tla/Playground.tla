----------------------------- MODULE Playground -----------------------------
(***************************************************************************)
(* pages/Playground.tsx and GET /wallet: a page that starts runs of        *)
(* features, shows the balance each answer brings, and after each of them  *)
(* asks for the wallet without waiting for the answer.                     *)
(*                                                                         *)
(* The tables are a history of commits, each the work of FeatureGate or    *)
(* PurchaseWorker.  What has been read is told by its position in it.      *)
(***************************************************************************)
EXTENDS Naturals, Sequences, FiniteSets

CONSTANTS
    Features,
    Cost,          \* Cost[f]: the credits of a run
    Attempts,      \* clicks on Run in one behaviour
    Mount,         \* the load of the wallet when the page is opened
    Credits,       \* what a purchase adds
    MaxPurchases,  \* bound on the purchases that complete meanwhile
    FirstBalance

ASSUME CostAssumption == Cost \in [Features -> Nat]
ASSUME MountAssumption == Mount \notin Attempts
ASSUME NatAssumption == Credits \in Nat /\ MaxPurchases \in Nat /\ FirstBalance \in Nat

VARIABLES
    history,    \* the buyer's balance and features after each commit
    bought,     \* purchases completed while the page is open
    run,        \* the attempts: POST /features/{key}/run
    load,       \* the loads of the wallet, one at the start and after each run
    shown,      \* the wallet the page shows: where its parts were read
    loading,    \* the page still shows its skeleton
    lastRun,    \* history: the last commit of an attempt
    disturbed   \* history: a load failed, an answer came after a newer one, or
                \* a run was served when the page had given it up

vars == <<history, bought, run, load, shown, loading, lastRun, disturbed>>

Loads == Attempts \cup {Mount}

Now == Len(history)
Balance(v) == history[v].balance
Owned(v) == history[v].owned

Wallet == [balance : Nat, owned : Nat]
NoWallet == [balance |-> 0, owned |-> 0]

\* Every variable holds a value of its type.
TypeOK ==
    /\ history \in Seq([balance : Nat, owned : SUBSET Features]) /\ Now > 0
    /\ bought \in 0 .. MaxPurchases
    /\ run \in [Attempts ->
         [state : {"new", "sent", "orphan", "committed", "answered", "refused", "over"},
          feature : Features, balance : 0 .. Now]]
    /\ load \in [Loads -> [state : {"idle", "sent", "balance", "read", "over"}, wallet : Wallet]]
    /\ shown \in Wallet
    /\ loading \in BOOLEAN
    /\ lastRun \in 0 .. Now
    /\ disturbed \in BOOLEAN

Init ==
    /\ \E owned \in SUBSET Features : history = << [balance |-> FirstBalance, owned |-> owned] >>
    /\ bought = 0
    /\ \E f \in Features : run = [n \in Attempts |-> [state |-> "new", feature |-> f, balance |-> 0]]
    /\ load = [l \in Loads |->
         [state |-> IF l = Mount THEN "sent" ELSE "idle", wallet |-> NoWallet]]
    /\ shown = NoWallet
    /\ loading = TRUE
    /\ lastRun = 0
    /\ disturbed = FALSE

Page == <<shown, loading, disturbed>>

Commits(row) == history' = Append(history, row)

-----------------------------------------------------------------------------
(* The server.                                                             *)

\* A purchase completes: credits and features in one commit.
Purchase(fs) ==
    /\ bought < MaxPurchases
    /\ bought' = bought + 1
    /\ Commits([balance |-> Balance(Now) + Credits, owned |-> Owned(Now) \cup fs])
    /\ UNCHANGED <<run, load, Page, lastRun>>

\* Mutant: the page's check of the balance is thought to be enough.
Served_UnlockedOnly(n) == run[n].feature \in Owned(Now)

Served(n) == run[n].feature \in Owned(Now) /\ Balance(Now) >= Cost[run[n].feature]

\* A run commits, or is refused: locked, or not affordable.  One that the page
\* has given up may still be served.
ServeRun(n) ==
    /\ run[n].state \in {"sent", "orphan"}
    /\ \/ /\ Served(n)
          /\ Commits([history[Now] EXCEPT !.balance = @ - Cost[run[n].feature]])
          /\ lastRun' = Now + 1
          /\ run' = [run EXCEPT ![n].state = IF @ = "sent" THEN "committed" ELSE "over"]
          /\ disturbed' = (disturbed \/ run[n].state = "orphan")
       \/ /\ ~Served(n)
          /\ run' = [run EXCEPT ![n].state = IF @ = "sent" THEN "refused" ELSE "over"]
          /\ UNCHANGED <<history, lastRun, disturbed>>
    /\ UNCHANGED <<bought, load, shown, loading>>

\* db.refresh(wallet) reads the balance of the answer after the commit, when
\* the lock is released.
RefreshBalance(n) ==
    /\ run[n].state = "committed"
    /\ run' = [run EXCEPT ![n].state = "answered", ![n].balance = Now]
    /\ UNCHANGED <<history, bought, load, Page, lastRun>>

\* get_wallet reads the balance,
ReadBalance(l) ==
    /\ load[l].state = "sent"
    /\ load' = [load EXCEPT ![l].state = "balance", ![l].wallet.balance = Now]
    /\ UNCHANGED <<history, bought, run, Page, lastRun>>

\* Mutant: get_wallet reads the features before the balance.
ReadOwned_First(l) ==
    /\ load[l].state = "balance"
    /\ load' = [load EXCEPT ![l].state = "read", ![l].wallet =
         [balance |-> Now, owned |-> load[l].wallet.balance]]
    /\ UNCHANGED <<history, bought, run, Page, lastRun>>

\* and with another SELECT the features.
ReadOwned(l) ==
    /\ load[l].state = "balance"
    /\ load' = [load EXCEPT ![l].state = "read", ![l].wallet.owned = Now]
    /\ UNCHANGED <<history, bought, run, Page, lastRun>>

-----------------------------------------------------------------------------
(* The page.                                                               *)

\* running[key]: the feature's button is disabled.
Running(f) ==
    \E n \in Attempts : run[n].feature = f /\ run[n].state \notin {"new", "orphan", "over"}

\* getFeatureState, from the wallet shown.
Runnable(f) ==
    /\ shown # NoWallet /\ f \in Owned(shown.owned) /\ Balance(shown.balance) >= Cost[f]

\* handleRun.
ClickRun(n, f) ==
    /\ run[n].state = "new" /\ ~loading /\ ~Running(f) /\ Runnable(f)
    /\ run' = [run EXCEPT ![n].state = "sent", ![n].feature = f]
    /\ UNCHANGED <<history, bought, load, Page, lastRun>>

\* Mutant: the wallet is loaded after a success only.
Ends_RefreshIfDone(n, state) ==
    /\ run' = [run EXCEPT ![n].state = state]
    /\ load' = [load EXCEPT ![n].state = IF run[n].state = "answered" THEN "sent" ELSE "over"]

\* What every attempt ends with: the button is released and a load is started.
Ends(n, state) ==
    /\ run' = [run EXCEPT ![n].state = state]
    /\ load' = [load EXCEPT ![n].state = "sent"]

\* Mutant: the button stays disabled after a failure.
RunFails_NoFinally(n) ==
    /\ run[n].state \in {"sent", "committed", "answered", "refused"}
    /\ UNCHANGED vars

\* The answer of a success: its balance replaces the one that is shown.
RunAnswered(n) ==
    /\ run[n].state = "answered"
    /\ shown' = [shown EXCEPT !.balance = run[n].balance]
    /\ disturbed' = (disturbed \/ run[n].balance < shown.balance)
    /\ Ends(n, "over")
    /\ UNCHANGED <<history, bought, loading, lastRun>>

\* A refusal, or the loss of the request or of its answer; a request whose
\* connection breaks may be under way at the server.
RunFails(n) ==
    /\ run[n].state \in {"sent", "committed", "answered", "refused"}
    /\ \/ Ends(n, "over")
       \/ run[n].state = "sent" /\ Ends(n, "orphan")
    /\ UNCHANGED <<history, bought, Page, lastRun>>

Finish(l) ==
    /\ load' = [load EXCEPT ![l].state = "over"]
    /\ loading' = (loading /\ l # Mount)
    /\ UNCHANGED <<history, bought, run, lastRun>>

\* setWallet(w).
WalletArrives(l) ==
    /\ load[l].state = "read"
    /\ shown' = load[l].wallet
    /\ disturbed' = (disturbed \/ load[l].wallet.balance < shown.balance)
    /\ Finish(l)

\* loadWallet swallows the error: the wallet stays as it was.
LoadFails(l) ==
    /\ load[l].state \in {"sent", "balance", "read"}
    /\ disturbed' = TRUE
    /\ Finish(l)
    /\ UNCHANGED shown

-----------------------------------------------------------------------------

Idle ==
    /\ \A n \in Attempts : run[n].state \in {"new", "over"}
    /\ \A l \in Loads : load[l].state \in {"idle", "over"}

\* Nothing is under way, and the buyer has left it at that.
Rest == Idle /\ UNCHANGED vars

RunProceeds(n) == RefreshBalance(n) \/ RunAnswered(n) \/ RunFails(n)
LoadProceeds(l) == ReadBalance(l) \/ ReadOwned(l) \/ WalletArrives(l) \/ LoadFails(l)

Next ==
    \/ \E fs \in SUBSET Features : Purchase(fs)
    \/ \E n \in Attempts : ServeRun(n) \/ RunProceeds(n) \/ \E f \in Features : ClickRun(n, f)
    \/ \E l \in Loads : LoadProceeds(l)
    \/ Rest

Spec == Init /\ [][Next]_vars

\* Every request ends, answered or not.
FairSpec ==
    /\ Spec
    /\ \A n \in Attempts : WF_vars(ServeRun(n) \/ RunProceeds(n))
    /\ \A l \in Loads : WF_vars(LoadProceeds(l))

-----------------------------------------------------------------------------
(* What the buyer may rely on.                                             *)

\* An answer of GET /wallet that has the credits of a purchase has its
\* features too, although no lock is held between the two reads.
CreditsComeWithFeatures ==
    \A l \in Loads :
        load[l].state = "read" => Owned(load[l].wallet.balance) \subseteq Owned(load[l].wallet.owned)

\* When the page has come to rest, the balance it shows accounts for every run
\* it has started, also for those it believes to have failed, and comes with
\* the features of the same answer: unless a load failed, an answer was overtaken
\* by a newer one, or the run was served after the page had given it up.
RestIsUpToDate ==
    Idle /\ ~disturbed => /\ shown.balance >= lastRun
                          /\ Owned(shown.balance) \subseteq Owned(shown.owned)

\* The page comes to rest: no button and no skeleton stays for ever.
PageRests == []<>(Idle /\ ~loading)

=============================================================================
