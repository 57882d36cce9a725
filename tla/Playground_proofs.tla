-------------------------- MODULE Playground_proofs --------------------------
(***************************************************************************)
(* Proofs about Playground: for any number of runs and features and any    *)
(* purchases meanwhile.                                                    *)
(***************************************************************************)
EXTENDS Playground, TLAPS

-----------------------------------------------------------------------------
(* The inductive invariant.                                                *)

Positions == 1 .. Now

\* Features are never taken away, so a later commit has all of an earlier one.
OwnedGrows == \A i, j \in Positions : i <= j => Owned(i) \subseteq Owned(j)

\* get_wallet reads the balance before the features.
ReadInOrder(l) ==
    LET w == load[l].wallet IN
    /\ load[l].state \in {"balance", "read"} => w.balance \in Positions
    /\ load[l].state = "read" => w.owned \in Positions /\ w.balance <= w.owned

\* A load that is under way.
Coming(l) == load[l].state \in {"sent", "balance", "read"}

\* What will bring the page a balance that includes commit v: the answer of a
\* run, or a load whose balance is still to be read or has been read late enough.
Brings(v) ==
    \/ \E n \in Attempts : \/ run[n].state = "committed"
                           \/ run[n].state = "answered" /\ run[n].balance >= v
    \/ \E l \in Loads : \/ load[l].state = "sent"
                        \/ Coming(l) /\ load[l].wallet.balance >= v

\* The page shows a wallet whose balance is no newer than its features.
ShownInOrder == shown.balance \in Positions /\ shown.owned \in Positions /\ shown.balance <= shown.owned

\* While nothing has gone wrong, what the page shows is up to date, or what will
\* make it so is under way.
Recovers ==
    ~disturbed => /\ shown.balance >= lastRun \/ Brings(lastRun)
                  /\ ShownInOrder \/ \E l \in Loads : Coming(l)

PlayInv ==
    /\ TypeOK
    /\ OwnedGrows
    /\ \A l \in Loads : ReadInOrder(l)
    /\ Recovers

-----------------------------------------------------------------------------
(* The history.                                                            *)

Commit == [balance : Nat, owned : SUBSET Features]

\* There is a last commit, and it is a commit.
LEMMA HistoryTyped ==
    ASSUME TypeOK
    PROVE  history \in Seq(Commit) /\ Now \in Nat /\ Now > 0 /\ history[Now] \in Commit
  <1>1. history \in Seq(Commit) /\ Now > 0
    BY DEF TypeOK, Commit
  <1>2. history \in [1 .. Now -> Commit] /\ Now \in Nat
    BY <1>1 DEF Now
  <1>3. Now \in 1 .. Now
    BY <1>1, <1>2
  <1> QED
    BY <1>1, <1>2, <1>3

\* One commit more keeps the positions that have been read, and takes no feature.
LEMMA CommitGrows ==
    ASSUME TypeOK, OwnedGrows, NEW row \in Commit, Owned(Now) \subseteq row.owned, Commits(row)
    PROVE  /\ history' \in Seq(Commit) /\ Now' = Now + 1
           /\ \A v \in Positions : history'[v] = history[v]
           /\ OwnedGrows'
  <1>1. history \in Seq(Commit) /\ Now \in Nat /\ Now > 0
    BY HistoryTyped
  <1>2. /\ history' \in Seq(Commit) /\ Len(history') = Now + 1
        /\ \A v \in 1 .. Now : history'[v] = history[v]
        /\ history'[Now + 1] = row
    BY <1>1 DEF Commits, Now
  <1> HIDE DEF Now
  <1>3. Now' = Now + 1
    BY <1>2 DEF Now
  <1>4. OwnedGrows'
    <2> SUFFICES ASSUME NEW i \in 1 .. Now + 1, NEW j \in 1 .. Now + 1, i <= j
                 PROVE  history'[i].owned \subseteq history'[j].owned
      BY <1>3 DEF OwnedGrows, Positions, Owned
    <2>1. CASE j \in 1 .. Now
      <3>1. i \in 1 .. Now
        BY <1>1, <2>1
      <3> QED
        BY <1>2, <2>1, <3>1 DEF OwnedGrows, Positions, Owned
    <2>2. CASE i \in 1 .. Now /\ j = Now + 1
      <3>1. Owned(i) \subseteq Owned(Now)
        BY <1>1, <2>2 DEF OwnedGrows, Positions
      <3> QED
        BY <1>2, <2>2, <3>1 DEF Owned
    <2>3. CASE i = Now + 1 /\ j = Now + 1
      BY <2>3
    <2> QED
      BY <1>1, <2>1, <2>2, <2>3
  <1> QED
    BY <1>2, <1>3, <1>4 DEF Positions

\* What a purchase and a run commit.
LEMMA PurchaseCommits ==
    ASSUME TypeOK, NEW fs \in SUBSET Features, Purchase(fs)
    PROVE  \E row \in Commit : Commits(row) /\ Owned(Now) \subseteq row.owned
  <1>1. history[Now] \in Commit
    BY HistoryTyped
  <1>2. [balance |-> Balance(Now) + Credits, owned |-> Owned(Now) \cup fs] \in Commit
    BY <1>1, NatAssumption DEF Commit, Balance, Owned
  <1> QED
    BY <1>2 DEF Purchase

LEMMA RunCommits ==
    ASSUME TypeOK, NEW n \in Attempts, ServeRun(n), Served(n)
    PROVE  \E row \in Commit : Commits(row) /\ Owned(Now) \subseteq row.owned
  <1>1. history[Now] \in Commit /\ run[n].feature \in Features
    BY HistoryTyped DEF TypeOK
  <1>2. Cost[run[n].feature] \in Nat
    BY <1>1, CostAssumption
  <1> DEFINE row == [history[Now] EXCEPT !.balance = @ - Cost[run[n].feature]]
  <1>3. row \in Commit /\ row.owned = Owned(Now)
    BY <1>1, <1>2 DEF Served, Balance, Owned, Commit
  <1>4. Commits(row)
    BY DEF ServeRun
  <1> QED
    BY <1>3, <1>4

\* Every step keeps what has been committed.
LEMMA HistoryStep ==
    ASSUME TypeOK, OwnedGrows, [Next]_vars
    PROVE  /\ history' \in Seq(Commit)
           /\ Now \in Nat /\ Now' \in Nat /\ Now > 0 /\ Now' >= Now
           /\ \A v \in Positions : history'[v] = history[v]
           /\ OwnedGrows'
  <1>1. history \in Seq(Commit) /\ Now \in Nat /\ Now > 0
    BY HistoryTyped
  <1>2. CASE UNCHANGED history
    <2>1. Now' = Now
      BY <1>2 DEF Now
    <2> QED
      BY <1>1, <1>2, <2>1 DEF OwnedGrows, Positions, Owned
  <1>3. CASE \E row \in Commit : Commits(row) /\ Owned(Now) \subseteq row.owned
    BY <1>1, <1>3, CommitGrows
  <1>4. \/ UNCHANGED history
        \/ \E fs \in SUBSET Features : Purchase(fs)
        \/ \E n \in Attempts : ServeRun(n) /\ Served(n)
    BY DEF Next, vars, ServeRun, RunProceeds, RefreshBalance, RunAnswered, RunFails, ClickRun,
           LoadProceeds, ReadBalance, ReadOwned, WalletArrives, LoadFails, Finish, Rest
  <1> QED
    BY <1>2, <1>3, <1>4, PurchaseCommits, RunCommits

-----------------------------------------------------------------------------
(* Types.                                                                  *)

Run(now) ==
    [state : {"new", "sent", "orphan", "committed", "answered", "refused", "over"},
     feature : Features, balance : 0 .. now]

Load == [state : {"idle", "sent", "balance", "read", "over"}, wallet : Wallet]

\* What each of the two reads of get_wallet leaves in its load.
LEMMA WalletReads ==
    ASSUME load \in [Loads -> Load], Now \in Nat, NEW l \in Loads
    PROVE  /\ ReadBalance(l) => load' = [load EXCEPT ![l] =
                [state |-> "balance", wallet |-> [balance |-> Now, owned |-> load[l].wallet.owned]]]
           /\ ReadOwned(l) => load' = [load EXCEPT ![l] =
                [state |-> "read", wallet |-> [balance |-> load[l].wallet.balance, owned |-> Now]]]
           /\ ReadBalance(l) \/ ReadOwned(l) => load' \in [Loads -> Load]
  <1> DEFINE w == load[l].wallet
             first == [state |-> "balance", wallet |-> [balance |-> Now, owned |-> w.owned]]
             second == [state |-> "read", wallet |-> [balance |-> w.balance, owned |-> Now]]
  <1>1. load[l] \in Load /\ w \in Wallet
    BY DEF Load
  <1>2. load[l] = [state |-> load[l].state, wallet |-> w] /\ w = [balance |-> w.balance, owned |-> w.owned]
    BY <1>1 DEF Load, Wallet
  <1>3. first \in Load /\ second \in Load
    BY <1>1 DEF Load, Wallet
  <1>4. /\ [w EXCEPT !.balance = Now] = first.wallet
        /\ [w EXCEPT !.owned = Now] = second.wallet
    BY <1>2
  <1>5. /\ [load[l] EXCEPT !.state = "balance", !.wallet = first.wallet] = first
        /\ [load[l] EXCEPT !.state = "read", !.wallet = second.wallet] = second
    <2>1. \A r, s \in Load : r.state = s.state /\ r.wallet = s.wallet => r = s
      BY DEF Load
    <2>2. /\ first.state = "balance" /\ first.wallet \in Wallet
          /\ second.state = "read" /\ second.wallet \in Wallet
      BY <1>3 DEF Load
    <2> HIDE DEF first, second
    <2> DEFINE one == [load[l] EXCEPT !.state = "balance", !.wallet = first.wallet]
               two == [load[l] EXCEPT !.state = "read", !.wallet = second.wallet]
    <2>3. one \in Load /\ one.state = "balance" /\ one.wallet = first.wallet
      BY <1>1, <2>2 DEF Load
    <2>4. two \in Load /\ two.state = "read" /\ two.wallet = second.wallet
      BY <1>1, <2>2 DEF Load
    <2>5. one = first /\ two = second
      <3> HIDE DEF one, two
      <3> QED
        BY <1>3, <2>1, <2>2, <2>3, <2>4
    <2> QED
      BY <2>5
  <1>6. ReadBalance(l) => load' = [load EXCEPT ![l] =
          [load[l] EXCEPT !.state = "balance", !.wallet = [w EXCEPT !.balance = Now]]]
    BY <1>1 DEF ReadBalance, Load
  <1>7. ReadOwned(l) => load' = [load EXCEPT ![l] =
          [load[l] EXCEPT !.state = "read", !.wallet = [w EXCEPT !.owned = Now]]]
    BY <1>1 DEF ReadOwned, Load
  <1>8. /\ ReadBalance(l) => load' = [load EXCEPT ![l] = first]
        /\ ReadOwned(l) => load' = [load EXCEPT ![l] = second]
    BY <1>4, <1>5, <1>6, <1>7
  <1> HIDE DEF first, second
  <1>9. /\ [load EXCEPT ![l] = first] \in [Loads -> Load]
        /\ [load EXCEPT ![l] = second] \in [Loads -> Load]
    BY <1>3
  <1>10. ReadBalance(l) \/ ReadOwned(l) => load' \in [Loads -> Load]
    BY <1>8, <1>9
  <1> QED
    BY <1>8, <1>10 DEF first, second

\* Every step keeps the types.
LEMMA TypeStep ==
    ASSUME TypeOK, OwnedGrows, [Next]_vars
    PROVE  TypeOK'
  <1>h. history' \in Seq(Commit) /\ Now \in Nat /\ Now' \in Nat /\ Now > 0 /\ Now' >= Now
    BY HistoryStep
  <1>t. /\ run \in [Attempts -> Run(Now)] /\ load \in [Loads -> Load]
        /\ bought \in 0 .. MaxPurchases /\ shown \in Wallet /\ loading \in BOOLEAN
        /\ lastRun \in 0 .. Now /\ disturbed \in BOOLEAN
    BY DEF TypeOK, Run, Load
  <1>s. SUFFICES /\ run' \in [Attempts -> Run(Now')] /\ load' \in [Loads -> Load]
                 /\ bought' \in 0 .. MaxPurchases /\ shown' \in Wallet /\ loading' \in BOOLEAN
                 /\ lastRun' \in 0 .. Now' /\ disturbed' \in BOOLEAN
    <2>1. Now' > 0
      BY <1>h
    <2> QED
      BY <1>h, <2>1 DEF TypeOK, Run, Load, Commit
  <1> DEFINE Typed == /\ run' \in [Attempts -> Run(Now')] /\ load' \in [Loads -> Load]
                      /\ bought' \in 0 .. MaxPurchases /\ shown' \in Wallet /\ loading' \in BOOLEAN
                      /\ lastRun' \in 0 .. Now' /\ disturbed' \in BOOLEAN
  <1>r. run \in [Attempts -> Run(Now')] /\ lastRun \in 0 .. Now'
    <2>1. 0 .. Now \subseteq 0 .. Now'
      BY <1>h
    <2>2. Run(Now) \subseteq Run(Now')
      BY <2>1 DEF Run
    <2> QED
      BY <1>t, <2>1, <2>2
  <1>w. /\ Now \in Nat /\ Now \in 0 .. Now'
        /\ \A l \in Loads : load[l].wallet \in Wallet
        /\ \A n \in Attempts : run[n].balance \in Nat
    BY <1>h, <1>t DEF Load, Run
  <1>1. CASE UNCHANGED vars
    BY <1>1, <1>t, <1>r DEF vars
  <1>2. ASSUME NEW fs \in SUBSET Features, Purchase(fs)
        PROVE  Typed
    <2>1. bought' \in 0 .. MaxPurchases
      BY <1>2, <1>t, NatAssumption DEF Purchase
    <2> QED
      BY <1>2, <2>1, <1>t, <1>r DEF Purchase, Page
  <1>3. ASSUME NEW n \in Attempts, ServeRun(n)
        PROVE  Typed
    <2>1. \A state \in {"committed", "refused", "over"} :
            [run EXCEPT ![n].state = IF @ = "sent" THEN state ELSE "over"] \in [Attempts -> Run(Now')]
      BY <1>r DEF Run
    <2>2. run' \in [Attempts -> Run(Now')]
      BY <1>3, <2>1 DEF ServeRun
    <2>3. lastRun' \in 0 .. Now'
      <3>1. CASE Served(n)
        <4>1. Now' = Now + 1
          <5>1. \E row \in Commit : Commits(row) /\ Owned(Now) \subseteq row.owned
            BY <1>3, <3>1, RunCommits
          <5> QED
            BY <5>1, CommitGrows
        <4> QED
          BY <1>3, <1>h, <1>r, <3>1, <4>1 DEF ServeRun
      <3>2. CASE ~Served(n)
        BY <1>3, <1>r, <3>2 DEF ServeRun
      <3> QED
        BY <3>1, <3>2
    <2>4. disturbed' \in BOOLEAN
      BY <1>3, <1>t DEF ServeRun
    <2> QED
      BY <1>3, <1>t, <2>2, <2>3, <2>4 DEF ServeRun
  <1>4. ASSUME NEW n \in Attempts, RefreshBalance(n)
        PROVE  Typed
    <2>1. [run EXCEPT ![n].state = "answered", ![n].balance = Now] \in [Attempts -> Run(Now')]
      BY <1>r, <1>w DEF Run
    <2> QED
      BY <1>4, <1>t, <1>r, <2>1 DEF RefreshBalance, Page
  <1>5. ASSUME NEW n \in Attempts, NEW state \in {"over", "orphan"}, Ends(n, state)
        PROVE  run' \in [Attempts -> Run(Now')] /\ load' \in [Loads -> Load]
    BY <1>5, <1>t, <1>r DEF Ends, Run, Load
  <1>6. ASSUME NEW n \in Attempts, RunAnswered(n)
        PROVE  Typed
    <2>1. shown' \in Wallet
      BY <1>6, <1>t, <1>w DEF RunAnswered, Wallet
    <2>2. disturbed' \in BOOLEAN
      BY <1>6, <1>t DEF RunAnswered
    <2> QED
      BY <1>6, <1>5, <1>t, <1>r, <2>1, <2>2 DEF RunAnswered
  <1>7. ASSUME NEW n \in Attempts, RunFails(n)
        PROVE  Typed
    BY <1>7, <1>5, <1>t, <1>r DEF RunFails, Page
  <1>8. ASSUME NEW n \in Attempts, NEW f \in Features, ClickRun(n, f)
        PROVE  Typed
    <2>1. [run EXCEPT ![n].state = "sent", ![n].feature = f] \in [Attempts -> Run(Now')]
      BY <1>r DEF Run
    <2> QED
      BY <1>8, <1>t, <1>r, <2>1 DEF ClickRun, Page
  <1>9. ASSUME NEW l \in Loads, ReadBalance(l) \/ ReadOwned(l)
        PROVE  Typed
    <2>1. load' \in [Loads -> Load]
      BY <1>9, <1>t, <1>w, WalletReads
    <2> QED
      BY <1>9, <1>t, <1>r, <2>1 DEF ReadBalance, ReadOwned, Page
  <1>10. ASSUME NEW l \in Loads, WalletArrives(l) \/ LoadFails(l)
         PROVE  Typed
    <2>1. [load EXCEPT ![l].state = "over"] \in [Loads -> Load]
      BY <1>t DEF Load
    <2>2. shown' \in Wallet
      BY <1>10, <1>t, <1>w DEF WalletArrives, LoadFails
    <2>3. loading' \in BOOLEAN /\ disturbed' \in BOOLEAN
      BY <1>10, <1>t DEF WalletArrives, LoadFails, Finish
    <2> QED
      BY <1>10, <1>t, <1>r, <2>1, <2>2, <2>3 DEF WalletArrives, LoadFails, Finish
  <1> QED
    BY <1>1, <1>2, <1>3, <1>4, <1>6, <1>7, <1>8, <1>9, <1>10
       DEF Next, RunProceeds, LoadProceeds, Rest

-----------------------------------------------------------------------------
(* What loads read.                                                        *)

\* What one step does to one load.
LEMMA LoadMoves ==
    ASSUME TypeOK, OwnedGrows, [Next]_vars, NEW l \in Loads
    PROVE  \/ load'[l] = load[l]
           \/ load'[l].state \in {"sent", "over"}
           \/ load'[l].state = "balance" /\ load'[l].wallet.balance = Now
           \/ /\ load[l].state = "balance" /\ load'[l].state = "read"
              /\ load'[l].wallet.balance = load[l].wallet.balance /\ load'[l].wallet.owned = Now
  <1>t. load \in [Loads -> Load] /\ Now \in Nat
    BY HistoryTyped DEF TypeOK, Load
  <1>1. CASE UNCHANGED load
    BY <1>1
  <1>2. ASSUME NEW k \in Loads, NEW state \in {"sent", "over"}, load' = [load EXCEPT ![k].state = state]
        PROVE  load'[l] = load[l] \/ load'[l].state = state
    BY <1>2, <1>t DEF Load
  <1>3. ASSUME NEW k \in Loads, ReadBalance(k)
        PROVE  \/ load'[l] = load[l]
               \/ load'[l].state = "balance" /\ load'[l].wallet.balance = Now
    BY <1>3, <1>t, WalletReads
  <1>4. ASSUME NEW k \in Loads, ReadOwned(k)
        PROVE  \/ load'[l] = load[l]
               \/ /\ load[l].state = "balance" /\ load'[l].state = "read"
                  /\ load'[l].wallet.balance = load[l].wallet.balance /\ load'[l].wallet.owned = Now
    <2>1. load[k].state = "balance"
      BY <1>4 DEF ReadOwned
    <2> QED
      BY <1>4, <1>t, <2>1, WalletReads
  <1>5. \/ UNCHANGED load
        \/ \E k \in Loads, state \in {"sent", "over"} : load' = [load EXCEPT ![k].state = state]
        \/ \E k \in Loads : ReadBalance(k) \/ ReadOwned(k)
    BY DEF Next, vars, Purchase, ServeRun, RunProceeds, RefreshBalance, RunAnswered, RunFails, Ends,
           ClickRun, LoadProceeds, WalletArrives, LoadFails, Finish, Rest, Loads
  <1> QED
    BY <1>1, <1>2, <1>3, <1>4, <1>5

\* A load reads its balance before its features.
LEMMA ReadStep ==
    ASSUME TypeOK, OwnedGrows, [Next]_vars, NEW l \in Loads, ReadInOrder(l)
    PROVE  ReadInOrder(l)'
  <1>h. Now \in Nat /\ Now' \in Nat /\ Now > 0 /\ Now' >= Now
    BY HistoryStep
  <1> HIDE DEF Now
  <1>1. Now \in Positions /\ Positions \subseteq Positions' /\ \A v \in Positions : v <= Now
    BY <1>h DEF Positions
  <1> QED
    BY <1>1, LoadMoves DEF ReadInOrder

-----------------------------------------------------------------------------
(* What the page shows.                                                    *)

\* The page stays up to date, or what will make it so is under way.
LEMMA RecoverStep ==
    ASSUME PlayInv, [Next]_vars
    PROVE  Recovers'
  <1>t. /\ TypeOK /\ OwnedGrows /\ run \in [Attempts -> Run(Now)] /\ load \in [Loads -> Load]
        /\ shown \in Wallet /\ lastRun \in 0 .. Now /\ Now \in Nat
    BY HistoryTyped DEF PlayInv, TypeOK, Run, Load
  <1>i. ~disturbed => /\ shown.balance >= lastRun \/ Brings(lastRun)
                      /\ ShownInOrder \/ \E l \in Loads : Coming(l)
    BY DEF PlayInv, Recovers
  <1>h. Now' \in Nat /\ Now > 0 /\ Now' >= Now
    BY <1>t, HistoryStep
  <1>p. Positions \subseteq Positions'
    BY <1>t, <1>h DEF Positions
  <1> DEFINE Covered == shown'.balance >= lastRun' \/ Brings(lastRun)'
             InOrder == ShownInOrder' \/ \E l \in Loads : Coming(l)'
             Fine == ~disturbed' => Covered /\ InOrder
  <1>k. ASSUME UNCHANGED <<shown, disturbed, lastRun>>, UNCHANGED load,
               \A n \in Attempts : run[n].state \in {"committed", "answered"} => run'[n] = run[n]
        PROVE  Fine
    <2>1. Brings(lastRun) => Brings(lastRun)'
      BY <1>k DEF Brings, Coming
    <2>2. ShownInOrder => ShownInOrder'
      BY <1>k, <1>p DEF ShownInOrder
    <2>3. \A l \in Loads : Coming(l) => Coming(l)'
      BY <1>k DEF Coming
    <2> QED
      BY <1>k, <1>i, <2>1, <2>2, <2>3
  <1>1. UNCHANGED vars => Fine
    BY <1>k DEF vars
  <1>2. ASSUME NEW fs \in SUBSET Features, Purchase(fs)
        PROVE  Fine
    BY <1>2, <1>k DEF Purchase, Page
  <1>3. ASSUME NEW n \in Attempts, ServeRun(n)
        PROVE  Fine
    <2>1. CASE Served(n) /\ run[n].state = "sent"
      <3>1. /\ UNCHANGED <<load, shown>> /\ (disturbed' <=> disturbed)
            /\ run' = [run EXCEPT ![n].state = "committed"]
        BY <1>3, <2>1 DEF ServeRun
      <3>2. Brings(lastRun)'
        BY <1>t, <3>1 DEF Brings, Run
      <3>3. InOrder \/ disturbed
        BY <1>i, <1>p, <3>1 DEF ShownInOrder, Coming
      <3> QED
        BY <3>1, <3>2, <3>3
    <2>2. CASE Served(n) /\ run[n].state = "orphan"
      BY <1>3, <2>2 DEF ServeRun
    <2>3. CASE ~Served(n)
      <3>1. UNCHANGED <<shown, disturbed, lastRun>> /\ UNCHANGED load /\ run[n].state \in {"sent", "orphan"}
        BY <1>3, <2>3 DEF ServeRun
      <3>2. \A m \in Attempts \ {n} : run'[m] = run[m]
        BY <1>3, <1>t, <2>3 DEF ServeRun
      <3> QED
        BY <1>k, <3>1, <3>2
    <2> QED
      BY <1>3, <2>1, <2>2, <2>3 DEF ServeRun
  <1>4. ASSUME NEW n \in Attempts, RefreshBalance(n)
        PROVE  Fine
    <2>1. run'[n].state = "answered" /\ run'[n].balance = Now
      BY <1>4, <1>t DEF RefreshBalance, Run
    <2>2. UNCHANGED <<load, shown, disturbed, lastRun>>
      BY <1>4 DEF RefreshBalance, Page
    <2>3. lastRun' <= Now
      BY <1>t, <2>2
    <2>4. Brings(lastRun)'
      BY <1>t, <2>1, <2>2, <2>3 DEF Brings
    <2>5. InOrder \/ disturbed
      BY <1>i, <1>p, <2>2 DEF ShownInOrder, Coming
    <2> QED
      BY <2>2, <2>4, <2>5
  <1>5. ASSUME NEW n \in Attempts, RunAnswered(n) \/ RunFails(n)
        PROVE  Fine
    <2>1. n \in Loads /\ load' = [load EXCEPT ![n].state = "sent"]
      BY <1>5 DEF RunAnswered, RunFails, Ends, Loads
    <2>2. load'[n].state = "sent"
      BY <1>t, <2>1 DEF Load
    <2> QED
      BY <2>1, <2>2 DEF Brings, Coming
  <1>6. ASSUME NEW n \in Attempts, NEW f \in Features, ClickRun(n, f)
        PROVE  Fine
    <2>1. run[n].state = "new" /\ \A m \in Attempts \ {n} : run'[m] = run[m]
      BY <1>6, <1>t DEF ClickRun
    <2> QED
      BY <1>6, <1>k, <2>1 DEF ClickRun, Page
  <1>7. ASSUME NEW l \in Loads, ReadBalance(l)
        PROVE  Fine
    <2>1. Coming(l)' /\ load'[l].wallet.balance = Now
      BY <1>7, <1>t, WalletReads DEF Coming
    <2>2. lastRun' <= Now
      BY <1>7, <1>t DEF ReadBalance
    <2> QED
      BY <1>t, <2>1, <2>2 DEF Brings
  <1>8. ASSUME NEW l \in Loads, ReadOwned(l)
        PROVE  Fine
    <2>1. /\ load[l].state = "balance" /\ Coming(l)'
          /\ load'[l].wallet.balance = load[l].wallet.balance
          /\ \A k \in Loads \ {l} : load'[k] = load[k]
      <3>1. load[l].state = "balance"
        BY <1>8 DEF ReadOwned
      <3>2. load' = [load EXCEPT ![l] =
              [state |-> "read", wallet |-> [balance |-> load[l].wallet.balance, owned |-> Now]]]
        BY <1>8, <1>t, WalletReads
      <3> QED
        BY <1>t, <3>1, <3>2 DEF Coming
    <2>2. UNCHANGED <<run, shown, disturbed, lastRun>>
      BY <1>8 DEF ReadOwned, Page
    <2>3. Brings(lastRun) => Brings(lastRun)'
      BY <2>1, <2>2 DEF Brings, Coming
    <2> QED
      BY <1>i, <2>1, <2>2, <2>3
  <1>9. ASSUME NEW l \in Loads, WalletArrives(l)
        PROVE  Fine
    <2> SUFFICES ASSUME ~disturbed' PROVE Covered /\ InOrder
      OBVIOUS
    <2>1. /\ load[l].state = "read" /\ shown' = load[l].wallet /\ UNCHANGED <<run, lastRun>>
          /\ ~disturbed /\ ~(load[l].wallet.balance < shown.balance)
          /\ \A k \in Loads \ {l} : load'[k] = load[k]
      BY <1>9, <1>t DEF WalletArrives, Finish
    <2>2. load[l].wallet.balance \in Nat /\ shown.balance \in Nat /\ lastRun \in Nat
      BY <1>t DEF Load, Wallet
    <2>3. shown'.balance >= shown.balance
      BY <2>1, <2>2
    <2>4. ShownInOrder'
      BY <1>p, <2>1 DEF PlayInv, ReadInOrder, ShownInOrder
    <2>5. CASE shown.balance >= lastRun
      BY <2>1, <2>2, <2>3, <2>4, <2>5
    <2>6. CASE Brings(lastRun)
      <3>1. CASE load[l].wallet.balance >= lastRun
        BY <2>1, <2>4, <3>1
      <3>2. CASE ~(load[l].wallet.balance >= lastRun)
        <4>1. Brings(lastRun)'
          BY <2>1, <2>6, <3>2 DEF Brings, Coming
        <4> QED
          BY <2>4, <4>1
      <3> QED
        BY <3>1, <3>2
    <2> QED
      BY <1>i, <2>1, <2>5, <2>6
  <1>10. ASSUME NEW l \in Loads, LoadFails(l)
         PROVE  Fine
    BY <1>10 DEF LoadFails
  <1>11. Fine
    BY <1>1, <1>2, <1>3, <1>4, <1>5, <1>6, <1>7, <1>8, <1>9, <1>10
       DEF Next, RunProceeds, LoadProceeds, Rest
  <1> QED
    BY <1>11 DEF Recovers

-----------------------------------------------------------------------------
(* The invariant, and what follows from it.                                *)

\* At first the page waits for the wallet it loads when it is opened.
LEMMA PlayInit == Init => PlayInv
  <1> SUFFICES ASSUME Init PROVE PlayInv
    OBVIOUS
  <1>1. PICK owned \in SUBSET Features : history = << [balance |-> FirstBalance, owned |-> owned] >>
    BY DEF Init
  <1>2. history \in Seq(Commit) /\ Now = 1
    BY <1>1, NatAssumption DEF Now, Commit
  <1>3. NoWallet \in Wallet /\ Mount \in Loads
    BY DEF NoWallet, Wallet, Loads
  <1>4. TypeOK
    <2>1. load \in [Loads -> Load] /\ shown \in Wallet /\ loading \in BOOLEAN /\ disturbed \in BOOLEAN
      BY <1>3 DEF Init, Load
    <2>2. run \in [Attempts -> Run(Now)]
      BY <1>2 DEF Init, Run
    <2>3. Now > 0 /\ bought \in 0 .. MaxPurchases /\ lastRun \in 0 .. Now
      BY <1>2, NatAssumption DEF Init
    <2> QED
      BY <1>2, <2>1, <2>2, <2>3 DEF TypeOK, Run, Load, Commit
  <1>5. OwnedGrows
    BY <1>2 DEF OwnedGrows, Positions
  <1>6. \A l \in Loads : load[l].state \in {"sent", "idle"}
    BY DEF Init
  <1>7. load[Mount].state = "sent"
    BY <1>3 DEF Init
  <1> QED
    BY <1>3, <1>4, <1>5, <1>6, <1>7 DEF PlayInv, ReadInOrder, Recovers, Brings, Coming

\* No step leaves the invariant.
LEMMA PlayInvStep == PlayInv /\ [Next]_vars => PlayInv'
  BY HistoryStep, TypeStep, ReadStep, RecoverStep DEF PlayInv

\* PlayInv holds throughout.
THEOREM PlayInvariant == Spec => []PlayInv
  BY PlayInit, PlayInvStep, PTL DEF Spec

\* The tables, the requests and the page keep their types; in particular no run
\* takes the balance below zero.
THEOREM PlayTypes == Spec => []TypeOK
  <1>1. PlayInv => TypeOK
    BY DEF PlayInv
  <1> QED
    BY <1>1, PlayInvariant, PTL

\* An answer of GET /wallet that has the credits of a purchase has its features:
\* the balance is read first, and features are never taken away.
THEOREM FeaturesComeWithCredits == Spec => []CreditsComeWithFeatures
  <1>1. PlayInv => CreditsComeWithFeatures
    BY DEF PlayInv, CreditsComeWithFeatures, ReadInOrder, OwnedGrows
  <1> QED
    BY <1>1, PlayInvariant, PTL

\* A page at rest shows a balance that accounts for every run it has started, and
\* the features that came with it, unless a load failed, answers overtook one
\* another or a run was served after the page had given it up.
THEOREM RestShowsEveryRun == Spec => []RestIsUpToDate
  <1>1. PlayInv => RestIsUpToDate
    <2> SUFFICES ASSUME PlayInv, Idle, ~disturbed
                 PROVE  shown.balance >= lastRun /\ Owned(shown.balance) \subseteq Owned(shown.owned)
      BY DEF RestIsUpToDate
    <2>1. ~Brings(lastRun) /\ \A l \in Loads : ~Coming(l)
      BY DEF Idle, Brings, Coming
    <2>2. shown.balance >= lastRun /\ ShownInOrder
      BY <2>1 DEF PlayInv, Recovers
    <2> QED
      BY <2>2 DEF PlayInv, ShownInOrder, OwnedGrows
  <1> QED
    BY <1>1, PlayInvariant, PTL

=============================================================================
