-------------------------- MODULE SeedBoot_proofs --------------------------
(***************************************************************************)
(* Proofs about SeedBoot, for any number of containers, accounts, crashes, *)
(* writes and postings: what a container has read and inserted, and what   *)
(* others have committed, fit together so that no row comes twice.         *)
(***************************************************************************)
EXTENDS SeedBoot, TLAPS

Part == {"wallet", "transactions", "entitlements", "ledger"}
User(a) == <<"user", a>>

\* The container runs no transaction of the seed.
Idle(c) == boot[c].state \in {"down", "migrate", "upgrade", "serving"}

\* The groups the container has read.
HasRead(c, g) ==
    g < boot[c].group \/ (g = boot[c].group /\ boot[c].state \in {"flush", "commit"})

\* What one container has found missing or inserted, against the tables.
BootOK(c) ==
    /\ Idle(c) => /\ boot[c].group = 1 /\ boot[c].missing = {} /\ boot[c].added = {}
                  /\ ~boot[c].reset
    /\ boot[c].state \in {"read", "flush", "commit", "serving"} => schema = Head
    /\ boot[c].state = "commit" => boot[c].group = 4 /\ boot[c].missing = {}
    /\ boot[c].state = "serving" => \A i \in Seed(c) : rows[i] > 0 \/ i \in renamed
    /\ boot[c].missing \subseteq Seed(c)
    /\ boot[c].added \subseteq Seed(c)
    /\ User(Of[c]) \in boot[c].missing => boot[c].group = 3
    /\ \A g \in 1 .. 4 : HasRead(c, g) =>
         \A i \in Group(c, g) :
           i \in boot[c].missing \cup boot[c].added \/ rows[i] > 0 \/ i \in renamed
    /\ \A i \in boot[c].added : Unique(i) => rows[i] = 0

\* What a buyer is given is missing with the buyer, and comes with it.
GiftsOK(c) ==
    /\ \A p \in Part : <<p, Of[c]>> \in boot[c].missing \cup boot[c].added =>
                         User(Of[c]) \in boot[c].added
    /\ User(Of[c]) \in boot[c].added =>
         \A p \in Part :
           /\ boot[c].state = "flush" /\ boot[c].group = 4 => <<p, Of[c]>> \in boot[c].missing
           /\ boot[c].state = "commit" => <<p, Of[c]>> \in boot[c].added

\* Two sessions have not inserted the same key.
Apart ==
    \A c, d \in Containers : c # d =>
        \A i \in boot[c].added : i \in boot[d].added => ~Unique(i)

WholeBuyers == \A a \in Accounts, p \in Part : rows[<<p, a>>] = rows[User(a)]

\* Nothing is posted for a buyer without a wallet.
PostedNeedsWallet == \A a \in Accounts : rows[Wallet(a)] = 0 => posted[a] = 0

SeedInv ==
    /\ TypeOK
    /\ \A c \in Containers : BootOK(c)
    /\ \A c \in Containers : GiftsOK(c)
    /\ Apart
    /\ SeededOnce
    /\ WholeBuyers
    /\ PostedNeedsWallet
    /\ DriftOnlyByReseed

-----------------------------------------------------------------------------
(* The seed's rows.                                                        *)

\* Which group holds which row.
LEMMA Groups ==
    ASSUME NEW c \in Containers
    PROVE  /\ Group(c, 1) = {<<"features", Shared>>}
           /\ Group(c, 2) = Packages \cup {<<"admin", Of[c]>>}
           /\ Packages = {<<"starter", Shared>>, <<"growth", Shared>>}
           /\ Group(c, 3) = {User(Of[c])}
           /\ Group(c, 4) = Part \X {Of[c]}
           /\ Of[c] \in Accounts
  BY AccountsAssumption DEF Group, User, Part, Packages, Purchased

\* The seed consists of the groups, and a buyer's rows are in the groups 3 and 4.
LEMMA SeedRows ==
    ASSUME NEW c \in Containers
    PROVE  /\ Seed(c) \subseteq Item
           /\ \A g \in 1 .. 4 : Group(c, g) \subseteq Seed(c)
           /\ \A i \in Seed(c) : \E g \in 1 .. 4 : i \in Group(c, g)
           /\ \A p \in Part : <<p, Of[c]>> \in Group(c, 4)
           /\ \A p \in Part, g \in 1 .. 4 : <<p, Of[c]>> \in Group(c, g) => g = 4
           /\ \A g \in 1 .. 4 : User(Of[c]) \in Group(c, g) => g = 3
           /\ User(Of[c]) \in Group(c, 3)
  <1>1. \A g \in 1 .. 4 : Group(c, g) \subseteq Item
    <2> SUFFICES ASSUME NEW g \in 1 .. 4 PROVE Group(c, g) \subseteq Item
      OBVIOUS
    <2>1. g = 1 \/ g = 2 \/ g = 3 \/ g = 4
      OBVIOUS
    <2> QED BY <2>1, Groups DEF Item, User, Part
  <1>2. Seed(c) \subseteq Item
    BY <1>1 DEF Seed
  <1>3. /\ \A g \in 1 .. 4 : Group(c, g) \subseteq Seed(c)
        /\ \A i \in Seed(c) : \E g \in 1 .. 4 : i \in Group(c, g)
    BY DEF Seed
  <1>4. \A p \in Part : <<p, Of[c]>> \in Group(c, 4)
    BY Groups
  <1>5. ASSUME NEW p \in Part, NEW g \in 1 .. 4, <<p, Of[c]>> \in Group(c, g)
        PROVE  g = 4
    <2>1. g = 1 \/ g = 2 \/ g = 3 \/ g = 4
      OBVIOUS
    <2> QED BY <2>1, <1>5, Groups DEF User, Part
  <1>6. ASSUME NEW g \in 1 .. 4, User(Of[c]) \in Group(c, g)
        PROVE  g = 3
    <2>1. g = 1 \/ g = 2 \/ g = 3 \/ g = 4
      OBVIOUS
    <2> QED BY <2>1, <1>6, Groups DEF User, Part
  <1>7. User(Of[c]) \in Group(c, 3)
    BY Groups
  <1> QED BY <1>2, <1>3, <1>4, <1>5, <1>6, <1>7

\* A container's seed gives to its own buyer.
LEMMA OwnRows ==
    ASSUME NEW c \in Containers, NEW a, NEW p \in Part \cup {"user"}, <<p, a>> \in Seed(c)
    PROVE  a = Of[c]
  <1>1. PICK g \in 1 .. 4 : <<p, a>> \in Group(c, g)
    BY SeedRows
  <1>2. g = 1 \/ g = 2 \/ g = 3 \/ g = 4
    OBVIOUS
  <1> QED BY <1>1, <1>2, Groups DEF User, Part

LEMMA BuyerRows ==
    /\ \A a \in Accounts : User(a) \in Item /\ Unique(User(a)) /\ Wallet(a) = <<"wallet", a>>
    /\ \A p \in Part, a \in Accounts : <<p, a>> \in Item
    /\ "wallet" \in Part
  BY DEF User, Part, Item, Unique, Wallet

\* A package is no row of a buyer.
LEMMA PackageRows ==
    /\ Packages \subseteq Item /\ Elsewhere \notin Item
    /\ \A i \in Packages \cup {Elsewhere}, a \in Accounts : i # User(a)
    /\ \A i \in Packages \cup {Elsewhere}, a \in Accounts, p \in Part : i # <<p, a>>
  BY DEF User, Part, Item, Packages, Purchased, Elsewhere

-----------------------------------------------------------------------------
(* A step that changes one container and no table.                         *)

\* Such a step keeps the invariant if the container itself stays in order.
LEMMA OneContainer ==
    ASSUME SeedInv, TypeOK', NEW c \in Containers,
           BootOK(c)', GiftsOK(c)',
           schema' = schema \/ schema' = Head,
           UNCHANGED Database,
           \A d \in Containers \ {c} : boot'[d] = boot[d],
           \A i \in boot'[c].added : Unique(i) =>
              \A d \in Containers \ {c} : i \notin boot[d].added
    PROVE  SeedInv'
  <1>1. \A d \in Containers : BootOK(d)'
    <2> SUFFICES ASSUME NEW d \in Containers, d # c PROVE BootOK(d)'
      OBVIOUS
    <2>1. boot'[d] = boot[d] /\ rows' = rows /\ renamed' = renamed
      BY DEF Database
    <2>2. BootOK(d)
      BY DEF SeedInv
    <2> QED BY <2>1, <2>2 DEF BootOK, Idle, HasRead
  <1>2. \A d \in Containers : GiftsOK(d)'
    <2> SUFFICES ASSUME NEW d \in Containers, d # c PROVE GiftsOK(d)'
      OBVIOUS
    <2>1. boot'[d] = boot[d]
      OBVIOUS
    <2> QED BY <2>1 DEF SeedInv, GiftsOK
  <1>3. Apart'
    BY DEF SeedInv, Apart
  <1>4. (SeededOnce /\ WholeBuyers /\ PostedNeedsWallet /\ DriftOnlyByReseed)'
    BY DEF SeedInv, Database, SeededOnce, WholeBuyers, PostedNeedsWallet, DriftOnlyByReseed
  <1> QED BY <1>1, <1>2, <1>3, <1>4 DEF SeedInv

LEMMA DownBoot == Down \in Boot
  BY HeadAssumption DEF Down, Boot

\* A container that ends, and one that is killed, leaves nothing behind.
LEMMA ResetStep ==
    ASSUME SeedInv, NEW c \in Containers, boot' = [boot EXCEPT ![c] = Down],
           crashes' \in 0 .. MaxCrashes, stale' \subseteq Containers,
           UNCHANGED <<schema, Database>>
    PROVE  SeedInv'
  <1>1. TypeOK'
    BY HeadAssumption DEF SeedInv, TypeOK, Database, Boot, Down
  <1>2. boot'[c] = Down /\ \A d \in Containers \ {c} : boot'[d] = boot[d]
    BY DEF SeedInv, TypeOK
  <1>3. BootOK(c)' /\ GiftsOK(c)'
    BY <1>2, SeedRows DEF BootOK, GiftsOK, Idle, HasRead, Down
  <1> QED BY <1>1, <1>2, <1>3, OneContainer DEF Down

-----------------------------------------------------------------------------
(* The steps of a start.                                                   *)

\* Before the seed the container has nothing to do with the tables.
LEMMA MigrationStep ==
    ASSUME SeedInv, NEW c \in Containers, Start(c) \/ ReadVersion(c) \/ Upgrade(c)
    PROVE  SeedInv'
  <1> USE DEF InState
  <1>1. CASE InState(c, "upgrade") /\ Fail(c)
    <2>1. stale' \subseteq Containers /\ crashes' \in 0 .. MaxCrashes
      BY <1>1 DEF Fail, SeedInv, TypeOK
    <2> QED BY <1>1, <2>1, ResetStep DEF Fail
  <1>2. CASE ~(InState(c, "upgrade") /\ Fail(c))
    <2>1. PICK r \in Boot :
             /\ boot' = [boot EXCEPT ![c] = r]
             /\ r.group = boot[c].group /\ r.missing = boot[c].missing
             /\ r.added = boot[c].added /\ r.reset = boot[c].reset
             /\ r.state \in {"migrate", "read", "upgrade"}
             /\ r.state = "read" => schema' = Head
      <3>1. boot[c] \in Boot /\ schema \in 0 .. Head /\ boot \in [Containers -> Boot]
        BY DEF SeedInv, TypeOK
      <3>2. CASE Start(c)
        BY <3>1, <3>2, [boot[c] EXCEPT !.state = "migrate"] \in Boot DEF Start, Boot
      <3>3. CASE ReadVersion(c)
        <4> DEFINE st == IF schema = Head THEN "read" ELSE "upgrade"
        <4>1. [boot[c] EXCEPT !.version = schema, !.state = st] \in Boot
          BY <3>1 DEF Boot
        <4> QED BY <3>1, <3>3, <4>1 DEF ReadVersion, Boot
      <3>4. CASE Upgrade(c)
        BY <1>2, <3>1, <3>4, [boot[c] EXCEPT !.state = "read"] \in Boot DEF Upgrade, Boot
      <3> QED BY <3>2, <3>3, <3>4
    <2>2. /\ UNCHANGED <<Database, stale>> /\ crashes' = crashes /\ schema' \in {schema, Head}
          /\ boot[c].state \in {"down", "migrate", "upgrade"}
      BY <1>2 DEF Start, ReadVersion, Upgrade
    <2>3. boot'[c] = r /\ \A d \in Containers \ {c} : boot'[d] = boot[d]
      BY <2>1 DEF SeedInv, TypeOK
    <2>4. TypeOK'
      BY <2>1, <2>2, HeadAssumption DEF SeedInv, TypeOK, Database
    <2>5. BootOK(c) /\ GiftsOK(c) /\ Idle(c)
      BY <2>2 DEF SeedInv, Idle
    <2>6. BootOK(c)' /\ GiftsOK(c)'
      BY <2>1, <2>2, <2>3, <2>5 DEF BootOK, GiftsOK, Idle, HasRead
    <2>7. boot'[c].added = {}
      BY <2>1, <2>3, <2>5 DEF BootOK
    <2> QED BY <2>2, <2>3, <2>4, <2>6, <2>7, OneContainer
  <1> QED BY <1>1, <1>2

\* What a read finds missing is not in the tables.
LEMMA ReadGroupStep ==
    ASSUME SeedInv, NEW c \in Containers, ReadGroup(c)
    PROVE  SeedInv'
  <1> DEFINE g == boot[c].group
             found == boot[c].missing \cup {i \in Group(c, g) : rows[i] = 0}
  <1>1. /\ boot[c].state = "read" /\ schema = Head /\ boot[c] \in Boot /\ g \in 1 .. 4
        /\ UNCHANGED <<schema, Database, stale, crashes>>
        /\ boot \in [Containers -> Boot] /\ rows \in [Item -> Nat]
        /\ BootOK(c) /\ GiftsOK(c)
    BY DEF ReadGroup, InState, SeedInv, TypeOK, BootOK, Boot
  <1>2. /\ boot'[c].state = "flush" /\ boot'[c].group = g /\ boot'[c].missing = found
        /\ boot'[c].added = boot[c].added
        /\ \A d \in Containers \ {c} : boot'[d] = boot[d]
    BY <1>1 DEF ReadGroup, Boot
  <1>3. TypeOK'
    <2>1. \A j \in 1 .. 4 : Group(c, j) \subseteq Item
      BY SeedRows
    <2>2. found \subseteq Item
      BY <1>1, <2>1 DEF Boot
    <2> HIDE DEF found
    <2>3. \A b1 \in SUBSET Packages, b2 \in BOOLEAN :
            [boot[c] EXCEPT !.state = "flush", !.missing = found, !.restore = b1, !.reset = b2] \in Boot
      BY <1>1, <2>2 DEF Boot
    <2>4. \E b1 \in SUBSET Packages, b2 \in BOOLEAN :
            boot' = [boot EXCEPT ![c] = [boot[c] EXCEPT !.state = "flush", !.missing = found,
                                                        !.restore = b1, !.reset = b2]]
      <3> DEFINE b1 == IF g = 2 THEN edited ELSE boot[c].restore
                 b2 == g = 4 /\ rows[Wallet(Of[c])] > 0 /\ balance[Of[c]] # SeedBalance
      <3>1. b1 \in SUBSET Packages /\ b2 \in BOOLEAN
        BY <1>1 DEF Boot, SeedInv, TypeOK
      <3>2. boot' = [boot EXCEPT ![c] = [boot[c] EXCEPT !.state = "flush", !.missing = found,
                                                        !.restore = b1, !.reset = b2]]
        BY <1>1 DEF ReadGroup, found, Boot
      <3> QED BY <3>1, <3>2
    <2>5. boot' \in [Containers -> Boot]
      BY <1>1, <2>3, <2>4
    <2> QED BY <1>1, <2>5 DEF SeedInv, TypeOK, Database
  <1>4. BootOK(c)'
    <2>1. \A j \in 1 .. 4 : HasRead(c, j)' => HasRead(c, j) \/ j = g
      BY <1>1, <1>2 DEF HasRead
    <2>2. Group(c, g) \subseteq Seed(c) /\ (User(Of[c]) \in Group(c, g) => g = 3)
      BY <1>1, SeedRows
    <2>3. \A i \in Group(c, g) : i \in found \/ rows[i] > 0
      BY <1>1, SeedRows
    <2>4. UNCHANGED <<rows, renamed, schema>>
      BY <1>1 DEF Database
    <2>5. /\ ~Idle(c)'
          /\ found \subseteq Seed(c)
          /\ User(Of[c]) \in found => g = 3
      BY <1>1, <1>2, <2>2 DEF Idle, BootOK
    <2>6. \A j \in 1 .. 4 : HasRead(c, j)' =>
            \A i \in Group(c, j) : i \in found \cup boot[c].added \/ rows[i] > 0 \/ i \in renamed
      BY <1>1, <2>1, <2>3 DEF BootOK
    <2> HIDE DEF found
    <2> QED BY <1>1, <1>2, <2>4, <2>5, <2>6 DEF BootOK
  <1>5. GiftsOK(c)'
    <2>1. \A p \in Part : <<p, Of[c]>> \in Item /\ rows[<<p, Of[c]>>] = rows[User(Of[c])]
      BY Groups, BuyerRows DEF SeedInv, WholeBuyers
    <2>2. User(Of[c]) \in Item /\ Unique(User(Of[c]))
      BY Groups, BuyerRows
    <2>3. ASSUME NEW p \in Part, <<p, Of[c]>> \in Group(c, g), rows[<<p, Of[c]>>] = 0
          PROVE  User(Of[c]) \in boot[c].added
      <3>1. g = 4
        BY <1>1, <2>3, SeedRows
      <3>2. rows[User(Of[c])] = 0 /\ User(Of[c]) \notin renamed
        BY <2>1, <2>3, Groups, PackageRows DEF SeedInv, TypeOK
      <3>3. User(Of[c]) \in boot[c].missing \cup boot[c].added
        BY <1>1, <3>1, <3>2, SeedRows DEF BootOK, HasRead
      <3> QED BY <1>1, <3>1, <3>3 DEF BootOK
    <2>4. ASSUME NEW p \in Part, User(Of[c]) \in boot[c].added, g = 4
          PROVE  <<p, Of[c]>> \in found
      BY <1>1, <2>1, <2>2, <2>4, SeedRows DEF BootOK
    <2>5. \A p \in Part : <<p, Of[c]>> \in found \cup boot[c].added => User(Of[c]) \in boot[c].added
      BY <1>1, <2>3 DEF GiftsOK
    <2> HIDE DEF found
    <2> QED BY <1>2, <2>4, <2>5 DEF GiftsOK
  <1>6. \A i \in boot'[c].added : Unique(i) => \A d \in Containers \ {c} : i \notin boot[d].added
    BY <1>2 DEF SeedInv, Apart
  <1> QED BY <1>1, <1>2, <1>3, <1>4, <1>5, <1>6, OneContainer

\* How GoOn changes its container.
LEMMA GoesOn ==
    ASSUME SeedInv, NEW c \in Containers, NEW added \in SUBSET Item, NEW missing \in SUBSET Item,
           GoOn(c, added, missing)
    PROVE  /\ boot' \in [Containers -> Boot]
           /\ \A d \in Containers \ {c} : boot'[d] = boot[d]
           /\ boot'[c].added = added /\ boot'[c].missing = missing
           /\ boot[c].group = 4 => boot'[c].group = 4 /\ boot'[c].state = "commit"
           /\ boot[c].group # 4 => boot'[c].group = boot[c].group + 1 /\ boot'[c].state = "read"
  <1>1. boot \in [Containers -> Boot] /\ boot[c] \in Boot
    BY DEF SeedInv, TypeOK
  <1> DEFINE st == IF boot[c].group = 4 THEN "commit" ELSE "read"
             nx == IF boot[c].group = 4 THEN 4 ELSE boot[c].group + 1
             b == [boot[c] EXCEPT !.state = st, !.group = nx, !.added = added, !.missing = missing]
  <1>2. b \in Boot
    <2>1. st \in {"commit", "read"} /\ nx \in 1 .. 4
      BY <1>1 DEF Boot
    <2> HIDE DEF st, nx
    <2> QED BY <1>1, <2>1 DEF Boot
  <1>3. boot' = [boot EXCEPT ![c] = b]
    BY <1>1 DEF GoOn, Boot
  <1>4. b.added = added /\ b.missing = missing /\ b.state = st /\ b.group = nx
    BY <1>1 DEF Boot
  <1> HIDE DEF b
  <1> QED BY <1>1, <1>2, <1>3, <1>4

\* What a flush inserts is there for nobody else.
LEMMA FlushStep ==
    ASSUME SeedInv, NEW c \in Containers, Flush(c)
    PROVE  SeedInv'
  <1>1. /\ boot[c].state = "flush" /\ schema = Head /\ boot[c] \in Boot
        /\ boot[c].group \in 1 .. 4
        /\ boot[c].missing \subseteq Item /\ boot[c].added \subseteq Item
        /\ rows \in [Item -> Nat] /\ crashes \in 0 .. MaxCrashes
        /\ BootOK(c) /\ GiftsOK(c)
    BY DEF Flush, InState, SeedInv, TypeOK, BootOK, Boot
  <1>r. \A g \in 1 .. 4 : g <= boot[c].group =>
          \A i \in Group(c, g) :
            i \in boot[c].missing \cup boot[c].added \/ rows[i] > 0 \/ i \in renamed
    BY <1>1 DEF BootOK, HasRead
  <1>2. CASE ~Flushes(c)
    <2>1. GoOn(c, boot[c].added, boot[c].missing) /\ UNCHANGED <<schema, Database, stale, crashes>>
      BY <1>2 DEF Flush
    <2>2. boot[c].group # 4 /\ User(Of[c]) \notin boot[c].missing
      BY <1>1, <1>2 DEF Flushes, User, BootOK
    <2>3. TypeOK'
      BY <1>1, <2>1, GoesOn DEF SeedInv, TypeOK, Database
    <2>4. /\ boot'[c].added = boot[c].added /\ boot'[c].missing = boot[c].missing
          /\ boot'[c].group = boot[c].group + 1 /\ boot'[c].state = "read"
          /\ \A d \in Containers \ {c} : boot'[d] = boot[d]
          /\ UNCHANGED <<rows, renamed, schema>>
      BY <1>1, <2>1, <2>2, GoesOn DEF Database
    <2>5. BootOK(c)'
      BY <1>1, <1>r, <2>2, <2>4 DEF BootOK, Idle, HasRead
    <2>6. GiftsOK(c)'
      BY <1>1, <2>4 DEF GiftsOK
    <2>7. \A i \in boot'[c].added : Unique(i) => \A d \in Containers \ {c} : i \notin boot[d].added
      BY <2>4 DEF SeedInv, Apart
    <2> QED BY <2>1, <2>3, <2>4, <2>5, <2>6, <2>7, OneContainer
  <1>3. CASE Fail(c)
    <2>1. stale' \subseteq Containers
      BY <1>3 DEF Fail, SeedInv, TypeOK
    <2> QED BY <1>1, <1>3, <2>1, ResetStep DEF Fail
  <1>4. CASE Flushes(c) /\ ~Fail(c)
    <2> DEFINE added == boot[c].added \cup boot[c].missing
    <2>1. /\ GoOn(c, added, {}) /\ UNCHANGED <<schema, Database, stale, crashes>>
          /\ \A i \in boot[c].missing : Unique(i) => ~(rows[i] > 0)
          /\ \A d \in Containers \ {c} : ~Awaits(c, d)
      BY <1>4 DEF Flush, Refused
    <2>2. added \in SUBSET Item /\ added \subseteq Seed(c)
      BY <1>1 DEF BootOK
    <2>3. /\ boot' \in [Containers -> Boot] /\ boot'[c].added = added /\ boot'[c].missing = {}
          /\ \A d \in Containers \ {c} : boot'[d] = boot[d]
          /\ boot[c].group = 4 => boot'[c].group = 4 /\ boot'[c].state = "commit"
          /\ boot[c].group # 4 => boot'[c].group = boot[c].group + 1 /\ boot'[c].state = "read"
      <3> HIDE DEF added
      <3>1. GoOn(c, added, {}) /\ added \in SUBSET Item /\ {} \in SUBSET Item
        BY <2>1, <2>2
      <3> QED BY <3>1, GoesOn
    <2>4. TypeOK' /\ UNCHANGED <<rows, renamed, schema>>
      BY <1>1, <2>1, <2>3 DEF SeedInv, TypeOK, Database
    <2>5. \A i \in added : Unique(i) => rows[i] = 0
      BY <1>1, <2>1 DEF BootOK
    <2>6. BootOK(c)'
      <3>1. \A g \in 1 .. 4 : HasRead(c, g)' => g <= boot[c].group
        BY <1>1, <2>3 DEF HasRead
      <3>2. \A g \in 1 .. 4 : HasRead(c, g)' =>
              \A i \in Group(c, g) : i \in added \/ rows[i] > 0 \/ i \in renamed
        BY <1>r, <3>1
      <3> HIDE DEF added
      <3> QED BY <1>1, <2>2, <2>3, <2>4, <2>5, <3>2 DEF BootOK, Idle
    <2>7. GiftsOK(c)'
      <3>1. \A p \in Part : <<p, Of[c]>> \in added => User(Of[c]) \in added
        BY <1>1 DEF GiftsOK
      <3>2. ASSUME NEW p \in Part, User(Of[c]) \in added, boot[c].group = 4
            PROVE  <<p, Of[c]>> \in added
        BY <1>1, <3>2 DEF GiftsOK, BootOK
      <3> HIDE DEF added
      <3> QED BY <2>3, <3>1, <3>2 DEF GiftsOK
    <2>8. \A i \in boot'[c].added : Unique(i) => \A d \in Containers \ {c} : i \notin boot[d].added
      <3>1. \A i \in added : Unique(i) => \A d \in Containers \ {c} : i \notin boot[d].added
        BY <2>1 DEF Awaits, SeedInv, Apart
      <3> QED BY <2>3, <3>1
    <2> QED BY <2>1, <2>3, <2>4, <2>6, <2>7, <2>8, OneContainer
  <1> QED BY <1>2, <1>3, <1>4

-----------------------------------------------------------------------------
(* The steps that change the tables.                                       *)

\* The commit adds rows nobody else has inserted, and the gifts with the buyer.
LEMMA CommitStep ==
    ASSUME SeedInv, NEW c \in Containers, Commit(c)
    PROVE  SeedInv'
  <1> DEFINE added == boot[c].added
  <1>1. /\ boot[c].state = "commit" /\ schema = Head /\ boot[c] \in Boot
        /\ boot[c].missing = {} /\ boot[c].group = 4
        /\ added \subseteq Item /\ added \subseteq Seed(c)
        /\ rows \in [Item -> Nat] /\ boot \in [Containers -> Boot]
        /\ balance \in [Accounts -> Int] /\ posted \in [Accounts -> Int]
        /\ BootOK(c) /\ GiftsOK(c)
        /\ renamed' = renamed \ added
        /\ UNCHANGED <<schema, posted, posts, writes, crashes>>
    BY DEF Commit, InState, SeedInv, TypeOK, BootOK, Boot
  <1>2. /\ rows' \in [Item -> Nat]
        /\ \A i \in Item : rows'[i] = IF i \in added THEN rows[i] + 1 ELSE rows[i]
    BY <1>1 DEF Commit
  <1>3. /\ boot' = [boot EXCEPT ![c] = [Down EXCEPT !.state = "serving"]]
        /\ boot'[c] = [Down EXCEPT !.state = "serving"]
        /\ \A d \in Containers \ {c} : boot'[d] = boot[d]
    BY <1>1 DEF Commit
  <1>4. /\ Of[c] \in Accounts
        /\ \A p \in Part : /\ <<p, Of[c]>> \in Item
                           /\ rows[<<p, Of[c]>>] = rows[User(Of[c])]
                           /\ <<p, Of[c]>> \in added <=> User(Of[c]) \in added
        /\ User(Of[c]) \in Item /\ Unique(User(Of[c]))
    BY <1>1, Groups, BuyerRows DEF SeedInv, WholeBuyers, GiftsOK
  <1>5. TypeOK'
    <2>1. [Down EXCEPT !.state = "serving"] \in Boot
      BY DownBoot DEF Boot
    <2>2. boot' \in [Containers -> Boot]
      BY <1>1, <1>3, <2>1
    <2>3. /\ balance' \in [Accounts -> Int] /\ reseeded' \subseteq Accounts
          /\ edited' \subseteq Packages /\ renamed' \subseteq Packages
          /\ stale' \subseteq Containers
      BY <1>1, <1>4, BalanceAssumption DEF Commit, SeedInv, TypeOK, Loaded
    <2> QED BY <1>1, <1>2, <2>2, <2>3 DEF SeedInv, TypeOK
  <1>6. ASSUME NEW i \in added, ~Unique(i)
        PROVE  rows[i] = 0
    <2>1. i \in Item /\ i[1] = "ledger"
      BY <1>1, <1>6 DEF Unique
    <2>2. PICK a \in Accounts : i = <<"ledger", a>>
      BY <2>1 DEF Item, Packages, Purchased
    <2>3. "ledger" \in Part
      BY DEF Part
    <2>4. a = Of[c]
      BY <1>1, <1>6, <2>2, <2>3, OwnRows
    <2>5. User(Of[c]) \in added
      BY <1>4, <1>6, <2>2, <2>3, <2>4
    <2> QED BY <1>1, <1>4, <2>2, <2>3, <2>4, <2>5 DEF BootOK
  <1>7. \A i \in added : rows[i] = 0
    BY <1>1, <1>6 DEF BootOK
  <1>8. \A d \in Containers : BootOK(d)'
    <2>1. SUFFICES ASSUME NEW d \in Containers PROVE BootOK(d)'
      OBVIOUS
    <2>2. CASE d = c
      <3>1. \A i \in Seed(c) : rows'[i] > 0 \/ i \in renamed'
        <4> SUFFICES ASSUME NEW i \in Seed(c) PROVE rows'[i] > 0 \/ i \in renamed'
          OBVIOUS
        <4>1. PICK g \in 1 .. 4 : i \in Group(c, g)
          BY SeedRows
        <4>2. HasRead(c, g)
          BY <1>1 DEF HasRead
        <4>3. i \in added \/ rows[i] > 0 \/ i \in renamed
          BY <1>1, <4>1, <4>2 DEF BootOK
        <4> QED BY <1>1, <1>2, <4>3, SeedRows
      <3> QED BY <1>1, <1>3, <2>2, <3>1 DEF BootOK, Idle, HasRead, Down
    <2>3. CASE d # c
      <3>1. boot'[d] = boot[d] /\ schema' = schema /\ BootOK(d)
        BY <1>1, <1>3, <2>3 DEF SeedInv
      <3>2. \A i \in Seed(d) :
              rows[i] > 0 \/ i \in renamed => rows'[i] > 0 \/ i \in renamed'
        BY <1>1, <1>2, SeedRows
      <3>3. \A g \in 1 .. 4 : \A i \in Group(d, g) :
              rows[i] > 0 \/ i \in renamed => rows'[i] > 0 \/ i \in renamed'
        BY <3>2, SeedRows
      <3>4. \A i \in boot[d].added : Unique(i) => rows'[i] = 0
        BY <1>2, <2>3, <3>1, SeedRows DEF SeedInv, Apart, BootOK
      <3> QED BY <3>1, <3>2, <3>3, <3>4 DEF BootOK, Idle, HasRead
    <2> QED BY <2>2, <2>3
  <1>9. \A d \in Containers : GiftsOK(d)'
    BY <1>3 DEF SeedInv, GiftsOK, Down
  <1>10. Apart'
    BY <1>3 DEF SeedInv, Apart, Down
  <1>11. SeededOnce'
    BY <1>1, <1>2, <1>7 DEF SeedInv, SeededOnce
  <1>12. WholeBuyers'
    <2> SUFFICES ASSUME NEW a \in Accounts, NEW p \in Part
                 PROVE  rows'[<<p, a>>] = rows'[User(a)]
      BY DEF WholeBuyers
    <2>1. <<p, a>> \in Item /\ User(a) \in Item /\ rows[<<p, a>>] = rows[User(a)]
      BY BuyerRows DEF SeedInv, WholeBuyers
    <2>2. <<p, a>> \in added <=> User(a) \in added
      BY <1>1, <1>4, OwnRows DEF User
    <2> QED BY <1>2, <2>1, <2>2
  <1>13. PostedNeedsWallet'
    BY <1>1, <1>2, BuyerRows DEF SeedInv, PostedNeedsWallet
  <1>14. DriftOnlyByReseed'
    <2> SUFFICES ASSUME NEW a \in Accounts, a \notin reseeded', rows'[Wallet(a)] > 0
                 PROVE  balance'[a] = SeedBalance + posted'[a]
      BY DEF DriftOnlyByReseed
    <2>1. a \notin reseeded /\ (a = Of[c] => ~boot[c].reset) /\ posted' = posted
      BY <1>1 DEF Commit
    <2>2. Wallet(a) \in Item
      BY BuyerRows
    <2>3. CASE a = Of[c] /\ Wallet(a) \in added
      <3>1. rows[Wallet(a)] = 0 /\ posted[a] = 0
        BY <1>7, <2>3 DEF SeedInv, PostedNeedsWallet
      <3>2. balance'[a] = SeedBalance
        BY <1>1, <2>3 DEF Commit, Sets
      <3> QED BY <2>1, <3>1, <3>2, BalanceAssumption
    <2>4. CASE ~(a = Of[c] /\ Wallet(a) \in added)
      <3>1. Wallet(a) \notin added
        BY <1>1, <2>4, OwnRows, BuyerRows DEF Wallet
      <3>2. balance'[a] = balance[a]
        BY <1>1, <1>4, <2>1, <2>4 DEF Commit, Sets
      <3>3. rows[Wallet(a)] > 0
        BY <1>2, <2>2, <3>1
      <3> QED BY <2>1, <3>2, <3>3 DEF SeedInv, DriftOnlyByReseed
    <2> QED BY <2>3, <2>4
  <1> QED BY <1>5, <1>8, <1>9, <1>10, <1>11, <1>12, <1>13, <1>14 DEF SeedInv

\* A posting changes a balance and its ledger alike.
LEMMA PostStep ==
    ASSUME SeedInv, NEW a \in Accounts, NEW delta \in Deltas, Post(a, delta)
    PROVE  SeedInv'
  <1>1. delta \in Int
    BY BalanceAssumption
  <1>2. /\ UNCHANGED <<schema, rows, edited, writes, boot, stale, crashes, renamed, reseeded>>
        /\ rows[Wallet(a)] > 0 /\ posts[a] < MaxPosts
        /\ balance' = [balance EXCEPT ![a] = @ + delta]
        /\ posted' = [posted EXCEPT ![a] = @ + delta]
        /\ posts' = [posts EXCEPT ![a] = @ + 1]
    BY DEF Post
  <1>3. TypeOK'
    BY <1>1, <1>2, BoundsAssumption DEF SeedInv, TypeOK
  <1>4. PostedNeedsWallet' /\ DriftOnlyByReseed'
    BY <1>1, <1>2, BalanceAssumption DEF SeedInv, TypeOK, PostedNeedsWallet, DriftOnlyByReseed
  <1>5. (Apart /\ SeededOnce /\ WholeBuyers)' /\ \A c \in Containers : BootOK(c)' /\ GiftsOK(c)'
    BY <1>2 DEF SeedInv, Apart, SeededOnce, WholeBuyers, BootOK, GiftsOK, Idle, HasRead
  <1> QED BY <1>3, <1>4, <1>5 DEF SeedInv

\* An edit changes no row's presence.
LEMMA EditStep ==
    ASSUME SeedInv, UNCHANGED vars \/ \E i \in Packages : Edit(i)
    PROVE  SeedInv'
  <1>1. /\ UNCHANGED <<schema, rows, balance, posted, posts, boot, crashes, renamed, reseeded>>
        /\ edited' \subseteq Packages /\ stale' \subseteq Containers
        /\ writes' \in 0 .. MaxWrites
    BY BoundsAssumption DEF vars, Edit, Loaded, SeedInv, TypeOK
  <1> QED
    BY <1>1 DEF SeedInv, TypeOK, BootOK, GiftsOK, Idle, HasRead, Apart, SeededOnce, WholeBuyers,
                PostedNeedsWallet, DriftOnlyByReseed

\* A slug that is given up is accounted for, and one that is taken was free.
LEMMA ChangeSlugStep ==
    ASSUME SeedInv, NEW from \in Packages \cup {Elsewhere}, NEW to \in Packages \cup {Elsewhere},
           ChangeSlug(from, to)
    PROVE  SeedInv'
  <1>1. /\ UNCHANGED <<schema, balance, posted, posts, crashes, reseeded>>
        /\ rows \in [Item -> Nat] /\ boot \in [Containers -> Boot]
        /\ from # to
        /\ to \in Packages => rows[to] = 0 /\ \A c \in Containers : to \notin boot[c].added
        /\ rows' = [i \in Item |-> CASE i = from -> 0 [] i = to -> 1 [] OTHER -> rows[i]]
        /\ renamed' = (renamed \cup ({from} \cap Packages)) \ {to}
        /\ boot' = [c \in Containers |-> [boot[c] EXCEPT !.restore = @ \ {from}]]
    BY DEF ChangeSlug, SeedInv, TypeOK
  <1>2. /\ rows' \in [Item -> Nat]
        /\ from \in Packages => rows'[from] = 0 /\ from \in renamed'
        /\ to \in Packages => rows'[to] = 1
        /\ \A i \in Item \ {from, to} : rows'[i] = rows[i] /\ (i \in renamed' <=> i \in renamed)
    BY <1>1, PackageRows
  <1>3. ASSUME NEW c \in Containers
        PROVE  /\ boot'[c] \in Boot
               /\ boot'[c].state = boot[c].state /\ boot'[c].group = boot[c].group
               /\ boot'[c].missing = boot[c].missing /\ boot'[c].added = boot[c].added
               /\ boot'[c].reset = boot[c].reset
    BY <1>1 DEF Boot
  <1>4. TypeOK'
    <2>1. boot' \in [Containers -> Boot]
      BY <1>1, <1>3
    <2>2. writes' \in 0 .. MaxWrites /\ edited' \subseteq Packages /\ stale' \subseteq Containers
      BY BoundsAssumption DEF ChangeSlug, Loaded, SeedInv, TypeOK
    <2> QED BY <1>1, <1>2, <2>1, <2>2 DEF SeedInv, TypeOK
  <1>5. \A i \in Item : rows[i] > 0 \/ i \in renamed => rows'[i] > 0 \/ i \in renamed'
    BY <1>1, <1>2, PackageRows
  <1>6. ASSUME NEW c \in Containers
        PROVE  BootOK(c)'
    <2>1. BootOK(c)
      BY DEF SeedInv
    <2>2. \A i \in Seed(c) : rows[i] > 0 \/ i \in renamed => rows'[i] > 0 \/ i \in renamed'
      BY <1>5, SeedRows
    <2>3. \A g \in 1 .. 4 : \A i \in Group(c, g) :
            rows[i] > 0 \/ i \in renamed => rows'[i] > 0 \/ i \in renamed'
      BY <2>2, SeedRows
    <2>4. \A i \in boot[c].added : Unique(i) => rows'[i] = 0
      BY <1>1, <1>2, <2>1, SeedRows, PackageRows DEF BootOK
    <2> QED BY <1>1, <1>3, <2>1, <2>2, <2>3, <2>4 DEF BootOK, Idle, HasRead
  <1>7. \A c \in Containers : GiftsOK(c)'
    BY <1>3 DEF SeedInv, GiftsOK
  <1>8. Apart'
    BY <1>3 DEF SeedInv, Apart
  <1>9. SeededOnce'
    BY <1>2, PackageRows DEF SeedInv, SeededOnce
  <1>10. /\ \A a \in Accounts : rows'[User(a)] = rows[User(a)]
         /\ \A a \in Accounts, p \in Part : rows'[<<p, a>>] = rows[<<p, a>>]
    BY <1>2, PackageRows, BuyerRows
  <1>11. WholeBuyers'
    BY <1>10 DEF SeedInv, WholeBuyers
  <1>12. (PostedNeedsWallet /\ DriftOnlyByReseed)'
    BY <1>1, <1>10, BuyerRows DEF SeedInv, PostedNeedsWallet, DriftOnlyByReseed
  <1> QED BY <1>4, <1>6, <1>7, <1>8, <1>9, <1>11, <1>12 DEF SeedInv

LEMMA SeedInit == Init => SeedInv
  <1> SUFFICES ASSUME Init PROVE SeedInv
    OBVIOUS
  <1>1. TypeOK
    <2>1. /\ 0 \in 0 .. Head /\ 0 \in 0 .. MaxPosts /\ 0 \in 0 .. MaxCrashes
          /\ 0 \in 0 .. MaxWrites
      BY HeadAssumption, BoundsAssumption
    <2>2. boot \in [Containers -> Boot]
      BY DownBoot DEF Init
    <2>3. posts \in [Accounts -> 0 .. MaxPosts] /\ crashes \in 0 .. MaxCrashes
      BY <2>1 DEF Init
    <2>4. rows \in [Item -> Nat] /\ balance \in [Accounts -> Int] /\ posted \in [Accounts -> Int]
      BY DEF Init
    <2>5. schema \in 0 .. Head /\ writes \in 0 .. MaxWrites
      BY <2>1 DEF Init
    <2>6. /\ edited \subseteq Packages /\ renamed \subseteq Packages
          /\ stale \subseteq Containers /\ reseeded \subseteq Accounts
      BY DEF Init
    <2> QED BY <2>2, <2>3, <2>4, <2>5, <2>6 DEF TypeOK
  <1>2. ASSUME NEW c \in Containers PROVE BootOK(c) /\ GiftsOK(c)
    <2>1. boot[c] = Down
      BY DEF Init
    <2>2. ~HasRead(c, 1) /\ ~HasRead(c, 2) /\ ~HasRead(c, 3) /\ ~HasRead(c, 4)
      BY <2>1 DEF HasRead, Down
    <2> QED BY <2>1, <2>2 DEF Down, BootOK, GiftsOK, Idle
  <1>3. Apart /\ SeededOnce
    BY DEF Init, Down, Apart, SeededOnce
  <1>4. WholeBuyers /\ PostedNeedsWallet /\ DriftOnlyByReseed
    BY BuyerRows DEF Init, WholeBuyers, PostedNeedsWallet, DriftOnlyByReseed
  <1> QED BY <1>1, <1>2, <1>3, <1>4 DEF SeedInv

LEMMA SeedNext == SeedInv /\ [Next]_vars => SeedInv'
  <1> SUFFICES ASSUME SeedInv, [Next]_vars PROVE SeedInv'
    OBVIOUS
  <1>1. ASSUME NEW c \in Containers, BootStep(c) PROVE SeedInv'
    BY <1>1, MigrationStep, ReadGroupStep, FlushStep, CommitStep DEF BootStep
  <1>2. ASSUME NEW c \in Containers, Crash(c) PROVE SeedInv'
    <2>1. crashes' \in 0 .. MaxCrashes /\ stale' \subseteq Containers
      BY <1>2, BoundsAssumption DEF Crash, SeedInv, TypeOK
    <2> QED BY <1>2, <2>1, ResetStep DEF Crash
  <1>3. ASSUME NEW a \in Accounts, NEW delta \in Deltas, Post(a, delta) PROVE SeedInv'
    BY <1>3, PostStep
  <1>4. CASE UNCHANGED vars \/ \E i \in Packages : Edit(i)
    BY <1>4, EditStep
  <1>5. ASSUME NEW from \in Packages \cup {Elsewhere}, NEW to \in Packages \cup {Elsewhere},
               ChangeSlug(from, to)
        PROVE  SeedInv'
    BY <1>5, ChangeSlugStep
  <1> QED BY <1>1, <1>2, <1>3, <1>4, <1>5 DEF Next, Rest

\* SeedInv is an invariant of any number of starts, crashes, writes and postings.
THEOREM SeedInvariant == Spec => []SeedInv
  BY SeedInit, SeedNext, PTL DEF Spec

\* Every variable of the start of containers keeps its type.
THEOREM SeedTypes == Spec => []TypeOK
  <1>1. SeedInv => TypeOK
    BY DEF SeedInv
  <1> QED BY <1>1, SeedInvariant, PTL

\* However many containers seed at once, and wherever they are killed, no row
\* of the seed comes twice, also no ledger row, which only the other rows of
\* its transaction protect.
THEOREM NoRowTwice == Spec => []SeededOnce
  <1>1. SeedInv => SeededOnce
    BY DEF SeedInv
  <1> QED BY <1>1, SeedInvariant, PTL

\* No container serves before the schema is there and its seed is whole, except
\* for packages whose slug an administrator has changed, and no buyer has a part
\* of what the seed gives.
THEOREM NoPartOfASeed == Spec => []WholeSeeds
  <1>1. SeedInv => WholeSeeds
    <2> SUFFICES ASSUME SeedInv PROVE WholeSeeds
      OBVIOUS
    <2>1. ASSUME NEW c \in Containers, InState(c, "serving")
          PROVE  schema = Head /\ \A i \in Seed(c) : rows[i] > 0 \/ i \in renamed
      BY <2>1 DEF SeedInv, BootOK, InState
    <2>2. ASSUME NEW a \in Accounts, NEW p \in Part
          PROVE  rows[<<p, a>>] = rows[<<"user", a>>]
      BY DEF SeedInv, WholeBuyers, User
    <2> QED BY <2>1, <2>2 DEF WholeSeeds, Part
  <1> QED BY <1>1, SeedInvariant, PTL

\* A demo balance departs from the seeded one and the ledger only where a seed
\* has set a changed balance back.
THEOREM NoOtherDrift == Spec => []DriftOnlyByReseed
  <1>1. SeedInv => DriftOnlyByReseed
    BY DEF SeedInv
  <1> QED BY <1>1, SeedInvariant, PTL

=============================================================================
