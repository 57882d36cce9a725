\* Values of the model of SeedBoot; see README.md for the bounds.
CONSTANTS
    c1 = c1  c2 = c2  c3 = c3  a1 = a1  a2 = a2
    Shared = Shared
    Containers = {c1, c2, c3}
    Accounts = {a1, a2}
    Of <- OwnAccounts
    Head = 2
    SeedBalance = 2
    Deltas = {1}
    MaxPosts = 1
    MaxCrashes = 1
    MaxWrites = 1
SPECIFICATION FairSpec
INVARIANTS
    SeededOnce
    WholeSeeds
    DriftOnlyByReseed
PROPERTIES
    BootsServe
