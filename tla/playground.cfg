\* Values of the model of Playground; see README.md for the bounds.
CONSTANTS
    f1 = f1  f2 = f2  Mount = Mount
    Features = {f1, f2}
    Cost <- OneAndTwo
    Attempts = {1, 2}
    Credits = 2
    MaxPurchases = 1
    FirstBalance = 2
SPECIFICATION FairSpec
INVARIANTS
    TypeOK
    CreditsComeWithFeatures
    RestIsUpToDate
PROPERTIES
    PageRests
