\* Values of the model of CatalogCache; see README.md for the bounds.
CONSTANTS
    b1 = b1  b2 = b2  a1 = a1  a2 = a2
    Empty = Empty
    Buyers = {b1, b2}
    Admins = {a1, a2}
    MaxWrites = 2
SPECIFICATION FairSpec
INVARIANTS
    StaleOnlyAfterRaceOrLoss
    ServedStaleOnlyByRace
PROPERTIES
    FreshInTheEnd
