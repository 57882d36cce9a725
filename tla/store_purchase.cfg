\* Values of the model of StorePurchase; see README.md for the bounds.
CONSTANTS
    t1 = t1  t2 = t2  p1 = p1  p2 = p2
    None = None
    Purchases = {t1, t2}
    Packages = {p1}
    MaxPolls = 2
SPECIFICATION FairSpec
INVARIANTS
    OnePostAtATime
    NoFalseSuccess
PROPERTIES
    PollingEnds
