\* Values of the model of AdminPage; see README.md for the bounds.
CONSTANTS
    p1 = p1  p2 = p2  s1 = s1  s2 = s2  b1 = b1  b2 = b2  f1 = f1  f2 = f2
    g1 = g1  a1 = a1  a2 = a2
    Null = Null  Invalid = Invalid  Unknown = Unknown  None = None
    Ids = {p1, p2}
    Slugs = {s1, s2}
    Bodies = {b1}
    Features = {f1, f2}
    Seeded <- OneEach
    Patches <- ApiPatches
    Pages = {g1}
    Clients = {a1, a2}
    Callers <- AllCallers
    MaxCalls = 2
SPECIFICATION FairSpec
INVARIANTS
    TypeOK
    SlugsUnique
    FeaturelessOnlyBySkew
PROPERTIES
    OthersFieldsKept
    
    SeenInactiveStays
    PageSettles
