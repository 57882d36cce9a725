\* Values of the model of CreditOS; see README.md for the bounds.
CONSTANTS
    u1 = u1  u2 = u2  p1 = p1  p2 = p2  f1 = f1  f2 = f2  k1 = k1  k2 = k2
    r1 = r1  r2 = r2  c1 = c1  c2 = c2  w1 = w1  w2 = w2  q1 = q1
    Free = Free
    Users = {u1}
    Packages = {p1}
    Features = {f1}
    Keys = {k1, k2}
    Requests = {r1, r2}
    Calls = {c1}
    Workers = {w1, w2}
    Polls = {}
    Credits = {2}
    SeedPackages <- OnePackage
    Cost <- OneCost
    IntMax = 100
    MaxRetries = 1
    MaxFaults = 1
    MaxEdits = 0
SPECIFICATION FairSpec
PROPERTIES
    AcceptedSettles
    CallsAnswered
