\* Values of the model of BrowserSession; see README.md for the bounds.
CONSTANTS
    t1 = t1  t2 = t2  u1 = u1  u2 = u2
    None = None
    Idle = Idle
    Tabs = {t1, t2}
    Users = {u1, u2}
    MaxLogins = 2
SPECIFICATION FairSpec
INVARIANTS
    ShownIsSession
PROPERTIES
    RedirectsEnd
