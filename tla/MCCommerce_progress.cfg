SPECIFICATION FairSpec
CONSTANTS
    o1 = o1  o2 = o2  o3 = o3  r1 = r1  r2 = r2  h1 = h1  h2 = h2
    Users = {u1}
    Courses = {c1}
    OrderIds = {o1}
    Foreign = {}
    Attempts = {1, 2}
    Copies = {1}
    Hooks = {h1}
    Requests = {r1}
    MaxRedemptions = 0
    PerUserLimit = 1
    ZeroTotals = {FALSE}
    MaxErrors = 1
    MaxCrashes = 0
    None = None


PROPERTIES CapturedSettles
CHECK_DEADLOCK FALSE
