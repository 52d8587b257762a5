SPECIFICATION Spec
CONSTANTS
    o1 = o1  o2 = o2  o3 = o3  r1 = r1  r2 = r2  h1 = h1  h2 = h2
    Users = {u1}
    Courses = {c1}
    OrderIds = {o1, o2, o3}
    Foreign = {o3}
    Attempts = {1}
    Copies = {1}
    Hooks = {h1}
    Requests = {r1, r2}
    MaxRedemptions = 1
    PerUserLimit = 3
    ZeroTotals = {TRUE}
    MaxErrors = 0
    MaxCrashes = 1
    None = None
SYMMETRY Symmetry
INVARIANTS OverRedemptionBounded

CHECK_DEADLOCK FALSE
