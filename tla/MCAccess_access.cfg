SPECIFICATION Spec
CONSTANTS
    o1 = o1  o2 = o2  p1 = p1  p2 = p2
    Orders = {o1, o2}
    Readers = {p1}
    Admins = {"admin"}
    CacheTTL = 1
    TokenTTL = 2
    Delay = 1
    MaxLosses = 1
    MaxEdits = 1
    None = None
SYMMETRY Symmetry
INVARIANTS RevocationWindow UnpublishedStops StaleOnlyWhenOvertaken
CHECK_DEADLOCK FALSE
