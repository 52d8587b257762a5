SPECIFICATION Spec
CONSTANTS
    w1 = w1  w2 = w2  r1 = r1  r2 = r2
    Rungs = {r1, r2}
    Stills = {"poster"}
    Workers = {w1, w2}
    Attempts = 2
    MaxEvents = 2
    None = None
    Heights = {144, 239, 240, 360, 719, 720, 1081, 2160}
    Shapes <- MCShapes
    Durations = {51, 60, 999, 1100, 2000, 7300, 20001, 599000, 1800000, 1800001, 3600123, 10800000}
SYMMETRY Symmetry
INVARIANTS RowMeansUploaded ReadyIsComplete NothingStranded ReadyIsWatchable
PROPERTIES SweepSpares
CHECK_DEADLOCK FALSE
