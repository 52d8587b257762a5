SPECIFICATION FairSpec
CONSTANTS
    q1 = q1  q2 = q2  q3 = q3  p1 = p1
    Requests = {q1, q2}
    Reapers = {p1}
    MaxOverruns = 1
    MaxSilent = 1
    MaxCrashes = 1
INVARIANTS OutcomeToldOnce OneAssembler NoObjectLost
PROPERTIES UploadEnds
CHECK_DEADLOCK FALSE
