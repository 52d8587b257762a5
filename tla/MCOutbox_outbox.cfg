SPECIFICATION FairSpec
CONSTANTS
    m1 = m1  m2 = m2  h1 = h1  h2 = h2  q1 = q1  q2 = q2
    Messages = {m1}
    Handlers = {h1}
    Relays = {q1, q2}
    Optional = {h1}
    BatchSize = 1
    MaxAttempts = 2
    MaxFailures = 2
    MaxOverruns = 1
    MaxCrashes = 1
    None = None
    Nobody = Nobody
    People = {"ann", "bob"}
INVARIANTS PublishedMeansHandled NoOverlap MailKeepsItsWord
PROPERTIES SettledStays EveryMessageSettles
CHECK_DEADLOCK FALSE
