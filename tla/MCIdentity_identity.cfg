SPECIFICATION Spec
CONSTANTS
    s1 = s1  s2 = s2  s3 = s3  t1 = t1  t2 = t2  t3 = t3  t4 = t4
    l1 = l1  l2 = l2  l3 = l3  q1 = q1  q2 = q2
    Sessions = {s1, s2}
    Tokens = {t1, t2, t3}
    Links = {l1, l2, l3}
    Requests = {q1, q2}
    MaxCrashes = 1
    None = None
SYMMETRY RequestSymmetry
INVARIANTS ReuseToldOnce NoSessionStranded RevocationCutsChain LinkWorksOnce ResetSignsOut
CHECK_DEADLOCK FALSE
