SPECIFICATION Spec
CONSTANTS
    s1 = s1  s2 = s2  s3 = s3  l1 = l1  l2 = l2  l3 = l3  q1 = q1  q2 = q2
    SectionIds = {s1, s2, s3}
    LectureIds = {l1, l2, l3}
    FirstSections = {s1, s2}
    FirstLectures = {l1, l2}
    Titles = {"a", "b"}
    Requests = {q1, q2}
    MaxVersion = 3
    Content = {"bare", "preview"}
SYMMETRY Symmetry
INVARIANTS StackUnwinds PositionsDistinct CountsMatch
PROPERTIES ArchivedIsReadOnly
CHECK_DEADLOCK FALSE
