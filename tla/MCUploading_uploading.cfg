\* Parts of 2, at most 3 of them: a file of 5 has three, one of 7 two of 4,
\* and one of 8 is beyond the cap.
SPECIFICATION Spec
CONSTANTS
  None = None
  w1 = w1
  w2 = w2
  c1 = c1
  c2 = c2
  h1 = h1
  h2 = h2
  Calls = {c1, c2}
  Hashes = {h1, h2}
  Sizes = {5, 7, 8}
  MinPart = 1
  DefaultPart = 2
  MaxParts = 3
  MaxBytes = 7
  Batch = 2
  Workers = {w1, w2}
  MaxRetries = 2
  Runs = {1, 2, 3}
  MaxFaults = 2
  MaxCrashes = 1
SYMMETRY Symmetry
INVARIANTS AssembledIsWhole OneRunUntilAFailure
CHECK_DEADLOCK FALSE
