\* The public calls without failures: execute once, then resumes, and a sweep.
CONSTANTS
  c1 = c1
  c2 = c2
  c3 = c3
  s1 = s1
  NoCall = NoCall
  Calls = {c1, c2, c3}
  Sweepers = {s1}
  LeaseTTL = 3
  MaxClock = 2
  MaxVersion = 12
SYMMETRY CallSymmetry
SPECIFICATION PublicSpec
INVARIANT
  RestsOnlyWhenTerminal
CHECK_DEADLOCK FALSE
