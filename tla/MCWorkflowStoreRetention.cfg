\* The retention race: one call that resumes, one that runs, one sweep.
CONSTANTS
  c1 = c1
  c2 = c2
  s1 = s1
  NoCall = NoCall
  Calls = {c1, c2}
  Sweepers = {s1}
  LeaseTTL = 2
  MaxClock = 2
  MaxVersion = 6
SPECIFICATION Spec
PROPERTY
  DeletesOnlyTerminal
CHECK_DEADLOCK FALSE
