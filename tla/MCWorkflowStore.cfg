\* Safety of the shared row: up to MaxVersion commits by three calls, and a sweep.
CONSTANTS
  c1 = c1
  c2 = c2
  c3 = c3
  s1 = s1
  NoCall = NoCall
  Calls = {c1, c2, c3}
  Sweepers = {s1}
  LeaseTTL = 1
  MaxClock = 2
  MaxVersion = 4
SYMMETRY CallSymmetry
SPECIFICATION Spec
INVARIANTS
  TypeOK
  ExclusiveExecution
  LeasedWorkIsCurrent
  OneDispatchPerVersion
PROPERTY
  SerialHistory
CHECK_DEADLOCK FALSE
