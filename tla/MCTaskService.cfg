\* All interleavings of two tasks, their cancels and their exceptions.
CONSTANTS
  t1 = t1
  t2 = t2
  Tasks = {t1, t2}
  MaxProgress = 2
SPECIFICATION FairSpec
INVARIANTS
  TypeOK
  CancelDuringWorkPrevails
  ToldIsStored
PROPERTY
  EveryTaskCloses
CHECK_DEADLOCK FALSE
