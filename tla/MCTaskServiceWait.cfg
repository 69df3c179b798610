\* One task is enough to be told that a result is incomplete.
CONSTANTS
  t1 = t1
  Tasks = {t1}
  MaxProgress = 1
SPECIFICATION Spec
INVARIANT
  WaitEndsWithResult
CHECK_DEADLOCK FALSE
