\* One task is enough to overwrite a terminal status.
CONSTANTS
  t1 = t1
  Tasks = {t1}
  MaxProgress = 2
SPECIFICATION Spec
PROPERTY
  FinalStatusIsFinal
CHECK_DEADLOCK FALSE
