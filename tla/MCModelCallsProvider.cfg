SPECIFICATION Spec
CONSTANTS
  t1 = t1
  t2 = t2
  Threads = {t1, t2}
  Runner = t1
  Window = 3
  MinInterval = 1
  MaxRpm = 2
  MaxTpm = 3
  Estimate = 1
  Usages = {2}
  MaxAttempts = 2
  RetryLimit = 1
  Schedule <- MCSchedule
  MaxInfra = 2
  MaxCalls = 2
  MaxCrashes = 1
INVARIANTS
  FailedIsGenuine
CHECK_DEADLOCK FALSE
