\* A loop bound below the budgets, so that runs end at it, pauses included; one
\* task and what is put in front of it, with two patches after each other.
SPECIFICATION FairSpec
CONSTANTS
  Ids = {1, 2}
  NoTask = NoTask
  Plans <- MCOnePlan
  Patches <- MCOnePatches
  Codes = {"MISSING_CRS", "repairable"}
  Profiles = {"C1", "C3", "C4", "C5"}
  MaxWorkerCalls = 2
  MaxLocalRecoveries = 1
  MaxReplans = 2
  MaxIterations = 2
INVARIANTS
  WaitingIsAnswerable
PROPERTIES
  RunEnds
CHECK_DEADLOCK FALSE
