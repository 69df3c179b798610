SPECIFICATION WatchedSpec
CONSTANTS
  Ids <- MCIds
  NoTask = NoTask
  Plans <- MCPlans
  Patches <- MCPatches
  Codes = {"MISSING_CRS", "repairable"}
  Profiles = {"C5"}
  MaxWorkerCalls = 3
  MaxLocalRecoveries = 1
  MaxReplans = 1
  MaxIterations = 7
INVARIANTS
  AnsweredCrsIsNotAskedAgain
CHECK_DEADLOCK FALSE
