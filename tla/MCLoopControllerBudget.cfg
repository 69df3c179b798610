SPECIFICATION Spec
CONSTANTS
  Ids <- MCIds
  NoTask = NoTask
  Plans <- MCPlans
  Patches <- MCPatches
  Codes = {"MISSING_CRS", "repairable"}
  Profiles = {"C5"}
  MaxWorkerCalls = 1
  MaxLocalRecoveries = 1
  MaxReplans = 1
  MaxIterations = 5
PROPERTIES
  ExhaustionIsRecorded
CHECK_DEADLOCK FALSE
