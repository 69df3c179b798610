SPECIFICATION Spec
CONSTANTS
  Ids <- MCIds
  NoTask = NoTask
  Plans <- MCPlans
  Patches <- MCStatusPatches
  Codes = {"MISSING_CRS", "repairable"}
  Profiles = {"C5"}
  MaxWorkerCalls = 2
  MaxLocalRecoveries = 1
  MaxReplans = 1
  MaxIterations = 6
PROPERTIES
  AcceptanceIsReviewed
CHECK_DEADLOCK FALSE
