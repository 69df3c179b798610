SPECIFICATION Spec
CONSTANTS
  Ids <- MCIds
  NoTask = NoTask
  Plans <- MCPlans
  Patches <- MCPatches
  Codes = {"MISSING_CRS", "repairable"}
  Profiles = {"C1", "C3", "C4", "C5"}
  MaxWorkerCalls = 2
  MaxLocalRecoveries = 1
  MaxReplans = 1
  MaxIterations = 6
INVARIANTS
  TypeOK
  WorksOnAcceptedInputs
  AcceptedIsUnblocked
  WaitingIsAnswerable
  AssertedCrsIsNotAskedAgain
  CompletedIsSound
  LoopLimitUnreached
PROPERTIES
  StaysLegal
  SerialStages
CHECK_DEADLOCK FALSE
