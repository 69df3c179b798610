SPECIFICATION Spec
CONSTANTS
  Profiles <- RunProfiles
  Operations <- RunOperations
  Workers = {1, 2}
  MaxLocalRecoveries = 2
INVARIANTS
  TypeOK
  ProblemIsRouted
  AcceptedCoversGoal
  UserIsAskedForCause
  AttemptsDiffer
  UnsafeIsHeld
CHECK_DEADLOCK FALSE
