SPECIFICATION Spec
CONSTANTS
  Names <- MCNames
  Ids <- MCIds
  Normal <- MCNormal
  Tasks <- MCTasks
  Analytic = {"study", "digest", "align"}
  OnProvided = {"study", "align"}
  Reprojecting = {"reproject", "align"}
  Reporting = {"audit"}
  ReadsReports = {"digest"}
  Agents <- MCAgents
  NoAgent = "none"
  Retrieval = {"domain"}
  Domain = {"domain"}
  Inspector = "inspector"
  Projection = "map_projection"
  Preferences <- MCPreferences
  Sources <- MCSources
  Described <- MCDescribed
  Local <- MCLocal
  BatchSize = 2
  Proposals <- MCProposals
  Corrections <- MCCorrections
INVARIANTS
  TypeOK
  NothingIsDroppedUnread
  ProcessingHasInput
  ReprojectionIsIsolated
CHECK_DEADLOCK FALSE
