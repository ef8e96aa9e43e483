SPECIFICATION FairSpec
CONSTANTS
  Files = {f1}
  Shapes <- MCShapes
  GroupSize = 2
  Faults = {"db_error", "db_lost", "parse", "timeout", "session", "crash"}
  NULL = NULL
  NoRow = NoRow
INVARIANTS
  DownloadIsWhole
  NoBlockIsDropped
  ExitConditionIsFinal
  RollbackIsClean
  ProgressIsAPercentage
PROPERTIES
  ImplementsFileStore
  EveryAcceptedUploadSettles
CHECK_DEADLOCK FALSE
