SPECIFICATION FairSpec
CONSTANTS
  MaxThreads = 3
  MaxParts = 4
INVARIANTS
  SlidesShareTheParts
  SentInOrder
  OnlyFailedSlidesAreMissing
PROPERTY EveryDownloadEnds
CHECK_DEADLOCK FALSE
