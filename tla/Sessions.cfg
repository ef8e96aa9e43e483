SPECIFICATION FairSpec
CONSTANTS
  SessionIds = {s1}
  Requests = {r1, r2}
  Limit = 3
  MaxTx = 1
  CronJob = CronJob
  None = None
PROPERTIES
  RecentUseIsKept
  ClosedForGood
  UnusedSessionIsClosed
CHECK_DEADLOCK FALSE
