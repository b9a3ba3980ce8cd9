SPECIFICATION FairSpec
CONSTANTS
  Jobs <- TwoJobs
  Slots = 1
  MaxAttempts = 2
  WaitLimit = 1
  MaxRestarts = 1
  MaxRetries = 0
  MaxLoopDeaths = 1
  MaxWriteFaults = 0
INVARIANT NoRunningRowForgotten
PROPERTY UploadsSettle
