SPECIFICATION Spec
CONSTANTS
  Jobs <- TwoJobs
  Slots = 1
  MaxAttempts = 2
  WaitLimit = 1
  MaxRestarts = 1
  MaxRetries = 1
  MaxLoopDeaths = 0
  MaxWriteFaults = 1
INVARIANT TasksOwnTheirRows
INVARIANT ConcurrencyBound
INVARIANT AttemptBudget
PROPERTY NoOvertaking
PROPERTY LifecycleSpec
