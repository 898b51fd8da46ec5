SPECIFICATION JobsSpec
CONSTANTS
  DayLen = 3
  Finality = 1
  Slack = 1
  InitialDays = 1
  MaxWindow = 2
  MinWindow = 1
  Chunk = TRUE
  MaxBilled = 3
  Within = 3
  ManualClears = TRUE
  Manual = TRUE
  ResumeAny = TRUE
  MaxCrashes = 1
  MaxTime = 10
  Backoff <- Backoff12
  HandsOff = 4
  FinalDay = 2
  Created <- MCCreated
  Spent <- MCSpent
  FirstStored = 0
  Retain = 9
  BadKinds = {"created", "overclaim"}
  FirstGens = {0, 2}
  MaxBuilt = 1
  MaxRestarts = 1
  Prices = TRUE
INVARIANTS SyncedDaysStored BilledFailuresBounded StateExact BaselineKept
PROPERTIES BackoffHonoured ResumeTakesEffect CatchesUp DaysGetPriced
CHECK_DEADLOCK FALSE
