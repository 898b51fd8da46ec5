SPECIFICATION MCSpec
CONSTANTS
  Files = 2
  Contents <- MCContents
  GuardRows = 4
  Every = 1
  Years = 2
  Requests = {1, 2}
  PlanTTL = 1
  TTL = 1
  Readers = {1}
  Bounds <- AllBounds
  server = server
  ui = ui
  Server = server
  Backfills = {ui}
  InitialDays = 2
  MaxWindow = 2
  YearLen = 2
  ColdStart = TRUE
  Span <- ShortSpan
  MaxDay = 4
INVARIANTS BilledWithinConfirmed AnswersTrue
PROPERTIES ShrinkConfirmed DelistingAccepted OneRunPerToken OverviewCatchesUp IsArchive IsLateArchive SyncCatchesUp
CHECK_DEADLOCK FALSE
