SPECIFICATION FreezeSpec
CONSTANTS
  server = server
  ui = ui
  Server = server
  Backfills = {ui}
  InitialDays = 1
  MaxWindow = 2
  YearLen = 3
  ColdStart = TRUE
  Span <- ShortSpan
  MaxDay = 3
INVARIANTS CoveredDaysStored
CHECK_DEADLOCK FALSE
