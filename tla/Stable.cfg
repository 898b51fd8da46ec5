SPECIFICATION Spec
CONSTANTS
  Enter = 2
  Exit = 2
  MaxGap = 2
  Confirm = 2
  Stall = 1
  Endpoints <- MCEndpoints
  Liar = "two"
  FieldsOf <- MCFields
  PendingAge = 1
  MaxStale = 3
  Samples <- MCSamples
  Worlds <- MCWorlds
  TetherEvery = 2
  RPCEvery = 2
  Aligned = 1
  UpdateHistory = 3
  Reports <- MCReports
  Figures <- MCFigures
  Totals <- MCTotals
  Bounds <- MCBounds
INVARIANTS TruthConfirmed StaleSampleShows LogTellsChanges
PROPERTIES NoVenueDecidesPrices AlarmsEarned LieNeedsSilence
CHECK_DEADLOCK FALSE
