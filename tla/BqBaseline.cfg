SPECIFICATION FairSpec
CONSTANTS
  loop = loop
  cli = cli
  manual = manual
  onchain = onchain
  coinage = coinage
  stableEth = stableEth
  baseline = baseline
  Actors = {loop, cli}
  CliActors = {cli}
  Jobs = {baseline}
  Baseline = baseline
  PairJobs = {}
  RefillJobs = {}
  Estimates = {1}
  HardCap = 2
  Budget = 4
  TTL = 2
  Timeout = 1
  MonthLen = 3
  MinInterval = 2
  MaxTime = 3
  MaxIds = 2
INVARIANTS OneBaselineAtATime
PROPERTIES BaselineSpacing ReservationsSettled
CHECK_DEADLOCK FALSE
