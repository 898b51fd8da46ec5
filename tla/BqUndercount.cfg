SPECIFICATION Spec
CONSTANTS
  loop = loop
  cli = cli
  manual = manual
  onchain = onchain
  coinage = coinage
  stableEth = stableEth
  baseline = baseline
  Actors = {loop}
  CliActors = {}
  Jobs = {onchain}
  Baseline = baseline
  PairJobs = {onchain}
  RefillJobs = {}
  Estimates = {1}
  HardCap = 2
  Budget = 3
  TTL = 2
  Timeout = 1
  MonthLen = 3
  MinInterval = 2
  MaxTime = 3
  MaxIds = 1
INVARIANTS SpendNotUnderCounted
CHECK_DEADLOCK FALSE
