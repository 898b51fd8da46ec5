SPECIFICATION Spec
CONSTANTS
  loop = loop
  cli = cli
  manual = manual
  onchain = onchain
  coinage = coinage
  stableEth = stableEth
  baseline = baseline
  Actors = {loop, manual}
  CliActors = {}
  Jobs = {onchain}
  Baseline = baseline
  PairJobs = {onchain}
  RefillJobs = {}
  Estimates = {1}
  HardCap = 2
  Budget = 2
  TTL = 2
  Timeout = 1
  MonthLen = 3
  MinInterval = 2
  MaxTime = 4
  MaxIds = 2
SYMMETRY ServerSymmetry
INVARIANTS LedgerPlusReservedInBudget ChargeCoversBill
PROPERTIES ChargedOnce
CHECK_DEADLOCK FALSE
