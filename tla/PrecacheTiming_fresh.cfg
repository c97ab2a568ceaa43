SPECIFICATION TimingSpec
CONSTANTS
  WarmupMax = 2
  ErrorTimeout = 2
  Inflation = 2
  Base = 1
  MaxBackoff = 3
  Intervals = {3, 4}
  MaxFailures = 2
  Horizon = 5
INVARIANTS
  UsedIsRecent
  RetriesSpaced
