CONSTANTS
  Configs <- MCConfigs
  Schedules <- MCSchedules
  PerDay = 2
  WeekLength = 3
  MonthLengths <- MCMonthLengths
  Cooldown = 1
  Start = 71
  End = 82
  MaxExtra = 2
SPECIFICATION Spec
INVARIANTS SlotsKept NewestStays LookupFinds BackupsKeepComing OneIsEnough
CHECK_DEADLOCK FALSE
