CONSTANTS
  MaxEdits = 2
  MaxFaults = 0
  MaxRestarts = 0
SPECIFICATION Spec
INVARIANT SavedSticksAll
CHECK_DEADLOCK FALSE
