CONSTANTS
  MaxEdits = 2
  MaxFaults = 1
  MaxRestarts = 1
SPECIFICATION FairSpec
INVARIANT SavedSticks
PROPERTIES PartialKeepsRest MemoryFollows
CHECK_DEADLOCK FALSE
