SPECIFICATION FairSpec
CONSTANTS
  MaxLogins = 2
  MaxAsks = 1
  MaxFaults = 1
  Enabled = TRUE
INVARIANTS TypeOK LinkStaysGood OneNotification
PROPERTIES FlagFollowsSession PauseIsTold NotesAreWithdrawn
CHECK_DEADLOCK FALSE
