CONSTANTS
  Addons = {a1}
  Watched = {a1}
  MaxRequests = 2
  MaxOthers = 1
  OtherNames = {1}
  MaxFaults = 1
SPECIFICATION FairSpec
INVARIANTS TypeOK OneRequest 
PROPERTIES StoppedComesBack PendingEnds
CHECK_DEADLOCK FALSE
