SPECIFICATION FairSpec
CONSTANTS
  MaxRaises = 3
  MaxRequests = 2
  MaxFaults = 2
PROPERTIES
  DueServed
  TriggersServed
