SPECIFICATION FairSpec
CONSTANTS
  MaxBackups = 3
  Scenarios <- AllScenarios
PROPERTIES
  PurgeKeepsMax
  PinnedNotPurged
  NoUploadChurn
  LocalKept
  NewestReachesProton
  DueIsMade
  RetentionConverges
