SPECIFICATION FairSpec
CONSTANTS
  Slugs = {s1}
  Actors = {"sync", "precache", "editor"}
  MaxSaves = 2
  MaxFaults = 1
  MaxCancels = 1
  MaxCrashes = 1
  MaxFolders = 1
  s1 = s1
PROPERTIES
  OrphansReaped
  UploadInFlightSpared
  FolderNeverTrashed
