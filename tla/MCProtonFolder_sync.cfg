SPECIFICATION Spec
SYMMETRY SlugSymmetry
CONSTANTS
  Slugs = {s1, s2}
  Actors = {"sync", "editor"}
  MaxSaves = 2
  MaxFaults = 2
  MaxCancels = 0
  MaxCrashes = 1
  MaxFolders = 1
  s1 = s1
  s2 = s2
INVARIANTS
  StoredStaysPaired
PROPERTIES
  ImplementsStore
