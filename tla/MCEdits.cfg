SPECIFICATION EditsSpec
SYMMETRY EditorSymmetry
CONSTANTS
  Values = {TRUE, FALSE}
  Missing = Missing
  Torn = Torn
  MaxHits = 1
  Editors = {e1, e2}
  e1 = e1
  e2 = e2
  MaxEdits = 2
  MaxOps = 2
  MaxFaults = 2
  MaxRestarts = 1
INVARIANTS
  EditSticks
  ViewMatches
  PinOnlyIfAsked
  PinSurvives
  SurvivesOneFailure
CHECK_DEADLOCK FALSE
