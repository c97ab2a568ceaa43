SPECIFICATION Spec
CONSTANTS
  MaxBackups = 4
  Scenarios <- StaleScenario
PROPERTIES
  LocalAlwaysKept
