\* One load by the page and the default limit.
SPECIFICATION Spec
CONSTANTS
  RestartLimit = 10
  MaxLoads = 1
PROPERTIES
  EveryCrashRestarts
