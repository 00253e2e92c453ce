\* One core: idealThreadCount() is 1, so there are two tiles.
SPECIFICATION Spec
CONSTANTS
  ThreadCount = 1
  Heights = {4, 5}
  MaxRequests = 2
PROPERTIES
  InitialImageAppears
