\* Loader: three loads by the page and a restart limit of 2, in every configuration.
\* Reload: three instances, two double clicks. Two plugins. Files: four loads.
SPECIFICATION MCSpec
CONSTANTS
  RestartLimit = 2
  MaxLoads = 3
  MaxInstances = 3
  MaxDoubleClicks = 2
  Plugins = {p1, p2}
  MaxFileLoads = 4
INVARIANTS
  OneInstance
  LoadedWhenPrepared
  LoadersSound
PROPERTIES
  LoadersAnswer
