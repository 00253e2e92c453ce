\* Frames: four requests; the user can pile up two real requests. Timers: three, within a
\* clock of two steps. Canvases: two, of 250.25 or 500.75 CSS pixels, at ratios of 0.75, 1.25
\* and 2. GL widgets: all nine. Settings: two colors to customize, one asset path beside the
\* empty one. Memory: six blocks of each kind.
SPECIFICATION MCSpec
CONSTANTS
  MaxRequests = 4
  MaxReal = 2
  MaxTimers = 3
  MaxTime = 2
  Unit = 5
  Directions <- EightPoints
  Canvases = {c1, c2}
  PixelParts = 4
  WindowWidths = {1001, 2003}
  PixelRatios = {3, 5, 8}
  MaxSize = 1500
  BubbleNum = 8
  Colors = {"", "red"}
  Paths = {"p"}
  HeapLimit = 63
  MaxBlocks = 6
  Word = 1024
INVARIANTS
  RequestsKept
  FrameDue
  TimersKept
  
  SettingsKept
PROPERTIES
  ServedWhenRunning
  TimersCome
