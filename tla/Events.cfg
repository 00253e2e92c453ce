\* Harness: three clicks, with every combination of the four check boxes. Callbacks: four,
\* for one element event and a file reader. Ui: two buttons, two mouse buttons. Client:
\* three connections, two messages in each. Loops: four loops or timers. Raster windows:
\* two screens, four events. Dialogs: two in a row.
SPECIFICATION MCSpec
CONSTANTS
  MaxRequests = 3
  ElementEvents = {click}
  MaxCallbacks = 4
  Buttons = {b1, b2}
  MouseButtons = {left, right}
  MaxSessions = 3
  MaxMessages = 2
  MaxLoopCalls = 4
  Screens = {s1, s2}
  TileSize = 2
  Extent = 2
  MaxEvents = 4
  Names = {"a", "b"}
  MaxCallsOpen = 2
INVARIANTS
  SpacedCallsDelivered
  HandlersSound
  StreamKept
PROPERTIES
  ServiceRests
