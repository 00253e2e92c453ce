\* Control: two listeners and a timer; the browser dispatches every event itself. Examples:
\* four events. Loop: six calls of the page.
SPECIFICATION MCSpec
CONSTANTS
  Listeners = {l1, l2}
  Timers = {t1}
  NoHandler = NoHandler
  NativeDispatch = TRUE
  ClearBeforeDestroy = TRUE
  MaxEvents = 4
  MaxClicks = 6
INVARIANTS
  NoEventLost
  HandlersDefined
  SuspensionSound
PROPERTIES
  EventsAnswered
