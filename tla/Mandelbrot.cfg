\* Two threads, four tiles: one height that the tiles divide and one they do not. The view:
\* three widths with odd and even differences of both signs, two scales, two positions of the
\* mouse, three requests.
SPECIFICATION MCSpec
CONSTANTS
  ThreadCount = 2
  Heights = {4, 5}
  MaxRequests = 2
  Widths = {3, 8, 12}
  Scales = {1, 2}
  Positions = {0, 3}
  ScrollStep = 5
  MaxAsked = 3
INVARIANTS
  NoLostRequest
  ImagesUntorn
  RendererUnusedWhenDeleted
  SettledViewCentered
PROPERTIES
  LatestViewShown
  ShutdownCompletes
  ReleaseCentersWhatIsSeen
