\* Pausing and resuming before the frame that was requested comes.
SPECIFICATION Spec
CONSTANTS
  MaxRequests = 2
  MaxReal = 2
INVARIANTS
  ProcessedNextFrame
