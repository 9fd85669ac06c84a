\* Ctrl+C while the camera has pictures; nothing fails, no event is lost.
CONSTANTS
  Wanted = 2
  BufferSize = 2
  MaxSignals = 1
  MaxLost = 0
  MaxFailures = 0
SPECIFICATION TakeSpec
INVARIANTS BufferDepleted
CHECK_DEADLOCK FALSE
