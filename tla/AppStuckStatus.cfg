\* Stopping a stream, then the recording that shared its session.
CONSTANTS
  Paths = {p1}
  NoPath = NoPath
  MaxSessions = 2
  MaxRings = 0
  StopModes = {"background"}
  Faults = {}
  Starts = {"xcap"}
  Streaming = TRUE
SPECIFICATION AppFairSpec
PROPERTY
  FinalizingClears
