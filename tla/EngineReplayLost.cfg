\* A background finalizer clears the ring the next session shares.
CONSTANTS
  Paths = {p1}
  NoPath = NoPath
  MaxSessions = 2
  MaxRings = 1
  StopModes = {"background"}
  Faults = {}
SPECIFICATION Spec
PROPERTY
  RunningReplayKept
