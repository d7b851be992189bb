\* One window; a clip's two tracks are shifted apart.
CONSTANTS
  ReplayWindows = {1, 3}
  ReplayGop = 2
  MaxReplayTime = 6
  MaxReplayEdits = 2
SPECIFICATION ReplaySpec
INVARIANT
  ReplayInSync
CHECK_DEADLOCK FALSE
