\* Both ways to stop, both faults, two paths: two sessions overlap while one
\* drains, sharing a replay ring or not.
CONSTANTS
  Paths = {p1, p2}
  NoPath = NoPath
  MaxSessions = 2
  MaxRings = 2
  StopModes = {"sync", "background"}
  Faults = {"build", "push"}
SPECIFICATION Spec
SYMMETRY PathSymmetry
INVARIANTS
  TypeOK
  LivePipelineHasOneOwner
  NoPacketAfterClear
  BuildsBounded
  FileAsRequested
  PostProcessesItsFile
  ReplayOnlyOfSession
