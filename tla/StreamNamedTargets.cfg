\* Two targets with the names a user gives them.
CONSTANTS
  Targets <- TwoNamed
  Sinks = {1, 2}
  MaxAttempts = 2
  InitialBackoff = 1
  MaxBackoff = 1
  MaxBus = 2
  CallerReads = FALSE
  LateConfig = FALSE
  StreamFaults = {}
SPECIFICATION StreamSpec
PROPERTY EventsReachTarget
