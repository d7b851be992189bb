\* Two targets down at once: one timer replaces the other.
CONSTANTS
  Targets <- TwoByIndex
  Sinks = {1, 2}
  MaxAttempts = 2
  InitialBackoff = 1
  MaxBackoff = 1
  MaxBus = 1
  CallerReads = TRUE
  LateConfig = FALSE
  StreamFaults = {}
SPECIFICATION StreamFairSpec
PROPERTY
  FailedTargetRetried
