\* One target whose sink fails right after every rebuild; two retries allowed.
CONSTANTS
  Targets <- OneByIndex
  Sinks = {1}
  MaxAttempts = 2
  InitialBackoff = 1
  MaxBackoff = 2
  MaxBus = 2
  CallerReads = FALSE
  LateConfig = FALSE
  StreamFaults = {}
SPECIFICATION TriesSpec
INVARIANT RetryLimit
