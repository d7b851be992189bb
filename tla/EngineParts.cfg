\* Each part of the core by itself; a job and an engine without sessions left end.
CONSTANTS
  Paths = {p1}
  NoPath = NoPath
  MaxSessions = 2
  MaxRings = 0
  StopModes = {"sync", "background"}
  Faults = {"build", "push"}
  Starts = {"portal", "xcap"}
  Streaming = TRUE
  Targets <- TwoByIndex
  Sinks = {1, 2}
  MaxAttempts = 3
  InitialBackoff = 1
  MaxBackoff = 4
  MaxBus = 3
  CallerReads = TRUE
  LateConfig = TRUE
  StreamFaults = {"rebuild"}
  MaxBuffers = 2
  MaxErrors = 2
SPECIFICATION EnginePartsSpec
INVARIANTS
  AppTypeOK
  DeadRecordingShowsError
  SavedMeansDone
  StreamTypeOK
  LiveAgrees
  JobTypeOK
  EosNotStolen
  FinalizeOrder
PROPERTIES
  StopIsReported
  StopCompletes
  ImplementsLifecycle
  PendingRetryNotRestarted
  FailedAloneRetried
  StoppedIsLast
  FinalizeEnds
  ProgressGoesOn
CHECK_DEADLOCK FALSE
