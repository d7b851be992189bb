\* One behaviour of one component at a time; some end.
CONSTANTS
  ObsSessions = {c1, c2}
  ObsCommands = {"toggle", "mute"}
  NoSession = NoSession
  MaxRequests = 2
  MaxEdits = 1
  MaxServers = 1
  ObsFaults = {"slow", "deaf"}
  AlertBudget = 1
  AlertChannel = 1
  AlertPosts = {d1}
  MaxAlerts = 4
  MaxWindows = 1
  MaxAlertEdits = 2
  ReplayWindows = {1, 3}
  ReplayGop = 2
  MaxReplayTime = 6
  MaxReplayEdits = 2
  ChatPlatforms = {"Twitch", "YouTube"}
  ChatCapacity = 1
  ChatWindow = 2
  ChatQuota = 1
  MaxChatTime = 2
  MaxChats = 2
  MaxChatSends = 2
  BitratePolicies <- BitratePair
  BitrateChoices = {3, 6}
  BitrateCooldown = 2
  BitrateSamples = 2
  MaxBitrateTime = 4
  MaxBitrateEdits = 3
  SharedGeometries <- Geometries
  SharedSize = 4
  SharedLargest = 8
  MaxSharedFrames = 2
  MaxSharedReads = 1
  UpdaterPlatforms = {"windows", "linux", "macos"}
  MaxReleases = 2
  MaxUpdaterClicks = 4
  MaxScenes = 4
  SceneFiles <- NestedFolders
  FileScenes = 3
  MaxSceneEdits = 3
  MaxCrashRecords = 2
  MaxCrashTime = 4
  MaxCrashes = 4
SPECIFICATION PartsSpec
INVARIANTS
  ComponentsTypeOK
  ClientsInSync
  NoStaleCommand
  OneNoticePerBurst
  ReplayCovers
  ReplayWithinWindow
  ChatBurstBounded
  AcceptedGeometry
  InstallsVerified
  ScenesSound
  CrashOffered
PROPERTIES
  SessionsEnd
  AlertThreadsEnd
  ChatWorkersEnd
  BitrateCalm
CHECK_DEADLOCK FALSE
