\* Two scenes, made and switched while Studio Mode goes on and off.
CONSTANTS
  MaxScenes = 2
  SceneFiles = {}
  FileScenes = 0
  MaxSceneEdits = 3
SPECIFICATION SceneSpec
INVARIANT
  ProgramIsLive
CHECK_DEADLOCK FALSE
