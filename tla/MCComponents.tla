----------------------------- MODULE MCComponents -----------------------------
(***************************************************************************)
(* Small instances of the components that share no state, side by side: a  *)
(* behaviour is one of the component chosen at the start, and the others   *)
(* stay in an initial state.                                               *)
(***************************************************************************)
EXTENDS ObsServer, AlertFeed, ReplayBuffer, ChatSend, AdaptiveBitrate, SharedFrame,
        Updater, SceneTree, CrashRecords

Parts == {"obs", "alerts", "replay", "chat", "bitrate", "shared", "updater", "scenes",
          "crash"}

VARIABLE part  \* the component that runs

allVars == <<part, obsVars, alertVars, replayVars, chatVars, bitrateVars, sharedVars,
             updaterVars, sceneVars, crashVars>>

-----------------------------------------------------------------------------
(* Constants that a configuration file cannot write.                       *)

BitratePair ==
  {[enabled |-> TRUE, minimum |-> 2, maximum |-> 4, step |-> 1],
   [enabled |-> TRUE, minimum |-> 3, maximum |-> 8, step |-> 3]}

Geometries ==
  {[width |-> 1, height |-> 4], [width |-> 4, height |-> 1], [width |-> 2, height |-> 4]}

(* A folder with a default, a folder inside it and a scene inside that.    *)
NestedFolders ==
  {[ids |-> 1..3, parent |-> [s \in SceneIds |-> IF s \in 2..3 THEN s - 1 ELSE NoScene],
    active |-> 3, history |-> <<2>>, defaults |-> {1}]}

-----------------------------------------------------------------------------
(* A component that does not run has one initial state.                    *)
Pinned(name, value, values) == part = name \/ value = CHOOSE v \in values : TRUE

PartsInit ==
  /\ part \in Parts
  /\ ObsInit /\ AlertInit /\ ReplayInit /\ ChatInit /\ BitrateInit /\ SharedInit
  /\ UpdaterInit /\ SceneInit /\ CrashInit
  /\ Pinned("replay", replayWindow, ReplayWindows)
  /\ Pinned("chat", chatPlatform, ChatPlatforms)
  /\ Pinned("bitrate", bitratePolicy, BitratePolicies)
  /\ Pinned("bitrate", bitrateKbps, BitrateChoices)
  /\ Pinned("updater", updaterPlatform, UpdaterPlatforms)

PartsNext ==
  \/ /\ part = "obs" /\ ObsNext
     /\ UNCHANGED <<part, alertVars, replayVars, chatVars, bitrateVars, sharedVars,
                    updaterVars, sceneVars, crashVars>>
  \/ /\ part = "alerts" /\ AlertNext
     /\ UNCHANGED <<part, obsVars, replayVars, chatVars, bitrateVars, sharedVars,
                    updaterVars, sceneVars, crashVars>>
  \/ /\ part = "replay" /\ ReplayNext
     /\ UNCHANGED <<part, obsVars, alertVars, chatVars, bitrateVars, sharedVars,
                    updaterVars, sceneVars, crashVars>>
  \/ /\ part = "chat" /\ ChatNext
     /\ UNCHANGED <<part, obsVars, alertVars, replayVars, bitrateVars, sharedVars,
                    updaterVars, sceneVars, crashVars>>
  \/ /\ part = "bitrate" /\ BitrateNext
     /\ UNCHANGED <<part, obsVars, alertVars, replayVars, chatVars, sharedVars,
                    updaterVars, sceneVars, crashVars>>
  \/ /\ part = "shared" /\ SharedNext
     /\ UNCHANGED <<part, obsVars, alertVars, replayVars, chatVars, bitrateVars,
                    updaterVars, sceneVars, crashVars>>
  \/ /\ part = "updater" /\ UpdaterNext
     /\ UNCHANGED <<part, obsVars, alertVars, replayVars, chatVars, bitrateVars,
                    sharedVars, sceneVars, crashVars>>
  \/ /\ part = "scenes" /\ SceneNext
     /\ UNCHANGED <<part, obsVars, alertVars, replayVars, chatVars, bitrateVars,
                    sharedVars, updaterVars, crashVars>>
  \/ /\ part = "crash" /\ CrashNext
     /\ UNCHANGED <<part, obsVars, alertVars, replayVars, chatVars, bitrateVars,
                    sharedVars, updaterVars, sceneVars>>

(* The fairness of each component's own specification.                     *)
PartsFairness ==
  /\ WF_obsVars(part = "obs" /\ ObsUiNext)
  /\ \A s \in ObsSessions : WF_obsVars(part = "obs" /\ ObsSessionGoesOn(s))
  /\ WF_alertVars(part = "alerts" /\ AlertFrame)
  /\ WF_alertVars(part = "alerts" /\ AlertWorker)
  /\ \A p \in AlertPosts : WF_alertVars(part = "alerts" /\ AlertPost(p))
  /\ \A h \in Handles : WF_chatVars(part = "chat" /\ ChatWorker(h))

PartsSpec == PartsInit /\ [][PartsNext]_allVars /\ PartsFairness

-----------------------------------------------------------------------------
(* Every variable of every component has its type.                         *)
ComponentsTypeOK ==
  /\ part \in Parts
  /\ ObsTypeOK /\ AlertTypeOK /\ ReplayTypeOK /\ ChatTypeOK /\ BitrateTypeOK
  /\ SharedTypeOK /\ UpdaterTypeOK /\ SceneTypeOK /\ CrashTypeOK
=============================================================================
