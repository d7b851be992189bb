------------------------- MODULE AppSession_proofs -------------------------
(***************************************************************************)
(* TLAPS proofs about AppSession, for every number of sessions, rings and  *)
(* paths, every capture back end and every combination of faults:          *)
(*   - AppTypeCorrect:       the GUI's variables keep their types;         *)
(*   - DeadRecordingIsTold:  a recording the engine gave up shows an error;*)
(*   - SavedIsDone:          "saved" is about the last session;            *)
(*   - EngineUnderGui:       the engine's own invariants hold when the GUI *)
(*                           drives it;                                    *)
(*   - GuiImplementsLifecycle: the GUI drives the engine through the       *)
(*                           abstract life cycle of a session.             *)
(***************************************************************************)
EXTENDS AppSession, EngineSession_proofs

(***************************************************************************)
(* One control of the GUI makes several calls of the engine, so it is not  *)
(* one step of EngineSession.  What it does to the engine is one of three  *)
(* things; anything else the system does is a step of EngineSession.       *)
(***************************************************************************)

\* The configuration a control may change along with the session.
Reconfigured ==
  /\ UNCHANGED GuiUntouched
  /\ streamSettings' \in BOOLEAN
  /\ \/ EnableReplay
     \/ replay' = 0 /\ UNCHANGED ringCount
     \/ UNCHANGED <<replay, ringCount>>

GuiConfigures ==
  /\ Reconfigured
  /\ UNCHANGED <<isRecording, pipelineBuildFailed, outputPath, pipeline, fin, session,
                 request>>

GuiBegins ==
  /\ Reconfigured
  /\ ~isRecording /\ UNCHANGED <<pipeline, fin>>
  /\ \/ \E p \in Paths : BeginSession(RecordRequest(p)) /\ outputPath' = p
     \/ BeginSession(StreamRequest) /\ outputPath' = outputPath

GuiStops ==
  /\ Reconfigured
  /\ isRecording /\ DetachStoppedSession(pipeline)
  /\ UNCHANGED <<pipelineBuildFailed, session, request, replay, ringCount>>

\* What every state of the engine satisfies, whoever calls it.
EngineInv == /\ TypeOK /\ LifeInv /\ NullIsStopped /\ FileInv
             /\ NoPacketAfterClear /\ BuildsInv /\ RingInv

LEMMA InitEngine == Init => EngineInv
BY InitType, InitLife, InitNull, InitFile, InitRing
   DEF EngineInv, Init, BuildsInv, BuildsBounded

LEMMA NextEngine == EngineInv /\ [Next]_vars => EngineInv'
BY NextType, NextLife, NextNull, NextFile, NextClear, NextBuilds, NextRing DEF EngineInv

\* Switching the replay buffer keeps the types and the owners of the rings.
LEMMA ReconfiguredKeeps ==
  ASSUME TypeOK, RingInv, Reconfigured, UNCHANGED <<pipeline, fin>>
  PROVE  /\ replay' \in 0..MaxRings /\ ringCount' \in 0..MaxRings
         /\ RingInv'
<1>1. UNCHANGED <<pipes, rings>>
  BY DEF Reconfigured, GuiUntouched
<1>2. CASE UNCHANGED <<replay, ringCount>>
  BY <1>1, <1>2, RingFrame DEF TypeOK
<1>3. CASE EnableReplay \/ (replay' = 0 /\ UNCHANGED ringCount)
  <2>1. RingInv'
    BY <1>1, <1>3, RingSwitch
  <2>2. replay' \in 0..MaxRings /\ ringCount' \in 0..MaxRings
    BY <1>3, BoundsAssumption DEF TypeOK, EnableReplay
  <2> QED BY <2>1, <2>2
<1> QED BY <1>2, <1>3 DEF Reconfigured

LEMMA ConfiguresKeeps == EngineInv /\ GuiConfigures => EngineInv'
<1> SUFFICES ASSUME EngineInv, GuiConfigures PROVE EngineInv'
  OBVIOUS
<1> USE DEF EngineInv
<1>1. Reconfigured /\ UNCHANGED <<lastError, videoEncoder, blockedOn, pipes, rings, builds>>
  BY DEF GuiConfigures, Reconfigured, GuiUntouched
<1>2. RingInv' /\ TypeOK'
  BY <1>1, ReconfiguredKeeps DEF GuiConfigures, Reconfigured, TypeOK
<1>3. LifeInv' /\ FileInv'
  BY <1>1, LifeFrame, FileFrame DEF GuiConfigures
<1>4. NullIsStopped' /\ NoPacketAfterClear' /\ BuildsInv'
  BY <1>1 DEF GuiConfigures, NullIsStopped, NoPacketAfterClear, BuildsInv, BuildsBounded
<1> QED BY <1>2, <1>3, <1>4

LEMMA BeginsKeeps == EngineInv /\ GuiBegins => EngineInv'
<1> SUFFICES ASSUME EngineInv, GuiBegins PROVE EngineInv'
  OBVIOUS
<1> USE DEF EngineInv
<1>1. Reconfigured /\ UNCHANGED <<lastError, videoEncoder, blockedOn, pipes, rings, builds>>
  BY DEF GuiBegins, Reconfigured, GuiUntouched
<1>2. PICK asked \in [kind : {"none", "record", "stream"}, path : PathOpt] :
        /\ BeginSession(asked)
        /\ \/ asked.kind = "record" /\ outputPath' = asked.path /\ outputPath' # NoPath
           \/ asked.kind = "stream" /\ outputPath' = outputPath
  <2>1. ASSUME NEW p \in Paths
        PROVE  /\ RecordRequest(p) \in [kind : {"none", "record", "stream"}, path : PathOpt]
               /\ RecordRequest(p).kind = "record" /\ RecordRequest(p).path = p /\ p # NoPath
    BY <2>1, PathsAssumption DEF RecordRequest, PathOpt
  <2>2. StreamRequest \in [kind : {"none", "record", "stream"}, path : PathOpt]
        /\ StreamRequest.kind = "stream"
    BY DEF StreamRequest, PathOpt
  <2>3. CASE \E p \in Paths : BeginSession(RecordRequest(p)) /\ outputPath' = p
    BY <2>1, <2>3
  <2>4. CASE BeginSession(StreamRequest) /\ outputPath' = outputPath
    BY <2>2, <2>4
  <2> QED BY <2>3, <2>4 DEF GuiBegins
<1>3. RingInv' /\ replay' \in 0..MaxRings /\ ringCount' \in 0..MaxRings
  BY ReconfiguredKeeps DEF GuiBegins
<1>4. outputPath' \in PathOpt
  BY DEF GuiBegins, PathOpt, TypeOK
<1>5. TypeOK'
  BY <1>1, <1>2, <1>3, <1>4, BeginType DEF GuiBegins, Reconfigured, TypeOK
<1>6. LifeInv'
  BY <1>1, <1>2, LifeBegin DEF GuiBegins
<1>7. FileInv'
  BY <1>1, <1>2, FileBegin DEF GuiBegins
<1>8. NullIsStopped' /\ NoPacketAfterClear'
  BY <1>1 DEF GuiBegins, NullIsStopped, NoPacketAfterClear
<1>9. BuildsInv'
  <2>1. session \in Nat /\ session' = session + 1 /\ session' \in Sessions
    BY <1>2, BoundsAssumption DEF TypeOK, BeginSession, Sessions
  <2>2. builds[session'] = 0 /\ \A s \in Sessions : s > session' => builds[s] = 0
    BY <2>1 DEF BuildsInv, Sessions
  <2> QED BY <1>1, <2>2 DEF BuildsInv, BuildsBounded
<1> QED BY <1>3, <1>5, <1>6, <1>7, <1>8, <1>9

LEMMA StopsKeeps == EngineInv /\ GuiStops => EngineInv'
<1> SUFFICES ASSUME EngineInv, GuiStops PROVE EngineInv'
  OBVIOUS
<1> USE DEF EngineInv
<1>1. UNCHANGED <<lastError, videoEncoder, blockedOn, pipes, rings, builds>>
  BY DEF GuiStops, Reconfigured, GuiUntouched
<1>2. isRecording /\ DetachStoppedSession(pipeline) /\ pipeline \in 0..MaxSessions
      /\ UNCHANGED <<session, request, replay, ringCount>>
  BY DEF GuiStops, TypeOK
<1>3. TypeOK'
  BY <1>1, <1>2, DetachType DEF GuiStops, Reconfigured, TypeOK
<1>4. session \in Sessions /\ (Live(session) <=> pipeline # 0)
      /\ (pipeline # 0 => pipeline = session)
  BY <1>2, ActiveLive
<1>5. Live(session)' <=> pipeline # 0
  BY <1>1, <1>2, <1>4 DEF Live
<1>6. LifeInv'
  BY <1>1, <1>2, <1>5, LifeDetach
<1>7. FileInv'
  <2>1. FileAsRequested'
    BY <1>1, <1>2, DetachIsLocal, FileBuild
  <2>2. pipes'[session].state # "absent" => pipes'[session].path = outputPath
    BY <1>1, <1>2, <1>4 DEF FileInv, UnbuiltIsAbsent, HeldPath
  <2> QED BY <1>1, <1>2, <2>1, <2>2, FileDetach
<1>8. NullIsStopped' /\ RingInv'
  BY <1>1, <1>2, NullDetach, RingDetach
<1>9. NoPacketAfterClear' /\ BuildsInv'
  BY <1>1, <1>2
     DEF DetachStoppedSession, NoPacketAfterClear, TypeOK, BuildsInv, BuildsBounded
<1> QED BY <1>3, <1>6, <1>7, <1>8, <1>9

-----------------------------------------------------------------------------
\* A control of the GUI has one of the three effects.
LEMMA GuiEffect ==
  ASSUME TypeOK, [AppNext]_appVars
  PROVE  GuiConfigures \/ GuiBegins \/ GuiStops \/ [Next]_vars
<1> USE DEF GuiUntouched
<1>1. ASSUME NEW p \in Paths, NEW start \in Starts, GuiStartRecording(p, start)
      PROVE  GuiConfigures \/ GuiBegins
  BY <1>1 DEF GuiStartRecording, ApplyReplaySetting, BeginLocalRecording, GuiConfigures,
              GuiBegins, Reconfigured, TypeOK
<1>2. ASSUME GuiRefuseRecording \/ GuiPollFinalization \/ UNCHANGED appVars
      PROVE  UNCHANGED vars
  BY <1>2, Zenon DEF GuiRefuseRecording, GuiPollFinalization, appVars
<1>3. ASSUME GuiFrame \/ GuiTakeError PROVE Next
  BY <1>3 DEF GuiFrame, GuiTakeError, Next, Owner
<1>4. ASSUME GuiStopRecording PROVE GuiConfigures \/ GuiStops
  BY <1>4 DEF GuiStopRecording, BeginBackgroundStop, GuiConfigures, GuiStops, Reconfigured,
              TypeOK
<1>5. ASSUME GuiAbortStalled PROVE GuiConfigures \/ GuiStops
  BY <1>5 DEF GuiAbortStalled, GuiConfigures, GuiStops, Reconfigured, TypeOK
<1>6. ASSUME GuiStartStreaming PROVE GuiConfigures \/ GuiBegins
  BY <1>6 DEF GuiStartStreaming, GuiConfigures, GuiBegins, Reconfigured
<1>7. ASSUME GuiStopStreaming PROVE GuiConfigures \/ GuiStops
  BY <1>7 DEF GuiStopStreaming, BeginBackgroundStop, GuiConfigures, GuiStops, Reconfigured
<1>8. ASSUME GuiChangeReplay PROVE GuiConfigures
  BY <1>8 DEF GuiChangeReplay, ApplyReplaySetting, GuiConfigures, Reconfigured, TypeOK
<1>9. ASSUME NEW s \in Sessions, CaptureSample(s) \/ Finalizer(s) PROVE Next
  BY <1>9 DEF Next
<1> QED BY <1>1, <1>2, <1>3, <1>4, <1>5, <1>6, <1>7, <1>8, <1>9 DEF AppNext, Gui

LEMMA AppKeepsEngine == EngineInv /\ [AppNext]_appVars => EngineInv'
BY GuiEffect, ConfiguresKeeps, BeginsKeeps, StopsKeeps, NextEngine DEF EngineInv

\* What the GUI does to the engine keeps what the engine promises of itself:
\* pipelines have one owner, no packet follows a clear, files are the ones
\* asked for, builds are bounded and clips are of their session, whichever
\* controls are used together and whatever fails.
THEOREM EngineUnderGui ==
  AppSpec => [](/\ TypeOK /\ LivePipelineHasOneOwner /\ NoPacketAfterClear
                /\ PostProcessesItsFile /\ FileAsRequested
                /\ BuildsBounded /\ ReplayOnlyOfSession)
<1>1. AppInit => EngineInv
  BY InitEngine DEF AppInit
<1>2. EngineInv => /\ TypeOK /\ LivePipelineHasOneOwner /\ NoPacketAfterClear
                   /\ PostProcessesItsFile /\ FileAsRequested
                   /\ BuildsBounded /\ ReplayOnlyOfSession
  BY ClipOwned DEF EngineInv, LifeInv, FileInv, BuildsInv
<1> QED BY <1>1, <1>2, AppKeepsEngine, PTL DEF AppSpec

-----------------------------------------------------------------------------
(* The refinement.                                                         *)

LEMMA GuiLifecycle ==
  ASSUME EngineInv, [AppNext]_appVars
  PROVE  Lifecycle!LifeNext \/ UNCHANGED <<stages, outputs>>
<1> USE DEF EngineInv
<1>1. CASE GuiConfigures
  BY <1>1, Stutter DEF GuiConfigures, Reconfigured, GuiUntouched
<1>2. CASE GuiBegins
  BY <1>2, BeginStep DEF GuiBegins, Reconfigured, GuiUntouched
<1>3. CASE GuiStops
  BY <1>3, StopStep DEF GuiStops, Reconfigured, GuiUntouched
<1>4. CASE [Next]_vars
  BY <1>4, NextLifecycle
<1> QED BY <1>1, <1>2, <1>3, <1>4, GuiEffect

\* Driven by the GUI, the engine implements the session life cycle too: no
\* control skips a stage, reopens a session or begins one while another runs.
THEOREM GuiImplementsLifecycle == AppSpec => Lifecycle!LifeSpec
<1>1. AppInit => EngineInv /\ Lifecycle!LifeInit
  BY InitEngine, InitLifecycle DEF AppInit
<1>2. EngineInv /\ [AppNext]_appVars => [Lifecycle!LifeNext]_<<stages, outputs>>
  BY GuiLifecycle
<1> QED BY <1>1, <1>2, AppKeepsEngine, PTL
        DEF AppSpec, Lifecycle!LifeSpec, Lifecycle!lifeVars

-----------------------------------------------------------------------------
(* The status line.                                                        *)

\* A recording the engine gave up is told, and no handle of an earlier stop is
\* left that could cover it.
DeadIsTold ==
  guiRecording /\ ~isRecording /\ request[session].kind = "record" /\ ~lastError
    => recordStatus = "error" /\ stopFinalizing = 0

\* With no session running and no error to take, the handle the GUI holds is
\* that of the last session.
HandleIsLast == stopFinalizing # 0 /\ ~isRecording /\ ~lastError => stopFinalizing = session

\* The GUI has a handle, or says "saved", only after a session was stopped.
SomethingStopped == stopFinalizing # 0 \/ recordStatus = "saved" => session # 0

StatusInv == DeadIsTold /\ HandleIsLast /\ SavedMeansDone /\ SomethingStopped

AppInv == EngineInv /\ AppTypeOK /\ StatusInv

LEMMA InitApp == AppInit => AppInv
<1> SUFFICES ASSUME AppInit PROVE AppInv
  OBVIOUS
<1>1. AppTypeOK
  <2>1. 0 \in 0..MaxSessions
    BY BoundsAssumption
  <2> QED BY <2>1 DEF AppInit, AppTypeOK, Statuses
<1>2. StatusInv
  BY DEF AppInit, StatusInv, DeadIsTold, HandleIsLast, SavedMeansDone, SomethingStopped
<1> QED BY <1>1, <1>2, InitEngine DEF AppInit, AppInv

LEMMA AppTypeKept ==
  ASSUME TypeOK, AppTypeOK, [AppNext]_appVars
  PROVE  AppTypeOK'
<1> USE DEF AppTypeOK, Statuses, guiVars
<1>1. session \in 0..MaxSessions /\ 0 \in 0..MaxSessions
  BY BoundsAssumption DEF TypeOK
<1>2. ASSUME NEW p \in Paths, NEW start \in Starts, GuiStartRecording(p, start)
      PROVE  AppTypeOK'
  BY <1>1, <1>2 DEF GuiStartRecording
<1>3. CASE GuiRefuseRecording \/ GuiFrame \/ GuiTakeError \/ GuiPollFinalization
  BY <1>1, <1>3 DEF GuiRefuseRecording, GuiFrame, GuiTakeError, GuiPollFinalization
<1>4. CASE GuiStopRecording \/ GuiAbortStalled
  BY <1>1, <1>4 DEF GuiStopRecording, GuiAbortStalled, BeginBackgroundStop
<1>5. CASE GuiStartStreaming \/ GuiStopStreaming \/ GuiChangeReplay
  BY <1>1, <1>5 DEF GuiStartStreaming, GuiStopStreaming, GuiChangeReplay,
                    BeginBackgroundStop
<1>6. CASE UNCHANGED guiVars
  BY <1>6
<1> QED BY <1>2, <1>3, <1>4, <1>5, <1>6 DEF AppNext, Gui, appVars

LEMMA StatusKept ==
  ASSUME EngineInv, AppTypeOK, StatusInv, [AppNext]_appVars
  PROVE  StatusInv'
<1> USE DEF StatusInv
<1>1. session \in Nat /\ (isRecording => session \in Sessions /\ session # 0)
  BY BoundsAssumption DEF EngineInv, TypeOK, LifeInv, ActiveSession, Sessions
<1>2. ASSUME isRecording', SomethingStopped' PROVE StatusInv'
  BY <1>2 DEF DeadIsTold, HandleIsLast, SavedMeansDone
<1>3. ASSUME UNCHANGED <<guiVars, isRecording, lastError, fin, session, request>>
      PROVE  StatusInv'
  BY <1>3 DEF guiVars, DeadIsTold, HandleIsLast, SavedMeansDone, SomethingStopped
<1>4. ASSUME NEW kind, BeginSession(kind) PROVE session' # 0 /\ isRecording'
  BY <1>1, <1>4 DEF BeginSession
<1>5. ASSUME NEW p \in Paths, NEW start \in Starts, GuiStartRecording(p, start)
      PROVE  StatusInv'
  <2>1. isRecording' /\ (session' = session \/ session' # 0)
    BY <1>4, <1>5 DEF GuiStartRecording, BeginLocalRecording
  <2>2. recordStatus' = "none" /\ (stopFinalizing' = 0 \/ stopFinalizing' = stopFinalizing)
    BY <1>5 DEF GuiStartRecording
  <2>3. SomethingStopped'
    BY <2>1, <2>2 DEF SomethingStopped
  <2> QED BY <1>2, <2>1, <2>3
<1>6. ASSUME GuiStartStreaming PROVE StatusInv'
  <2>1. isRecording' /\ (session' = session \/ session' # 0)
    BY <1>4, <1>6 DEF GuiStartStreaming
  <2>2. UNCHANGED <<recordStatus, stopFinalizing>>
    BY <1>6 DEF GuiStartStreaming, guiVars
  <2>3. SomethingStopped'
    BY <2>1, <2>2 DEF SomethingStopped
  <2> QED BY <1>2, <2>1, <2>3
<1>7. ASSUME GuiRefuseRecording PROVE StatusInv'
  BY <1>7 DEF GuiRefuseRecording, vars, engineVars, worldVars, histVars, DeadIsTold,
              HandleIsLast, SavedMeansDone, SomethingStopped
<1>8. ASSUME GuiFrame PROVE StatusInv'
  <2>1. isRecording /\ (isRecording' \/ lastError') /\ UNCHANGED <<guiVars, session>>
    BY <1>8 DEF GuiFrame, ProcessRawFrame, BuildFails, BuildAndPushFrame, PushNextFrame,
                PushFrame, NeedsPipeline, histVars
  <2> QED BY <2>1 DEF guiVars, DeadIsTold, HandleIsLast, SavedMeansDone, SomethingStopped
<1>9. ASSUME GuiTakeError PROVE StatusInv'
  BY <1>9 DEF GuiTakeError, DeadIsTold, HandleIsLast, SavedMeansDone, SomethingStopped
<1>10. ASSUME GuiStopRecording PROVE StatusInv'
  <2>1. ~guiRecording' /\ UNCHANGED <<session, lastError>>
    BY <1>10 DEF GuiStopRecording, GuiUntouched
  <2>2. CASE isRecording
    BY <1>1, <1>10, <2>1, <2>2
       DEF GuiStopRecording, BeginBackgroundStop, DeadIsTold, HandleIsLast, SavedMeansDone,
           SomethingStopped
  <2>3. CASE ~isRecording
    BY <1>10, <2>1, <2>3
       DEF GuiStopRecording, BeginBackgroundStop, DeadIsTold, HandleIsLast, SavedMeansDone,
           SomethingStopped
  <2> QED BY <2>2, <2>3
<1>11. ASSUME GuiAbortStalled PROVE StatusInv'
  BY <1>11 DEF GuiAbortStalled, DeadIsTold, HandleIsLast, SavedMeansDone, SomethingStopped
<1>12. ASSUME GuiPollFinalization PROVE StatusInv'
  BY <1>12 DEF GuiPollFinalization, UiFree, vars, engineVars, worldVars, histVars,
               DeadIsTold, HandleIsLast, SavedMeansDone, SomethingStopped
<1>13. ASSUME GuiStopStreaming PROVE StatusInv'
  <2>1. UNCHANGED <<guiRecording, session, request, lastError>>
    BY <1>13 DEF GuiStopStreaming, GuiUntouched
  <2>2. CASE isRecording /\ OutputKind # "dual"
    <3>1. stopFinalizing' = session /\ recordStatus' = "finalizing"
      BY <1>13, <2>2 DEF GuiStopStreaming, BeginBackgroundStop
    <3>2. request[session].kind # "record"
      BY <1>13, <2>2
         DEF GuiStopStreaming, OutputKind, EngineInv, FileInv, PathIsAsked
    <3> QED BY <1>1, <2>1, <2>2, <3>1, <3>2
            DEF DeadIsTold, HandleIsLast, SavedMeansDone, SomethingStopped
  <2>3. CASE ~(isRecording /\ OutputKind # "dual")
    BY <1>3, <1>13, <2>1, <2>3 DEF GuiStopStreaming, guiVars
  <2> QED BY <2>2, <2>3
<1>14. ASSUME GuiChangeReplay PROVE StatusInv'
  BY <1>3, <1>14 DEF GuiChangeReplay, GuiUntouched
<1>15. ASSUME NEW s \in Sessions, CaptureSample(s), UNCHANGED guiVars PROVE StatusInv'
  BY <1>3, <1>15 DEF CaptureSample, engineVars, histVars
<1>16. ASSUME NEW s \in Sessions, Finalizer(s), UNCHANGED guiVars PROVE StatusInv'
  <2>1. UNCHANGED <<isRecording, lastError, session, request>>
    BY <1>16 DEF Finalizer, FinalizerDrain, FinalizerStop, FinalizerClearRing,
                 FinalizerPost, engineVars, histVars
  <2>2. ASSUME NEW t \in Sessions, fin[t].phase = "done" PROVE fin'[t].phase = "done"
    BY <1>16, <2>2 DEF Finalizer, FinalizerDrain, FinalizerStop, FinalizerClearRing,
                       FinalizerPost, EngineInv, TypeOK
  <2>3. session # 0 => session \in Sessions
    BY <1>1, BoundsAssumption DEF EngineInv, TypeOK, Sessions
  <2> QED BY <1>16, <2>1, <2>2, <2>3
          DEF guiVars, DeadIsTold, HandleIsLast, SavedMeansDone, SomethingStopped
<1>17. CASE UNCHANGED appVars
  BY <1>3, <1>17 DEF appVars, vars, engineVars, worldVars, histVars
<1> QED
  BY <1>5, <1>6, <1>7, <1>8, <1>9, <1>10, <1>11, <1>12, <1>13, <1>14, <1>15, <1>16,
     <1>17 DEF AppNext, Gui

LEMMA NextApp == AppInv /\ [AppNext]_appVars => AppInv'
BY AppKeepsEngine, AppTypeKept, StatusKept DEF AppInv, EngineInv

\* The GUI's variables keep their types; the handle it holds is that of a
\* session within the bound.
THEOREM AppTypeCorrect == AppSpec => []AppTypeOK
<1>1. AppInv => AppTypeOK
  BY DEF AppInv
<1> QED BY <1>1, InitApp, NextApp, PTL DEF AppSpec

\* When the engine gave up the session of a recording the user still sees
\* running, the user is shown the error, in whatever order frames fail, streams
\* are stopped, settings change and earlier stops complete.
THEOREM DeadRecordingIsTold == AppSpec => []DeadRecordingShowsError
<1>1. AppInv => DeadRecordingShowsError
  BY DEF AppInv, StatusInv, DeadIsTold, DeadRecordingShowsError
<1> QED BY <1>1, InitApp, NextApp, PTL DEF AppSpec

\* With no session running, "saved" is shown only when the finalizer of the
\* last session has ended.
THEOREM SavedIsDone == AppSpec => []SavedMeansDone
<1>1. AppInv => SavedMeansDone
  BY DEF AppInv, StatusInv
<1> QED BY <1>1, InitApp, NextApp, PTL DEF AppSpec
=============================================================================
