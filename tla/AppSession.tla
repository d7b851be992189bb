------------------------------ MODULE AppSession ------------------------------
(***************************************************************************)
(* The recording and streaming controls of the Linux GUI                   *)
(* (rivulet-gui/src/app.rs) on top of EngineSession: the engine's owner is *)
(* the UI thread, which feeds it the captured frames, polls the completion *)
(* handle of the last background stop and keeps the status line the user   *)
(* reads.  Only the GUI calls the engine here, so EngineSession's owner    *)
(* actions occur as the GUI makes them.                                    *)
(***************************************************************************)
EXTENDS EngineSession

CONSTANTS Starts,     \* capture back ends: "portal" (PipeWire), "xcap"
          Streaming   \* whether the user streams too

ASSUME StartsAssumption  == Starts \subseteq {"portal", "xcap"}
ASSUME StreamingAssumption == Streaming \in BOOLEAN

VARIABLES guiRecording,    \* is_recording of the app: the capture thread runs
          stopFinalizing,  \* the session whose completion handle is held, or 0
          recordStatus     \* what record_status says

guiVars == <<guiRecording, stopFinalizing, recordStatus>>
appVars == <<vars, guiVars>>

Statuses == {"none", "finalizing", "saved", "error", "no_frames"}

AppInit == /\ Init
           /\ guiRecording = FALSE
           /\ stopFinalizing = 0
           /\ recordStatus = "none"

\* The UI thread takes an engine error in the same frame that caused it,
\* before it handles the next click.
UiFree == OwnerFree /\ ~lastError

\* The variables no control of the GUI touches.
GuiUntouched == <<lastError, videoEncoder, blockedOn, pipes, rings, builds>>

\* apply_replay_setting: the user may have switched the buffer on or off.
ApplyReplaySetting == \/ EnableReplay
                      \/ replay' = 0 /\ UNCHANGED ringCount

GuiChangeReplay ==
  /\ UiFree
  /\ ApplyReplaySetting
  /\ UNCHANGED <<isRecording, pipelineBuildFailed, outputPath, streamSettings, pipeline,
                 fin, session, request, guiVars>>
  /\ UNCHANGED GuiUntouched

-----------------------------------------------------------------------------
(* Recording.                                                              *)

\* apply_replay_setting, then start_local_recording, which does nothing when
\* the engine already runs a session; the GUI records either way.  Only the
\* xcap path drops the handle of an earlier stop.
GuiStartRecording(p, start) ==
  /\ UiFree /\ ~guiRecording
  /\ ApplyReplaySetting
  /\ \/ ~isRecording /\ BeginLocalRecording(p)
     \/ /\ isRecording
        /\ UNCHANGED <<session, request, isRecording, pipelineBuildFailed,
                       outputPath>>
  /\ guiRecording' = TRUE
  /\ recordStatus' = "none"
  /\ stopFinalizing' = IF start = "xcap" THEN 0 ELSE stopFinalizing
  /\ UNCHANGED <<streamSettings, pipeline, fin>>
  /\ UNCHANGED GuiUntouched

\* start_linux_recording without a usable source.
GuiRefuseRecording ==
  /\ UiFree /\ ~guiRecording /\ "xcap" \in Starts
  /\ recordStatus' = "error"
  /\ UNCHANGED <<vars, guiRecording, stopFinalizing>>

\* The capture thread delivered a frame and drain_linux_frames pushes it.
GuiFrame ==
  /\ guiRecording
  /\ ProcessRawFrame
  /\ UNCHANGED guiVars

\* Mutant: an error leaves the completion handle of an earlier stop in place.
TakeErrorKeepHandle ==
  /\ TakeError
  /\ recordStatus' = "error"
  /\ UNCHANGED <<guiRecording, stopFinalizing>>

\* The rest of the UI frame: an error beats the flip of a pending stop.
GuiTakeError ==
  /\ TakeError
  /\ stopFinalizing' = 0
  /\ recordStatus' = "error"
  /\ UNCHANGED guiRecording

\* Mutant: the handle is taken for that of another stop.
BeginStopOfAnother ==
  \/ /\ isRecording
     /\ DetachStoppedSession(pipeline)
     /\ stopFinalizing' = session + 1
     /\ recordStatus' = "finalizing"
  \/ /\ ~isRecording
     /\ stopFinalizing' = 0
     /\ UNCHANGED <<fin, pipeline, outputPath, isRecording, recordStatus>>

BeginBackgroundStop ==
  \/ /\ isRecording
     /\ DetachStoppedSession(pipeline)
     /\ stopFinalizing' = session
     /\ recordStatus' = "finalizing"
  \/ /\ ~isRecording
     /\ stopFinalizing' = 0
     /\ UNCHANGED <<fin, pipeline, outputPath, isRecording, recordStatus>>

GuiStopRecording ==
  /\ UiFree /\ guiRecording
  /\ BeginBackgroundStop
  /\ guiRecording' = FALSE
  /\ UNCHANGED <<streamSettings, pipelineBuildFailed, replay, ringCount, session, request>>
  /\ UNCHANGED GuiUntouched

\* No frame for no_frame_timeout: the stop's own status is overridden.
GuiAbortStalled ==
  /\ UiFree /\ guiRecording
  /\ IF isRecording THEN DetachStoppedSession(pipeline)
     ELSE UNCHANGED <<fin, pipeline, outputPath, isRecording>>
  /\ guiRecording' = FALSE
  /\ stopFinalizing' = 0
  /\ recordStatus' = "no_frames"
  /\ UNCHANGED <<streamSettings, pipelineBuildFailed, replay, ringCount, session, request>>
  /\ UNCHANGED GuiUntouched

\* Mutant: a handle that has not fired counts as finished.
PollWithoutWaiting ==
  /\ UiFree
  /\ stopFinalizing # 0
  /\ stopFinalizing' = 0
  /\ recordStatus' = "saved"
  /\ UNCHANGED <<vars, guiRecording>>

\* Mutant: the handle is not polled during the next recording.
PollBetweenRecordings ==
  /\ UiFree /\ ~guiRecording
  /\ stopFinalizing # 0 /\ fin[stopFinalizing].phase = "done"
  /\ stopFinalizing' = 0
  /\ recordStatus' = "saved"
  /\ UNCHANGED <<vars, guiRecording>>

\* The handle fires, or is disconnected, when the finalizer thread ends.
GuiPollFinalization ==
  /\ UiFree
  /\ stopFinalizing # 0 /\ fin[stopFinalizing].phase = "done"
  /\ stopFinalizing' = 0
  /\ recordStatus' = "saved"
  /\ UNCHANGED <<vars, guiRecording>>

-----------------------------------------------------------------------------
(* Streaming: the Stream workspace's button and OBS Start/StopStreaming.   *)

GuiStartStreaming ==
  /\ Streaming /\ UiFree /\ ~streamSettings
  /\ streamSettings' = TRUE
  /\ \/ ~isRecording /\ BeginSession(StreamRequest)
     \/ /\ isRecording
        /\ UNCHANGED <<session, request, isRecording, pipelineBuildFailed>>
  /\ UNCHANGED <<outputPath, pipeline, replay, ringCount, fin, guiVars>>
  /\ UNCHANGED GuiUntouched

\* stop_streaming_session: a dual session only loses its stream settings.
GuiStopStreaming ==
  /\ Streaming /\ UiFree /\ streamSettings
  /\ streamSettings' = FALSE
  /\ IF isRecording /\ OutputKind # "dual" THEN BeginBackgroundStop
     ELSE UNCHANGED <<fin, pipeline, outputPath, isRecording,
                      stopFinalizing, recordStatus>>
  /\ UNCHANGED <<guiRecording, pipelineBuildFailed, replay, ringCount, session, request>>
  /\ UNCHANGED GuiUntouched

-----------------------------------------------------------------------------
Gui == \/ \E p \in Paths, start \in Starts : GuiStartRecording(p, start)
       \/ GuiRefuseRecording \/ GuiFrame \/ GuiTakeError
       \/ GuiStopRecording \/ GuiAbortStalled \/ GuiPollFinalization
       \/ GuiStartStreaming \/ GuiStopStreaming \/ GuiChangeReplay

AppNext == \/ Gui
           \/ \E s \in Sessions : (CaptureSample(s) \/ Finalizer(s)) /\ UNCHANGED guiVars

AppSpec == AppInit /\ [][AppNext]_appVars

\* The UI repaints while a stop finalization is in flight, so it polls; the
\* error of a frame is taken in that frame.
AppFairSpec ==
  /\ AppSpec
  /\ WF_appVars(GuiPollFinalization) /\ WF_appVars(GuiTakeError)
  /\ \A s \in Sessions : WF_appVars(Finalizer(s) /\ UNCHANGED guiVars)

-----------------------------------------------------------------------------
(* Properties.                                                             *)

\* The GUI's variables have their types.
AppTypeOK == /\ guiRecording \in BOOLEAN
             /\ stopFinalizing \in 0..MaxSessions
             /\ recordStatus \in Statuses

\* When the engine gave up the session of a recording by itself, the user who
\* still sees it running is told: no "saved" or "finalizing" of an earlier one
\* covers the error ("An error beats the flip of a still-pending background
\* stop"), and no way of stopping a stream ends that session silently.
DeadRecordingShowsError ==
  guiRecording /\ ~isRecording /\ request[session].kind = "record"
    => lastError \/ recordStatus = "error"

\* "Recording saved." is about the last session: with none running, it is
\* shown only once that session's finalizer has ended, never for an earlier
\* one that happened to end meanwhile.
SavedMeansDone ==
  recordStatus = "saved" /\ ~isRecording /\ ~lastError => fin[session].phase = "done"

\* The completion handle of a background stop is let go in the end: the stop is
\* reported, or something later took its place on the status line.
StopIsReported == stopFinalizing # 0 ~> stopFinalizing = 0

\* A "finalizing..." state clears itself.
FinalizingClears == recordStatus = "finalizing" ~> recordStatus # "finalizing"
=============================================================================
