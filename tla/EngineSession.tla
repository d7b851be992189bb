---------------------------- MODULE EngineSession ----------------------------
(***************************************************************************)
(* The session life cycle of RivuletEngine (rivulet-core/src/lib.rs): the  *)
(* calls an embedder makes from the one thread that owns the engine, the   *)
(* GStreamer threads that write encoded packets into the shared replay     *)
(* ring, and the finalizer threads that stop_recording_background leaves   *)
(* behind.                                                                 *)
(*                                                                         *)
(* A session is what one successful start_streaming or                     *)
(* start_local_recording begins; sessions are numbered in the order they   *)
(* start.  The pipeline is built lazily by the first frame, at most one    *)
(* per session as long as service_streaming is not called (StreamReconnect *)
(* models that part), so a session's number also names its pipeline and    *)
(* the finalizer thread that tears it down.                                *)
(*                                                                         *)
(* Media is abstracted to its origin: the content of a replay ring is the  *)
(* set of the sessions that have a packet in it.                           *)
(***************************************************************************)
EXTENDS Naturals, FiniteSets

CONSTANTS Paths,        \* the output paths an embedder passes
          NoPath,       \* output_path = None
          MaxSessions,  \* bound: sessions started in a behaviour
          MaxRings,     \* bound: replay rings allocated in a behaviour
          StopModes,    \* which of stop_recording / stop_recording_background
          Faults        \* which environment faults may happen

ASSUME PathsAssumption == NoPath \notin Paths
ASSUME BoundsAssumption == MaxSessions \in Nat /\ MaxRings \in Nat
ASSUME StopModesAssumption == StopModes \subseteq {"sync", "background"}
ASSUME FaultsAssumption == Faults \subseteq {"build", "push"}

VARIABLES
  isRecording,          \* is_recording
  pipelineBuildFailed,  \* pipeline_build_failed
  outputPath,           \* output_path
  streamSettings,       \* stream_settings.is_some()
  lastError,            \* last_error.is_some()
  videoEncoder,         \* video_encoder: hardware or software x264
  pipeline,             \* the session whose pipeline the engine holds, or 0
  replay,               \* the ring the engine's Arc points to, or 0
  blockedOn,            \* the session stop_recording is finalizing, or 0
  pipes,                \* the GStreamer pipelines, by session
  rings,                \* the content of the replay rings
  ringCount,            \* rings allocated so far
  fin,                  \* the StoppedParts and progress of each finalizer
  session,              \* sessions started so far (history)
  request,              \* what each session was started for (history)
  builds                \* parse attempts of each session (history)

engineVars == <<isRecording, pipelineBuildFailed, outputPath, streamSettings,
                lastError, videoEncoder, pipeline, replay,
                blockedOn>>
worldVars  == <<pipes, rings, ringCount, fin>>
histVars   == <<session, request, builds>>
vars       == <<engineVars, worldVars, histVars>>

Sessions == 1..MaxSessions
Rings    == 1..MaxRings
PathOpt  == Paths \cup {NoPath}

\* A finalizer owns its StoppedParts and walks finalize_stopped_session:
\* drain (EOS pushed, waiting), stop (to Null), clear (the ring), post
\* (remux, upload), done.  "idle" is a session that was never stopped.
Phases == {"idle", "drain", "stop", "clear", "post", "done"}

NoPipe  == [state |-> "absent", kind |-> "none", path |-> NoPath, ring |-> 0]
NoParts == [phase |-> "idle", path |-> NoPath, ring |-> 0]

\* What the caller of start_streaming or start_local_recording asked for.
NoRequest        == [kind |-> "none", path |-> NoPath]
StreamRequest    == [kind |-> "stream", path |-> NoPath]
RecordRequest(p) == [kind |-> "record", path |-> p]

Init ==
  /\ isRecording = FALSE /\ pipelineBuildFailed = FALSE
  /\ outputPath = NoPath /\ streamSettings = FALSE
  /\ lastError = FALSE
  /\ videoEncoder \in {"hardware", "software"}
  /\ pipeline = 0 /\ replay = 0 /\ blockedOn = 0
  /\ pipes = [s \in Sessions |-> NoPipe]
  /\ rings = [r \in Rings |-> {}]
  /\ ringCount = 0
  /\ fin = [s \in Sessions |-> NoParts]
  /\ session = 0
  /\ request = [s \in Sessions |-> NoRequest]
  /\ builds = [s \in Sessions |-> 0]

-----------------------------------------------------------------------------
(* Configuration.  The owner thread is inside stop_recording while         *)
(* blockedOn is set, so no other call can be made then.                    *)

OwnerFree == blockedOn = 0

\* is_dual_output and the choice build_pipeline_str makes.
OutputKind ==
  CASE streamSettings /\ outputPath # NoPath  -> "dual"
    [] streamSettings /\ outputPath = NoPath  -> "stream"
    [] ~streamSettings /\ outputPath # NoPath -> "record"
    [] OTHER                                  -> "none"

HasFile(kind) == kind \in {"dual", "record"}

SetStreamSettings(on) ==
  /\ OwnerFree
  /\ streamSettings' = on
  /\ UNCHANGED <<isRecording, pipelineBuildFailed, outputPath, lastError, videoEncoder, pipeline, replay, blockedOn>>
  /\ UNCHANGED <<worldVars, histVars>>

SetVideoEncoder(e) ==
  /\ OwnerFree
  /\ videoEncoder' = e
  /\ UNCHANGED <<isRecording, pipelineBuildFailed, outputPath, streamSettings,
                 lastError, pipeline, replay, blockedOn>>
  /\ UNCHANGED <<worldVars, histVars>>

\* An existing ring is resized in place and keeps its Arc, so a pipeline that
\* is still draining and the next session's pipeline share it.
EnableReplay ==
  IF replay # 0 THEN UNCHANGED <<replay, ringCount>>
  ELSE /\ ringCount < MaxRings
       /\ ringCount' = ringCount + 1
       /\ replay' = ringCount + 1

SetReplayDuration ==
  /\ OwnerFree
  /\ EnableReplay
  /\ UNCHANGED <<isRecording, pipelineBuildFailed, outputPath, streamSettings,
                 lastError, videoEncoder, pipeline, blockedOn>>
  /\ UNCHANGED <<pipes, rings, fin, histVars>>

DisableReplay ==
  /\ OwnerFree
  /\ replay' = 0
  /\ UNCHANGED <<isRecording, pipelineBuildFailed, outputPath, streamSettings,
                 lastError, videoEncoder, pipeline, blockedOn>>
  /\ UNCHANGED <<worldVars, histVars>>

TakeError ==
  /\ OwnerFree /\ lastError
  /\ lastError' = FALSE
  /\ UNCHANGED <<isRecording, pipelineBuildFailed, outputPath, streamSettings,
                 videoEncoder, pipeline, replay, blockedOn>>
  /\ UNCHANGED <<worldVars, histVars>>

-----------------------------------------------------------------------------
(* Starting a session.  Both calls do nothing while one is active.         *)

BeginSession(asked) ==
  /\ session < MaxSessions
  /\ session' = session + 1
  /\ request' = [request EXCEPT ![session + 1] = asked]
  /\ isRecording' = TRUE
  /\ pipelineBuildFailed' = FALSE

\* start_streaming leaves output_path alone.
StartStreaming ==
  /\ OwnerFree /\ ~isRecording
  /\ \/ /\ streamSettings
        /\ BeginSession(StreamRequest)
        /\ UNCHANGED lastError
     \/ /\ ~streamSettings
        /\ lastError' = TRUE
        /\ UNCHANGED <<session, request, isRecording, pipelineBuildFailed>>
  /\ UNCHANGED <<outputPath, streamSettings, videoEncoder, pipeline, replay, blockedOn, worldVars, builds>>

\* Mutant: a path left over from an earlier session is kept.
BeginWithOldPath(p) ==
  /\ BeginSession(RecordRequest(p))
  /\ outputPath' = IF outputPath = NoPath THEN p ELSE outputPath

BeginLocalRecording(p) ==
  /\ BeginSession(RecordRequest(p))
  /\ outputPath' = p

StartLocalRecording(p) ==
  /\ OwnerFree /\ ~isRecording
  /\ BeginLocalRecording(p)
  /\ UNCHANGED <<streamSettings, lastError, videoEncoder, pipeline, replay, blockedOn, worldVars, builds>>

-----------------------------------------------------------------------------
(* Stopping one: detach_stopped_session resets the engine and hands the    *)
(* pipeline, the path and the ring the engine holds NOW to a finalizer.    *)

\* Mutant: the pipeline is not handed to the finalizer.
DetachWithoutPipeline(held) ==
  /\ fin' = [fin EXCEPT ![session] = [phase |-> "clear", path |-> outputPath, ring |-> replay]]
  /\ pipeline' = 0
  /\ outputPath' = NoPath /\ isRecording' = FALSE

\* Mutant: output_path is reset before it is copied.
DetachAfterReset(held) ==
  /\ fin' = [fin EXCEPT ![session] = [phase |-> IF held = 0 THEN "clear" ELSE "drain",
                                     path |-> NoPath, ring |-> replay]]
  /\ pipeline' = 0
  /\ outputPath' = NoPath /\ isRecording' = FALSE

DetachStoppedSession(held) ==
  /\ fin' = [fin EXCEPT ![session] =
       [phase |-> IF held = 0 THEN "clear" ELSE "drain",
        path  |-> outputPath, ring |-> replay]]
  /\ pipeline' = 0
  /\ outputPath' = NoPath
  /\ isRecording' = FALSE

StopRecordingBackground ==
  /\ "background" \in StopModes
  /\ OwnerFree /\ isRecording
  /\ DetachStoppedSession(pipeline)
  /\ UNCHANGED <<pipelineBuildFailed, streamSettings, lastError, videoEncoder,
                 replay, blockedOn, pipes, rings, ringCount, histVars>>

\* Mutant: the caller waits for a finalizer that is not the one it started.
StopRecordingForAnother ==
  /\ "sync" \in StopModes
  /\ OwnerFree /\ isRecording
  /\ DetachStoppedSession(pipeline)
  /\ blockedOn' = session + 1
  /\ UNCHANGED <<pipelineBuildFailed, streamSettings, lastError, videoEncoder,
                 replay, pipes, rings, ringCount, histVars>>

\* The same, but the owner finalizes on its own thread and is blocked.
StopRecording ==
  /\ "sync" \in StopModes
  /\ OwnerFree /\ isRecording
  /\ DetachStoppedSession(pipeline)
  /\ blockedOn' = session
  /\ UNCHANGED <<pipelineBuildFailed, streamSettings, lastError, videoEncoder,
                 replay, pipes, rings, ringCount, histVars>>

-----------------------------------------------------------------------------
(* process_raw_frame: the first frame of a session builds the pipeline.    *)

NeedsPipeline ==
  /\ OwnerFree /\ isRecording
  /\ pipeline = 0 /\ ~pipelineBuildFailed
  /\ OutputKind # "none"

\* The encoders initialize_and_start_pipeline tries, each with the number of
\* parses it takes to get there: a hardware encoder that cannot start falls
\* back to software once.
TriedEncoders == IF videoEncoder = "hardware"
                 THEN {<<"hardware", 1>>, <<"software", 2>>}
                 ELSE {<<"software", 1>>}

NewPipe == [state |-> "playing", kind |-> OutputKind, ring |-> replay,
            path  |-> IF HasFile(OutputKind) THEN outputPath ELSE NoPath]

\* Mutant: a failed build neither ends the session nor arms the retry guard.
BuildFailsUnguarded ==
  /\ "build" \in Faults
  /\ NeedsPipeline
  /\ videoEncoder' = "software"
  /\ builds' = [builds EXCEPT ![session] = @ + Cardinality(TriedEncoders)]
  /\ lastError' = TRUE
  /\ UNCHANGED <<isRecording, pipelineBuildFailed, outputPath, streamSettings, pipeline, replay, blockedOn, worldVars, session, request>>

\* Every encoder was tried and failed: the session ends without a stop.
BuildFails ==
  /\ "build" \in Faults
  /\ NeedsPipeline
  /\ videoEncoder' = "software"
  /\ builds' = [builds EXCEPT ![session] = @ + Cardinality(TriedEncoders)]
  /\ pipelineBuildFailed' = TRUE
  /\ isRecording' = FALSE
  /\ lastError' = TRUE
  /\ UNCHANGED <<outputPath, streamSettings, pipeline, replay, blockedOn, worldVars, session, request>>

\* What remains of process_raw_frame once the engine holds pipeline p: the
\* frame is pushed, or the push and its three retries fail and the session is
\* detached, its completion handle dropped.
PushFrame(p) ==
  \/ /\ pipeline' = p
     /\ UNCHANGED <<isRecording, outputPath, lastError, fin>>
  \/ /\ "push" \in Faults
     /\ lastError' = TRUE
     /\ DetachStoppedSession(p)

BuildAndPushFrame ==
  /\ NeedsPipeline
  /\ \E try \in TriedEncoders :
       /\ try[2] = 1 \/ "build" \in Faults
       /\ videoEncoder' = try[1]
       /\ builds' = [builds EXCEPT ![session] = @ + try[2]]
  /\ pipes' = [pipes EXCEPT ![session] = NewPipe]
  /\ PushFrame(session)
  /\ UNCHANGED <<pipelineBuildFailed, streamSettings, replay, blockedOn,
                 rings, ringCount, session, request>>

PushNextFrame ==
  /\ OwnerFree /\ isRecording /\ pipeline # 0
  /\ PushFrame(pipeline)
  /\ UNCHANGED <<pipelineBuildFailed, streamSettings, videoEncoder, replay, blockedOn, pipes, rings, ringCount, histVars>>

ProcessRawFrame == BuildFails \/ BuildAndPushFrame \/ PushNextFrame

-----------------------------------------------------------------------------
(* The GStreamer streaming thread of pipeline s: the appsink callback of   *)
(* install_replay_capture writes to the ring captured when the pipeline    *)
(* was built, until the pipeline is Null.                                  *)

CaptureSample(s) ==
  /\ pipes[s].state \in {"playing", "draining"}
  /\ pipes[s].ring # 0
  /\ rings' = [rings EXCEPT ![pipes[s].ring] = @ \cup {s}]
  /\ UNCHANGED <<engineVars, pipes, ringCount, fin, histVars>>

-----------------------------------------------------------------------------
(* finalize_stopped_session, in the finalizer of session s.                *)

\* Mutant: the ring is cleared before the pipeline is Null.
DrainWithoutStop(s) ==
  /\ fin[s].phase = "drain"
  /\ fin' = [fin EXCEPT ![s].phase = "clear"]
  /\ pipes' = [pipes EXCEPT ![s].state = "draining"]
  /\ UNCHANGED <<engineVars, rings, ringCount, histVars>>

\* EOS is pushed on every appsrc; the bus then gives EOS, an error, or
\* nothing for ten seconds: all three go on.
FinalizerDrain(s) ==
  /\ fin[s].phase = "drain"
  /\ fin' = [fin EXCEPT ![s].phase = "stop"]
  /\ pipes' = [pipes EXCEPT ![s].state = "draining"]
  /\ UNCHANGED <<engineVars, rings, ringCount, histVars>>

\* Mutant: the pipeline is dropped without being set to Null.
StopWithoutNull(s) ==
  /\ fin[s].phase = "stop"
  /\ fin' = [fin EXCEPT ![s].phase = "clear"]
  /\ UNCHANGED <<engineVars, pipes, rings, ringCount, histVars>>

FinalizerStop(s) ==
  /\ fin[s].phase = "stop"
  /\ fin' = [fin EXCEPT ![s].phase = "clear"]
  /\ pipes' = [pipes EXCEPT ![s].state = "null"]
  /\ UNCHANGED <<engineVars, rings, ringCount, histVars>>

\* Mutant: the ring keeps the clip of the session that ended.
KeepRing(s) ==
  /\ fin[s].phase = "clear"
  /\ fin' = [fin EXCEPT ![s].phase = "post"]
  /\ UNCHANGED <<engineVars, pipes, rings, ringCount, histVars>>

FinalizerClearRing(s) ==
  /\ fin[s].phase = "clear"
  /\ fin' = [fin EXCEPT ![s].phase = "post"]
  /\ rings' = IF fin[s].ring = 0 THEN rings
              ELSE [rings EXCEPT ![fin[s].ring] = {}]
  /\ UNCHANGED <<engineVars, pipes, ringCount, histVars>>

\* Mutant: a synchronous stop never returns to its caller.
PostWithoutReturn(s) ==
  /\ fin[s].phase = "post"
  /\ fin' = [fin EXCEPT ![s].phase = "done"]
  /\ UNCHANGED <<engineVars, pipes, rings, ringCount, histVars>>

\* remux_finished_recording and upload_finished_recording; a synchronous stop
\* returns to its caller.
FinalizerPost(s) ==
  /\ fin[s].phase = "post"
  /\ fin' = [fin EXCEPT ![s].phase = "done"]
  /\ blockedOn' = IF blockedOn = s THEN 0 ELSE blockedOn
  /\ UNCHANGED <<isRecording, pipelineBuildFailed, outputPath, streamSettings,
                 lastError, videoEncoder, pipeline, replay,
                 pipes, rings, ringCount, histVars>>

Finalizer(s) == \/ FinalizerDrain(s) \/ FinalizerStop(s)
                \/ FinalizerClearRing(s) \/ FinalizerPost(s)

-----------------------------------------------------------------------------
Owner ==
  \/ \E on \in BOOLEAN : SetStreamSettings(on)
  \/ \E e \in {"hardware", "software"} : SetVideoEncoder(e)
  \/ SetReplayDuration \/ DisableReplay \/ TakeError
  \/ StartStreaming
  \/ \E p \in Paths : StartLocalRecording(p)
  \/ StopRecording \/ StopRecordingBackground
  \/ ProcessRawFrame

Next == \/ Owner
        \/ \E s \in Sessions : CaptureSample(s) \/ Finalizer(s)

Spec == Init /\ [][Next]_vars

\* A finalizer is a thread of straight-line code whose waits have a limit each: ten
\* seconds for EOS, 300 for the upload, sixty for the remux.
FairSpec == Spec /\ \A s \in Sessions : WF_vars(Finalizer(s))

-----------------------------------------------------------------------------
(* Properties.                                                             *)

PipeType == [state : {"absent", "playing", "draining", "null"},
             kind  : {"none", "record", "stream", "dual"},
             path  : PathOpt, ring : 0..MaxRings]

PartsType == [phase : Phases, path : PathOpt, ring : 0..MaxRings]

\* Every variable of the engine and its surroundings has its type.
TypeOK ==
  /\ isRecording \in BOOLEAN /\ pipelineBuildFailed \in BOOLEAN
  /\ outputPath \in PathOpt /\ streamSettings \in BOOLEAN
  /\ lastError \in BOOLEAN
  /\ videoEncoder \in {"hardware", "software"}
  /\ pipeline \in 0..MaxSessions
  /\ replay \in 0..MaxRings /\ blockedOn \in 0..MaxSessions
  /\ pipes \in [Sessions -> PipeType]
  /\ rings \in [Rings -> SUBSET Sessions]
  /\ ringCount \in 0..MaxRings
  /\ fin \in [Sessions -> PartsType]
  /\ session \in 0..MaxSessions
  /\ request \in [Sessions -> [kind : {"none", "record", "stream"}, path : PathOpt]]
  /\ builds \in [Sessions -> Nat]

Live(s) == pipes[s].state \in {"playing", "draining"}

\* A pipeline that is not Null has exactly one owner: the engine, while its
\* session is the active one, or the finalizer that still has to bring it to
\* Null.  None is forgotten by detach_stopped_session and none is torn down
\* under the engine, whatever the order of stops, failures and restarts.
LivePipelineHasOneOwner ==
  \A s \in Sessions :
    LET engineOwns    == pipeline = s /\ isRecording /\ session = s
        finalizerOwns == fin[s].phase \in {"drain", "stop"}
    IN /\ Live(s) <=> (engineOwns \/ finalizerOwns)
       /\ ~(engineOwns /\ finalizerOwns)

\* Once the finalizer of a session is past the ring, that ring never again
\* holds a packet of the session: the pipeline is Null before the ring is
\* cleared, so its streaming threads cannot write after the clear.
NoPacketAfterClear ==
  \A s \in Sessions :
    fin[s].phase \in {"post", "done"} /\ fin[s].ring # 0
      => s \notin rings[fin[s].ring]

\* A session parses its pipeline description at most once per encoder it
\* tries, however many frames arrive: no per-frame retry storm.
BuildsBounded == \A s \in Sessions : builds[s] <= 2

\* Session t was to record into a file and its pipeline was never built, and no
\* session from then to n was anything but a stream without a pipeline: nothing
\* has reset output_path since.
LeftBehind(t, n) ==
  /\ request[t].kind = "record"
  /\ \A u \in t..n : /\ pipes[u].state = "absent" /\ fin[u].phase = "idle"
                    /\ u # t => request[u].kind = "stream"

LeftPath(n, path) == \E t \in 1..n : LeftBehind(t, n) /\ path = request[t].path

\* A recording writes the very file its caller passed to start_local_recording,
\* whatever was configured, stopped or failed between that call and the first
\* frame, and whichever path an earlier session left in output_path.  A stream
\* writes no file, with the one exception the code makes: after a recording that
\* failed to build, streams write the file that was asked for it.
FileAsRequested ==
  \A s \in Sessions :
    pipes[s].state # "absent" =>
      /\ request[s].kind = "record" => HasFile(pipes[s].kind) /\ pipes[s].path = request[s].path
      /\ request[s].kind = "stream" /\ HasFile(pipes[s].kind)
           => LeftPath(s - 1, pipes[s].path)

\* The file that is remuxed and uploaded after a stop is the one the session's
\* pipeline wrote: output_path cannot move while the session runs.
PostProcessesItsFile ==
  \A s \in Sessions :
    fin[s].phase # "idle" /\ pipes[s].state # "absent"
      => fin[s].path = pipes[s].path

\* Once no stop is being finalized, the clip that can be saved is of the running
\* session alone, however its ring was shared, switched off and on or cleared.
ReplayOnlyOfSession ==
  /\ isRecording /\ pipeline # 0 /\ pipes[pipeline].ring # 0
  /\ \A s \in Sessions : fin[s].phase \in {"idle", "done"}
  => rings[pipes[pipeline].ring] \subseteq {pipeline}

\* A packet of a session that is running is never taken out of the ring by
\* the end of another session.
RunningReplayKept ==
  [][\A r \in Rings : \A s \in rings[r] \ rings'[r] : ~(pipeline = s /\ isRecording)]_vars

\* Every stop finishes: the finalizer gets to the end of the file's
\* post-processing, and a synchronous stop gives the engine back.
StopCompletes ==
  /\ \A s \in Sessions : fin[s].phase # "idle" ~> fin[s].phase = "done"
  /\ blockedOn # 0 ~> blockedOn = 0

\* The engine implements the session life cycle an embedder relies on: the
\* stage of a session is read off the engine and its finalizer, its output off
\* the pipeline.
StageOf(s) ==
  CASE s > session                             -> "unused"
    [] s = session /\ isRecording              -> "active"
    [] fin[s].phase \in {"drain", "stop", "clear", "post"} -> "finalizing"
    [] fin[s].phase = "done"                   -> "finished"
    [] OTHER                                   -> "failed"
OutputOf(s) ==
  CASE pipes[s].state = "absent" -> "absent"
    [] pipes[s].state = "null"   -> "closed"
    [] OTHER                     -> "open"

stages  == [s \in Sessions |-> StageOf(s)]
outputs == [s \in Sessions |-> OutputOf(s)]

Lifecycle == INSTANCE SessionLifecycle WITH stage <- stages, output <- outputs

ImplementsLifecycle == Lifecycle!LifeFairSpec
=============================================================================
