# A verified model of Rivulet's engine and its components

TLA+ modules, TLC configurations and TLAPS proofs about Rivulet, an embeddable
recording and streaming engine (`rivulet-core`) with a desktop GUI
(`rivulet-gui`). Everything is translated from the Rust source; line numbers
below are of the repository this directory was written against, and
`PROJECT.json` gives the lines of every definition.

Contents: 1 inventory, 2 modules and how they correspond to the code, 3 runs,
4 proofs, 5 what the checks found, 6 what is left out, 7 plan.

## 1. Inventory

Rivulet is a Cargo workspace of 14 crates. The engine takes raw frames from its
embedder, builds a GStreamer pipeline lazily, and records to a file, streams to
one or several ingests, or both. The GUI, the command line and the OBS
WebSocket server drive the engine; integrations feed or observe it.

| Component | State it keeps | Operations | Interacts with | Hard about it |
|---|---|---|---|---|
| **Engine sessions** `lib.rs` | `is_recording`, `pipeline`, `output_path`, `stream_settings`, `pipeline_build_failed`, `video_encoder`, `replay`, `last_error`; the `StoppedParts` of finalizers | start a recording or a stream, push a frame, stop (blocking or in the background), replay on and off | GStreamer threads write encoded packets to the replay ring; finalizer threads tear pipelines down | a finalizer runs while the next session is already active and shares its ring; a frame can build, fail or end a session; failure of build or push at any frame |
| **Stream targets** `lib.rs`, `reconnect.rs` | target states, the supervisor's retry records, one worker thread, the bus | report failed or live, poll the bus, poll retries, drain the worker, rebuild a sink | bus messages of sinks, timer thread, embedder | late and duplicate messages, one worker for many targets, a rebuild that fails half way |
| **GUI controls** `app.rs` | `is_recording`, `stop_finalizing`, `record_status` | record, stop, stream, stop streaming, poll, abort a stalled recording | owns the engine; capture thread; OBS commands | streaming and recording share one engine session; late completions against errors |
| **Headless recording** `recording_job.rs` | job state, running flag, counters, event channel | start, push, pause, resume, stop, drop | ticker thread, broadcast receivers | a finalize racing the ticker; lagging receivers; drop in any state |
| Replay buffer `replay.rs` | packets of a video and several audio tracks, newest time stamps | push, evict, set duration, clear, clip | written by streaming threads, read by save | eviction of two tracks against one window that changes; time stamps of a clip |
| Adaptive bitrate and delay `stream_runtime.rs`, `stream.rs`, `health.rs` | bitrate, pending samples, last change | update per health sample | `service_adaptive_bitrate`, settings, sessions | a cooldown over a clock that restarts |
| Capture channel `capture_channel.rs`, Vulkan layer | shared memory frame with a header | write frame, read frame | a hook in another process, no lock | headers and frames half overwritten |
| Alert ingest `alerts_ingest.rs`, `alerts_webhook.rs`, `alerts_eventsub.rs` | queue, notices, a budget per source and window; channels; worker and webhook threads | settings, push, drain, reconnect, shut down | webhook threads, EventSub worker, UI frame | one notice for a burst that goes on; joining a worker that waits for the joining thread, or for the network without a limit |
| Chat `chat.rs`, `twitch_chat.rs`, `youtube_chat.rs`, `kick_chat.rs`, `rate_limit.rs` | token bucket, queue, worker, quota | connect, disconnect, send, drain, reconnect | worker threads and channels | old workers beside new ones, requests without a time-out, budget at its limit |
| Studio mode and scenes `studio.rs`, `scene.rs`, `scene_dock.rs`, `transition.rs` | scenes with parents, active scene and history, undo stacks, preview, program | add, remove, drop, switch, undo, import, take | dock, hotkeys, MIDI, OBS commands, renderer | batches on a tree, snapshots, two notions of what is live |
| OBS WebSocket server `rivulet-obs-websocket` | sessions, queues, command channel; the UI's baseline | handshake, request, event, restart | session threads and the UI thread | results that come late, events in the wrong order or not at all, clients that stop reading |
| Plugins `plugin_*.rs` | registry, instances | register, load, call, unload | sandboxed runtime | faulty plugins, limits |
| Updater `rivulet-updater` | update state, worker threads, one file, watchdog process | check, download, verify, install | network, file system, watchdog | clicks that wait while a thread writes the file |
| Crash records `crash_record.rs` | one file per crash, the prompt | write and rotate, read latest, clear | panic hook, next launch | torn files, the clock, a full directory |
| Files, containers, cloud | names and settings | name, split, remux, upload | file system, S3 | rules without steps |
| Encoders, audio, capture, integrations | parameters, devices | configure, start, stop | operating system | I/O |

What makes each of the modelled components correct:

- **Engine sessions.** At most one active session; no live pipeline is ever
  forgotten or torn down under its user; every stop is finalized; a recording
  writes the very file that was asked for, and that one is post-processed; a clip
  is of the session that is running; a pipeline that cannot be built is not
  tried again with every frame.
- **Stream targets.** A failed target has a timer until it is rebuilt, and is
  not rebuilt without end; a duplicate report changes nothing; both records of
  a target's state agree; what a sink reports reaches its target.
- **GUI controls.** The status line never covers an engine failure by an older
  success, never says *saved* of a recording that is not, and does not stay at
  *finalizing*.
- **Replay buffer.** A clip has everything its window promises, and no track
  holds what is older than the window before its own newest packet.
- **Adaptive bitrate.** Changes are small, within bounds and a cooldown apart.
- **Capture channel.** No mixture of two headers passes for a frame.
- **Alerts.** A burst is announced by one line with the right number; threads
  that are joined end, as far as the network answers them.
- **Chat.** The platform's rate is kept; a worker told to stop ends unless the
  platform leaves it waiting.
- **Scenes.** The tree stays a tree with an active scene, in every snapshot;
  what studio mode calls program is what is sent.
- **OBS server.** Clients believe what is so, no command outlives its server,
  sessions end with it unless their clients stop reading.
- **Updater.** Only a complete and verified file is installed.
- **Crash records.** A crash nobody has seen is offered at the next launch.

## 2. Modules

### EngineSession (specification), SessionLifecycle (abstract specification)

`EngineSession.tla` is `RivuletEngine` as a session machine. The processes are
the thread that owns the engine (`Owner`), the streaming thread of each
pipeline (`CaptureSample`) and the finalizer of each stopped session
(`Finalizer`). Sessions are numbered as they start; without
`service_streaming` a session builds at most one pipeline, so the number names
its pipeline and its finalizer as well.

| Model | Code |
|---|---|
| `isRecording`, `pipelineBuildFailed`, `outputPath`, `streamSettings`, `lastError`, `videoEncoder`, `pipeline`, `replay` | the fields of the same names in `RivuletEngine` (lib.rs:348); an `Option` whose content no property distinguishes is a Boolean |
| `pipes` | the GStreamer pipelines: state, what they write and the ring their appsinks captured |
| `rings`, `ringCount` | the `Arc<Mutex<ReplayBuffer>>`s ever allocated, each reduced to the sessions that have a packet in it |
| `fin` | `StoppedParts` and how far `finalize_stopped_session` got |
| `blockedOn` | the owner is inside `stop_recording` |
| `session`, `request`, `builds` | history: sessions started, the call that started each with the path it was given, parse attempts |

`process_raw_frame` is one action with three outcomes (`BuildFails`,
`BuildAndPushFrame`, `PushNextFrame`), since nothing of the owner can happen in
between; a push that fails after its retries detaches the session in that same
action. `finalize_stopped_session` is four actions, for streaming threads and
the owner run between its steps: EOS and the bounded wait, Null, clearing the
ring, remux and upload. `SetReplayDuration` resizes an existing ring in place,
so its `Arc` survives the session, which is what two of the properties are
about.

`SessionLifecycle.tla` is what an embedder relies on, in terms of a stage and an
output per session: one active session at a time, sessions begin in order, an
output opens at most once and only in an active session, a session is finished
only when its output is closed, and what is finalizing gets finished.
`EngineSession` reads `stage` off the engine and the finalizer, and `output` off
the pipeline (`StageOf`, `OutputOf`).

### AppSession

`AppSession.tla` EXTENDS `EngineSession` and replaces its owner by the UI thread
of the Linux GUI. It adds `guiRecording` (`is_recording` of the app),
`stopFinalizing` (the completion handle, as the session it belongs to) and
`recordStatus` (what `record_status` says). One click is one action with all the
engine calls it makes; the frame pump is `GuiFrame`, and as in `update`
(app.rs:13400) the error of a frame is taken before the next click, which is the
guard `UiFree`. The two ways a recording starts differ in one assignment the
model keeps: `start_linux_recording` drops an older completion handle
(app.rs:4289), `try_start_pipewire_recording` does not (app.rs:4119).

### StreamReconnect

`StreamReconnect.tla` is the stream side: `reconnect.rs` and lib.rs:721-915. A
call of `service_streaming` is spread over `BeginService`, `PollStreamBus` (one
message per step), `DrainReconnectCommands` and the rebuild, because the bus
and the worker thread move in between; no other call of the owner can. Time
counts in units of `MIN_BACKOFF`: `Tick` advances both clocks the code reads,
the one since configuration and the worker's wait.

| Model | Code |
|---|---|
| `configured`, `states` | `stream_targets`, `stream_target_states` |
| `supervised`, `retry`, `elapsed` | `reconnect_supervisor` with its `TargetReconnectState`s, time since `reconnect_started`; `retryAt = 0` is `None` |
| `worker` | `reconnect_worker`: its target, what is left of its wait, whether its command was sent and read |
| `active`, `streamPipeline`, `sinks`, `streamBus` | `is_recording`, the pipeline, the `stream_sink_<i>` elements it has, its bus |
| `streamPc`, `command` | where the owner is inside `service_streaming` |

`Sinks`, which targets have a sink element in the built pipeline, is a
parameter: with several targets `build_streaming_pipeline_str` (lib.rs:1952)
chains the next branch behind a sink element, and what GStreamer makes of that
is not visible in this code. `StartTargets`, `StopTargets` and `SetSingleStream`
are what `start_streaming`, a stop and `set_stream_settings` do to the targets.

### RecordingJob

`RecordingJob.tla` is one job of the headless API, from `start` to its report.
The owner's `finalize`, which `stop` and `Drop` share, is cut where another
thread can be seen to move: clearing `running`, the join, EOS, the wait for the
muxer, NULL, the report (`Finalize`, `JoinTicker`, `SendEos`, `AwaitDrain`,
`SetNull`, `SendReport`). The ticker is its loop (`TickerLoop`, `TickerPop`,
`TickerCheck`, `TickerFail`, `TickerProgress`). Both threads pop from one bus,
and a filtered pop throws away what it is not looking for (`Pops`); GStreamer
moves buffers (`Mux`), fails (`PostError`) and drains (`Drain`) at any time, or
never.

| Model | Code |
|---|---|
| `state`, `counted`, `running`, `failed`, `jobPipeline` | `state`, `frames` with `audio_samples`, the two flags and the pipeline of `RecordingJob` (recording_job.rs:639) |
| `jobPc`, `ticker`, `popped` | where the owner and the ticker are, and whether the ticker's last pop returned an error |
| `taken`, `muxed`, `ended`, `drained`, `errors`, `jobBus` | the pipeline: buffers accepted and written, EOS sent and arrived, the bus |
| `last`, `told`, `report` | the event channel: its last event, whether `Failed` was sent, the report of `Stopped` |
| `outcome` | what the wait for the muxer returned, which the code drops |

### ObsServer

The processes are the thread of each connection and the UI thread, whose
`reconcile_obs_websocket` is cut in three: `ObsFrame` (start, stop or restart
the server, take the waiting commands), `ObsExecute` per command, and
`ObsBroadcast` (compare with the baseline and broadcast). The user's edits fall
between two frames. `obsView` is what a client was told of each of two outputs,
recording with its three commands and the microphone, which only toggles;
`obsWhy` is the history of why a change was not told. `ObsGiveUp` is the
receive time-out of thirty seconds in `EngineBackend::execute`
(backend.rs:250): the command stays in the channel and may run later. The
upgrade has no read time-out, so a session exists for the model once it has
been upgraded. Writes have none at all: `obsStuck` are the threads inside a
`ws.send` (server.rs:470, 590, 823, 842) whose client has stopped reading
(`ObsStall`), and they see nothing until it reads again (`ObsResume`) or goes
away. Authentication, subscription masks and encodings are left out.

### AlertFeed

Two of the five sources: the webhook receiver with a thread for each delivery,
and the EventSub worker. The frame of the UI (`reconcile_chat`,
app.rs:8843-8900) is a program counter: apply the webhook's settings, drain,
apply EventSub's settings with the join of the old worker (`AlertJoined`),
drain, show. The worker is a phase: the head of its loop (`dial`), the
handshake (`connect`), reading before and after the welcome (`greet`, `read`),
the subscription requests (`post`), the wait for a place in the channel
(`send`) and the sleep before a reconnect. Reads have a time-out of half a
second; the handshake and the requests have none (alerts_eventsub.rs:566, 667),
so their end is an action of its own without fairness (`AlertAnswered`).
`PushFrom` is `push_from` with its window per source, its pending count and its
notices; time only makes windows stale.

### ReplayBuffer

The ring of one session after the other: pushes of both tracks, each followed
by `Evict`, changes of the window, `ReplayClear`. A packet is its time stamp;
video is a set of times with those of its key frames, since the decode time is
monotonic. `ClipVideo` and `ClipTime` are `normalize`.

### ChatSend

A handle (`Chat`) with its limiter, and the worker behind it, for one account.
Tokens are counted in parts of a token so that the bucket's fractions are exact.
A new handle is made at every connect; the old worker has the stop flag and a
disconnect message in its queue, and goes on beside the new one until it sees
either. What it waits for without a limit is an action without fairness
(`ChatAnswered`): the connection or YouTube's page, a message being written or
posted, a poll or a Pong. A plain message is refused when YouTube's quota is used up and a reply
is not (`send_reply` does not call `can_send`), so that a send is always
possible in the model.

### AdaptiveBitrate

The controller with the clock the engine gives it, the time since
`set_multistream_settings` (lib.rs:822), which restarts with each such call and
stands at zero without one. `bitrateNow` is real time; health is an input.

### SharedFrame

Writer (`write_frame_to_shm` of the Vulkan layer, under a mutex of its own
process) and reader (`ShmReader::read_frame`, without any), at the grain of the
words of the header, copied in an order the source does not fix. Each word in
memory is the number of the frame it was written for; `Plausible` is
`is_plausible`.

### Updater

The state of the Settings view, the threads it starts (check, download, verify,
install), the one file they share, and the watchdog process. Buttons set flags
that the next free frame acts on (`HandleUpdateActions`), so a click made while
a thread runs comes into effect later.

### SceneTree

`SceneManager` with its folder tree, switch history and undo stacks, and
`StudioMode`, as the dock, the hotkeys, OBS clients and the import use them.
`CanDrop` is the validation of `set_parent_many`, `Moved` the move; a removal
lifts the children of the removed folder.

### CrashRecords

The panic hook (`CrashPanic`: write, then rotate, torn or refused writes
included), the clock, which may be set back, the prompt at launch and the
report that clears the directory.

### MC modules

`MCEngineSession` adds the symmetry of paths; `MCStreamReconnect` names the
target lists, and `MCStreamRetries` adds the history of how often a target was
rebuilt in a row. `MCEngineParts` puts `EngineSession`, `AppSession`,
`StreamReconnect` and `RecordingJob` side by side as the next module does with
the rest: the four are checked one at a time, in one run. `MCComponents` puts
the nine component modules above side by side: a behaviour picks one of them and
runs it with its own fairness while the others stay in an initial state. They share no state in the code beyond the frame of
the UI thread, whose parts each module has, so interleaving them would multiply
the states and show nothing. `AlertFeed` needs none for the run of its own.

## 3. Runs

All bounds are constants: `MaxSessions`, `MaxRings`, `MaxBus` and the like;
clocks saturate at `MaxBackoff`, beyond which no comparison differs, or stop at
a bound. Deadlock is not checked in `EngineParts`, `JobTeardown`, `Components`
and the violations taken from its modules: a job whose handle is gone is over, and a
component stops when its bounds are used up.

| Run | Bounds | Shows |
|---|---|---|
| `EngineSessions` | 2 paths (symmetric), 2 sessions, 2 rings, both stops, both faults; 3.06 million states | `LivePipelineHasOneOwner`, `NoPacketAfterClear`, `BuildsBounded`, `FileAsRequested`, `PostProcessesItsFile`, `ReplayOnlyOfSession`, `TypeOK` |
| `EngineParts` | the engine alone and under the GUI: 2 sessions, both stops, both starts, streaming, both faults; 2 targets, 3 messages on the bus, rebuilds that fail, backoff up to 4 units; a job of every valid configuration, 2 buffers per stream, 2 errors; 339 thousand states | engine: `StopCompletes`, `ImplementsLifecycle` (safety and fairness of `SessionLifecycle`); GUI: `DeadRecordingShowsError`, `SavedMeansDone`, `StopIsReported`, `AppTypeOK`; targets: `LiveAgrees`, `PendingRetryNotRestarted`, `FailedAloneRetried`, `StreamTypeOK`; job: `EosNotStolen`, `FinalizeOrder`, `StoppedIsLast`, `FinalizeEnds`, `ProgressGoesOn`, `JobTypeOK` |
| `Components` | see below; 456 thousand states of all parts | `ClientsInSync`, `NoStaleCommand`, `SessionsEnd` (OBS); `OneNoticePerBurst`, `AlertThreadsEnd`; `ReplayCovers`, `ReplayWithinWindow`; `ChatBurstBounded`, `ChatWorkersEnd`; `BitrateCalm`; `AcceptedGeometry`; `InstallsVerified`; `ScenesSound`; `CrashOffered`; `ComponentsTypeOK` |
| `EngineReplayLost`, `AppStuckStatus`, `StreamTwoRetried`, `StreamRetriesUnlimited`, `StreamNamedTargets`, `JobTeardown`, `ReplayInSync`, `ProgramIsLive`, `JoinIsPrompt` | the smallest that show it | each a violation, section 5 |

Why these bounds are enough for the questions asked. Two sessions are what an
overlap needs: one draining, one running. A third would only repeat the
overlap, and the invariants about sessions are proved for any number anyway.
Two rings are needed for a ring that is switched off and on during an overlap.
Two paths tell a session's file from that of the one before. Two targets
compete for the one worker; three messages let a duplicate error and a stale
state change wait at once. Two errors let one be reported and another stay on
the bus into the teardown; two buffers let one be written and one be held back
in the muxer. `EngineParts` has no replay ring, so the GUI's replay switch has
nothing to switch there: none of its properties reads a ring, the run
`EngineSessions` has two, and that the invariants about rings hold under the
GUI's controls as well is proved for any number (`EngineUnderGui`).

In `Components`: two clients, two of their commands and an edit are a race of
three on one output; a budget and a channel of one alert are full at once; two
windows and groups of two frames let a window grow, shrink and fall between key
frames; a bucket of one token refills in halves; two chat handles are an old
worker beside a new one, and Twitch and YouTube are enough because Kick's worker
does nothing that Twitch's cannot; two policies, a cooldown of two seconds and a
time of four let the clock restart within a cooldown and leave room for another
change; two frames are what a torn header mixes, three are outside the promise
(below); two releases and four clicks let a newer
release appear during a download; four scenes, three of them a nested import,
hold the smallest cycle a batch can make; two records and four crashes rotate
twice, once with a torn file.

Some properties state their exceptions, because the code has them. A client of
the OBS server may stay wrong (`ClientsInSync`) when a command refreshed the
baseline before the user's own change was compared, when the command had been
given up after thirty seconds, or when a thread broadcast an older result after
a newer one. `SessionsEnd` does not speak of a session whose client never reads
again (`Reads`), `ChatWorkersEnd` not of a worker that the platform leaves
waiting for ever (`PlatformAnswers`). `AcceptedGeometry` promises a frame's
geometry while at most one newer frame has been begun: the words of three frames
can pass the check together, and the pixels may be torn in any case.
`AlertThreadsEnd` assumes that the network answers (`NetworkAnswers`) and
excepts the state it names `AlertFrozen`, the UI thread joining a worker that
waits for a place in the channel only the UI thread empties; `JoinIsPrompt`
shows what becomes of the claim without that exception.

**Fairness.** A finalizer is straight-line code, and each of its waits has a
limit: ten seconds for EOS (lib.rs:3059), 300 for the upload (cloud.rs:40) and
sixty for the remux (container.rs:758); so `WF(Finalizer(s))`. The GUI repaints
as long as a completion handle is held (app.rs:12433), so it polls; an error is
taken in the frame that caused it. `rivulet-core` tells its embedder to call
`service_streaming` periodically (lib.rs:19), so `WF(BeginService)` and its
steps; the worker thread runs when its wait is over. Nothing is assumed of the
user, of frames, or of sinks. `poll_stream_reconnects` has no fairness: the
engine never calls it itself. In `RecordingJob` the ticker and a call once made
go on, as threads do, and both waits on the bus have a limit (250 ms and ten
seconds); the embedder need not do anything, and GStreamer need not answer.
In `Components` the UI thread ends the frame it began, and threads go on where
their waits have a limit. Where they have none, nothing is assumed and the
property names its premise instead: a write to an OBS client (`ObsResume`), the
handshake and the subscription requests of the EventSub worker
(`AlertAnswered`), and the connections, requests and writes of chat workers
(`ChatAnswered`) have no fairness, and `Reads`, `NetworkAnswers` and
`PlatformAnswers` say of which sessions and workers a promise is made. Nothing
is assumed of time or the user, and the other modules have safety properties
only.

**Each property has a mutant**, a change of one definition such as a plausible
slip of the code, under which TLC refutes it in the same run. The mutants stand
in the modules right before the definitions they change and are marked
`Mutant:`.

## 4. Proofs

Proved by TLAPS for every value of the constants, from nothing but the named
`ASSUME`s of the modules (`NoPath` is not a path, bounds are natural numbers,
stop modes and faults are among those named; the target list has one to four
different names and none is empty (stream.rs:794), backoffs are positive and in order; the bounds of
`RecordingJob` and of the components are natural numbers, windows and steps
positive, policies in order, imported collections sound):

- `EngineSession_proofs`: `TypeCorrect` (`TypeOK`); `OneOwner`
  (`LivePipelineHasOneOwner`); `ClearedStaysClear` (`NoPacketAfterClear`);
  `FilesAreRight` (`PostProcessesItsFile`, `FileAsRequested`); `NoRetryStorm`
  (`BuildsBounded`); `ClipIsOfSession` (`ReplayOnlyOfSession`); and
  `ImplementsSessionLifecycle`, `Spec => Lifecycle!LifeSpec`, the safety part of
  `ImplementsLifecycle`.
- `AppSession_proofs`: `AppTypeCorrect` (`AppTypeOK`), `DeadRecordingIsTold`
  (`DeadRecordingShowsError`), `SavedIsDone` (`SavedMeansDone`); and
  `EngineUnderGui` and `GuiImplementsLifecycle`, which carry the invariants of
  the engine and its refinement over to the GUI's steps of several calls.
- `StreamReconnect_proofs`: `StreamTypeCorrect` (`StreamTypeOK`), `StatesAgree`
  (`LiveAgrees`), `NoRetryStorms` (`PendingRetryNotRestarted`) and
  `AttemptsNeverGrow`, which explains why `RetryLimit` fails: no target ever gets
  past its first attempt (`FirstAttemptOnly`, stated beside its proof).
- `RecordingJob_proofs`: `JobTypeCorrect` (`JobTypeOK`), `JobSafe`
  (`EosNotStolen`, `FinalizeOrder`) and `StoppedStaysLast` (`StoppedIsLast`).
- `ReplayBuffer_proofs`: `ReplayTypeCorrect`, `StaysInWindow`
  (`ReplayWithinWindow`) and `ClipCovers` (`ReplayCovers`).
- `SceneTree_proofs`: `SceneTypeCorrect`, `ScenesStaySound` (`ScenesSound`).
- `ObsServer_proofs`: `ObsTypeCorrect`, `CommandsEndWithServer`
  (`NoStaleCommand`) and `ClientsLearnTheTruth` (`ClientsInSync`).
- `Components_proofs`, for the components without a proof module of their own:
  `OnlyVerifiedInstalled` (`InstallsVerified`), `FrameIsWhole`
  (`AcceptedGeometry`), `CrashIsOffered` (`CrashOffered`), `BurstHasOneNotice`
  (`OneNoticePerBurst`), `BurstBounded` (`ChatBurstBounded`), `StaysCalm`
  (`BitrateCalm`); and, of all nine side by side, `ComponentsTypeCorrect`
  (`ComponentsTypeOK`) and `ComponentsStaySafe`.

`LivePipelineHasOneOwner` is not inductive: to know that a detach hands over the
only owner one needs that numbers beyond `session` are unused
(`FreshSessions`), that the active session has not been stopped
(`ActiveSession`), and that a pipeline the engine holds is the active session's
(`HeldPipeline`). `LifeInv` is the conjunction; each action is either a frame
step (`LifeFrame`), a begin, a detach, a push or a finalizer step, one lemma
each. `NoPacketAfterClear` follows with `LifeInv`: a streaming thread writes
only for a live pipeline, and a live pipeline's finalizer is not yet past Null.
The refinement needs one more fact, `NullIsStopped`, and maps each action to a
step of the abstract specification or to a stutter.

`FileInv` ties a session to its file: a session without a pipeline has not built
one, a pipeline the engine holds writes to `output_path`, and `output_path` is
the path given to `start_local_recording` for a recording, and for a stream the
path of a recording that was never built, or none (`LeftBehind`).
`BuildsInv` says that a session which still needs a pipeline has parsed none.
`RingInv` says who may still have packets in a ring: the active session in the
ring of its pipeline, a session whose finalizer has the ring's clear before it,
and sessions of a ring the engine has replaced (`StaleRing`).

`LiveAgrees` needs that a pending retry belongs to a failed target (`AgreeInv`),
because `mark_failed_once` refuses a pending one while the engine marks it
failed all the same. `AttemptsNeverGrow` follows from the four retry records
that exist at all (`AttemptInv`): new, live, first failure, claimed.

`JobInv` ties the owner's place in `finalize` to the rest of the job. Its core
is `TickerGone`: from the join on the ticker is done, so nobody else reads the
bus or writes the flag. `EosAfterJoin` places EOS after that, which makes
`EosNotStolen` inductive; `FlagCoversEvents` says that every `Failed` sent is
in the flag, and `CountersLag` that a counter is behind its appsrc by at most
the push in progress, which the report then cannot see.

`BurstBounded` rests on `Account`: sends since a moment and tokens left together
are at most the capacity and what time has filled in since, or nothing has been
sent since a moment after the last refill. That is linear once
`FilledInParts` says that time which passes in two parts fills in as much as
both, the one place with a product of variables.

`StaysCalm` needs `ClockBehind`: the controller's clock may fall back but never
runs ahead, so that what looks like a cooldown since the last change is at
least one in real time.

`StaysInWindow` is almost inductive: the cutoffs of a push and of a resize are
at least the window's. `ClipCovers` needs to know what each track holds exactly:
all that was delivered and not cut, and that the encoder's key frames are never
further apart than a group of pictures.

`ScenesStaySound` has to speak of every snapshot on two stacks: `SceneInv` says
that there is a set of good collections from which the current one and both
stacks are drawn, which a push and a pop keep without an induction over the
stacks. That removing a folder keeps the forest is by contradiction: a set
closed under parents after the removal gives one before it. That a drop keeps
it uses `CanDrop`: no member of the batch is above the new parent.

`InstallInv` has one thread at most, and it is the one whose work the view shows;
that is why no second download can replace the file between its verification
and its installation. `CommandInv` is `NoStaleCommand` over sequences of
commands of the server that runs. `FrameInv` bounds every word the reader has by
the frames begun since it opened the header: three words out of two frames have
two of one frame, and the product of width and height then fixes the third.
`DueInv` says that the newest readable record is the crash that is due and none
is from the future, without which the rotation could remove the record just
written. `SuppressInv` says that a window's pending count is what was suppressed
in it and that a shown burst has no notice left; the notice that is updated is
then the right one, whatever other sources queue in between.

`ClientsLearnTheTruth` needs to know who still has something to tell: the
replies and the broadcasts in each queue, the difference between the baseline
and the controls, and the known ways a change is never told (`obsWhy`); a
client's belief is then right once all of these are exhausted.

Only model-checked: the liveness properties and the fairness part of the
refinement (`StopCompletes`, `ImplementsLifecycle`, `StopIsReported`,
`FailedAloneRetried`, `FinalizeEnds`, `ProgressGoesOn`, `SessionsEnd`,
`AlertThreadsEnd`, `ChatWorkersEnd`), which are out of the prover's reach. Every
safety property of a passing run has a theorem.

## 5. What the checks found

Each of these is a run that ends in a counterexample.

1. **A stopped session clears the running session's replay**
   (`EngineReplayLost`). Stop in the background, start again, let the new
   session fill the ring, then let the old finalizer reach lib.rs:3076: it locks
   the ring both share and clears it.
2. **The status stays at "finalizing"** (`AppStuckStatus`). Record while a
   stream is running: the engine session was already active, so no new one
   begins. Stop the stream: its session is detached, the status says
   finalizing. Stop the recording before the handle fires:
   `begin_background_stop` gets `None` and drops the handle, and the status is
   never changed again.
3. **One worker for all targets** (`StreamTwoRetried`). The second failure
   replaces the worker of the first (lib.rs:745); the first target's `retry_at`
   stays set, so it is never retried.
4. **An error during teardown is not reported** (`JobTeardown`). The pipeline
   fails while `finalize` waits for the muxer; the wait returns the error,
   `let _` drops it (recording_job.rs:1013), and the stream of events ends with
   `Stopped` and without `Failed`. An error the ticker pops just as `running`
   is cleared is lost the same way (recording_job.rs:776).
5. **A clip's audio is shifted against its video** (`ReplayInSync`). The video
   begins at its first key frame and every track is then shifted by its own
   start (replay.rs:83-96), so sound of a window that begins between two key
   frames is out of step by up to a group of pictures.
6. **A scene goes live without a take** (`ProgramIsLive`). The frame that is
   sent is that of the active scene (app.rs:963). Adding the first scene, a
   search, hotkeys, MIDI, an OBS command, undo, redo and an import change it and
   leave studio mode's program alone, so the program pane shows one scene and
   the viewers see another.

7. **A target is retried without end** (`StreamRetriesUnlimited`). The new sink
   is called live as soon as it plays (lib.rs:913), which sets the attempts back
   to zero (reconnect.rs:86), before anything is known of the ingest. A sink
   that fails again at once is rebuilt for ever after the first backoff;
   `max_attempts` and the growth of the backoff never have an effect.
8. **A target with a name of its own never hears of its sink**
   (`StreamNamedTargets`). The poll of the bus passes the index in the sink's name
   as the name of the target (lib.rs:847-862). A target called anything else is
   neither marked failed nor retried. The other runs call their targets "0" and
   "1", or no message of the bus would ever start a timer; `LiveAgrees`,
   `PendingRetryNotRestarted` and the type are proved for any names.
9. **A join that never returns** (`JoinIsPrompt`). The EventSub worker waits for a
   place in its bounded channel (alerts_eventsub.rs:623); the UI thread, which
   alone empties it, applies new settings first and joins the worker. Both stand
   still, against alerts_eventsub.rs:479-480, and the network answers all along.

Seen while reading, modelled but without a violation run of their own:

- After a recording whose pipeline could not be built, `output_path` is still
  set and the next `start_streaming` records into that file (lib.rs:2140,
  2897); `FileAsRequested` states the exception, with the path.
- Alerts that a window suppresses after its notice was drained are never shown.
  `push_from` goes on counting them in `suppressed_pending` and looks for a
  notice to update, but a frame has taken it (alerts_ingest.rs:674-690), so the
  line in the dock keeps the number it had. alerts_ingest.rs:46-48 and 652-653
  promise a single notice whose count accumulates until the window rolls over.
  `OneNoticePerBurst` states what holds: the number is right while the notice
  waits, and a shown burst gets no second line.
- An EventSub handshake and its requests, YouTube's requests, a Twitch write and
  a write to an OBS client have no time-out. The first keeps the UI thread in its
  join. While YouTube is being posted to, the worker holds the quota's mutex, for
  which the dock waits whenever it asks what is left of it.
- `due_retries` compares a delay with the time since configuration
  (reconnect.rs:177), so in a session older than the backoff a retry is due at
  once.
- A rebuild that fails after `pipeline.take()` drops the playing pipeline
  (lib.rs:889-911), peers included.
- A state change posted before a failure and read after it makes the target
  live while its timer runs.
- A recording started during a stream-only session writes no file, since
  `start_local_recording` returns at once (lib.rs:2926) while the GUI goes on as
  recording.
- Stopping a dual session's stream only drops the settings; the pipeline keeps
  streaming.
- `push_from` never enforces the 64 entries of the alert queue; a webhook is
  answered 200 although its event is dropped in a restart; a full channel blocks
  the sender where alerts_webhook.rs:410-412 says it drops; the EventSub backoff
  is only reset by a reconnect message, and a reconnect URL is kept for ever.
- Without a key frame in its window a clip has no video. A track that stalls
  keeps its old packets, since each track evicts by its own newest one.
- The chat limiter counts what is queued, not what is sent: what waits for a
  reconnect is then sent at once, and every new handle starts full. A failed
  write to Twitch loses its message.
- A bitrate outside the policy's bounds snaps to the bound in one step. Without
  `set_multistream_settings` the controller's clock stands, so it changes the
  bitrate at most once.
- Frames above 1080p are never accepted, for they do not fit the
  mapping.
- The updater's window is only closed while the Settings view is drawn; the
  watchdog installs after sixty seconds in any case.
- Undo takes a source paste before a newer scene edit (app.rs:10033); the roles
  of studio mode survive the undo or import that removes their scenes.
- crash_record.rs:181 says that the file just written is always kept; with a
  clock set back the rotation deletes it. A crash in the same second overwrites
  the one before, and clearing deletes crashes that were never offered.

## 6. Not modelled

`PROJECT.json` lists every component with its status. In the modelled ones:

- the parameters of encoders, presets, overlays, audio tracks, NDI and the
  audio branches; frames themselves;
- `delay_supervisors`, which this code creates and never feeds; the
  classification of a health sample;
- the panic of `FinalizerStop` when GStreamer refuses Null (lib.rs:3069);
- the 64 places of the event channel of `RecordingJob` and receivers that lag;
  the element names of its pipeline; a `start` that fails leaves no handle and
  is no step;
- the Windows recordings and auxiliary recordings of the GUI;
- chat messages received and their parsing, the alerts of the chat workers;
  B-frames of a clip; hand-edited scene files with cycles; OBS outputs other
  than recording and microphone, which take the same way; what an installer
  does and a restart while it runs; the OpenGL hook;
- in `EngineSession`, reconnects and bus messages; in `StreamReconnect`,
  recordings and finalizers. The two meet only in `pipeline`: a rebuild can
  lose it, after which the next frame builds another, which `StreamReconnect`
  has (`BuildPipeline`) and `EngineSession` excludes by not calling
  `service_streaming`, as the GUI does not.

Components without a module are device, file and service I/O (capture, audio,
NDI, virtual camera, Discord, MIDI, cloud), tables and text (encoders, presets,
containers, translations, message parsing), drawing, or one call at a time in a
sandbox (plugins). Most of the roughly 100 thousand lines of the repository are
such code and its unit tests, which share the source files: `app.rs` alone has
23 thousand lines, of which a few hundred change state that a property could be
about. So the modules cover the core logic and a small share of the lines, and
nothing is gained by modelling a layout or a parser step by step.

## 7. Plan

1. *Done:* `SessionLifecycle`, `EngineSession`, `AppSession`, `StreamReconnect`
   and `RecordingJob` with their runs and proofs.
2. *Done:* the nine components of `MCComponents` with their proofs, those of
   `EngineSession`'s files, builds and replay ring, and of the retry timer.
3. *Done:* proofs about `AppSession`, of `ClientsInSync` with its exceptions, and
   of every type invariant. Worth doing next: a module for the auxiliary
   recordings of the GUI, and one for the life cycle of plugin instances.
4. Abstract specifications worth stating: an atomic frame register for the
   capture channel, and a single-version installation for the updater.
