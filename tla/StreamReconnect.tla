---------------------------- MODULE StreamReconnect ----------------------------
(***************************************************************************)
(* Reconnecting the targets of a stream: the supervisor and the timer      *)
(* thread of rivulet-core/src/reconnect.rs and the engine's calls around   *)
(* them (lib.rs, handle_stream_target_failure to rebuild_stream_target).   *)
(* The thread that owns the pipeline makes the calls, GStreamer posts      *)
(* messages on the bus at any time, and a worker thread only waits for its *)
(* backoff and leaves one command in its channel.                          *)
(*                                                                         *)
(* Targets are numbered from 1; target i has the sink "stream_sink_<i-1>". *)
(* Time is counted in units of MIN_BACKOFF: Tick lets one unit pass, and   *)
(* clocks saturate where no comparison can tell the difference.            *)
(***************************************************************************)
EXTENDS Naturals, Sequences, FiniteSets

CONSTANTS Targets,         \* the names of the configured targets, in order
          Sinks,           \* the targets whose sink the built pipeline has
          MaxAttempts,     \* RetryPolicy
          InitialBackoff,
          MaxBackoff,
          MaxBus,          \* bound: messages waiting on the bus
          CallerReads,     \* whether the embedder reports failures by name too
          LateConfig,      \* whether settings are also changed during a session
          StreamFaults           \* "rebuild": GStreamer may refuse a step of a rebuild

Idx == 1..Len(Targets)

ASSUME TargetsAssumption ==
  /\ Len(Targets) \in 1..4
  /\ \A i, j \in Idx : Targets[i] = Targets[j] => i = j
  /\ \A i \in Idx : Targets[i] # ""
ASSUME SinksAssumption == Sinks \subseteq Idx
ASSUME PolicyAssumption ==
  MaxAttempts \in Nat /\ InitialBackoff \in Nat \ {0} /\ MaxBackoff \in Nat
  /\ MaxBackoff >= InitialBackoff
ASSUME BusAssumption == MaxBus \in Nat
ASSUME OptionsAssumption ==
  /\ CallerReads \in BOOLEAN /\ LateConfig \in BOOLEAN
  /\ StreamFaults \subseteq {"rebuild"}

VARIABLES
  configured,  \* stream_targets.is_some()
  states,      \* stream_target_states
  supervised,  \* reconnect_supervisor.is_some()
  retry,       \* the supervisor's TargetReconnectState, by target
  elapsed,     \* time since reconnect_started
  worker,      \* the ReconnectWorker the engine holds
  active,      \* is_recording: a streaming session is active
  streamPipeline,    \* whether the engine holds a pipeline
  sinks,       \* the targets whose sink element it has
  streamBus,         \* messages of sinks not popped yet
  streamPc,          \* where the owner is inside service_streaming
  command      \* the target of the command it drained

targetVars == <<configured, states, supervised, retry>>
pipeVars  == <<streamPipeline, sinks, streamBus>>
streamVars == <<targetVars, elapsed, worker, active, pipeVars, streamPc, command>>

Decimal == <<"0", "1", "2", "3">>   \* what follows "stream_sink_"

TargetStates == {"offline", "connecting", "live", "failed"}

NewRetry == [state |-> "offline", attempts |-> 0, retryAt |-> 0]  \* 0: None
NoWorker == [target |-> "", left |-> 0, phase |-> "none"]

StreamInit ==
  /\ configured = FALSE /\ supervised = FALSE
  /\ states = [i \in Idx |-> "offline"]
  /\ retry = [i \in Idx |-> NewRetry]
  /\ elapsed = 0 /\ worker = NoWorker
  /\ active = FALSE /\ streamPipeline = FALSE
  /\ sinks = {} /\ streamBus = <<>> /\ streamPc = "idle" /\ command = ""

-----------------------------------------------------------------------------
(* The supervisor.                                                         *)

\* Doubles per attempt up to max_backoff, and is at least MIN_BACKOFF.
Backoff(attempt) ==
  LET grown  == InitialBackoff * 2^(attempt - 1)
      capped == IF grown < MaxBackoff THEN grown ELSE MaxBackoff
  IN  IF capped < 1 THEN 1 ELSE capped

Pending(i) == retry[i].retryAt # 0

\* Mutant: every failure counts, pending retry or not.
AlwaysFails(i) == supervised

\* mark_failed_once leaves a target alone while its retry is pending or
\* claimed; otherwise it counts the attempt and arms retry_at, even for an
\* attempt beyond the limit.
FailsAgain(i) == supervised /\ ~Pending(i) /\ retry[i].state # "connecting"

Failed(i) == LET n == retry[i].attempts + 1
             IN  [state |-> "failed", attempts |-> n, retryAt |-> Backoff(n)]

LiveRetry == [state |-> "live", attempts |-> 0, retryAt |-> 0]

SetState(name, s) ==
  [i \in Idx |-> IF configured /\ Targets[i] = name THEN s ELSE states[i]]

\* handle_stream_target_failure: the engine has one worker, so arming a timer
\* cancels the one it holds.
HandleFailure(name) ==
  LET hit == {i \in Idx : Targets[i] = name /\ FailsAgain(i)}
  IN /\ states' = SetState(name, "failed")
     /\ retry' = [i \in Idx |-> IF i \in hit THEN Failed(i) ELSE retry[i]]
     /\ \/ \E i \in hit :
             /\ Failed(i).attempts <= MaxAttempts
             /\ worker' = [target |-> name, left |-> Failed(i).retryAt, phase |-> "waiting"]
        \/ /\ \A i \in hit : Failed(i).attempts > MaxAttempts
           /\ UNCHANGED worker

\* Mutant: the supervisor is not told.
LiveUnsupervised(name) == states' = SetState(name, "live") /\ UNCHANGED <<retry, worker>>

\* handle_stream_target_live
HandleLive(name) ==
  /\ states' = SetState(name, "live")
  /\ retry' = [i \in Idx |-> IF supervised /\ Targets[i] = name THEN LiveRetry ELSE retry[i]]
  /\ UNCHANGED worker

-----------------------------------------------------------------------------
(* Configuration and sessions.                                             *)

StreamIdle == streamPc = "idle"

\* set_multistream_settings with a list of targets or None; the worker is left
\* alone.
SetMultistreamSettings(on) ==
  /\ StreamIdle /\ (LateConfig \/ ~active)
  /\ configured' = on /\ supervised' = on
  /\ states' = [i \in Idx |-> IF on THEN "connecting" ELSE "offline"]
  /\ retry' = [i \in Idx |-> NewRetry]
  /\ elapsed' = 0
  /\ UNCHANGED <<worker, active, pipeVars, streamPc, command>>

\* set_stream_settings drops the targets and their states, not the supervisor.
SetSingleStream ==
  /\ StreamIdle /\ (LateConfig \/ ~active)
  /\ configured' = FALSE
  /\ states' = [i \in Idx |-> "offline"]
  /\ UNCHANGED <<supervised, retry, elapsed, worker, active, pipeVars, streamPc, command>>

StartTargets ==
  /\ StreamIdle /\ ~active
  /\ active' = TRUE
  /\ UNCHANGED <<targetVars, elapsed, worker, pipeVars, streamPc, command>>

\* process_raw_frame builds the pipeline whenever the engine holds none, for
\* the primary target alone when no list is configured; the sinks report their
\* state changes on its bus, in any order.
BuildPipeline ==
  /\ StreamIdle /\ active /\ ~streamPipeline
  /\ streamPipeline' = TRUE
  /\ sinks' = {i \in Sinks : configured \/ i = 1}
  /\ \E order \in [1..Cardinality(sinks') -> sinks'] :
       /\ \A i \in sinks' : \E n \in DOMAIN order : order[n] = i
       /\ streamBus' = [n \in DOMAIN order |-> [sink |-> order[n], event |-> "state"]]
  /\ UNCHANGED <<targetVars, elapsed, worker, active, streamPc, command>>

\* detach_stopped_session: the worker is dropped, so cancelled.
StopTargets ==
  /\ StreamIdle /\ active
  /\ active' = FALSE /\ streamPipeline' = FALSE
  /\ sinks' = {} /\ streamBus' = <<>>
  /\ supervised' = FALSE
  /\ retry' = [i \in Idx |-> NewRetry]
  /\ elapsed' = 0
  /\ worker' = NoWorker
  /\ UNCHANGED <<configured, states, streamPc, command>>

-----------------------------------------------------------------------------
(* The world: sinks fail, time passes, the worker's wait ends.             *)

\* A message posted during a poll is left to the next one.
SinkFails(i) ==
  /\ i \in sinks /\ streamPc # "poll"
  /\ Len(streamBus) < MaxBus
  /\ streamBus' = Append(streamBus, [sink |-> i, event |-> "error"])
  /\ UNCHANGED <<targetVars, elapsed, worker, active, streamPipeline, sinks, streamPc,
                 command>>

\* An embedder that reads the bus itself reports a failure by name.
CallerReports(i) ==
  /\ CallerReads
  /\ StreamIdle /\ streamPipeline /\ i \in sinks
  /\ HandleFailure(Targets[i])
  /\ UNCHANGED <<configured, supervised, elapsed, active, pipeVars, streamPc, command>>

Saturate(t) == IF t < MaxBackoff THEN t + 1 ELSE t

Tick ==
  /\ elapsed' = Saturate(elapsed)
  /\ worker' = [worker EXCEPT !.left = IF @ > 0 THEN @ - 1 ELSE 0]
  /\ UNCHANGED <<targetVars, active, pipeVars, streamPc, command>>

\* recv_timeout expired: the command is in the worker's channel.
WorkerFires ==
  /\ worker.phase = "waiting" /\ worker.left = 0
  /\ worker' = [worker EXCEPT !.phase = "fired"]
  /\ UNCHANGED <<targetVars, elapsed, active, pipeVars, streamPc, command>>

-----------------------------------------------------------------------------
(* poll_stream_reconnects: claim every target whose retry_at, a delay, is  *)
(* no more than the time since the targets were configured.                *)

Due == {i \in Idx : Pending(i) /\ elapsed >= retry[i].retryAt}

PollStreamReconnects ==
  /\ StreamIdle /\ supervised /\ Due # {}
  /\ retry' = [i \in Idx |->
       IF i \in Due
       THEN [state |-> "connecting", attempts |-> retry[i].attempts, retryAt |-> 0]
       ELSE retry[i]]
  /\ UNCHANGED <<configured, states, supervised, elapsed, worker, active, pipeVars, streamPc,
                 command>>

-----------------------------------------------------------------------------
(* service_streaming: poll the bus until it is empty, drain the worker's   *)
(* channel, rebuild.  Messages and the worker may come in between.         *)

BeginService ==
  /\ StreamIdle
  /\ streamPc' = IF streamPipeline THEN "poll" ELSE "drain"
  /\ UNCHANGED <<targetVars, elapsed, worker, active, pipeVars, command>>

\* The name of a target is what follows "stream_sink_" in its sink's name.
PollStreamBus ==
  /\ streamPc = "poll"
  /\ \/ /\ streamBus # <<>>
        /\ streamBus' = Tail(streamBus)
        /\ \/ Head(streamBus).event = "error" /\ HandleFailure(Decimal[Head(streamBus).sink])
           \/ Head(streamBus).event = "state" /\ HandleLive(Decimal[Head(streamBus).sink])
        /\ UNCHANGED streamPc
     \/ /\ streamBus = <<>>
        /\ streamPc' = "drain"
        /\ UNCHANGED <<streamBus, states, retry, worker>>
  /\ UNCHANGED <<configured, supervised, elapsed, active, streamPipeline, sinks,
                 command>>

\* Mutant: draining takes the worker, so a timer that still runs is cancelled.
DrainTakesWorker ==
  /\ streamPc = "drain"
  /\ IF worker.phase = "fired" THEN command' = worker.target /\ streamPc' = "rebuild"
     ELSE streamPc' = "idle" /\ UNCHANGED command
  /\ worker' = NoWorker
  /\ UNCHANGED <<targetVars, elapsed, active, pipeVars>>

DrainReconnectCommands ==
  /\ streamPc = "drain"
  /\ IF worker.phase = "fired"
     THEN /\ command' = worker.target
          /\ worker' = [worker EXCEPT !.phase = "spent"]
          /\ streamPc' = "rebuild"
     ELSE streamPc' = "idle" /\ UNCHANGED <<command, worker>>
  /\ UNCHANGED <<targetVars, elapsed, active, pipeVars>>

\* The element of the command's target, if it is still configured.
Subject == {i \in Idx : configured /\ Targets[i] = command}

\* Nothing to rebuild, or no sink of that name: the pipeline is kept.
RebuildNothing ==
  /\ streamPc = "rebuild"
  /\ Subject = {} \/ ~streamPipeline \/ \E i \in Subject : i \notin sinks
  /\ streamPc' = "idle"
  /\ UNCHANGED <<targetVars, elapsed, worker, active, pipeVars, command>>

\* A new sink takes the place of the old one and may report its states.
RebuildTarget(i) ==
  /\ streamPc = "rebuild"
  /\ i \in Subject /\ streamPipeline /\ i \in sinks
  /\ streamBus' = IF Len(streamBus) < MaxBus
                  THEN Append(streamBus, [sink |-> i, event |-> "state"]) ELSE streamBus
  /\ HandleLive(Targets[i])
  /\ streamPc' = "idle"
  /\ UNCHANGED <<configured, supervised, elapsed, active, streamPipeline, sinks, command>>

\* set_state, remove, parse, add or sync_state fails after the pipeline was
\* taken out of the engine: it is not put back.
RebuildFails(i) ==
  /\ "rebuild" \in StreamFaults
  /\ streamPc = "rebuild"
  /\ i \in Subject /\ streamPipeline /\ i \in sinks
  /\ streamPipeline' = FALSE
  /\ sinks' = {} /\ streamBus' = <<>>
  /\ streamPc' = "idle"
  /\ UNCHANGED <<targetVars, elapsed, worker, active, command>>

Rebuild == RebuildNothing \/ \E i \in Idx : RebuildTarget(i) \/ RebuildFails(i)

ServiceStep == PollStreamBus \/ DrainReconnectCommands \/ Rebuild

-----------------------------------------------------------------------------
StreamNext ==
  \/ \E on \in BOOLEAN : SetMultistreamSettings(on)
  \/ SetSingleStream
  \/ StartTargets \/ BuildPipeline \/ StopTargets
  \/ \E i \in Idx : SinkFails(i) \/ CallerReports(i)
  \/ Tick \/ WorkerFires
  \/ PollStreamReconnects \/ BeginService \/ ServiceStep

StreamSpec == StreamInit /\ [][StreamNext]_streamVars

\* The embedder keeps calling service_streaming, time passes, and a thread
\* whose wait is over runs.
StreamFairSpec ==
  /\ StreamSpec
  /\ WF_streamVars(BeginService) /\ WF_streamVars(ServiceStep)
  /\ WF_streamVars(Tick) /\ WF_streamVars(WorkerFires)

-----------------------------------------------------------------------------
(* Properties.                                                             *)

\* The variables of the reconnect machinery have their types.
StreamTypeOK ==
  /\ configured \in BOOLEAN /\ supervised \in BOOLEAN
  /\ states \in [Idx -> TargetStates]
  /\ retry \in [Idx -> [state : TargetStates, attempts : 0..MaxAttempts + 1,
                        retryAt : 0..MaxBackoff]]
  /\ elapsed \in 0..MaxBackoff
  /\ worker.left \in 0..MaxBackoff
  /\ worker.phase \in {"none", "waiting", "fired", "spent"}
  /\ sinks \subseteq Idx
  /\ Len(streamBus) <= MaxBus + Len(Targets)
  /\ streamPc \in {"idle", "poll", "drain", "rebuild"}

\* What the embedder is shown and what the supervisor works from agree on who
\* is live, however failures, late messages, claims and rebuilds mix.
LiveAgrees ==
  supervised /\ configured
    => \A i \in Idx : states[i] = "live" <=> retry[i].state = "live"

\* A duplicate failure of a target whose retry is pending does not start its
\* timer again ("preventing retry storms").
PendingRetryNotRestarted ==
  [][\A i \in Idx :
       /\ Pending(i) /\ worker.target = Targets[i] /\ worker.phase = "waiting"
       /\ worker'.target = Targets[i]
       => worker'.left <= worker.left /\ worker'.phase # "none"]_streamVars

\* A failed target is brought back, or the session ends.
FailedTargetRetried ==
  \A i \in Idx :
    supervised /\ states[i] = "failed" ~> states[i] # "failed" \/ ~active

\* While the other targets stay up, a failed target is brought back, or the
\* session or its pipeline ends.
FailedAloneRetried ==
  \A i \in Idx :
    [](\A j \in Idx \ {i} : states[j] # "failed")
      => (supervised /\ states[i] = "failed"
            ~> states[i] # "failed" \/ ~active \/ ~streamPipeline)

\* A fatal message of a target's sink is mapped to a "target-local" event: the
\* target it is about fails (poll_stream_bus and the quality gate's document).
EventsReachTarget ==
  [][streamPc = "poll" /\ streamBus # <<>> /\ Head(streamBus).event = "error"
     /\ streamBus' = Tail(streamBus)
     /\ configured => states'[Head(streamBus).sink] = "failed"]_streamVars
=============================================================================
