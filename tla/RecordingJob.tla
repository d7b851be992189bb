----------------------------- MODULE RecordingJob -----------------------------
(***************************************************************************)
(* The headless recording session of rivulet-core/src/recording_job.rs,    *)
(* from start to the report.  Three parties run concurrently:              *)
(*   - the owner of the handle: pushes, pauses, resumes, and ends the job  *)
(*     by stop or by dropping the handle, which both run finalize;         *)
(*   - the ticker thread, which pops errors off the bus and sends Progress;*)
(*   - GStreamer, which moves buffers to the sinks and posts on the bus.   *)
(*                                                                         *)
(* A refused call (wrong state, wrong size, a push GStreamer does not take *)
(* after its retries) changes nothing and is no step.  A buffer's content  *)
(* is left out; the file's size is the number of buffers written to it.    *)
(***************************************************************************)
EXTENDS Naturals, Sequences

CONSTANTS MaxBuffers,   \* bound: buffers pushed per stream
          MaxErrors     \* bound: errors the pipeline posts on the bus

ASSUME JobBoundsAssumption == MaxBuffers \in Nat /\ MaxErrors \in Nat

VARIABLES
  config,     \* RecordingJobConfig, as far as the session depends on it
  state,      \* JobState; "none" while there is no handle
  jobPc,         \* where the owner is inside push or finalize
  counted,    \* frames and audio_samples: the counters of the handle
  running,    \* the flag that stops the ticker
  failed,     \* the flag the ticker leaves for finalize
  ticker,     \* where the ticker thread is
  popped,     \* whether its last wait returned an error
  jobPipeline,   \* "none", "playing" or "null"
  taken,      \* buffers each appsrc accepted
  muxed,      \* buffers of each stream that reached the sinks
  ended,      \* the appsrcs that were told end_of_stream
  drained,    \* every sink has seen the end of the stream
  errors,     \* number of errors posted
  jobBus,        \* messages on the bus not popped yet
  outcome,    \* what ended the wait for the muxer
  last,       \* the last SessionEvent sent
  told,       \* whether a Failed event was sent
  report      \* the SessionReport of the Stopped event

jobOwnerVars  == <<state, jobPc, counted, outcome, report>>
tickerVars == <<ticker, popped>>
gstVars    == <<jobPipeline, taken, muxed, ended, drained, errors>>
eventVars  == <<last, told>>
jobVars == <<config, jobOwnerVars, running, failed, tickerVars, gstVars, jobBus, eventVars>>

AllStreams == {"video", "audio"}
Streams == IF config.audio THEN AllStreams ELSE {"video"}
Configs == [path : BOOLEAN, stream : BOOLEAN, h264 : BOOLEAN, audio : BOOLEAN]

Zero     == [s \in AllStreams |-> 0]
NoReport == [sent |-> FALSE, counted |-> Zero, bytes |-> 0]

JobInit ==
  /\ config \in Configs
  /\ state = "none" /\ jobPc = "idle" /\ counted = Zero
  /\ running = FALSE /\ failed = FALSE
  /\ ticker = "none" /\ popped = FALSE
  /\ jobPipeline = "none" /\ taken = Zero /\ muxed = Zero
  /\ ended = {} /\ drained = FALSE /\ errors = 0 /\ jobBus = <<>>
  /\ outcome = "none" /\ last = "none" /\ told = FALSE /\ report = NoReport

Posted(msg) == \E i \in 1..Len(jobBus) : jobBus[i] = msg

\* timed_pop_filtered: the first message that passes the filter is taken, and
\* those in front of it are thrown away.
Pops(i, filter) ==
  /\ jobBus[i] \in filter /\ \A j \in 1..(i - 1) : jobBus[j] \notin filter
  /\ jobBus' = SubSeq(jobBus, i + 1, Len(jobBus))

-----------------------------------------------------------------------------
(* The owner before the end.                                               *)

\* RecordingJobConfig::validate: an output, and H.264 for the FLV leg.
Valid == (config.path \/ config.stream) /\ (config.stream => config.h264)

\* A start that fails, for an element is missing or the pipeline cannot be
\* built or played, returns no handle.
Start ==
  /\ state = "none" /\ Valid
  /\ state' = "recording" /\ jobPipeline' = "playing"
  /\ running' = TRUE /\ ticker' = "loop" /\ last' = "started"
  /\ UNCHANGED <<config, jobPc, counted, outcome, report, failed, popped, taken,
                 muxed, ended, drained, errors, jobBus, told>>

JobIdle == state # "none" /\ jobPc = "idle"

\* push_frame and push_audio: the appsrc has the buffer before it is counted.
Push(s) ==
  /\ JobIdle /\ state = "recording" /\ s \in Streams
  /\ taken[s] < MaxBuffers
  /\ taken' = [taken EXCEPT ![s] = @ + 1]
  /\ jobPc' = s
  /\ UNCHANGED <<config, state, counted, outcome, report, running, failed, tickerVars,
                 jobPipeline, muxed, ended, drained, errors, jobBus, eventVars>>

\* Mutant: a push that needed a retry is counted twice.
CountTwice(s) ==
  /\ jobPc = s
  /\ counted' = [counted EXCEPT ![s] = @ + 2]
  /\ jobPc' = "idle"
  /\ UNCHANGED <<config, state, outcome, report, running, failed, tickerVars, gstVars,
                 jobBus, eventVars>>

Count(s) ==
  /\ jobPc = s
  /\ counted' = [counted EXCEPT ![s] = @ + 1]
  /\ jobPc' = "idle"
  /\ UNCHANGED <<config, state, outcome, report, running, failed, tickerVars, gstVars,
                 jobBus, eventVars>>

Pause ==
  /\ JobIdle /\ state = "recording"
  /\ state' = "paused" /\ last' = "paused"
  /\ UNCHANGED <<config, jobPc, counted, outcome, report, running, failed, tickerVars,
                 gstVars, jobBus, told>>

Resume ==
  /\ JobIdle /\ state = "paused"
  /\ state' = "recording" /\ last' = "resumed"
  /\ UNCHANGED <<config, jobPc, counted, outcome, report, running, failed, tickerVars,
                 gstVars, jobBus, told>>

-----------------------------------------------------------------------------
(* finalize, entered by stop and by Drop; the Drop that follows stop finds *)
(* no pipeline and no ticker left.                                         *)

Finalize ==
  /\ JobIdle /\ state # "stopped"
  /\ state' = "stopped" /\ running' = FALSE /\ jobPc' = "joining"
  /\ UNCHANGED <<config, counted, outcome, report, failed, tickerVars, gstVars, jobBus,
                 eventVars>>

\* Mutant: the ticker is told to end but not waited for.
JoinWithoutWaiting ==
  /\ jobPc = "joining"
  /\ jobPc' = "joined"
  /\ UNCHANGED <<config, state, counted, outcome, report, running, failed, tickerVars,
                 gstVars, jobBus, eventVars>>

JoinTicker ==
  /\ jobPc = "joining" /\ ticker = "done"
  /\ jobPc' = "joined"
  /\ UNCHANGED <<config, state, counted, outcome, report, running, failed, tickerVars,
                 gstVars, jobBus, eventVars>>

\* A pipeline known to have failed gets no EOS and no wait.
SendEos ==
  /\ jobPc = "joined"
  /\ IF failed
       THEN jobPc' = "null" /\ UNCHANGED ended
       ELSE jobPc' = "wait" /\ ended' = Streams
  /\ UNCHANGED <<config, state, counted, outcome, report, running, failed, tickerVars,
                 jobPipeline, taken, muxed, drained, errors, jobBus, eventVars>>

\* The wait takes the first Eos or Error, or gives up after EOS_BUDGET; what
\* it returns is thrown away.
AwaitDrain ==
  /\ jobPc = "wait"
  /\ \/ \E i \in 1..Len(jobBus) : Pops(i, {"eos", "error"}) /\ outcome' = jobBus[i]
     \/ /\ ~Posted("eos") /\ ~Posted("error")
        /\ outcome' = "timeout" /\ UNCHANGED jobBus
  /\ jobPc' = "null"
  /\ UNCHANGED <<config, state, counted, report, running, failed, tickerVars, gstVars,
                 eventVars>>

\* Mutant: the report is taken while the sinks still write.
ReportFirst ==
  /\ jobPc = "null"
  /\ jobPc' = "report"
  /\ UNCHANGED <<config, state, counted, outcome, report, running, failed, tickerVars,
                 gstVars, jobBus, eventVars>>

\* Going to NULL also flushes the bus.
SetNull ==
  /\ jobPc = "null"
  /\ jobPipeline' = "null" /\ jobBus' = <<>> /\ jobPc' = "report"
  /\ UNCHANGED <<config, state, counted, outcome, report, running, failed, tickerVars,
                 taken, muxed, ended, drained, errors, eventVars>>

\* Only a file has a size.
Bytes == IF config.path THEN muxed["video"] + muxed["audio"] ELSE 0

SendReport ==
  /\ jobPc = "report"
  /\ report' = [sent |-> TRUE, counted |-> counted, bytes |-> Bytes]
  /\ last' = "stopped" /\ jobPc' = "done"
  /\ UNCHANGED <<config, state, counted, outcome, running, failed, tickerVars, gstVars,
                 jobBus, told>>

-----------------------------------------------------------------------------
(* The ticker thread.                                                      *)

TickerLoop ==
  /\ ticker = "loop"
  /\ ticker' = IF running THEN "pop" ELSE "done"
  /\ UNCHANGED <<config, jobOwnerVars, running, failed, popped, gstVars, jobBus, eventVars>>

\* Mutant: the wait has no bound, as it once had none.
PopUnbounded ==
  /\ ticker = "pop" /\ ticker' = "check"
  /\ \E i \in 1..Len(jobBus) : Pops(i, {"error"}) /\ popped' = TRUE
  /\ UNCHANGED <<config, jobOwnerVars, running, failed, gstVars, eventVars>>

\* Waits PROGRESS_INTERVAL for an error and throws all else away.
TickerPop ==
  /\ ticker = "pop"
  /\ \/ \E i \in 1..Len(jobBus) : Pops(i, {"error"}) /\ popped' = TRUE
     \/ /\ ~Posted("error")
        /\ popped' = FALSE /\ jobBus' = <<>>
  /\ ticker' = "check"
  /\ UNCHANGED <<config, jobOwnerVars, running, failed, gstVars, eventVars>>

\* An error popped while the owner cleared running is dropped with the loop.
TickerCheck ==
  /\ ticker = "check"
  /\ ticker' = CASE ~running          -> "done"
                 [] running /\ popped -> "fail"
                 [] OTHER             -> "progress"
  /\ UNCHANGED <<config, jobOwnerVars, running, failed, popped, gstVars, jobBus, eventVars>>

\* failed.store and the send: finalize reads the flag only after the join.
TickerFail ==
  /\ ticker = "fail"
  /\ failed' = TRUE /\ last' = "failed" /\ told' = TRUE
  /\ ticker' = "progress"
  /\ UNCHANGED <<config, jobOwnerVars, running, popped, gstVars, jobBus>>

TickerProgress ==
  /\ ticker = "progress"
  /\ last' = "progress" /\ ticker' = "loop"
  /\ UNCHANGED <<config, jobOwnerVars, running, failed, popped, gstVars, jobBus, told>>

-----------------------------------------------------------------------------
(* GStreamer.                                                              *)

Playing == jobPipeline = "playing"

Mux(s) ==
  /\ Playing /\ muxed[s] < taken[s]
  /\ muxed' = [muxed EXCEPT ![s] = @ + 1]
  /\ UNCHANGED <<config, jobOwnerVars, running, failed, tickerVars, jobPipeline, taken, ended,
                 drained, errors, jobBus, eventVars>>

PostError ==
  /\ Playing /\ errors < MaxErrors
  /\ errors' = errors + 1 /\ jobBus' = Append(jobBus, "error")
  /\ UNCHANGED <<config, jobOwnerVars, running, failed, tickerVars, jobPipeline, taken, muxed,
                 ended, drained, eventVars>>

\* EOS is posted when it has reached every sink, behind all buffers unless an
\* error cut them off.
Drain ==
  /\ Playing /\ ended = Streams /\ ~drained
  /\ muxed = taken \/ errors > 0
  /\ drained' = TRUE /\ jobBus' = Append(jobBus, "eos")
  /\ UNCHANGED <<config, jobOwnerVars, running, failed, tickerVars, jobPipeline, taken, muxed,
                 ended, errors, eventVars>>

-----------------------------------------------------------------------------
OwnerUse == Start \/ (\E s \in AllStreams : Push(s)) \/ Pause \/ Resume \/ Finalize
OwnerGoesOn == \/ \E s \in AllStreams : Count(s)
               \/ JoinTicker \/ SendEos \/ AwaitDrain \/ SetNull \/ SendReport
Ticker == TickerLoop \/ TickerPop \/ TickerCheck \/ TickerFail \/ TickerProgress
GStreamer == (\E s \in AllStreams : Mux(s)) \/ PostError \/ Drain

JobNext == OwnerUse \/ OwnerGoesOn \/ Ticker \/ GStreamer

JobSpec == JobInit /\ [][JobNext]_jobVars

\* A call, once made, and the ticker's loop are executed by their threads; both
\* waits on the bus are bounded.  Nothing is asked of the embedder, and nothing
\* of GStreamer.
JobFairSpec == JobSpec /\ WF_jobVars(OwnerGoesOn) /\ WF_jobVars(Ticker)

-----------------------------------------------------------------------------
(* Properties.                                                             *)

\* Every variable holds a value of the code's type (the struct RecordingJob,
\* JobState and SessionEvent).
JobTypeOK ==
  /\ config \in Configs
  /\ state \in {"none", "recording", "paused", "stopped"}
  /\ jobPc \in AllStreams \cup {"idle", "joining", "joined", "wait", "null", "report", "done"}
  /\ counted \in [AllStreams -> 0..MaxBuffers] /\ taken \in [AllStreams -> 0..MaxBuffers]
  /\ muxed \in [AllStreams -> Nat]
  /\ running \in BOOLEAN /\ failed \in BOOLEAN /\ popped \in BOOLEAN
  /\ ticker \in {"none", "loop", "pop", "check", "fail", "progress", "done"}
  /\ jobPipeline \in {"none", "playing", "null"}
  /\ ended \in SUBSET AllStreams /\ drained \in BOOLEAN /\ errors \in 0..MaxErrors
  /\ jobBus \in Seq({"error", "eos"})
  /\ outcome \in {"none", "eos", "error", "timeout"}
  /\ last \in {"none", "started", "progress", "paused", "resumed", "failed", "stopped"}
  /\ told \in BOOLEAN
  /\ report \in [sent : BOOLEAN, counted : [AllStreams -> Nat], bytes : Nat]

\* While finalize waits for the muxer, an EOS that was posted is still on the
\* bus: the ticker, whose filtered pop throws EOS away, cannot have taken it.
EosNotStolen == jobPc = "wait" /\ drained => Posted("eos")

\* Finalize in its order: a pipeline goes to NULL only when its file is complete,
\* when it has failed, or when the budget for the muxer was used up; once Failed
\* was sent, EOS_BUDGET is not spent on it, the flag being read after the ticker
\* has ended; and the report counts what the appsrcs took and what is in the
\* file, which are the same after a clean drain.
NullAfterDrain     == jobPipeline = "null" => drained \/ errors > 0 \/ outcome = "timeout"
NoDrainAfterFailed == told => jobPc # "wait"
ReportIsFinal      ==
  report.sent =>
    /\ report.counted = taken /\ report.bytes = Bytes
    /\ drained /\ errors = 0 => muxed = taken
FinalizeOrder == NullAfterDrain /\ NoDrainAfterFailed /\ ReportIsFinal

\* Stopped is the last event: neither ticker nor teardown sends one after it.
StoppedIsLast == [][last = "stopped" => UNCHANGED <<last, report>>]_jobVars

\* stop and Drop return: the join and the wait for the muxer are bounded.
FinalizeEnds == jobPc = "joining" ~> jobPc = "done"

\* A session that is not being stopped goes on sending Progress.
ProgressGoesOn == []<>(ticker = "progress" \/ ~running)

\* Drop's comment: "Failures during teardown are recorded on the event stream".
TeardownFailureRecorded == last = "stopped" /\ outcome = "error" => told
=============================================================================
