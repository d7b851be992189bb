-------------------------- MODULE RecordingJob_proofs --------------------------
(***************************************************************************)
(* TLAPS proofs about RecordingJob, for every number of buffers and errors *)
(* and every configuration:                                                *)
(*   - JobTypeCorrect:  every variable keeps its type;                     *)
(*   - JobSafe:         the four safety properties of the end of a job;    *)
(*   - StoppedStaysLast: nothing is sent after Stopped.                    *)
(* JobInv relates the owner's place in finalize to what the ticker and the *)
(* pipeline can still do.  The join is what most of it rests on: from      *)
(* there on the ticker is done, so the bus and the flag belong to the      *)
(* owner alone.                                                            *)
(***************************************************************************)
EXTENDS RecordingJob, TLAPS

Draining == {"wait", "null", "report", "done"}
Late     == Draining \cup {"joined"}
TornDown == {"report", "done"}

\* The ticker has ended before the owner looks at its flag or the bus.
TickerGone == jobPc \in Late => ticker = "done"
\* Nothing runs before there is a handle.
NoHandle == state = "none" => jobPc = "idle"
\* EOS is sent after the join, and can only then have been posted.
EosAfterJoin ==
  /\ jobPc \notin Draining => "video" \notin ended
  /\ drained => "video" \in ended
\* What the bus holds, the ticker found, and the flag says comes from GStreamer.
ErrorsAreReal ==
  /\ Posted("error") => errors > 0
  /\ Posted("eos") => drained
  /\ ticker \in {"check", "fail"} /\ popped => errors > 0
  /\ ticker = "fail" => popped
  /\ failed => errors > 0
\* The flag the owner reads covers every failure that was sent.
FlagCoversEvents ==
  /\ told => failed
  /\ jobPc = "wait" => ~failed
  /\ jobPc = "null" => drained \/ errors > 0 \/ outcome = "timeout"
\* The counters lag behind the appsrcs by the push in progress.
CountersLag ==
  \A s \in AllStreams : taken[s] = counted[s] + (IF jobPc = s THEN 1 ELSE 0)
CleanDrain == drained /\ errors = 0 => muxed = taken
NullWhenTornDown == jobPipeline = "null" <=> jobPc \in TornDown
\* The last event and the report come with the last step.
ReportAtEnd ==
  /\ last = "stopped" <=> jobPc = "done"
  /\ report.sent => jobPc = "done"
  /\ report.sent => report.counted = taken /\ report.bytes = Bytes

JobInv ==
  /\ JobTypeOK /\ TickerGone /\ NoHandle /\ EosAfterJoin /\ EosNotStolen
  /\ ErrorsAreReal /\ FlagCoversEvents /\ CountersLag /\ CleanDrain
  /\ NullWhenTornDown /\ NullAfterDrain /\ ReportAtEnd

-----------------------------------------------------------------------------
LEMMA InitInv == JobInit => JobInv
<1> SUFFICES ASSUME JobInit PROVE JobInv
  OBVIOUS
<1>1. JobTypeOK
  <2>1. /\ jobBus \in Seq({"error", "eos"}) /\ errors \in 0..MaxErrors
        /\ Zero \in [AllStreams -> 0..MaxBuffers]
        /\ muxed \in [AllStreams -> Nat]
        /\ report \in [sent : BOOLEAN, counted : [AllStreams -> Nat], bytes : Nat]
    BY JobBoundsAssumption DEF JobInit, Zero, NoReport, AllStreams
  <2> QED
    BY <2>1 DEF JobInit, JobTypeOK, AllStreams
<1>2. ~Posted("error") /\ ~Posted("eos")
  BY DEF JobInit, Posted
<1> QED
  BY <1>1, <1>2 DEF JobInit, JobInv, Zero, NoReport, AllStreams, Late, Draining, TornDown,
     TickerGone, NoHandle, EosAfterJoin, EosNotStolen, ErrorsAreReal, FlagCoversEvents,
     CountersLag, CleanDrain, NullWhenTornDown, NullAfterDrain, ReportAtEnd

\* What is left of the bus was on it before.
LEMMA PopsKeep ==
  ASSUME jobBus \in Seq({"error", "eos"}), NEW filter, NEW i \in 1..Len(jobBus), Pops(i, filter)
  PROVE  /\ jobBus' \in Seq({"error", "eos"})
         /\ \A m \in {"error", "eos"} : Posted(m)' => Posted(m)
         /\ jobBus[i] \in filter /\ jobBus[i] \in {"error", "eos"} /\ Posted(jobBus[i])
  BY DEF Pops, Posted

\* A message is posted behind the others.
LEMMA AppendKeeps ==
  ASSUME jobBus \in Seq({"error", "eos"}), NEW msg \in {"error", "eos"}, jobBus' = Append(jobBus, msg)
  PROVE  /\ jobBus' \in Seq({"error", "eos"})
         /\ \A m \in {"error", "eos"} : Posted(m)' <=> Posted(m) \/ m = msg
  BY DEF Posted

\* Every step keeps the invariant.
LEMMA StepInv == JobInv /\ [JobNext]_jobVars => JobInv'
<1> SUFFICES ASSUME JobInv, [JobNext]_jobVars PROVE JobInv'
  OBVIOUS
<1> USE DEF JobInv, JobTypeOK, TickerGone, NoHandle, EosAfterJoin, EosNotStolen, ErrorsAreReal, FlagCoversEvents, CountersLag, CleanDrain, NullWhenTornDown, NullAfterDrain, ReportAtEnd
<1>1. CASE Start
  BY <1>1, JobBoundsAssumption DEF Start, jobVars, jobOwnerVars, tickerVars, gstVars, eventVars, JobIdle, Playing, Streams, AllStreams, Configs, Late, Draining, TornDown, Posted, Bytes
<1>2. ASSUME NEW s \in AllStreams, Push(s) PROVE JobInv'
  BY <1>2, JobBoundsAssumption DEF Push, jobVars, jobOwnerVars, tickerVars, gstVars, eventVars, JobIdle, Playing, Streams, AllStreams, Configs, Late, Draining, TornDown, Posted, Bytes
<1>3. CASE Pause
  BY <1>3, JobBoundsAssumption DEF Pause, jobVars, jobOwnerVars, tickerVars, gstVars, eventVars, JobIdle, Playing, Streams, AllStreams, Configs, Late, Draining, TornDown, Posted, Bytes
<1>4. CASE Resume
  BY <1>4, JobBoundsAssumption DEF Resume, jobVars, jobOwnerVars, tickerVars, gstVars, eventVars, JobIdle, Playing, Streams, AllStreams, Configs, Late, Draining, TornDown, Posted, Bytes
<1>5. CASE Finalize
  <2>1. /\ jobPc = "idle" /\ jobPc' = "joining" /\ state' = "stopped"
        /\ running' \in BOOLEAN
    BY <1>5 DEF Finalize, JobIdle
  <2>2. UNCHANGED <<config, counted, outcome, report, failed, ticker, popped, jobPipeline, taken,
                    muxed, ended, drained, errors, jobBus, last, told>>
    BY <1>5 DEF Finalize, tickerVars, gstVars, eventVars
  <2>3. JobTypeOK'
    BY <2>1, <2>2
  <2>4. Posted("error")' = Posted("error") /\ Posted("eos")' = Posted("eos")
    BY <2>2 DEF Posted
  <2>5. (TickerGone /\ NoHandle /\ EosAfterJoin /\ EosNotStolen /\ ErrorsAreReal)'
    BY <2>1, <2>2, <2>4 DEF Late, Draining
  <2>6. (FlagCoversEvents /\ CountersLag /\ CleanDrain /\ NullWhenTornDown)'
    BY <2>1, <2>2 DEF TornDown, AllStreams
  <2>7. (NullAfterDrain /\ ReportAtEnd)'
    BY <2>1, <2>2 DEF Bytes
  <2> QED
    BY <2>3, <2>5, <2>6, <2>7
<1>6. ASSUME NEW s \in AllStreams, Count(s) PROVE JobInv'
  BY <1>6, JobBoundsAssumption DEF Count, jobVars, jobOwnerVars, tickerVars, gstVars, eventVars, JobIdle, Playing, Streams, AllStreams, Configs, Late, Draining, TornDown, Posted, Bytes
<1>7. CASE JoinTicker
  BY <1>7, JobBoundsAssumption DEF JoinTicker, jobVars, jobOwnerVars, tickerVars, gstVars, eventVars, JobIdle, Playing, Streams, AllStreams, Configs, Late, Draining, TornDown, Posted, Bytes
<1>8. CASE SendEos
  <2>1. jobPc = "joined" /\ jobPc' \in {"null", "wait"} /\ ended' \in SUBSET AllStreams
    BY <1>8 DEF SendEos, Streams, AllStreams
  <2>2. UNCHANGED <<config, state, counted, outcome, report, running, failed, ticker, popped,
                    jobPipeline, taken, muxed, drained, errors, jobBus, last, told>>
    BY <1>8 DEF SendEos, tickerVars, eventVars
  <2>3. ~drained
    BY <2>1 DEF Draining
  <2>4. (jobPc' = "wait" => ~failed) /\ (jobPc' = "null" => failed)
    BY <1>8 DEF SendEos
  <2>5. JobTypeOK'
    BY <2>1, <2>2 DEF AllStreams
  <2>6. Posted("error")' = Posted("error") /\ Posted("eos")' = Posted("eos")
    BY <2>2 DEF Posted
  <2>7. (TickerGone /\ NoHandle /\ EosAfterJoin /\ EosNotStolen /\ ErrorsAreReal)'
    BY <2>1, <2>2, <2>3, <2>4, <2>6 DEF Late, Draining
  <2>8. (FlagCoversEvents /\ CountersLag /\ CleanDrain /\ NullWhenTornDown)'
    BY <2>1, <2>2, <2>3, <2>4 DEF TornDown, AllStreams
  <2>9. (NullAfterDrain /\ ReportAtEnd)'
    BY <2>1, <2>2 DEF Bytes
  <2> QED
    BY <2>5, <2>7, <2>8, <2>9
<1>9. CASE AwaitDrain
  <2>1. jobPc = "wait" /\ jobPc' = "null"
    BY <1>9 DEF AwaitDrain
  <2>2. UNCHANGED <<config, state, counted, report, running, failed, ticker, popped, jobPipeline,
                    taken, muxed, ended, drained, errors, last, told>>
    BY <1>9 DEF AwaitDrain, tickerVars, gstVars, eventVars
  <2>3. /\ jobBus' \in Seq({"error", "eos"}) /\ outcome' \in {"eos", "error", "timeout"}
        /\ \A m \in {"error", "eos"} : Posted(m)' => Posted(m)
        /\ outcome' # "timeout" => Posted(outcome')
    <3>1. ASSUME NEW i \in 1..Len(jobBus), Pops(i, {"eos", "error"}), outcome' = jobBus[i]
          PROVE  /\ jobBus' \in Seq({"error", "eos"}) /\ outcome' \in {"eos", "error", "timeout"}
                 /\ \A m \in {"error", "eos"} : Posted(m)' => Posted(m)
                 /\ outcome' # "timeout" => Posted(outcome')
      BY <3>1, PopsKeep
    <3>2. CASE outcome' = "timeout" /\ UNCHANGED jobBus
      BY <3>2 DEF Posted
    <3> QED
      BY <1>9, <3>1, <3>2 DEF AwaitDrain
  <2>4. drained \/ errors > 0 \/ outcome' = "timeout"
    BY <2>3
  <2>5. JobTypeOK'
    BY <2>1, <2>2, <2>3
  <2>6. (TickerGone /\ NoHandle /\ EosAfterJoin /\ EosNotStolen /\ ErrorsAreReal)'
    BY <2>1, <2>2, <2>3 DEF Late, Draining
  <2>7. (FlagCoversEvents /\ CountersLag /\ CleanDrain /\ NullWhenTornDown)'
    BY <2>1, <2>2, <2>4 DEF TornDown, AllStreams
  <2>8. (NullAfterDrain /\ ReportAtEnd)'
    BY <2>1, <2>2 DEF TornDown, Bytes
  <2> QED
    BY <2>5, <2>6, <2>7, <2>8
<1>10. CASE SetNull
  BY <1>10, JobBoundsAssumption DEF SetNull, jobVars, jobOwnerVars, tickerVars, gstVars, eventVars, JobIdle, Playing, Streams, AllStreams, Configs, Late, Draining, TornDown, Posted, Bytes
<1>11. CASE SendReport
  BY <1>11, JobBoundsAssumption DEF SendReport, jobVars, jobOwnerVars, tickerVars, gstVars, eventVars, JobIdle, Playing, Streams, AllStreams, Configs, Late, Draining, TornDown, Posted, Bytes
<1>12. CASE TickerLoop
  BY <1>12, JobBoundsAssumption DEF TickerLoop, jobVars, jobOwnerVars, tickerVars, gstVars, eventVars, JobIdle, Playing, Streams, AllStreams, Configs, Late, Draining, TornDown, Posted, Bytes
<1>13. CASE TickerPop
  <2>1. ticker = "pop" /\ ticker' = "check"
    BY <1>13 DEF TickerPop
  <2>2. UNCHANGED <<config, state, jobPc, counted, outcome, report, running, failed, jobPipeline,
                    taken, muxed, ended, drained, errors, last, told>>
    BY <1>13 DEF TickerPop, jobOwnerVars, gstVars, eventVars
  <2>3. jobPc \notin Late
    BY <2>1
  <2>4. /\ jobBus' \in Seq({"error", "eos"}) /\ popped' \in BOOLEAN
        /\ \A m \in {"error", "eos"} : Posted(m)' => Posted(m)
        /\ popped' => Posted("error")
    <3>1. ASSUME NEW i \in 1..Len(jobBus), Pops(i, {"error"}), popped' = TRUE
          PROVE  /\ jobBus' \in Seq({"error", "eos"}) /\ popped' \in BOOLEAN
                 /\ \A m \in {"error", "eos"} : Posted(m)' => Posted(m)
                 /\ popped' => Posted("error")
      BY <3>1, PopsKeep
    <3>2. CASE popped' = FALSE /\ jobBus' = <<>>
      <4>1. jobBus' = <<>> /\ ~popped' /\ popped' \in BOOLEAN
        BY <3>2
      <4>2. ~Posted("error")' /\ ~Posted("eos")'
        BY <4>1 DEF Posted
      <4> QED
        BY <4>1, <4>2
    <3>3. \/ \E i \in 1..Len(jobBus) : Pops(i, {"error"}) /\ popped' = TRUE
          \/ popped' = FALSE /\ jobBus' = <<>>
      BY <1>13 DEF TickerPop
    <3> QED
      BY <3>1, <3>2, <3>3
  <2>5. JobTypeOK'
    BY <2>1, <2>2, <2>4
  <2>6. (TickerGone /\ NoHandle /\ EosAfterJoin /\ EosNotStolen)'
    BY <2>1, <2>2, <2>3 DEF Late, Draining
  <2>7. ErrorsAreReal'
    BY <2>1, <2>2, <2>4
  <2>8. (FlagCoversEvents /\ CountersLag /\ CleanDrain /\ NullWhenTornDown)'
    BY <2>2 DEF TornDown, AllStreams
  <2>9. (NullAfterDrain /\ ReportAtEnd)'
    BY <2>2 DEF TornDown, Bytes
  <2> QED
    BY <2>5, <2>6, <2>7, <2>8, <2>9
<1>14. CASE TickerCheck
  BY <1>14, JobBoundsAssumption DEF TickerCheck, jobVars, jobOwnerVars, tickerVars, gstVars, eventVars, JobIdle, Playing, Streams, AllStreams, Configs, Late, Draining, TornDown, Posted, Bytes
<1>15. CASE TickerFail
  BY <1>15, JobBoundsAssumption DEF TickerFail, jobVars, jobOwnerVars, tickerVars, gstVars, eventVars, JobIdle, Playing, Streams, AllStreams, Configs, Late, Draining, TornDown, Posted, Bytes
<1>16. CASE TickerProgress
  BY <1>16, JobBoundsAssumption DEF TickerProgress, jobVars, jobOwnerVars, tickerVars, gstVars, eventVars, JobIdle, Playing, Streams, AllStreams, Configs, Late, Draining, TornDown, Posted, Bytes
<1>17. ASSUME NEW s \in AllStreams, Mux(s) PROVE JobInv'
  BY <1>17, JobBoundsAssumption DEF Mux, jobVars, jobOwnerVars, tickerVars, gstVars, eventVars, JobIdle, Playing, Streams, AllStreams, Configs, Late, Draining, TornDown, Posted, Bytes
<1>18. CASE PostError
  BY <1>18, JobBoundsAssumption DEF PostError, jobVars, jobOwnerVars, tickerVars, gstVars, eventVars, JobIdle, Playing, Streams, AllStreams, Configs, Late, Draining, TornDown, Posted, Bytes
<1>19. CASE Drain
  BY <1>19, JobBoundsAssumption DEF Drain, jobVars, jobOwnerVars, tickerVars, gstVars, eventVars, JobIdle, Playing, Streams, AllStreams, Configs, Late, Draining, TornDown, Posted, Bytes
<1>20. CASE UNCHANGED jobVars
  BY <1>20 DEF jobVars, jobOwnerVars, tickerVars, gstVars, eventVars, JobIdle, Playing, Streams, AllStreams, Configs, Late, Draining, TornDown, Posted, Bytes
<1> QED
  BY <1>1, <1>2, <1>3, <1>4, <1>5, <1>6, <1>7, <1>8, <1>9, <1>10, <1>11, <1>12, <1>13, <1>14, <1>15, <1>16, <1>17, <1>18, <1>19, <1>20 DEF JobNext, OwnerUse, OwnerGoesOn, Ticker, GStreamer

-----------------------------------------------------------------------------
\* The invariant holds throughout: what the theorems below rest on.
LEMMA Invariant == JobSpec => []JobInv
  BY InitInv, StepInv, PTL DEF JobSpec

\* Every variable of the job keeps its type.
THEOREM JobTypeCorrect == JobSpec => []JobTypeOK
<1>1. JobInv => JobTypeOK
  BY DEF JobInv
<1> QED
  BY <1>1, Invariant, PTL

\* No EOS is stolen by the ticker, no pipeline goes to NULL before its time, no
\* budget is spent on a pipeline that was reported as failed, and the report is
\* that of the finished file: finalize, whatever the ticker and GStreamer do.
THEOREM JobSafe ==
  JobSpec => [](EosNotStolen /\ FinalizeOrder)
<1>1. JobInv => EosNotStolen /\ NullAfterDrain
  BY DEF JobInv
<1>2. JobInv => NoDrainAfterFailed
  BY DEF JobInv, FlagCoversEvents, NoDrainAfterFailed
<1>3. JobInv => ReportIsFinal
  BY DEF JobInv, ReportAtEnd, CleanDrain, ReportIsFinal
<1>4. JobInv => EosNotStolen /\ FinalizeOrder
  BY <1>1, <1>2, <1>3 DEF FinalizeOrder
<1> QED
  BY <1>4, Invariant, PTL

\* Once the owner is done no step sends an event or replaces the report.
LEMMA DoneIsDone ==
  ASSUME JobInv, JobNext, last = "stopped"
  PROVE  UNCHANGED <<last, report>>
<1>1. jobPc = "done" /\ ticker = "done"
  BY DEF JobInv, ReportAtEnd, TickerGone, Late, Draining
<1>2. state # "none"
  BY <1>1 DEF JobInv, NoHandle
<1>3. ~OwnerUse
  BY <1>1, <1>2 DEF OwnerUse, Start, Push, Pause, Resume, Finalize, JobIdle
<1>4. ~OwnerGoesOn
  BY <1>1 DEF OwnerGoesOn, Count, JoinTicker, SendEos, AwaitDrain, SetNull, SendReport, AllStreams
<1>5. ~Ticker
  BY <1>1 DEF Ticker, TickerLoop, TickerPop, TickerCheck, TickerFail, TickerProgress
<1>6. GStreamer
  BY <1>3, <1>4, <1>5 DEF JobNext
<1> QED
  BY <1>6 DEF GStreamer, Mux, PostError, Drain, jobOwnerVars, eventVars

\* Stopped is the last event of a job, and its report the only one.
THEOREM StoppedStaysLast == JobSpec => StoppedIsLast
<1>1. JobInv /\ [JobNext]_jobVars => [last = "stopped" => UNCHANGED <<last, report>>]_jobVars
  BY DoneIsDone
<1> QED
  BY <1>1, Invariant, PTL DEF JobSpec, StoppedIsLast

=============================================================================
