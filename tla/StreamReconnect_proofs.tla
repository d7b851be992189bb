------------------------ MODULE StreamReconnect_proofs ------------------------
(***************************************************************************)
(* TLAPS proofs about StreamReconnect, for every list of targets and every *)
(* retry policy:                                                           *)
(*   - StatesAgree:       the two records of a target agree on who is live;*)
(*   - AttemptsNeverGrow: no target gets past its first attempt;           *)
(*   - NoRetryStorms:     a duplicate failure of a target whose retry is   *)
(*                        pending does not start its timer again;          *)
(*   - StreamTypeCorrect: every variable keeps its type.                   *)
(***************************************************************************)
EXTENDS StreamReconnect, FiniteSetTheorems, SequenceTheorems, TLAPS

\* mark_failed_once refuses a pending target, so LiveAgrees needs to know that
\* such a target is not live.
AgreeInv ==
  /\ states = [i \in Idx |-> states[i]]
  /\ retry = [i \in Idx |-> retry[i]]
  /\ \A i \in Idx : Pending(i) => retry[i].state = "failed"
  /\ LiveAgrees

LEMMA InitAgree == StreamInit => AgreeInv
<1> SUFFICES ASSUME StreamInit PROVE AgreeInv
  OBVIOUS
<1>1. states = [i \in Idx |-> "offline"] /\ retry = [i \in Idx |-> NewRetry]
  BY DEF StreamInit
<1>2. LiveAgrees
  BY DEF StreamInit, LiveAgrees
<1>3. \A i \in Idx : retry[i] = NewRetry
  BY <1>1
<1>4. \A i \in Idx : Pending(i) => retry[i].state = "failed"
  BY <1>3 DEF Pending, NewRetry
<1>5. states = [i \in Idx |-> states[i]] /\ retry = [i \in Idx |-> retry[i]]
  BY <1>1
<1> QED BY <1>2, <1>4, <1>5 DEF AgreeInv

LEMMA FailureAgrees ==
  ASSUME AgreeInv, NEW name, HandleFailure(name), UNCHANGED <<configured, supervised>>
  PROVE  AgreeInv'
<1>1. /\ states' = SetState(name, "failed")
      /\ retry' = [i \in Idx |-> IF Targets[i] = name /\ FailsAgain(i) THEN Failed(i)
                                 ELSE retry[i]]
  BY DEF HandleFailure
<1>2. ASSUME NEW i \in Idx
      PROVE  /\ Pending(i)' => retry'[i].state = "failed"
             /\ supervised /\ configured
                  => (states'[i] = "live" <=> retry'[i].state = "live")
  <2>1. CASE Targets[i] = name /\ FailsAgain(i)
    BY <1>1, <2>1 DEF SetState, Failed
  <2>2. CASE Targets[i] = name /\ ~FailsAgain(i)
    BY <1>1, <2>2 DEF SetState, AgreeInv, FailsAgain, Pending
  <2>3. CASE Targets[i] # name
    BY <1>1, <2>3 DEF SetState, AgreeInv, Pending, LiveAgrees
  <2> QED BY <2>1, <2>2, <2>3
<1>3. states' = [i \in Idx |-> states'[i]] /\ retry' = [i \in Idx |-> retry'[i]]
  BY <1>1 DEF SetState
<1> QED BY <1>2, <1>3 DEF AgreeInv, LiveAgrees

LEMMA LiveAgreesToo ==
  ASSUME AgreeInv, NEW name, HandleLive(name), UNCHANGED <<configured, supervised>>
  PROVE  AgreeInv'
<1>1. /\ states' = SetState(name, "live")
      /\ retry' = [i \in Idx |-> IF supervised /\ Targets[i] = name THEN LiveRetry ELSE retry[i]]
  BY DEF HandleLive
<1>2. ASSUME NEW i \in Idx
      PROVE  /\ Pending(i)' => retry'[i].state = "failed"
             /\ supervised /\ configured
                  => (states'[i] = "live" <=> retry'[i].state = "live")
  BY <1>1, <1>2 DEF SetState, LiveRetry, AgreeInv, Pending, LiveAgrees
<1>3. states' = [i \in Idx |-> states'[i]] /\ retry' = [i \in Idx |-> retry'[i]]
  BY <1>1 DEF SetState
<1> QED BY <1>2, <1>3 DEF AgreeInv, LiveAgrees

LEMMA SameAgrees ==
  ASSUME AgreeInv, UNCHANGED <<configured, supervised, states, retry>>
  PROVE  AgreeInv'
BY DEF AgreeInv, Pending, LiveAgrees

LEMMA NextAgree == AgreeInv /\ [StreamNext]_streamVars => AgreeInv'
<1> SUFFICES ASSUME AgreeInv, [StreamNext]_streamVars PROVE AgreeInv'
  OBVIOUS
<1>1. ASSUME NEW on \in BOOLEAN, SetMultistreamSettings(on) PROVE AgreeInv'
  BY <1>1 DEF SetMultistreamSettings, AgreeInv, Pending, NewRetry, LiveAgrees
<1>2. ASSUME SetSingleStream PROVE AgreeInv'
  BY <1>2 DEF SetSingleStream, AgreeInv, Pending, LiveAgrees
<1>3. ASSUME StopTargets PROVE AgreeInv'
  BY <1>3 DEF StopTargets, AgreeInv, Pending, NewRetry, LiveAgrees
<1>4. ASSUME StartTargets \/ BuildPipeline \/ Tick \/ WorkerFires \/ BeginService
      PROVE  AgreeInv'
  BY <1>4, SameAgrees
     DEF StartTargets, BuildPipeline, Tick, WorkerFires, BeginService, targetVars
<1>5. ASSUME NEW i \in Idx, SinkFails(i) PROVE AgreeInv'
  BY <1>5, SameAgrees DEF SinkFails, targetVars
<1>6. ASSUME NEW i \in Idx, CallerReports(i) PROVE AgreeInv'
  BY <1>6, FailureAgrees DEF CallerReports
<1>7. ASSUME PollStreamReconnects PROVE AgreeInv'
  <2>1. ASSUME NEW i \in Idx
        PROVE  /\ Pending(i)' => retry'[i].state = "failed"
               /\ supervised /\ configured
                    => (states'[i] = "live" <=> retry'[i].state = "live")
    BY <1>7, <2>1 DEF PollStreamReconnects, Due, AgreeInv, Pending, LiveAgrees
  <2>2. states' = [i \in Idx |-> states'[i]] /\ retry' = [i \in Idx |-> retry'[i]]
    BY <1>7 DEF PollStreamReconnects, AgreeInv
  <2> QED BY <1>7, <2>1, <2>2 DEF AgreeInv, LiveAgrees, PollStreamReconnects
<1>8. ASSUME PollStreamBus PROVE AgreeInv'
  BY <1>8, FailureAgrees, LiveAgreesToo, SameAgrees DEF PollStreamBus
<1>9. ASSUME DrainReconnectCommands PROVE AgreeInv'
  BY <1>9, SameAgrees DEF DrainReconnectCommands, targetVars
<1>10. ASSUME Rebuild PROVE AgreeInv'
  <2>1. CASE RebuildNothing
    BY <2>1, SameAgrees DEF RebuildNothing, targetVars
  <2>2. ASSUME NEW i \in Idx, RebuildTarget(i) PROVE AgreeInv'
    BY <2>2, LiveAgreesToo DEF RebuildTarget
  <2>3. ASSUME NEW i \in Idx, RebuildFails(i) PROVE AgreeInv'
    BY <2>3, SameAgrees DEF RebuildFails, targetVars
  <2> QED BY <1>10, <2>1, <2>2, <2>3 DEF Rebuild
<1>11. CASE UNCHANGED streamVars
  BY <1>11, SameAgrees DEF streamVars, targetVars
<1> QED
  BY <1>1, <1>2, <1>3, <1>4, <1>5, <1>6, <1>7, <1>8, <1>9, <1>10, <1>11
     DEF StreamNext, ServiceStep

\* What the embedder is shown of a target agrees with the supervisor: a target
\* is shown live exactly when the supervisor, too, has it live.
THEOREM StatesAgree == StreamSpec => []LiveAgrees
<1>1. AgreeInv => LiveAgrees
  BY DEF AgreeInv
<1> QED BY InitAgree, NextAgree, <1>1, PTL DEF StreamSpec
-----------------------------------------------------------------------------
(* The retries the supervisor can hold are only these four.                *)

FirstRetry == [state |-> "failed", attempts |-> 1, retryAt |-> Backoff(1)]
Claimed    == [state |-> "connecting", attempts |-> 1, retryAt |-> 0]

AttemptInv == retry \in [Idx -> {NewRetry, LiveRetry, FirstRetry, Claimed}]

LEMMA BackoffIsPositive == Backoff(1) # 0
BY DEF Backoff

\* A failure that counts is the first one.
LEMMA FailureIsFirst ==
  ASSUME AttemptInv, NEW i \in Idx, FailsAgain(i)
  PROVE  Failed(i) = FirstRetry
<1>1. retry[i] \in {NewRetry, LiveRetry}
  BY BackoffIsPositive DEF AttemptInv, FailsAgain, Pending, FirstRetry, Claimed, NewRetry, LiveRetry
<1>2. retry[i].attempts + 1 = 1
  BY <1>1 DEF NewRetry, LiveRetry
<1> QED BY <1>2 DEF Failed, FirstRetry

LEMMA FailureCounts ==
  ASSUME AttemptInv, NEW name, HandleFailure(name)
  PROVE  AttemptInv'
<1>1. retry' = [i \in Idx |-> IF Targets[i] = name /\ FailsAgain(i) THEN Failed(i)
                              ELSE retry[i]]
  BY DEF HandleFailure
<1> QED BY <1>1, FailureIsFirst DEF AttemptInv, FirstRetry

LEMMA LiveCounts ==
  ASSUME AttemptInv, NEW name, HandleLive(name)
  PROVE  AttemptInv'
BY DEF AttemptInv, HandleLive, FirstRetry

LEMMA NextAttempt == AttemptInv /\ [StreamNext]_streamVars => AttemptInv'
<1> SUFFICES ASSUME AttemptInv, [StreamNext]_streamVars PROVE AttemptInv'
  OBVIOUS
<1>1. CASE UNCHANGED retry
  BY <1>1 DEF AttemptInv, FirstRetry
<1>2. ASSUME StopTargets \/ \E on \in BOOLEAN : SetMultistreamSettings(on)
      PROVE  AttemptInv'
  BY <1>2 DEF SetMultistreamSettings, StopTargets, AttemptInv, FirstRetry
<1>3. ASSUME NEW i \in Idx, CallerReports(i) PROVE AttemptInv'
  BY <1>3, FailureCounts DEF CallerReports
<1>4. ASSUME PollStreamReconnects PROVE AttemptInv'
  <2>1. ASSUME NEW i \in Due
        PROVE  retry[i] = FirstRetry
    BY <2>1 DEF Due, Pending, AttemptInv, NewRetry, LiveRetry, Claimed
  <2>2. ASSUME NEW i \in Due
        PROVE  [state |-> "connecting", attempts |-> retry[i].attempts, retryAt |-> 0] = Claimed
    BY <2>1 DEF FirstRetry, Claimed
  <2> QED BY <1>4, <2>2 DEF PollStreamReconnects, AttemptInv, FirstRetry
<1>5. ASSUME PollStreamBus PROVE AttemptInv'
  BY <1>5, <1>1, FailureCounts, LiveCounts DEF PollStreamBus
<1>6. ASSUME NEW i \in Idx, RebuildTarget(i) PROVE AttemptInv'
  BY <1>6, LiveCounts DEF RebuildTarget
<1>7. ASSUME \/ SetSingleStream \/ StartTargets \/ BuildPipeline \/ Tick \/ WorkerFires
             \/ BeginService \/ DrainReconnectCommands \/ RebuildNothing
             \/ \E i \in Idx : SinkFails(i) \/ RebuildFails(i)
      PROVE  UNCHANGED retry
  BY <1>7 DEF SetSingleStream, StartTargets, BuildPipeline, Tick, WorkerFires,
              BeginService, DrainReconnectCommands, RebuildNothing, SinkFails,
              RebuildFails, targetVars
<1>8. CASE UNCHANGED streamVars
  BY <1>1, <1>8 DEF streamVars, targetVars
<1> QED
  BY <1>1, <1>2, <1>3, <1>4, <1>5, <1>6, <1>7, <1>8 DEF StreamNext, ServiceStep, Rebuild

\* A failure is not counted while a retry is pending or claimed, and both ways
\* out of that, a rebuild and a message of the sink, start the count again.
FirstAttemptOnly ==
  \A i \in Idx : /\ retry[i].attempts <= 1
                 /\ Pending(i) => retry[i].retryAt = Backoff(1)

\* No target gets past its first attempt, whatever the retry policy: every wait
\* is initial_backoff, and the limit max_attempts is never reached.
THEOREM AttemptsNeverGrow == StreamSpec => []FirstAttemptOnly
<1>1. StreamInit => AttemptInv
  BY DEF StreamInit, AttemptInv
<1>2. AttemptInv => FirstAttemptOnly
  <2> SUFFICES ASSUME AttemptInv, NEW i \in Idx
               PROVE  retry[i].attempts <= 1 /\ (Pending(i) => retry[i].retryAt = Backoff(1))
    BY DEF FirstAttemptOnly
  <2> HIDE DEF FirstRetry
  <2>1. retry[i] \in {NewRetry, LiveRetry, FirstRetry, Claimed}
    BY DEF AttemptInv
  <2> QED BY <2>1 DEF Pending, NewRetry, LiveRetry, FirstRetry, Claimed
<1> QED BY <1>1, <1>2, NextAttempt, PTL DEF StreamSpec
-----------------------------------------------------------------------------
(* The timer of a pending retry.                                           *)

Names == {""} \cup {Targets[i] : i \in Idx}

\* The wait of a worker is a number that only its timer has set.
WorkerType == worker \in [target : Names, left : Nat,
                          phase : {"none", "waiting", "fired", "spent"}]

LEMMA BackoffType == Backoff(1) \in Nat
BY PolicyAssumption DEF Backoff

\* A failure either leaves the worker alone or starts the timer of a target
\* that had none pending.
LEMMA FailureTimer ==
  ASSUME AttemptInv, WorkerType, NEW name, HandleFailure(name)
  PROVE  /\ WorkerType'
         /\ \/ worker' = worker
            \/ \E i \in Idx : ~Pending(i) /\ worker'.target = Targets[i]
<1>1. CASE UNCHANGED worker
  BY <1>1 DEF WorkerType, Names
<1>2. ASSUME NEW i \in Idx, Targets[i] = name, FailsAgain(i),
             worker' = [target |-> name, left |-> Failed(i).retryAt, phase |-> "waiting"]
      PROVE  WorkerType' /\ ~Pending(i) /\ worker'.target = Targets[i]
  <2>1. Failed(i).retryAt \in Nat
    BY <1>2, FailureIsFirst, BackoffType DEF FirstRetry
  <2>2. name \in Names
    BY <1>2 DEF Names
  <2> QED BY <1>2, <2>1, <2>2 DEF WorkerType, FailsAgain, Names
<1> QED BY <1>1, <1>2 DEF HandleFailure

\* What one step does to the timer of a pending target.
TimerKept ==
  \A i \in Idx :
    /\ Pending(i) /\ worker.target = Targets[i] /\ worker.phase = "waiting"
    /\ worker'.target = Targets[i]
    => worker'.left <= worker.left /\ worker'.phase # "none"

LEMMA StepKeepsTimer ==
  ASSUME AttemptInv, WorkerType, [StreamNext]_streamVars
  PROVE  WorkerType' /\ TimerKept
<1>1. CASE worker' = worker
  <2>1. WorkerType'
    BY <1>1, Zenon DEF WorkerType, Names
  <2>2. worker.left \in Nat /\ worker'.left = worker.left /\ worker'.phase = worker.phase
    BY <1>1 DEF WorkerType
  <2> QED BY <2>1, <2>2 DEF TimerKept
<1>2. ASSUME NEW name, HandleFailure(name) PROVE WorkerType' /\ TimerKept
  <2>1. ASSUME NEW i \in Idx, ~Pending(i), worker'.target = Targets[i] PROVE TimerKept
    BY <2>1, TargetsAssumption DEF TimerKept
  <2> QED BY <1>1, <1>2, <2>1, FailureTimer
<1>3. ASSUME StopTargets PROVE WorkerType' /\ TimerKept
  <2>1. worker' = NoWorker
    BY <1>3 DEF StopTargets
  <2> QED BY <2>1, TargetsAssumption DEF WorkerType, TimerKept, NoWorker, Names
<1>4. ASSUME Tick PROVE WorkerType' /\ TimerKept
  <2>1. /\ worker'.left \in Nat /\ worker'.left <= worker.left
        /\ worker'.target = worker.target /\ worker'.phase = worker.phase
        /\ worker' = [worker EXCEPT !.left = worker'.left]
    BY <1>4 DEF Tick, WorkerType
  <2>2. WorkerType'
    BY <2>1 DEF WorkerType, Names
  <2>3. worker.phase # "none" => worker'.phase # "none"
    BY <2>1
  <2> QED BY <2>1, <2>2, <2>3 DEF TimerKept
<1>5. ASSUME WorkerFires \/ DrainReconnectCommands PROVE WorkerType' /\ TimerKept
  <2>1. \/ worker' = worker
        \/ worker' = [worker EXCEPT !.phase = "fired"]
        \/ worker' = [worker EXCEPT !.phase = "spent"]
    BY <1>5 DEF WorkerFires, DrainReconnectCommands
  <2>2. ASSUME NEW ph \in {"fired", "spent"}, worker' = [worker EXCEPT !.phase = ph]
        PROVE  WorkerType' /\ TimerKept
    <3>1. WorkerType'
      BY <2>2 DEF WorkerType, Names
    <3>2. worker'.left = worker.left /\ worker.left \in Nat /\ worker'.phase = ph
      BY <2>2 DEF WorkerType
    <3> QED BY <3>1, <3>2 DEF TimerKept
  <2> QED BY <1>1, <2>1, <2>2
<1>6. ASSUME NEW i \in Idx, CallerReports(i) PROVE WorkerType' /\ TimerKept
  BY <1>2, <1>6 DEF CallerReports
<1>7. ASSUME PollStreamBus PROVE WorkerType' /\ TimerKept
  BY <1>1, <1>2, <1>7 DEF PollStreamBus, HandleLive
<1>8. ASSUME NEW i \in Idx, RebuildTarget(i) PROVE WorkerType' /\ TimerKept
  BY <1>1, <1>8 DEF RebuildTarget, HandleLive
<1>9. ASSUME \/ \E on \in BOOLEAN : SetMultistreamSettings(on)
             \/ SetSingleStream \/ StartTargets \/ BuildPipeline
             \/ PollStreamReconnects \/ BeginService \/ RebuildNothing
             \/ \E i \in Idx : SinkFails(i) \/ RebuildFails(i)
             \/ UNCHANGED streamVars
      PROVE  worker' = worker
  BY <1>9 DEF SetMultistreamSettings, SetSingleStream, StartTargets, BuildPipeline,
              PollStreamReconnects, BeginService, RebuildNothing, SinkFails, RebuildFails,
              streamVars
<1> QED
  BY <1>1, <1>3, <1>4, <1>5, <1>6, <1>7, <1>8, <1>9 DEF StreamNext, ServiceStep, Rebuild

\* A duplicate failure of a target whose retry is pending never starts its
\* timer again, for every list of targets and every retry policy.
THEOREM NoRetryStorms == StreamSpec => PendingRetryNotRestarted
<1>1. StreamInit => AttemptInv /\ WorkerType
  <2> SUFFICES ASSUME StreamInit PROVE AttemptInv /\ WorkerType
    OBVIOUS
  <2>1. AttemptInv
    BY DEF StreamInit, AttemptInv
  <2>2. WorkerType
    BY DEF StreamInit, WorkerType, NoWorker, Names
  <2> QED BY <2>1, <2>2
<1>2. AttemptInv /\ WorkerType /\ [StreamNext]_streamVars => (AttemptInv /\ WorkerType)'
  BY NextAttempt, StepKeepsTimer
<1>3. AttemptInv /\ WorkerType /\ [StreamNext]_streamVars => [TimerKept]_streamVars
  BY StepKeepsTimer
<1> QED BY <1>1, <1>2, <1>3, PTL DEF StreamSpec, PendingRetryNotRestarted, TimerKept
-----------------------------------------------------------------------------
(* The types.                                                              *)

Messages == [sink : Idx, event : {"error", "state"}]

\* What the bus holds, and the variables that AttemptInv and WorkerType do not
\* speak of.
RestType ==
  /\ configured \in BOOLEAN /\ supervised \in BOOLEAN
  /\ states \in [Idx -> TargetStates]
  /\ elapsed \in 0..MaxBackoff
  /\ worker.left <= MaxBackoff
  /\ sinks \subseteq Idx
  /\ streamBus \in Seq(Messages) /\ Len(streamBus) <= MaxBus + Len(Targets)
  /\ streamPc \in {"idle", "poll", "drain", "rebuild"}

BusRoom(q) == q \in Seq(Messages) /\ Len(q) <= MaxBus + Len(Targets)

LEMMA FirstBackoff == Backoff(1) \in 0..MaxBackoff
BY PolicyAssumption DEF Backoff

LEMMA TargetsCount == Len(Targets) \in Nat /\ MaxBus \in Nat
<1>1. Len(Targets) \in 1..4
  BY TargetsAssumption, Zenon
<1>2. MaxBus \in Nat
  BY BusAssumption
<1> QED BY <1>1, <1>2

LEMMA NoTimer == NoWorker.left <= MaxBackoff /\ 0 \in 0..MaxBackoff
<1>1. NoWorker.left = 0
  BY DEF NoWorker
<1>2. MaxBackoff \in Nat
  BY PolicyAssumption
<1> QED BY <1>1, <1>2

LEMMA EmptyBus == BusRoom(<<>>)
BY TargetsCount DEF BusRoom

\* A message that is posted while there is room.
LEMMA PostedBus ==
  ASSUME BusRoom(streamBus), Len(streamBus) < MaxBus, NEW i \in Idx, NEW e \in {"error", "state"}
  PROVE  BusRoom(Append(streamBus, [sink |-> i, event |-> e]))
<1>1. [sink |-> i, event |-> e] \in Messages
  BY DEF Messages
<1> QED BY <1>1, TargetsCount, AppendProperties DEF BusRoom

LEMMA PolledBus ==
  ASSUME BusRoom(streamBus), streamBus # <<>>
  PROVE  BusRoom(Tail(streamBus)) /\ Head(streamBus) \in Messages /\ Tail(streamBus) # streamBus
<1>1. /\ Tail(streamBus) \in Seq(Messages) /\ Head(streamBus) \in Messages
      /\ Len(Tail(streamBus)) = Len(streamBus) - 1 /\ Len(streamBus) \in Nat
  BY HeadTailProperties, LenProperties DEF BusRoom
<1>2. Tail(streamBus) # streamBus
  <2> SUFFICES ASSUME Tail(streamBus) = streamBus PROVE FALSE
    OBVIOUS
  <2>1. Len(streamBus) = Len(streamBus) - 1
    BY <1>1
  <2> QED BY <1>1, <2>1
<1>3. Len(Tail(streamBus)) <= MaxBus + Len(Targets)
  <2>1. Len(streamBus) <= MaxBus + Len(Targets)
    BY DEF BusRoom
  <2> QED BY <1>1, <2>1, TargetsCount
<1> QED BY <1>1, <1>2, <1>3 DEF BusRoom

\* The messages of a new pipeline are one for each of its sinks.
LEMMA FirstBus ==
  ASSUME NEW S \in SUBSET Idx, NEW order \in [1..Cardinality(S) -> S]
  PROVE  BusRoom([n \in DOMAIN order |-> [sink |-> order[n], event |-> "state"]])
<1> DEFINE q == [n \in 1..Cardinality(S) |-> [sink |-> order[n], event |-> "state"]]
<1>1. IsFiniteSet(Idx) /\ Cardinality(Idx) = Len(Targets)
  BY TargetsCount, FS_Interval DEF Idx
<1>2. Cardinality(S) \in Nat /\ Cardinality(S) <= Len(Targets)
  BY <1>1, FS_Subset, FS_CardinalityType
<1>3. q \in [1..Cardinality(S) -> Messages]
  BY DEF Messages
<1>4. q \in Seq(Messages) /\ Len(q) = Cardinality(S)
  BY <1>2, <1>3, IsASeq
<1> QED BY <1>2, <1>4, TargetsCount DEF BusRoom

LEMMA FailureTypes ==
  ASSUME RestType, AttemptInv, WorkerType, NEW name, HandleFailure(name)
  PROVE  states' \in [Idx -> TargetStates] /\ worker'.left <= MaxBackoff
<1>1. states' \in [Idx -> TargetStates]
  BY DEF HandleFailure, SetState, RestType, TargetStates
<1>2. CASE UNCHANGED worker
  BY <1>1, <1>2 DEF RestType
<1>3. ASSUME NEW i \in Idx, FailsAgain(i), worker'.left = Failed(i).retryAt
      PROVE  worker'.left <= MaxBackoff
  BY <1>3, FailureIsFirst, FirstBackoff, PolicyAssumption DEF FirstRetry
<1> QED BY <1>1, <1>2, <1>3 DEF HandleFailure

LEMMA LiveTypes ==
  ASSUME RestType, NEW name, HandleLive(name)
  PROVE  states' \in [Idx -> TargetStates] /\ worker'.left <= MaxBackoff
BY DEF HandleLive, SetState, RestType, TargetStates

LEMMA NextRest == RestType /\ AttemptInv /\ WorkerType /\ [StreamNext]_streamVars => RestType'
<1> SUFFICES ASSUME RestType, AttemptInv, WorkerType, [StreamNext]_streamVars PROVE RestType'
  OBVIOUS
<1> USE DEF RestType, targetVars, pipeVars
<1>1. ASSUME NEW on \in BOOLEAN, SetMultistreamSettings(on) PROVE RestType'
  BY <1>1, PolicyAssumption DEF SetMultistreamSettings, TargetStates
<1>2. CASE SetSingleStream
  BY <1>2 DEF SetSingleStream, TargetStates
<1>3. CASE StartTargets
  BY <1>3 DEF StartTargets
<1>4. CASE BuildPipeline
  <2>1. sinks' \in SUBSET Idx
    BY <1>4, SinksAssumption DEF BuildPipeline
  <2>2. BusRoom(streamBus')
    BY <1>4, <2>1, FirstBus DEF BuildPipeline
  <2> QED BY <1>4, <2>1, <2>2 DEF BuildPipeline, BusRoom
<1>5. CASE StopTargets
  <2>1. streamBus' \in Seq(Messages) /\ Len(streamBus') <= MaxBus + Len(Targets)
    BY <1>5, EmptyBus DEF StopTargets, BusRoom
  <2>2. elapsed' \in 0..MaxBackoff /\ worker'.left <= MaxBackoff
    BY <1>5, NoTimer DEF StopTargets
  <2>3. sinks' \subseteq Idx /\ supervised' \in BOOLEAN
    BY <1>5 DEF StopTargets
  <2>4. UNCHANGED <<configured, states, streamPc>>
    BY <1>5 DEF StopTargets
  <2> QED BY <2>1, <2>2, <2>3, <2>4
<1>6. ASSUME NEW i \in Idx, SinkFails(i) PROVE RestType'
  BY <1>6, PostedBus DEF SinkFails, BusRoom
<1>7. ASSUME NEW i \in Idx, CallerReports(i) PROVE RestType'
  BY <1>7, FailureTypes DEF CallerReports
<1>8. CASE Tick
  BY <1>8, PolicyAssumption DEF Tick, Saturate, WorkerType
<1>9. CASE WorkerFires
  BY <1>9 DEF WorkerFires, WorkerType
<1>10. CASE PollStreamReconnects
  BY <1>10 DEF PollStreamReconnects
<1>11. CASE BeginService
  BY <1>11 DEF BeginService
<1>12. CASE PollStreamBus
  <2>1. CASE streamBus = <<>>
    BY <1>12, <2>1 DEF PollStreamBus
  <2>2. CASE streamBus # <<>>
    <3>1. BusRoom(streamBus')
      BY <1>12, <2>2, PolledBus DEF PollStreamBus, BusRoom
    <3>2. states' \in [Idx -> TargetStates] /\ worker'.left <= MaxBackoff
      BY <1>12, <2>2, FailureTypes, LiveTypes DEF PollStreamBus
    <3> QED BY <1>12, <2>2, <3>1, <3>2 DEF PollStreamBus, BusRoom
  <2> QED BY <2>1, <2>2
<1>13. CASE DrainReconnectCommands
  BY <1>13 DEF DrainReconnectCommands, WorkerType
<1>14. CASE RebuildNothing
  BY <1>14 DEF RebuildNothing
<1>15. ASSUME NEW i \in Idx, RebuildTarget(i) PROVE RestType'
  BY <1>15, LiveTypes, PostedBus DEF RebuildTarget, BusRoom
<1>16. ASSUME NEW i \in Idx, RebuildFails(i) PROVE RestType'
  BY <1>16, EmptyBus DEF RebuildFails, BusRoom
<1>17. CASE UNCHANGED streamVars
  BY <1>17 DEF streamVars
<1> QED
  BY <1>1, <1>2, <1>3, <1>4, <1>5, <1>6, <1>7, <1>8, <1>9, <1>10, <1>11, <1>12, <1>13,
     <1>14, <1>15, <1>16, <1>17 DEF StreamNext, ServiceStep, Rebuild

StreamTypeInv == RestType /\ AttemptInv /\ WorkerType

LEMMA InitTypes == StreamInit => StreamTypeInv
<1> SUFFICES ASSUME StreamInit PROVE StreamTypeInv
  OBVIOUS
<1>1. AttemptInv
  BY DEF StreamInit, AttemptInv
<1>2. WorkerType
  BY DEF StreamInit, WorkerType, NoWorker, Names
<1>3. RestType
  <2>1. streamBus \in Seq(Messages) /\ Len(streamBus) <= MaxBus + Len(Targets)
    BY EmptyBus DEF StreamInit, BusRoom
  <2>2. elapsed \in 0..MaxBackoff /\ worker.left <= MaxBackoff
    BY NoTimer DEF StreamInit
  <2>3. states \in [Idx -> TargetStates] /\ sinks \subseteq Idx
    BY DEF StreamInit, TargetStates
  <2> QED BY <2>1, <2>2, <2>3 DEF StreamInit, RestType
<1> QED BY <1>1, <1>2, <1>3 DEF StreamTypeInv

LEMMA NextTypes == StreamTypeInv /\ [StreamNext]_streamVars => StreamTypeInv'
BY NextAttempt, StepKeepsTimer, NextRest DEF StreamTypeInv

\* The variables of the reconnect machinery keep their types: no wait is longer
\* than the longest backoff, and the bus holds no more than it is modelled to.
THEOREM StreamTypeCorrect == StreamSpec => []StreamTypeOK
<1>1. StreamTypeInv => StreamTypeOK
  <2> SUFFICES ASSUME StreamTypeInv PROVE StreamTypeOK
    OBVIOUS
  <2> HIDE DEF FirstRetry
  <2>1. ASSUME NEW r \in {NewRetry, LiveRetry, FirstRetry, Claimed}
        PROVE  r \in [state : TargetStates, attempts : 0..MaxAttempts + 1,
                      retryAt : 0..MaxBackoff]
    BY <2>1, FirstBackoff, PolicyAssumption
       DEF NewRetry, LiveRetry, FirstRetry, Claimed, TargetStates
  <2>2. retry \in [Idx -> [state : TargetStates, attempts : 0..MaxAttempts + 1,
                           retryAt : 0..MaxBackoff]]
    BY <2>1 DEF StreamTypeInv, AttemptInv
  <2> QED BY <2>2, PolicyAssumption DEF StreamTypeInv, RestType, WorkerType, StreamTypeOK
<1> QED BY <1>1, InitTypes, NextTypes, PTL DEF StreamSpec
=============================================================================
