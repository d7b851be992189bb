------------------------ MODULE EngineSession_proofs ------------------------
(***************************************************************************)
(* TLAPS proofs about EngineSession, for every number of sessions, rings   *)
(* and paths and every combination of stop modes and faults:               *)
(*   - TypeCorrect:       every variable keeps its type;                   *)
(*   - OneOwner:          a live pipeline has exactly one owner;           *)
(*   - ClearedStaysClear: no packet of a session after its ring was        *)
(*                        cleared;                                         *)
(*   - FilesAreRight:     a pipeline writes, and its finalizer processes,  *)
(*                        the file that was asked for;                     *)
(*   - NoRetryStorm:      a session is not built more often than allowed;  *)
(*   - ClipIsOfSession:   a replay holds packets of its session only;      *)
(*   - ImplementsSessionLifecycle: the engine implements the abstract life *)
(*                        cycle of a session.                              *)
(***************************************************************************)
EXTENDS EngineSession, FiniteSetTheorems, TLAPS

\* The number of parse attempts a build adds is a natural number.
LEMMA TriedIsNat ==
  /\ Cardinality(TriedEncoders) \in Nat
  /\ \A try \in TriedEncoders : try[1] \in {"hardware", "software"} /\ try[2] \in Nat
<1>1. IsFiniteSet(TriedEncoders)
  <2>1. CASE videoEncoder = "hardware"
    <3>1. TriedEncoders = {<<"hardware", 1>>} \cup {<<"software", 2>>}
      BY <2>1 DEF TriedEncoders
    <3> QED BY <3>1, FS_Singleton, FS_Union
  <2>2. CASE videoEncoder # "hardware"
    BY <2>2, FS_Singleton DEF TriedEncoders
  <2> QED BY <2>1, <2>2
<1>2. Cardinality(TriedEncoders) \in Nat
  BY <1>1, FS_CardinalityType
<1>3. ASSUME NEW try \in TriedEncoders
      PROVE  try[1] \in {"hardware", "software"} /\ try[2] \in Nat
  BY <1>3 DEF TriedEncoders
<1> QED BY <1>2, <1>3

-----------------------------------------------------------------------------
\* The initial state is well typed.
LEMMA InitType == Init => TypeOK
<1> SUFFICES ASSUME Init PROVE TypeOK
  OBVIOUS
<1>1. NoPipe \in PipeType
  BY BoundsAssumption DEF NoPipe, PipeType, PathOpt
<1>2. NoParts \in PartsType
  BY BoundsAssumption DEF NoParts, PartsType, PathOpt, Phases
<1>3. pipes \in [Sessions -> PipeType] /\ fin \in [Sessions -> PartsType]
  BY <1>1, <1>2 DEF Init
<1>4. /\ rings \in [Rings -> SUBSET Sessions]
      /\ request \in [Sessions -> [kind : {"none", "record", "stream"}, path : PathOpt]]
      /\ builds \in [Sessions -> Nat]
  BY DEF Init, NoRequest, PathOpt
<1>5. /\ pipeline \in 0..MaxSessions
      /\ replay \in 0..MaxRings /\ blockedOn \in 0..MaxSessions
      /\ ringCount \in 0..MaxRings /\ session \in 0..MaxSessions
  BY BoundsAssumption DEF Init
<1> QED
  BY <1>3, <1>4, <1>5, Zenon DEF Init, TypeOK, PathOpt

\* A new session is numbered within the bound.
LEMMA BeginType ==
  ASSUME TypeOK, NEW asked \in [kind : {"none", "record", "stream"}, path : PathOpt], BeginSession(asked)
  PROVE  /\ session' \in 0..MaxSessions
         /\ session' \in Sessions
         /\ request' \in [Sessions -> [kind : {"none", "record", "stream"}, path : PathOpt]]
         /\ isRecording' \in BOOLEAN /\ pipelineBuildFailed' \in BOOLEAN
<1>1. session \in 0..MaxSessions /\ session < MaxSessions /\ session' = session + 1
  BY DEF TypeOK, BeginSession
<1>2. request' \in [Sessions -> [kind : {"none", "record", "stream"}, path : PathOpt]]
  BY DEF TypeOK, BeginSession
<1>3. session' \in 0..MaxSessions /\ session' \in Sessions
  BY <1>1, BoundsAssumption DEF Sessions
<1>4. isRecording' \in BOOLEAN /\ pipelineBuildFailed' \in BOOLEAN
  BY Zenon DEF BeginSession
<1> QED BY <1>2, <1>3, <1>4

\* What detach_stopped_session leaves is well typed.
LEMMA DetachType ==
  ASSUME TypeOK, NEW held \in 0..MaxSessions, DetachStoppedSession(held)
  PROVE  /\ fin' \in [Sessions -> PartsType]
         /\ pipeline' \in 0..MaxSessions
         /\ outputPath' \in PathOpt
         /\ isRecording' \in BOOLEAN
<1> DEFINE parts == [phase |-> IF held = 0 THEN "clear" ELSE "drain",
                     path  |-> outputPath, ring |-> replay]
<1>1. parts \in PartsType
  BY DEF TypeOK, PartsType, Phases
<1>2. fin' = [fin EXCEPT ![session] = parts]
  BY DEF DetachStoppedSession
<1> HIDE DEF parts
<1>3. fin' \in [Sessions -> PartsType]
  BY <1>1, <1>2 DEF TypeOK
<1>4. pipeline' \in 0..MaxSessions
  BY BoundsAssumption DEF DetachStoppedSession
<1>5. outputPath' \in PathOpt /\ isRecording' \in BOOLEAN
  BY Zenon DEF DetachStoppedSession, PathOpt
<1> QED BY <1>3, <1>4, <1>5

\* What a pushed or refused frame leaves is well typed.
LEMMA PushType ==
  ASSUME TypeOK, NEW p \in 0..MaxSessions, PushFrame(p)
  PROVE  /\ fin' \in [Sessions -> PartsType]
         /\ pipeline' \in 0..MaxSessions
         /\ outputPath' \in PathOpt
         /\ isRecording' \in BOOLEAN
         /\ lastError' \in BOOLEAN
<1>1. CASE pipeline' = p /\ UNCHANGED <<isRecording, outputPath, lastError, fin>>
  BY <1>1 DEF TypeOK
<1>2. CASE lastError' = TRUE /\ DetachStoppedSession(p)
  BY <1>2, DetachType
<1> QED BY <1>1, <1>2 DEF PushFrame

\* Every step keeps the types.
LEMMA NextType == TypeOK /\ [Next]_vars => TypeOK'
<1> SUFFICES ASSUME TypeOK, [Next]_vars PROVE TypeOK'
  OBVIOUS
<1> USE DEF worldVars, histVars, engineVars
<1>1. ASSUME NEW on \in BOOLEAN, SetStreamSettings(on) PROVE TypeOK'
  BY <1>1 DEF TypeOK, SetStreamSettings
<1>2. ASSUME NEW e \in {"hardware", "software"}, SetVideoEncoder(e) PROVE TypeOK'
  BY <1>2 DEF TypeOK, SetVideoEncoder
<1>3. ASSUME SetReplayDuration PROVE TypeOK'
  BY <1>3, BoundsAssumption DEF TypeOK, SetReplayDuration, EnableReplay
<1>4. ASSUME DisableReplay PROVE TypeOK'
  BY <1>4, BoundsAssumption DEF TypeOK, DisableReplay
<1>5. ASSUME TakeError PROVE TypeOK'
  BY <1>5 DEF TypeOK, TakeError
<1>6. ASSUME StartStreaming PROVE TypeOK'
  <2>1. CASE BeginSession(StreamRequest) /\ UNCHANGED lastError
    BY <1>6, <2>1, BeginType DEF TypeOK, StartStreaming, StreamRequest, PathOpt
  <2>2. CASE lastError' = TRUE
             /\ UNCHANGED <<session, request, isRecording, pipelineBuildFailed>>
    BY <1>6, <2>2 DEF TypeOK, StartStreaming
  <2> QED BY <1>6, <2>1, <2>2 DEF StartStreaming
<1>7. ASSUME NEW p \in Paths, StartLocalRecording(p) PROVE TypeOK'
  <2>1. BeginSession(RecordRequest(p)) /\ outputPath' \in PathOpt
    BY <1>7 DEF StartLocalRecording, BeginLocalRecording, PathOpt, TypeOK
  <2> QED BY <1>7, <2>1, BeginType DEF TypeOK, StartLocalRecording, RecordRequest, PathOpt
<1>8. ASSUME StopRecordingBackground PROVE TypeOK'
  <2>1. DetachStoppedSession(pipeline) /\ pipeline \in 0..MaxSessions
    BY <1>8 DEF StopRecordingBackground, TypeOK
  <2> QED BY <1>8, <2>1, DetachType DEF TypeOK, StopRecordingBackground
<1>9. ASSUME StopRecording PROVE TypeOK'
  <2>1. DetachStoppedSession(pipeline) /\ pipeline \in 0..MaxSessions
    BY <1>9 DEF StopRecording, TypeOK
  <2> QED BY <1>9, <2>1, DetachType DEF TypeOK, StopRecording
<1>10. ASSUME BuildFails PROVE TypeOK'
  <2>1. builds' \in [Sessions -> Nat]
    <3>1. builds' = [builds EXCEPT ![session] = @ + Cardinality(TriedEncoders)]
      BY <1>10 DEF BuildFails
    <3>2. ASSUME session \in Sessions
          PROVE  builds[session] + Cardinality(TriedEncoders) \in Nat
      BY <3>2, TriedIsNat DEF TypeOK
    <3> QED BY <3>1, <3>2 DEF TypeOK
  <2> QED BY <1>10, <2>1 DEF TypeOK, BuildFails
<1>11. ASSUME BuildAndPushFrame PROVE TypeOK'
  <2>1. PICK try \in TriedEncoders :
          videoEncoder' = try[1] /\ builds' = [builds EXCEPT ![session] = @ + try[2]]
    BY <1>11 DEF BuildAndPushFrame
  <2>2. builds' \in [Sessions -> Nat] /\ videoEncoder' \in {"hardware", "software"}
    <3>1. try[1] \in {"hardware", "software"} /\ try[2] \in Nat
      BY TriedIsNat
    <3>2. ASSUME session \in Sessions PROVE builds[session] + try[2] \in Nat
      BY <3>1, <3>2 DEF TypeOK
    <3> QED BY <2>1, <3>1, <3>2 DEF TypeOK
  <2>3. NewPipe \in PipeType
    BY DEF NewPipe, PipeType, TypeOK, OutputKind, PathOpt
  <2>4. pipes' \in [Sessions -> PipeType]
    BY <1>11, <2>3 DEF BuildAndPushFrame, TypeOK
  <2>5. PushFrame(session) /\ session \in 0..MaxSessions
    BY <1>11 DEF BuildAndPushFrame, TypeOK
  <2> QED BY <1>11, <2>2, <2>4, <2>5, PushType DEF TypeOK, BuildAndPushFrame
<1>12. ASSUME PushNextFrame PROVE TypeOK'
  <2>1. PushFrame(pipeline) /\ pipeline \in 0..MaxSessions
    BY <1>12 DEF PushNextFrame, TypeOK
  <2> QED BY <1>12, <2>1, PushType DEF TypeOK, PushNextFrame
<1>13. ASSUME NEW s \in Sessions, CaptureSample(s) PROVE TypeOK'
  <2>1. rings' \in [Rings -> SUBSET Sessions]
    BY <1>13 DEF CaptureSample, TypeOK
  <2> QED BY <1>13, <2>1 DEF TypeOK, CaptureSample
<1>14. ASSUME NEW s \in Sessions, Finalizer(s) PROVE TypeOK'
  <2>1. ASSUME NEW ph \in Phases, fin' = [fin EXCEPT ![s].phase = ph]
        PROVE  fin' \in [Sessions -> PartsType]
    BY <2>1 DEF TypeOK, PartsType
  <2>2. ASSUME NEW st \in {"draining", "null"}, pipes' = [pipes EXCEPT ![s].state = st]
        PROVE  pipes' \in [Sessions -> PipeType]
    BY <2>2 DEF TypeOK, PipeType
  <2>3. ASSUME FinalizerDrain(s) PROVE TypeOK'
    BY <2>1, <2>2, <2>3 DEF FinalizerDrain, TypeOK, Phases
  <2>4. ASSUME FinalizerStop(s) PROVE TypeOK'
    BY <2>1, <2>2, <2>4 DEF FinalizerStop, TypeOK, Phases
  <2>5. ASSUME FinalizerClearRing(s) PROVE TypeOK'
    <3>1. rings' \in [Rings -> SUBSET Sessions]
      BY <2>5 DEF FinalizerClearRing, TypeOK
    <3> QED BY <2>1, <2>5, <3>1 DEF FinalizerClearRing, TypeOK, Phases
  <2>6. ASSUME FinalizerPost(s) PROVE TypeOK'
    <3>1. blockedOn' \in 0..MaxSessions
      BY <2>6, BoundsAssumption DEF FinalizerPost, TypeOK
    <3> QED BY <2>1, <2>6, <3>1 DEF FinalizerPost, TypeOK, Phases
  <2> QED BY <1>14, <2>3, <2>4, <2>5, <2>6 DEF Finalizer
<1>15. CASE UNCHANGED vars
  BY <1>15 DEF vars, TypeOK
<1> QED
  BY <1>1, <1>2, <1>3, <1>4, <1>5, <1>6, <1>7, <1>8, <1>9, <1>10, <1>11, <1>12,
     <1>13, <1>14, <1>15 DEF Next, Owner, ProcessRawFrame

\* Every variable of the engine session keeps its type, in every behaviour.
THEOREM TypeCorrect == Spec => []TypeOK
BY InitType, NextType, PTL DEF Spec

-----------------------------------------------------------------------------
\* What LivePipelineHasOneOwner needs to be inductive.
FreshSessions ==
  \A s \in Sessions :
    s > session => pipes[s].state = "absent" /\ fin[s].phase = "idle"
ActiveSession ==
  isRecording => session \in Sessions /\ fin[session].phase = "idle"
HeldPipeline == pipeline # 0 => isRecording /\ pipeline = session

\* The inductive invariant: sessions, their pipelines and their finalizers.
LifeInv == FreshSessions /\ ActiveSession /\ HeldPipeline /\ LivePipelineHasOneOwner

LEMMA InitLife == Init => LifeInv /\ NoPacketAfterClear
BY DEF Init, LifeInv, FreshSessions, ActiveSession, HeldPipeline,
       LivePipelineHasOneOwner, Live, NoPipe, NoParts, NoPacketAfterClear

\* A step that leaves sessions, pipelines and finalizers alone keeps LifeInv.
LEMMA LifeFrame ==
  ASSUME LifeInv, UNCHANGED <<isRecording, pipeline, pipes, fin, session>>
  PROVE  LifeInv'
BY DEF LifeInv, FreshSessions, ActiveSession, HeldPipeline, LivePipelineHasOneOwner, Live

LEMMA LifeBegin ==
  ASSUME TypeOK, LifeInv, ~isRecording, NEW kind, BeginSession(kind),
         UNCHANGED <<pipeline, pipes, fin>>
  PROVE  LifeInv'
<1>1. session \in 0..MaxSessions /\ session' = session + 1 /\ session' \in Sessions
  BY BoundsAssumption DEF TypeOK, BeginSession, Sessions
<1>2. isRecording' /\ pipeline = 0 /\ pipeline' = 0
  BY DEF LifeInv, HeldPipeline, BeginSession
<1>3. pipes[session'].state = "absent" /\ fin[session'].phase = "idle"
  BY <1>1 DEF LifeInv, FreshSessions, Sessions
<1>4. FreshSessions'
  BY <1>1 DEF LifeInv, FreshSessions, Sessions
<1>5. ActiveSession' /\ HeldPipeline'
  BY <1>1, <1>2, <1>3 DEF ActiveSession, HeldPipeline
<1>6. LivePipelineHasOneOwner'
  BY <1>1, <1>2 DEF LifeInv, LivePipelineHasOneOwner, Live, Sessions
<1> QED BY <1>4, <1>5, <1>6 DEF LifeInv

\* Detaching a session moves the ownership of its pipeline, if it has one, to
\* its finalizer; the pipeline may have been built in the same step.
LEMMA LifeDetach ==
  ASSUME TypeOK, LifeInv, isRecording, NEW held, DetachStoppedSession(held),
         session' = session, Live(session)' <=> held # 0,
         \A s \in Sessions : s # session => pipes'[s] = pipes[s]
  PROVE  LifeInv'
<1>1. session \in Sessions /\ session \in Nat
  BY BoundsAssumption DEF LifeInv, ActiveSession, Sessions
<1>2. pipeline' = 0 /\ ~isRecording'
  BY DEF DetachStoppedSession
<1>3. fin'[session].phase = IF held = 0 THEN "clear" ELSE "drain"
  BY <1>1 DEF DetachStoppedSession, TypeOK
<1>4. \A s \in Sessions : s # session => fin'[s] = fin[s]
  BY DEF DetachStoppedSession, TypeOK
<1>5. FreshSessions'
  BY <1>1, <1>4 DEF LifeInv, FreshSessions, Sessions
<1>6. ActiveSession' /\ HeldPipeline'
  BY <1>2 DEF ActiveSession, HeldPipeline
<1>7. LivePipelineHasOneOwner'
  <2> SUFFICES ASSUME NEW s \in Sessions
               PROVE  Live(s)' <=> fin'[s].phase \in {"drain", "stop"}
    BY <1>2 DEF LivePipelineHasOneOwner
  <2>1. CASE s = session
    BY <2>1, <1>3
  <2>2. CASE s # session
    BY <2>2, <1>4 DEF LifeInv, HeldPipeline, LivePipelineHasOneOwner, Live
  <2> QED BY <2>1, <2>2
<1> QED BY <1>5, <1>6, <1>7 DEF LifeInv

\* The active session is live exactly when the engine holds its pipeline.
LEMMA ActiveLive ==
  ASSUME LifeInv, isRecording
  PROVE  /\ session \in Sessions
         /\ Live(session) <=> pipeline # 0
         /\ pipeline # 0 => pipeline = session
BY BoundsAssumption
   DEF LifeInv, ActiveSession, HeldPipeline, LivePipelineHasOneOwner, Live, Sessions

\* A frame that reaches the pipeline p, just built or held all along.
LEMMA LifePush ==
  ASSUME TypeOK, LifeInv, isRecording, PushFrame(session), session' = session,
         Live(session)', \A s \in Sessions : s # session => pipes'[s] = pipes[s]
  PROVE  LifeInv'
<1>1. session \in Sessions /\ session # 0
  BY BoundsAssumption DEF LifeInv, ActiveSession, Sessions
<1>2. CASE pipeline' = session /\ UNCHANGED <<isRecording, outputPath, lastError, fin>>
  <2>1. ActiveSession' /\ HeldPipeline'
    BY <1>1, <1>2 DEF LifeInv, ActiveSession, HeldPipeline
  <2>2. FreshSessions'
    BY <1>1, <1>2, BoundsAssumption DEF LifeInv, FreshSessions, Sessions
  <2>3. LivePipelineHasOneOwner'
    BY <1>1, <1>2 DEF LifeInv, LivePipelineHasOneOwner, Live, ActiveSession, HeldPipeline
  <2> QED BY <2>1, <2>2, <2>3 DEF LifeInv
<1>3. CASE DetachStoppedSession(session)
  BY <1>1, <1>3, LifeDetach
<1> QED BY <1>2, <1>3 DEF PushFrame

\* One step of the finalizer of s hands nothing on and keeps its hold on the
\* pipeline until the pipeline is Null.
LEMMA LifeFinalizer ==
  ASSUME TypeOK, LifeInv, NEW s \in Sessions, Finalizer(s)
  PROVE  LifeInv'
<1>1. /\ session' = session /\ isRecording' = isRecording /\ pipeline' = pipeline
      /\ \A t \in Sessions : t # s => fin'[t] = fin[t] /\ pipes'[t] = pipes[t]
  BY DEF Finalizer, FinalizerDrain, FinalizerStop, FinalizerClearRing, FinalizerPost,
         TypeOK, engineVars, histVars
<1>2. /\ fin[s].phase # "idle"
      /\ fin'[s].phase # "idle"
      /\ Live(s)' <=> fin'[s].phase \in {"drain", "stop"}
  <2>1. Live(s) <=> fin[s].phase \in {"drain", "stop"} \/ (pipeline = s /\ isRecording /\ session = s)
    BY DEF LifeInv, LivePipelineHasOneOwner
  <2>2. pipes[s] \in PipeType /\ fin[s] \in PartsType
    BY DEF TypeOK
  <2>3. CASE FinalizerDrain(s)
    BY <2>2, <2>3 DEF FinalizerDrain, TypeOK, Live, PipeType, PartsType
  <2>4. CASE FinalizerStop(s)
    BY <2>2, <2>4 DEF FinalizerStop, TypeOK, Live, PipeType, PartsType
  <2>5. CASE FinalizerClearRing(s)
    BY <2>1, <2>2, <2>5 DEF FinalizerClearRing, TypeOK, Live, PartsType, LifeInv, ActiveSession
  <2>6. CASE FinalizerPost(s)
    BY <2>1, <2>2, <2>6 DEF FinalizerPost, TypeOK, Live, PartsType, LifeInv, ActiveSession
  <2> QED BY <2>3, <2>4, <2>5, <2>6 DEF Finalizer
<1>3. ~(isRecording /\ session = s) /\ ~(s > session)
  BY <1>2 DEF LifeInv, ActiveSession, FreshSessions
<1>4. FreshSessions' /\ ActiveSession' /\ HeldPipeline'
  BY <1>1, <1>3 DEF LifeInv, FreshSessions, ActiveSession, HeldPipeline
<1>5. LivePipelineHasOneOwner'
  BY <1>1, <1>2, <1>3 DEF LifeInv, LivePipelineHasOneOwner, Live
<1> QED BY <1>4, <1>5 DEF LifeInv

LEMMA NextLife == TypeOK /\ LifeInv /\ [Next]_vars => LifeInv'
<1> SUFFICES ASSUME TypeOK, LifeInv, [Next]_vars PROVE LifeInv'
  OBVIOUS
<1>1. ASSUME NEW on \in BOOLEAN, SetStreamSettings(on) PROVE LifeInv'
  BY <1>1, LifeFrame DEF SetStreamSettings, worldVars, histVars
<1>2. ASSUME NEW e \in {"hardware", "software"}, SetVideoEncoder(e) PROVE LifeInv'
  BY <1>2, LifeFrame DEF SetVideoEncoder, worldVars, histVars
<1>3. ASSUME SetReplayDuration PROVE LifeInv'
  BY <1>3, LifeFrame DEF SetReplayDuration, histVars
<1>4. ASSUME DisableReplay \/ TakeError PROVE LifeInv'
  BY <1>4, LifeFrame DEF DisableReplay, TakeError, worldVars, histVars
<1>5. ASSUME StartStreaming PROVE LifeInv'
  BY <1>5, LifeFrame, LifeBegin DEF StartStreaming, worldVars
<1>6. ASSUME NEW p \in Paths, StartLocalRecording(p) PROVE LifeInv'
  BY <1>6, LifeBegin DEF StartLocalRecording, BeginLocalRecording, worldVars
<1>7. ASSUME StopRecordingBackground \/ StopRecording PROVE LifeInv'
  BY <1>7, ActiveLive, LifeDetach
     DEF StopRecordingBackground, StopRecording, histVars, Live
<1>8. ASSUME BuildFails PROVE LifeInv'
  <2>1. isRecording /\ pipeline = 0 /\ ~isRecording'
        /\ UNCHANGED <<pipeline, pipes, fin, session>>
    BY <1>8 DEF BuildFails, NeedsPipeline, worldVars
  <2> QED
    BY <2>1, BoundsAssumption
       DEF LifeInv, FreshSessions, ActiveSession, HeldPipeline,
           LivePipelineHasOneOwner, Live, Sessions
<1>9. ASSUME BuildAndPushFrame PROVE LifeInv'
  <2>1. /\ isRecording /\ session' = session /\ PushFrame(session)
        /\ pipes' = [pipes EXCEPT ![session] = NewPipe]
    BY <1>9 DEF BuildAndPushFrame, NeedsPipeline
  <2>2. session \in Sessions
    BY <2>1, ActiveLive
  <2>3. /\ Live(session)'
        /\ \A s \in Sessions : s # session => pipes'[s] = pipes[s]
    BY <2>1, <2>2 DEF TypeOK, Live, NewPipe
  <2> QED BY <2>1, <2>3, LifePush
<1>10. ASSUME PushNextFrame PROVE LifeInv'
  <2>1. isRecording /\ pipeline # 0 /\ UNCHANGED <<pipes, session>> /\ PushFrame(pipeline)
    BY <1>10 DEF PushNextFrame, histVars
  <2>2. pipeline = session /\ Live(session)'
    BY <2>1, ActiveLive DEF Live
  <2> QED BY <2>1, <2>2, LifePush
<1>11. ASSUME NEW s \in Sessions, CaptureSample(s) PROVE LifeInv'
  BY <1>11, LifeFrame DEF CaptureSample, engineVars, histVars
<1>12. ASSUME NEW s \in Sessions, Finalizer(s) PROVE LifeInv'
  BY <1>12, LifeFinalizer
<1>13. CASE UNCHANGED vars
  BY <1>13, LifeFrame DEF vars, engineVars, worldVars, histVars
<1> QED
  BY <1>1, <1>2, <1>3, <1>4, <1>5, <1>6, <1>7, <1>8, <1>9, <1>10, <1>11, <1>12,
     <1>13 DEF Next, Owner, ProcessRawFrame

\* A live pipeline has exactly one owner, however stops, failed frames,
\* failed builds, restarts and finalizers interleave.
THEOREM OneOwner == Spec => []LivePipelineHasOneOwner
<1>1. Init => TypeOK /\ LifeInv
  BY InitType, InitLife
<1>2. TypeOK /\ LifeInv /\ [Next]_vars => (TypeOK /\ LifeInv)'
  BY NextType, NextLife
<1>3. LifeInv => LivePipelineHasOneOwner
  BY DEF LifeInv
<1> QED BY <1>1, <1>2, <1>3, PTL DEF Spec

-----------------------------------------------------------------------------
LEMMA NextClear ==
  ASSUME TypeOK, LifeInv, NoPacketAfterClear, [Next]_vars
  PROVE  NoPacketAfterClear'
<1>1. ASSUME UNCHANGED <<rings, fin>> PROVE NoPacketAfterClear'
  BY <1>1 DEF NoPacketAfterClear
<1>2. ASSUME NEW held, DetachStoppedSession(held), UNCHANGED rings
      PROVE  NoPacketAfterClear'
  BY <1>2 DEF DetachStoppedSession, NoPacketAfterClear, TypeOK
<1>3. ASSUME NEW p, PushFrame(p), UNCHANGED rings PROVE NoPacketAfterClear'
  BY <1>1, <1>2, <1>3 DEF PushFrame
<1>4. ASSUME NEW s \in Sessions, CaptureSample(s) PROVE NoPacketAfterClear'
  <2>1. Live(s) /\ fin' = fin
    BY <1>4 DEF CaptureSample, Live
  <2>2. fin[s].phase \notin {"post", "done"}
    BY <2>1 DEF LifeInv, LivePipelineHasOneOwner, ActiveSession
  <2>3. rings' = [rings EXCEPT ![pipes[s].ring] = @ \cup {s}]
    BY <1>4 DEF CaptureSample
  <2>4. ASSUME NEW t \in Sessions, fin[t].phase \in {"post", "done"}, fin[t].ring # 0
        PROVE  t \notin rings'[fin[t].ring]
    <3>1. fin[t].ring \in Rings /\ t # s
      BY <2>2, <2>4, BoundsAssumption DEF TypeOK, PartsType, Rings
    <3> QED BY <2>3, <2>4, <3>1 DEF TypeOK, NoPacketAfterClear
  <2> QED BY <2>1, <2>4 DEF NoPacketAfterClear
<1>5. ASSUME NEW s \in Sessions, FinalizerDrain(s) \/ FinalizerStop(s)
      PROVE  NoPacketAfterClear'
  <2>1. \E ph \in {"stop", "clear"} : fin' = [fin EXCEPT ![s].phase = ph]
    BY <1>5 DEF FinalizerDrain, FinalizerStop
  <2>2. rings' = rings
    BY <1>5 DEF FinalizerDrain, FinalizerStop
  <2> QED BY <2>1, <2>2 DEF NoPacketAfterClear, TypeOK, PartsType
<1>6. ASSUME NEW s \in Sessions, FinalizerClearRing(s) PROVE NoPacketAfterClear'
  <2>1. fin' = [fin EXCEPT ![s].phase = "post"]
    BY <1>6 DEF FinalizerClearRing
  <2>2. \A t \in Sessions : fin'[t].ring = fin[t].ring
    BY <2>1 DEF TypeOK, PartsType
  <2>3. \A r \in Rings : rings'[r] \subseteq rings[r]
    BY <1>6 DEF FinalizerClearRing, TypeOK
  <2>4. fin[s].ring # 0 => rings'[fin[s].ring] = {}
    BY <1>6, BoundsAssumption DEF FinalizerClearRing, TypeOK, PartsType, Rings
  <2>5. ASSUME NEW t \in Sessions, fin'[t].phase \in {"post", "done"}, fin'[t].ring # 0
        PROVE  t \notin rings'[fin'[t].ring]
    <3>1. fin[t].ring \in Rings
      BY <2>2, <2>5, BoundsAssumption DEF TypeOK, PartsType, Rings
    <3>2. CASE t = s
      BY <2>2, <2>4, <2>5, <3>2
    <3>3. CASE t # s
      <4>1. fin'[t] = fin[t]
        BY <2>1, <3>3 DEF TypeOK
      <4> QED BY <2>3, <2>5, <3>1, <4>1 DEF NoPacketAfterClear
    <3> QED BY <3>2, <3>3
  <2> QED BY <2>5 DEF NoPacketAfterClear
<1>7. ASSUME NEW s \in Sessions, FinalizerPost(s) PROVE NoPacketAfterClear'
  <2>1. fin' = [fin EXCEPT ![s].phase = "done"] /\ rings' = rings /\ fin[s].phase = "post"
    BY <1>7 DEF FinalizerPost
  <2> QED BY <2>1 DEF NoPacketAfterClear, TypeOK, PartsType
<1>8. ASSUME NEW on, SetStreamSettings(on) PROVE NoPacketAfterClear'
  BY <1>1, <1>8 DEF SetStreamSettings, worldVars
<1>9. ASSUME NEW e, SetVideoEncoder(e) PROVE NoPacketAfterClear'
  BY <1>1, <1>9 DEF SetVideoEncoder, worldVars
<1>10. ASSUME SetReplayDuration \/ DisableReplay \/ TakeError \/ StartStreaming
       PROVE NoPacketAfterClear'
  BY <1>1, <1>10 DEF SetReplayDuration, DisableReplay, TakeError, StartStreaming, worldVars
<1>11. ASSUME NEW p, StartLocalRecording(p) PROVE NoPacketAfterClear'
  BY <1>1, <1>11 DEF StartLocalRecording, worldVars
<1>12. ASSUME StopRecording \/ StopRecordingBackground PROVE NoPacketAfterClear'
  BY <1>2, <1>12 DEF StopRecording, StopRecordingBackground
<1>13. ASSUME ProcessRawFrame PROVE NoPacketAfterClear'
  BY <1>1, <1>3, <1>13 DEF ProcessRawFrame, BuildFails, BuildAndPushFrame, PushNextFrame, worldVars
<1>14. CASE UNCHANGED vars
  BY <1>1, <1>14 DEF vars, worldVars
<1> QED
  BY <1>4, <1>5, <1>6, <1>7, <1>8, <1>9, <1>10, <1>11, <1>12, <1>13, <1>14
     DEF Next, Owner, Finalizer

\* Once a session's finalizer has cleared its replay ring, no packet of that
\* session is ever in it again: the pipeline is Null before the clear.
THEOREM ClearedStaysClear == Spec => []NoPacketAfterClear
<1>1. Init => TypeOK /\ LifeInv /\ NoPacketAfterClear
  BY InitType, InitLife
<1>2. TypeOK /\ LifeInv /\ NoPacketAfterClear /\ [Next]_vars
        => (TypeOK /\ LifeInv /\ NoPacketAfterClear)'
  BY NextType, NextLife, NextClear
<1> QED BY <1>1, <1>2, PTL DEF Spec
-----------------------------------------------------------------------------
\* What PostProcessesItsFile and FileAsRequested need to be inductive: an
\* active session without a pipeline has never had one, and output_path is the
\* path of the pipeline the engine holds.
UnbuiltIsAbsent == isRecording /\ pipeline = 0 => pipes[session].state = "absent"
HeldPath == pipeline # 0 => pipes[pipeline].path = outputPath

\* output_path is the path of the active recording, or was left by one whose
\* pipeline could not be built.
PathIsAsked ==
  /\ isRecording => request[session].kind \in {"record", "stream"}
  /\ isRecording /\ request[session].kind = "record"
       => outputPath = request[session].path /\ outputPath # NoPath
  /\ isRecording /\ request[session].kind = "stream" /\ outputPath # NoPath
       => LeftPath(session - 1, outputPath)
  /\ ~isRecording /\ outputPath # NoPath => LeftPath(session, outputPath)

FileInv == /\ UnbuiltIsAbsent /\ HeldPath /\ PathIsAsked
           /\ PostProcessesItsFile /\ FileAsRequested

LEMMA InitFile == Init => FileInv
BY DEF Init, FileInv, UnbuiltIsAbsent, HeldPath, PathIsAsked, PostProcessesItsFile,
       FileAsRequested, NoPipe

\* What the first n sessions left behind depends on those sessions alone.
LEMMA LeftKept ==
  ASSUME NEW n \in Int, NEW path,
         \A u \in 1..n : /\ request'[u] = request[u]
                         /\ pipes'[u].state = "absent" <=> pipes[u].state = "absent"
                         /\ fin'[u].phase = "idle" <=> fin[u].phase = "idle"
  PROVE  \A t \in 1..n : /\ LeftBehind(t, n)' <=> LeftBehind(t, n)
                         /\ request'[t].path = request[t].path
<1> SUFFICES ASSUME NEW t \in 1..n
             PROVE  /\ LeftBehind(t, n)' <=> LeftBehind(t, n)
                    /\ request'[t].path = request[t].path
  OBVIOUS
<1>1. \A u \in t..n : u \in 1..n
  OBVIOUS
<1> QED BY <1>1 DEF LeftBehind

\* The same, for a path.
LEMMA LeftPathKept ==
  ASSUME NEW n \in Int,
         \A u \in 1..n : /\ request'[u] = request[u]
                         /\ pipes'[u].state = "absent" <=> pipes[u].state = "absent"
                         /\ fin'[u].phase = "idle" <=> fin[u].phase = "idle"
  PROVE  /\ LeftPath(n, outputPath) /\ outputPath' = outputPath => LeftPath(n, outputPath)'
         /\ \A s \in Sessions : LeftPath(n, pipes[s].path) /\ pipes'[s].path = pipes[s].path
                                  => LeftPath(n, pipes[s].path)'
<1>1. \A t \in 1..n : /\ LeftBehind(t, n)' <=> LeftBehind(t, n)
                      /\ request'[t].path = request[t].path
  BY LeftKept
<1> QED BY <1>1 DEF LeftPath

\* A step that leaves sessions, paths, pipelines and finalizers alone.
LEMMA FileFrame ==
  ASSUME FileInv,
         UNCHANGED <<isRecording, pipeline, outputPath, pipes, fin, session, request>>
  PROVE  FileInv'
BY DEF FileInv, UnbuiltIsAbsent, HeldPath, PathIsAsked, LeftPath, LeftBehind,
       PostProcessesItsFile, FileAsRequested

\* The file of a session other than the one a step is about stays the one
\* asked for: the sessions before it are over.
LEMMA FilesOfOthers ==
  ASSUME TypeOK, FileInv, NEW m \in Nat, NEW s \in Sessions, s < m,
         pipes'[s].state # "absent", pipes'[s] = pipes[s],
         \A u \in Sessions : u < m => /\ request'[u] = request[u] /\ pipes'[u] = pipes[u]
                                      /\ fin'[u].phase = "idle" <=> fin[u].phase = "idle"
  PROVE  /\ request'[s].kind = "record"
              => HasFile(pipes'[s].kind) /\ pipes'[s].path = request'[s].path
         /\ request'[s].kind = "stream" /\ HasFile(pipes'[s].kind)
              => LeftPath(s - 1, pipes[s].path)'
<1>1. s - 1 \in Int /\ \A u \in 1..(s - 1) : u \in Sessions /\ u < m
  BY BoundsAssumption DEF Sessions
<1>2. LeftPath(s - 1, pipes[s].path) => LeftPath(s - 1, pipes[s].path)'
  BY <1>1, LeftPathKept
<1>3. request'[s] = request[s]
  OBVIOUS
<1> QED BY <1>2, <1>3 DEF FileInv, FileAsRequested

\* A session begins, with a path of its own or with the one there is.
LEMMA FileBegin ==
  ASSUME TypeOK, LifeInv, FileInv, ~isRecording, NEW asked, BeginSession(asked),
         UNCHANGED <<pipeline, pipes, fin>>,
         \/ asked.kind = "record" /\ outputPath' = asked.path /\ outputPath' # NoPath
         \/ asked.kind = "stream" /\ outputPath' = outputPath
  PROVE  FileInv'
<1>1. /\ session \in 0..MaxSessions /\ session' = session + 1 /\ session' \in Sessions
      /\ session \in Nat
  BY BoundsAssumption DEF TypeOK, BeginSession, Sessions
<1>2. pipes[session'].state = "absent" /\ isRecording'
  BY <1>1 DEF LifeInv, FreshSessions, BeginSession, Sessions
<1>3. /\ request'[session'] = asked
      /\ \A t \in Sessions : t # session' => request'[t] = request[t]
  BY <1>1 DEF BeginSession, TypeOK
<1>4. UnbuiltIsAbsent' /\ HeldPath'
  BY <1>2 DEF UnbuiltIsAbsent, HeldPath, LifeInv, HeldPipeline
<1>5. \A u \in 1..session : u \in Sessions /\ request'[u] = request[u]
  BY <1>1, <1>3, BoundsAssumption DEF Sessions
<1>6. PathIsAsked'
  <2>1. CASE asked.kind = "record" /\ outputPath' = asked.path /\ outputPath' # NoPath
    BY <1>2, <1>3, <2>1 DEF PathIsAsked
  <2>2. CASE asked.kind = "stream" /\ outputPath' = outputPath
    <3>1. ASSUME NEW n \in Int, n = session, outputPath # NoPath PROVE LeftPath(n, outputPath)'
      <4>1. LeftPath(n, outputPath)
        BY <3>1 DEF FileInv, PathIsAsked
      <4> QED BY <1>5, <2>2, <3>1, <4>1, LeftPathKept
    <3>2. session' - 1 = session /\ session \in Int
      BY <1>1
    <3> QED BY <1>2, <1>3, <2>2, <3>1, <3>2 DEF PathIsAsked, LeftPath
  <2> QED BY <2>1, <2>2
<1>7. PostProcessesItsFile'
  BY DEF FileInv, PostProcessesItsFile
<1>8. FileAsRequested'
  <2> SUFFICES ASSUME NEW s \in Sessions, pipes'[s].state # "absent"
               PROVE  /\ request'[s].kind = "record"
                           => HasFile(pipes'[s].kind) /\ pipes'[s].path = request'[s].path
                      /\ request'[s].kind = "stream" /\ HasFile(pipes'[s].kind)
                           => LeftPath(s - 1, pipes[s].path)'
    BY DEF FileAsRequested, HasFile
  <2>1. s < session'
    BY <1>1, <1>2 DEF LifeInv, FreshSessions, Sessions
  <2>2. session' \in Nat /\ \A u \in Sessions : u < session' => request'[u] = request[u]
    BY <1>1, <1>3
  <2> QED BY <2>1, <2>2, FilesOfOthers
<1> QED BY <1>4, <1>6, <1>7, <1>8 DEF FileInv

\* A pipeline is built for the active session, or none is; either way the
\* file of a session is the one asked for.
LEMMA FileBuild ==
  ASSUME TypeOK, LifeInv, FileInv, isRecording, UNCHANGED <<session, request>>,
         \A s \in Sessions : s # session => fin'[s].phase = fin[s].phase,
         \/ pipes' = pipes
         \/ /\ pipeline = 0 /\ OutputKind # "none"
            /\ pipes' = [pipes EXCEPT ![session] = NewPipe]
  PROVE  FileAsRequested'
<1>1. session \in Sessions /\ session \in Nat
  BY BoundsAssumption DEF LifeInv, ActiveSession, Sessions
<1>2. \A t \in Sessions : t # session => pipes'[t] = pipes[t]
  BY DEF TypeOK
<1> SUFFICES ASSUME NEW s \in Sessions, pipes'[s].state # "absent"
             PROVE  /\ request'[s].kind = "record"
                         => HasFile(pipes'[s].kind) /\ pipes'[s].path = request'[s].path
                    /\ request'[s].kind = "stream" /\ HasFile(pipes'[s].kind)
                         => LeftPath(s - 1, pipes[s].path)'
  BY DEF FileAsRequested, HasFile
<1>3. s - 1 \in Int /\ \A u \in 1..(s - 1) : u \in Sessions /\ u < s
  BY BoundsAssumption DEF Sessions
<1>4. s <= session
  <2>1. CASE s = session
    BY <1>1, <2>1
  <2>2. CASE s # session
    BY <1>1, <1>2, <2>2 DEF LifeInv, FreshSessions, Sessions
  <2> QED BY <2>1, <2>2
<1>5. \A u \in 1..(s - 1) : /\ request'[u] = request[u]
                            /\ pipes'[u].state = "absent" <=> pipes[u].state = "absent"
                            /\ fin'[u].phase = "idle" <=> fin[u].phase = "idle"
  BY <1>1, <1>2, <1>3, <1>4
<1>6. CASE pipes'[s] = pipes[s]
  <2>1. LeftPath(s - 1, pipes[s].path) => LeftPath(s - 1, pipes[s].path)'
    BY <1>3, <1>5, <1>6, LeftPathKept
  <2> QED BY <1>6, <2>1 DEF FileInv, FileAsRequested
<1>7. CASE pipes'[s] # pipes[s]
  <2>1. s = session /\ pipes'[s] = NewPipe /\ OutputKind # "none"
    BY <1>1, <1>2, <1>7 DEF TypeOK
  <2>2. HasFile(OutputKind) <=> outputPath # NoPath
    BY <2>1 DEF HasFile, OutputKind
  <2>3. /\ NewPipe.kind = OutputKind
        /\ outputPath # NoPath => NewPipe.path = outputPath
    BY <2>2 DEF NewPipe
  <2>4. request[s].kind = "record" => outputPath = request[s].path /\ outputPath # NoPath
    BY <2>1 DEF FileInv, PathIsAsked
  <2>5. ASSUME request[s].kind = "stream", outputPath # NoPath
        PROVE  LeftPath(s - 1, pipes[s].path)'
    <3>1. LeftPath(s - 1, outputPath)
      BY <2>1, <2>5 DEF FileInv, PathIsAsked
    <3>2. \A t \in 1..(s - 1) : /\ LeftBehind(t, s - 1)' <=> LeftBehind(t, s - 1)
                                /\ request'[t].path = request[t].path
      BY <1>3, <1>5, LeftKept
    <3> QED BY <2>1, <2>3, <2>5, <3>1, <3>2 DEF LeftPath
  <2> QED BY <2>1, <2>2, <2>3, <2>4, <2>5
<1> QED BY <1>6, <1>7

\* Detaching hands the path to the finalizer together with the pipeline that
\* writes it, held all along or built in the same step.
LEMMA FileDetach ==
  ASSUME TypeOK, LifeInv, FileInv, isRecording, NEW held, DetachStoppedSession(held),
         UNCHANGED <<session, request>>, FileAsRequested',
         \A s \in Sessions : s # session => pipes'[s] = pipes[s],
         pipes'[session].state # "absent" => pipes'[session].path = outputPath
  PROVE  FileInv'
<1>1. session \in Sessions
  BY DEF LifeInv, ActiveSession
<1>2. pipeline' = 0 /\ ~isRecording' /\ outputPath' = NoPath
  BY DEF DetachStoppedSession
<1>3. fin'[session].path = outputPath
  BY <1>1 DEF DetachStoppedSession, TypeOK
<1>4. \A s \in Sessions : s # session => fin'[s] = fin[s]
  BY DEF DetachStoppedSession, TypeOK
<1>5. PostProcessesItsFile'
  BY <1>3, <1>4 DEF FileInv, PostProcessesItsFile
<1> QED BY <1>2, <1>5 DEF FileInv, UnbuiltIsAbsent, HeldPath, PathIsAsked

\* Detaching concerns the active session's finalizer alone.
LEMMA DetachIsLocal ==
  ASSUME TypeOK, NEW held, DetachStoppedSession(held)
  PROVE  \A s \in Sessions : s # session => fin'[s].phase = fin[s].phase
BY DEF DetachStoppedSession, TypeOK

\* A frame that reaches the active session's pipeline, or ends the session.
LEMMA FilePush ==
  ASSUME TypeOK, LifeInv, FileInv, isRecording, PushFrame(session),
         UNCHANGED <<session, request>>, FileAsRequested',
         \A s \in Sessions : s # session => pipes'[s] = pipes[s],
         pipes'[session].path = outputPath
  PROVE  FileInv'
<1>1. session \in Sessions /\ session # 0 /\ fin[session].phase = "idle"
  BY BoundsAssumption DEF LifeInv, ActiveSession, Sessions
<1>2. CASE pipeline' = session /\ UNCHANGED <<isRecording, outputPath, lastError, fin>>
  <2>1. ASSUME NEW n \in Int, n = session - 1, LeftPath(n, outputPath)
        PROVE  LeftPath(n, outputPath)'
    <3>1. \A u \in 1..n : u \in Sessions /\ u # session
      BY <1>1, <2>1, BoundsAssumption DEF Sessions
    <3> QED BY <1>2, <2>1, <3>1, LeftPathKept
  <2>2. PathIsAsked'
    <3>1. session - 1 \in Int
      BY <1>1 DEF Sessions
    <3> QED BY <1>2, <2>1, <3>1 DEF FileInv, PathIsAsked
  <2>3. UnbuiltIsAbsent' /\ HeldPath'
    BY <1>1, <1>2 DEF UnbuiltIsAbsent, HeldPath
  <2>4. PostProcessesItsFile'
    BY <1>1, <1>2 DEF FileInv, PostProcessesItsFile
  <2> QED BY <2>2, <2>3, <2>4 DEF FileInv
<1>3. CASE DetachStoppedSession(session)
  BY <1>3, FileDetach
<1> QED BY <1>2, <1>3 DEF PushFrame

\* A finalizer keeps its path, and whether its session has had a pipeline.
LEMMA FileFinalizer ==
  ASSUME TypeOK, LifeInv, FileInv, NEW s \in Sessions, Finalizer(s)
  PROVE  FileInv'
<1>1. UNCHANGED <<isRecording, pipeline, outputPath, session, request>>
  BY DEF Finalizer, FinalizerDrain, FinalizerStop, FinalizerClearRing, FinalizerPost,
         engineVars, histVars
<1>2. fin[s].phase # "idle" /\ fin'[s].phase # "idle"
  BY DEF Finalizer, FinalizerDrain, FinalizerStop, FinalizerClearRing, FinalizerPost,
         TypeOK, PartsType
<1>3. \A t \in Sessions : fin'[t].path = fin[t].path /\ (t # s => fin'[t] = fin[t])
  BY DEF Finalizer, FinalizerDrain, FinalizerStop, FinalizerClearRing, FinalizerPost,
         TypeOK, PartsType
<1>4. \A t \in Sessions : /\ pipes'[t].path = pipes[t].path
                          /\ pipes'[t].kind = pipes[t].kind
                          /\ pipes'[t].state = "absent" <=> pipes[t].state = "absent"
  <2>1. CASE FinalizerDrain(s) \/ FinalizerStop(s)
    <3>1. pipes[s].state # "absent"
      BY <2>1 DEF FinalizerDrain, FinalizerStop, LifeInv, LivePipelineHasOneOwner, Live
    <3>2. PICK st \in {"draining", "null"} : pipes' = [pipes EXCEPT ![s].state = st]
      BY <2>1 DEF FinalizerDrain, FinalizerStop
    <3> QED BY <3>1, <3>2 DEF TypeOK, PipeType
  <2>2. CASE FinalizerClearRing(s) \/ FinalizerPost(s)
    BY <2>2 DEF FinalizerClearRing, FinalizerPost
  <2> QED BY <2>1, <2>2 DEF Finalizer
<1>5. /\ isRecording => session \in Sessions
      /\ pipeline # 0 => pipeline \in Sessions
      /\ session \in Nat /\ session <= MaxSessions
  BY BoundsAssumption DEF LifeInv, ActiveSession, HeldPipeline, TypeOK
<1>6. UnbuiltIsAbsent' /\ HeldPath'
  BY <1>1, <1>4, <1>5 DEF FileInv, UnbuiltIsAbsent, HeldPath
<1>7. ASSUME NEW n \in Int, n <= MaxSessions
      PROVE  /\ LeftPath(n, outputPath) => LeftPath(n, outputPath)'
             /\ \A t \in Sessions : LeftPath(n, pipes[t].path) => LeftPath(n, pipes[t].path)'
  <2>1. \A u \in 1..n : u \in Sessions
    BY <1>7, BoundsAssumption DEF Sessions
  <2>2. \A u \in 1..n : /\ request'[u] = request[u]
                        /\ pipes'[u].state = "absent" <=> pipes[u].state = "absent"
                        /\ fin'[u].phase = "idle" <=> fin[u].phase = "idle"
    BY <1>1, <1>2, <1>3, <1>4, <2>1
  <2> QED BY <1>1, <1>4, <2>2, LeftPathKept
<1>8. PathIsAsked'
  <2>1. session - 1 \in Int /\ session - 1 <= MaxSessions
    BY <1>5, BoundsAssumption
  <2> QED BY <1>1, <1>5, <1>7, <2>1 DEF FileInv, PathIsAsked
<1>9. PostProcessesItsFile'
  <2> SUFFICES ASSUME NEW t \in Sessions, fin'[t].phase # "idle", pipes'[t].state # "absent"
               PROVE  fin'[t].path = pipes'[t].path
    BY DEF PostProcessesItsFile
  <2>1. fin[t].phase # "idle" /\ pipes[t].state # "absent"
    BY <1>2, <1>3, <1>4
  <2> QED BY <1>3, <1>4, <2>1 DEF FileInv, PostProcessesItsFile
<1>10. FileAsRequested'
  <2> SUFFICES ASSUME NEW t \in Sessions, pipes'[t].state # "absent"
               PROVE  /\ request'[t].kind = "record"
                           => HasFile(pipes'[t].kind) /\ pipes'[t].path = request'[t].path
                      /\ request'[t].kind = "stream" /\ HasFile(pipes'[t].kind)
                           => LeftPath(t - 1, pipes[t].path)'
    BY DEF FileAsRequested, HasFile
  <2>1. t - 1 \in Int /\ t - 1 <= MaxSessions
    BY BoundsAssumption DEF Sessions
  <2> QED BY <1>1, <1>4, <1>7, <2>1 DEF FileInv, FileAsRequested
<1> QED BY <1>6, <1>8, <1>9, <1>10 DEF FileInv

LEMMA NextFile == TypeOK /\ LifeInv /\ FileInv /\ [Next]_vars => FileInv'
<1> SUFFICES ASSUME TypeOK, LifeInv, FileInv, [Next]_vars PROVE FileInv'
  OBVIOUS
<1> USE DEF worldVars, histVars
<1>1. ASSUME NEW on \in BOOLEAN, SetStreamSettings(on) PROVE FileInv'
  BY <1>1, FileFrame DEF SetStreamSettings
<1>2. ASSUME NEW e \in {"hardware", "software"}, SetVideoEncoder(e) PROVE FileInv'
  BY <1>2, FileFrame DEF SetVideoEncoder
<1>3. ASSUME SetReplayDuration \/ DisableReplay \/ TakeError PROVE FileInv'
  BY <1>3, FileFrame DEF SetReplayDuration, DisableReplay, TakeError
<1>4. ASSUME StartStreaming PROVE FileInv'
  BY <1>4, FileFrame, FileBegin DEF StartStreaming, StreamRequest
<1>5. ASSUME NEW p \in Paths, StartLocalRecording(p) PROVE FileInv'
  BY <1>5, FileBegin, PathsAssumption DEF StartLocalRecording, BeginLocalRecording, RecordRequest
<1>6. ASSUME StopRecordingBackground \/ StopRecording PROVE FileInv'
  <2>1. isRecording /\ DetachStoppedSession(pipeline) /\ UNCHANGED <<session, request, pipes>>
    BY <1>6 DEF StopRecordingBackground, StopRecording
  <2>2. FileAsRequested'
    BY <2>1, FileBuild, DetachIsLocal
  <2>3. pipes[session].state # "absent" => pipes[session].path = outputPath
    BY <2>1, ActiveLive DEF FileInv, UnbuiltIsAbsent, HeldPath
  <2> QED BY <2>1, <2>2, <2>3, FileDetach
<1>7. ASSUME BuildFails PROVE FileInv'
  <2>1. /\ isRecording /\ pipeline = 0 /\ ~isRecording'
        /\ UNCHANGED <<pipeline, outputPath, pipes, fin, session, request>>
    BY <1>7 DEF BuildFails, NeedsPipeline
  <2>2. /\ session \in Sessions /\ session \in Nat
        /\ pipes[session].state = "absent" /\ fin[session].phase = "idle"
    BY <2>1, BoundsAssumption DEF LifeInv, ActiveSession, FileInv, UnbuiltIsAbsent, Sessions
  <2>3. outputPath # NoPath => LeftPath(session, outputPath)
    <3>1. CASE request[session].kind = "record"
      <4>1. LeftBehind(session, session)
        BY <2>2, <3>1 DEF LeftBehind
      <4>2. session \in 1..session
        BY <2>2 DEF Sessions
      <4> QED BY <2>1, <3>1, <4>1, <4>2 DEF FileInv, PathIsAsked, LeftPath
    <3>2. ASSUME request[session].kind = "stream", outputPath # NoPath
          PROVE  LeftPath(session, outputPath)
      <4>1. PICK t \in 1..(session - 1) : LeftBehind(t, session - 1) /\ outputPath = request[t].path
        BY <2>1, <3>2 DEF FileInv, PathIsAsked, LeftPath
      <4>2. \A u \in t..session : u = session \/ u \in t..(session - 1)
        BY <2>2
      <4>3. LeftBehind(t, session)
        BY <2>2, <3>2, <4>1, <4>2 DEF LeftBehind
      <4>4. t \in 1..session
        BY <2>2
      <4> QED BY <4>1, <4>3, <4>4 DEF LeftPath
    <3> QED BY <2>1, <3>1, <3>2 DEF FileInv, PathIsAsked
  <2>4. PathIsAsked'
    BY <2>1, <2>3 DEF PathIsAsked, LeftPath, LeftBehind
  <2> QED BY <2>1, <2>4 DEF FileInv, UnbuiltIsAbsent, HeldPath, PostProcessesItsFile,
                            FileAsRequested, LeftPath, LeftBehind
<1>8. ASSUME BuildAndPushFrame PROVE FileInv'
  <2>1. /\ isRecording /\ pipeline = 0 /\ OutputKind # "none"
        /\ UNCHANGED <<session, request>> /\ PushFrame(session)
        /\ pipes' = [pipes EXCEPT ![session] = NewPipe]
    BY <1>8 DEF BuildAndPushFrame, NeedsPipeline
  <2>2. \A s \in Sessions : s # session => fin'[s].phase = fin[s].phase
    BY <2>1, DetachIsLocal DEF PushFrame
  <2>3. session \in Sessions /\ FileAsRequested'
    BY <2>1, <2>2, ActiveLive, FileBuild
  <2>4. /\ pipes'[session].path = NewPipe.path
        /\ \A s \in Sessions : s # session => pipes'[s] = pipes[s]
    BY <2>1, <2>3 DEF TypeOK
  <2>5. NewPipe.path = outputPath
    BY DEF NewPipe, HasFile, OutputKind
  <2> QED BY <2>1, <2>3, <2>4, <2>5, FilePush
<1>9. ASSUME PushNextFrame PROVE FileInv'
  <2>1. /\ isRecording /\ pipeline # 0 /\ PushFrame(pipeline)
        /\ UNCHANGED <<pipes, session, request>>
    BY <1>9 DEF PushNextFrame
  <2>2. pipeline = session
    BY <2>1, ActiveLive
  <2>3. FileAsRequested'
    BY <2>1, FileBuild, DetachIsLocal DEF PushFrame
  <2> QED BY <2>1, <2>2, <2>3, FilePush DEF FileInv, HeldPath
<1>10. ASSUME NEW s \in Sessions, CaptureSample(s) PROVE FileInv'
  BY <1>10, FileFrame DEF CaptureSample, engineVars
<1>11. ASSUME NEW s \in Sessions, Finalizer(s) PROVE FileInv'
  BY <1>11, FileFinalizer
<1>12. CASE UNCHANGED vars
  BY <1>12, FileFrame DEF vars, engineVars
<1> QED
  BY <1>1, <1>2, <1>3, <1>4, <1>5, <1>6, <1>7, <1>8, <1>9, <1>10, <1>11, <1>12
     DEF Next, Owner, ProcessRawFrame

\* The file that is remuxed and uploaded after a stop is the one the session's
\* pipeline wrote, and a session writes the file it was asked to write.
THEOREM FilesAreRight == Spec => [](PostProcessesItsFile /\ FileAsRequested)
<1>1. Init => TypeOK /\ LifeInv /\ FileInv
  BY InitType, InitLife, InitFile
<1>2. TypeOK /\ LifeInv /\ FileInv /\ [Next]_vars => (TypeOK /\ LifeInv /\ FileInv)'
  BY NextType, NextLife, NextFile
<1>3. FileInv => PostProcessesItsFile /\ FileAsRequested
  BY DEF FileInv
<1> QED BY <1>1, <1>2, <1>3, PTL DEF Spec
-----------------------------------------------------------------------------
\* One build makes at most two attempts.
LEMMA TriedAtMostTwo ==
  /\ Cardinality(TriedEncoders) \in 0..2
  /\ \A try \in TriedEncoders : try[2] \in 0..2
<1>1. Cardinality(TriedEncoders) <= 2
  <2>1. CASE videoEncoder = "hardware"
    <3> DEFINE H == {<<"hardware", 1>>}
               S == {<<"software", 2>>}
    <3>1. TriedEncoders = H \cup S
      BY <2>1 DEF TriedEncoders
    <3>2. IsFiniteSet(H) /\ IsFiniteSet(S) /\ Cardinality(H) = 1 /\ Cardinality(S) = 1
      BY FS_Singleton
    <3> HIDE DEF H, S
    <3>3. Cardinality(H \cup S) = Cardinality(H) + Cardinality(S) - Cardinality(H \cap S)
      BY <3>2, FS_Union
    <3>4. Cardinality(H \cap S) \in Nat
      BY <3>2, FS_Intersection, FS_CardinalityType
    <3> QED BY <3>1, <3>2, <3>3, <3>4
  <2>2. CASE videoEncoder # "hardware"
    <3>1. TriedEncoders = {<<"software", 1>>}
      BY <2>2 DEF TriedEncoders
    <3>2. Cardinality({<<"software", 1>>}) = 1
      BY FS_Singleton
    <3> QED BY <3>1, <3>2
  <2> QED BY <2>1, <2>2
<1>2. \A try \in TriedEncoders : try[2] \in 0..2
  BY DEF TriedEncoders
<1> QED BY <1>1, <1>2, TriedIsNat

\* What BuildsBounded needs to be inductive: only a session that still needs a
\* pipeline is built for, and it has not been built for.
BuildsInv ==
  /\ BuildsBounded
  /\ \A s \in Sessions : s > session => builds[s] = 0
  /\ isRecording /\ pipeline = 0 /\ ~pipelineBuildFailed => builds[session] = 0

\* A build of the active session, after which it needs none.
LEMMA BuildsOnce ==
  ASSUME TypeOK, LifeInv, BuildsInv, isRecording, pipeline = 0, ~pipelineBuildFailed,
         NEW n \in 0..2, builds' = [builds EXCEPT ![session] = @ + n],
         session' = session, ~isRecording' \/ pipeline' # 0
  PROVE  BuildsInv'
<1>1. session \in Sessions /\ builds[session] = 0
  BY DEF LifeInv, ActiveSession, BuildsInv
<1>2. builds'[session] = n /\ \A s \in Sessions : s # session => builds'[s] = builds[s]
  BY <1>1 DEF TypeOK
<1> QED BY <1>1, <1>2 DEF BuildsInv, BuildsBounded, Sessions

LEMMA NextBuilds == TypeOK /\ LifeInv /\ BuildsInv /\ [Next]_vars => BuildsInv'
<1> SUFFICES ASSUME TypeOK, LifeInv, BuildsInv, [Next]_vars PROVE BuildsInv'
  OBVIOUS
<1> USE DEF worldVars, histVars
<1>1. ASSUME UNCHANGED <<isRecording, pipeline, pipelineBuildFailed, session, builds>>
      PROVE  BuildsInv'
  BY <1>1 DEF BuildsInv, BuildsBounded
<1>2. ASSUME ~isRecording', UNCHANGED <<session, builds>> PROVE BuildsInv'
  BY <1>2 DEF BuildsInv, BuildsBounded
<1>3. ASSUME NEW kind, BeginSession(kind), builds' = builds PROVE BuildsInv'
  <2>1. session \in Nat /\ session' = session + 1 /\ session' \in Sessions
    BY <1>3, BoundsAssumption DEF TypeOK, BeginSession, Sessions
  <2>2. builds[session'] = 0 /\ \A s \in Sessions : s > session' => builds[s] = 0
    BY <2>1 DEF BuildsInv, Sessions
  <2> QED BY <1>3, <2>2 DEF BuildsInv, BuildsBounded
<1>4. ASSUME NEW on \in BOOLEAN, SetStreamSettings(on) PROVE BuildsInv'
  BY <1>1, <1>4 DEF SetStreamSettings
<1>5. ASSUME NEW e \in {"hardware", "software"}, SetVideoEncoder(e) PROVE BuildsInv'
  BY <1>1, <1>5 DEF SetVideoEncoder
<1>6. ASSUME SetReplayDuration \/ DisableReplay \/ TakeError PROVE BuildsInv'
  BY <1>1, <1>6 DEF SetReplayDuration, DisableReplay, TakeError
<1>7. ASSUME StartStreaming PROVE BuildsInv'
  BY <1>1, <1>3, <1>7 DEF StartStreaming
<1>8. ASSUME NEW p \in Paths, StartLocalRecording(p) PROVE BuildsInv'
  BY <1>3, <1>8 DEF StartLocalRecording, BeginLocalRecording
<1>9. ASSUME StopRecordingBackground \/ StopRecording PROVE BuildsInv'
  BY <1>2, <1>9 DEF StopRecordingBackground, StopRecording, DetachStoppedSession
<1>10. ASSUME BuildFails PROVE BuildsInv'
  BY <1>10, BuildsOnce, TriedAtMostTwo DEF BuildFails, NeedsPipeline
<1>11. ASSUME BuildAndPushFrame PROVE BuildsInv'
  <2>1. PICK try \in TriedEncoders : builds' = [builds EXCEPT ![session] = @ + try[2]]
    BY <1>11 DEF BuildAndPushFrame
  <2>2. /\ isRecording /\ pipeline = 0 /\ ~pipelineBuildFailed /\ session' = session
        /\ PushFrame(session)
    BY <1>11 DEF BuildAndPushFrame, NeedsPipeline
  <2>3. ~isRecording' \/ pipeline' # 0
    <3>1. session # 0
      BY <2>2, ActiveLive DEF Sessions
    <3> QED BY <2>2, <3>1, Zenon DEF PushFrame, DetachStoppedSession
  <2> QED BY <2>1, <2>2, <2>3, BuildsOnce, TriedAtMostTwo
<1>12. ASSUME PushNextFrame PROVE BuildsInv'
  BY <1>1, <1>2, <1>12 DEF PushNextFrame, PushFrame, DetachStoppedSession
<1>13. ASSUME NEW s \in Sessions, CaptureSample(s) \/ Finalizer(s) PROVE BuildsInv'
  BY <1>1, <1>13 DEF CaptureSample, Finalizer, FinalizerDrain, FinalizerStop,
                     FinalizerClearRing, FinalizerPost, engineVars
<1>14. CASE UNCHANGED vars
  BY <1>1, <1>14 DEF vars, engineVars
<1> QED
  BY <1>4, <1>5, <1>6, <1>7, <1>8, <1>9, <1>10, <1>11, <1>12, <1>13, <1>14
     DEF Next, Owner, ProcessRawFrame

\* However many frames arrive, a session parses its pipeline description at
\* most once for each encoder it tries.
THEOREM NoRetryStorm == Spec => []BuildsBounded
<1>1. Init => TypeOK /\ LifeInv /\ BuildsInv
  BY InitType, InitLife DEF Init, BuildsInv, BuildsBounded
<1>2. TypeOK /\ LifeInv /\ BuildsInv /\ [Next]_vars => (TypeOK /\ LifeInv /\ BuildsInv)'
  BY NextType, NextLife, NextBuilds
<1>3. BuildsInv => BuildsBounded
  BY DEF BuildsInv
<1> QED BY <1>1, <1>2, <1>3, PTL DEF Spec
-----------------------------------------------------------------------------
\* What ReplayOnlyOfSession needs to be inductive.  Session s has written to
\* ring r, or may still write to it.
Wrote(s, r) == s \in rings[r] \/ (Live(s) /\ pipes[s].ring = r)

\* No session that is running or yet to start uses ring r.
StaleRing(r) == r # replay /\ ~(pipeline # 0 /\ pipes[pipeline].ring = r)

\* The finalizer of s will still clear ring r.
ClearPending(s, r) == fin[s].phase \in {"drain", "stop", "clear"} /\ fin[s].ring = r

\* Whoever wrote to a ring is the running session, will have the ring cleared,
\* or wrote to one that nobody uses any more; rings are new when allocated.
RingInv ==
  /\ replay <= ringCount
  /\ \A s \in Sessions, r \in Rings :
       Wrote(s, r) => /\ r <= ringCount
                      /\ \/ pipeline = s /\ pipes[s].ring = r
                         \/ ClearPending(s, r)
                         \/ StaleRing(r)

LEMMA InitRing == Init => RingInv
<1> SUFFICES ASSUME Init PROVE RingInv
  OBVIOUS
<1>1. replay <= ringCount
  BY DEF Init
<1>2. \A s \in Sessions, r \in Rings : ~Wrote(s, r)
  BY DEF Init, Wrote, Live, NoPipe
<1> QED BY <1>1, <1>2 DEF RingInv

\* A step that leaves rings, pipelines and finalizers alone.
LEMMA RingFrame ==
  ASSUME RingInv, UNCHANGED <<pipeline, replay, pipes, rings, ringCount, fin>>
  PROVE  RingInv'
BY DEF RingInv, Wrote, Live, StaleRing, ClearPending

\* Detaching: the ring of the pipeline is the one handed to the finalizer, or
\* nobody uses it any more.  The pipeline may have been built in the same step.
LEMMA RingDetach ==
  ASSUME TypeOK, LifeInv, RingInv, isRecording,
         NEW held, DetachStoppedSession(held), held # 0 \/ pipeline = 0,
         UNCHANGED <<replay, rings, ringCount>>,
         \/ pipes' = pipes
         \/ /\ held # 0 /\ pipeline = 0
            /\ pipes' = [pipes EXCEPT ![session] = NewPipe]
  PROVE  RingInv'
<1>1. session \in Sessions /\ fin[session].phase = "idle"
  BY DEF LifeInv, ActiveSession
<1>2. pipeline' = 0
  BY DEF DetachStoppedSession
<1>3. /\ fin'[session].ring = replay
      /\ held # 0 => fin'[session].phase = "drain"
      /\ \A t \in Sessions : t # session => fin'[t] = fin[t]
  BY <1>1 DEF DetachStoppedSession, TypeOK
<1>4. pipeline # 0 => pipeline = session
  BY DEF LifeInv, HeldPipeline
<1> SUFFICES ASSUME NEW s \in Sessions, NEW r \in Rings, Wrote(s, r)'
             PROVE  r <= ringCount /\ (ClearPending(s, r)' \/ StaleRing(r)')
  BY DEF RingInv
<1>5. CASE Wrote(s, r)
  <2>1. r <= ringCount
    BY <1>5 DEF RingInv
  <2>2. CASE pipeline = s /\ pipes[s].ring = r
    <3>1. s = session /\ held # 0
      BY <1>4, <2>2 DEF Sessions
    <3> QED BY <1>2, <1>3, <2>1, <3>1 DEF ClearPending, StaleRing
  <2>3. CASE ClearPending(s, r)
    <3>1. s # session
      BY <1>1, <2>3 DEF ClearPending
    <3> QED BY <1>3, <2>1, <2>3, <3>1 DEF ClearPending
  <2>4. CASE StaleRing(r)
    BY <1>2, <2>1, <2>4 DEF StaleRing
  <2> QED BY <1>5, <2>2, <2>3, <2>4 DEF RingInv
<1>6. CASE ~Wrote(s, r)
  <2>1. held # 0 /\ pipes' = [pipes EXCEPT ![session] = NewPipe]
    BY <1>6 DEF Wrote, Live
  <2>2. pipes'[session].ring = replay
        /\ \A t \in Sessions : t # session => pipes'[t] = pipes[t]
    BY <1>1, <2>1 DEF TypeOK, NewPipe
  <2>3. s = session /\ r = replay
    BY <1>6, <2>2 DEF Wrote, Live
  <2> QED BY <1>3, <2>1, <2>3 DEF ClearPending, RingInv
<1> QED BY <1>5, <1>6

\* Building and keeping a pipeline: it writes to the engine's ring, which is
\* not stale and becomes the running session's.
LEMMA RingBuild ==
  ASSUME TypeOK, LifeInv, RingInv, isRecording, pipeline = 0,
         pipes' = [pipes EXCEPT ![session] = NewPipe], pipeline' = session,
         UNCHANGED <<replay, rings, ringCount, fin>>
  PROVE  RingInv'
<1>1. session \in Sessions
  BY DEF LifeInv, ActiveSession
<1>2. /\ pipes'[session].ring = replay
      /\ \A t \in Sessions : t # session => pipes'[t] = pipes[t]
  BY <1>1 DEF TypeOK, NewPipe
<1> SUFFICES ASSUME NEW s \in Sessions, NEW r \in Rings, Wrote(s, r)'
             PROVE  /\ r <= ringCount
                    /\ \/ pipeline' = s /\ pipes'[s].ring = r
                       \/ ClearPending(s, r)'
                       \/ StaleRing(r)'
  BY DEF RingInv
<1>3. CASE Wrote(s, r)
  <2>1. r <= ringCount /\ (ClearPending(s, r) \/ StaleRing(r))
    BY <1>3 DEF RingInv, Sessions
  <2> QED BY <1>2, <2>1 DEF ClearPending, StaleRing
<1>4. CASE ~Wrote(s, r)
  <2>1. s = session /\ r = replay
    BY <1>2, <1>4 DEF Wrote, Live
  <2> QED BY <1>2, <2>1 DEF RingInv
<1> QED BY <1>3, <1>4

\* The replay buffer is switched on, with a ring of its own, or off.
LEMMA RingSwitch ==
  ASSUME TypeOK, RingInv, UNCHANGED <<pipeline, pipes, rings, fin>>,
         EnableReplay \/ (replay' = 0 /\ UNCHANGED ringCount)
  PROVE  RingInv'
<1>1. CASE UNCHANGED <<replay, ringCount>>
  BY <1>1, RingFrame
<1>2. CASE ringCount' = ringCount + 1 /\ replay' = ringCount + 1
  <2>1. ringCount \in Nat
    BY BoundsAssumption DEF TypeOK
  <2>2. \A r \in Rings : r <= ringCount /\ StaleRing(r) => StaleRing(r)'
    BY <1>2, <2>1 DEF StaleRing, Rings
  <2>3. \A r \in Rings : r <= ringCount => r <= ringCount'
    BY <1>2, <2>1 DEF Rings
  <2>4. replay' <= ringCount'
    BY <1>2, <2>1
  <2> QED BY <2>2, <2>3, <2>4 DEF RingInv, Wrote, Live, ClearPending
<1>3. CASE replay' = 0 /\ UNCHANGED ringCount
  <2>1. \A r \in Rings : StaleRing(r) => StaleRing(r)'
    BY <1>3 DEF StaleRing, Rings
  <2>2. replay' <= ringCount'
    BY <1>3, BoundsAssumption DEF TypeOK
  <2> QED BY <1>3, <2>1, <2>2 DEF RingInv, Wrote, Live, ClearPending
<1> QED BY <1>1, <1>2, <1>3 DEF EnableReplay

\* A finalizer lets go of a ring by emptying it, when its pipeline is Null.
LEMMA RingFinalizer ==
  ASSUME TypeOK, LifeInv, RingInv, NEW s \in Sessions, Finalizer(s)
  PROVE  RingInv'
<1>1. UNCHANGED <<pipeline, replay, ringCount>>
  BY DEF Finalizer, FinalizerDrain, FinalizerStop, FinalizerClearRing, FinalizerPost,
         engineVars
<1>2. CASE FinalizerDrain(s) \/ FinalizerStop(s)
  <2>1. PICK st \in {"draining", "null"} : pipes' = [pipes EXCEPT ![s].state = st]
    BY <1>2 DEF FinalizerDrain, FinalizerStop
  <2>2. rings' = rings /\ Live(s)
    BY <1>2 DEF FinalizerDrain, FinalizerStop, LifeInv, LivePipelineHasOneOwner
  <2>3. \A t \in Sessions, r \in Rings : Wrote(t, r)' => Wrote(t, r)
    BY <2>1, <2>2 DEF Wrote, Live, TypeOK, PipeType
  <2>4. \A t \in Sessions, r \in Rings : ClearPending(t, r) => ClearPending(t, r)'
    <3>1. fin[s].phase \in {"drain", "stop"}
      BY <1>2 DEF FinalizerDrain, FinalizerStop
    <3>2. PICK ph \in {"stop", "clear"} : fin' = [fin EXCEPT ![s].phase = ph]
      BY <1>2 DEF FinalizerDrain, FinalizerStop
    <3> QED BY <3>1, <3>2 DEF ClearPending, TypeOK, PartsType
  <2>5. \A t \in Sessions : pipes'[t].ring = pipes[t].ring
    BY <2>1 DEF TypeOK, PipeType
  <2>6. \A r \in Rings : StaleRing(r) => StaleRing(r)'
    BY <1>1, <2>5, BoundsAssumption DEF StaleRing, TypeOK, Sessions
  <2> QED BY <1>1, <2>3, <2>4, <2>5, <2>6 DEF RingInv
<1>3. CASE FinalizerClearRing(s)
  <2>1. ~Live(s) /\ pipes' = pipes
    BY <1>3 DEF FinalizerClearRing, LifeInv, LivePipelineHasOneOwner, ActiveSession
  <2>2. /\ \A r \in Rings : rings'[r] \subseteq rings[r]
        /\ \A r \in Rings : r = fin[s].ring => rings'[r] = {}
    BY <1>3, BoundsAssumption DEF FinalizerClearRing, TypeOK, Rings
  <2>3. \A t \in Sessions, r \in Rings : Wrote(t, r)' => Wrote(t, r)
    BY <2>1, <2>2 DEF Wrote, Live
  <2>4. \A t \in Sessions, r \in Rings :
          Wrote(t, r)' /\ ClearPending(t, r) => ClearPending(t, r)'
    <3>1. \A t \in Sessions : t # s => fin'[t] = fin[t]
      BY <1>3 DEF FinalizerClearRing, TypeOK
    <3>2. \A r \in Rings : ClearPending(s, r) => ~Wrote(s, r)'
      BY <2>1, <2>2 DEF ClearPending, Wrote, Live
    <3> QED BY <3>1, <3>2 DEF ClearPending
  <2>5. \A r \in Rings : StaleRing(r) => StaleRing(r)'
    BY <1>1, <2>1 DEF StaleRing
  <2> QED BY <1>1, <2>1, <2>3, <2>4, <2>5 DEF RingInv
<1>4. CASE FinalizerPost(s)
  <2>1. pipes' = pipes /\ rings' = rings
    BY <1>4 DEF FinalizerPost
  <2>2. \A t \in Sessions, r \in Rings : ClearPending(t, r) => ClearPending(t, r)'
    BY <1>4 DEF FinalizerPost, ClearPending, TypeOK, PartsType
  <2> QED BY <1>1, <2>1, <2>2 DEF RingInv, Wrote, Live, StaleRing
<1> QED BY <1>2, <1>3, <1>4 DEF Finalizer

LEMMA NextRing == TypeOK /\ LifeInv /\ RingInv /\ [Next]_vars => RingInv'
<1> SUFFICES ASSUME TypeOK, LifeInv, RingInv, [Next]_vars PROVE RingInv'
  OBVIOUS
<1> USE DEF worldVars, histVars
<1>1. ASSUME NEW on \in BOOLEAN, SetStreamSettings(on) PROVE RingInv'
  BY <1>1, RingFrame DEF SetStreamSettings
<1>2. ASSUME NEW e \in {"hardware", "software"}, SetVideoEncoder(e) PROVE RingInv'
  BY <1>2, RingFrame DEF SetVideoEncoder
<1>3. ASSUME SetReplayDuration PROVE RingInv'
  BY <1>3, RingSwitch DEF SetReplayDuration
<1>4. ASSUME DisableReplay PROVE RingInv'
  BY <1>4, RingSwitch DEF DisableReplay
<1>5. ASSUME TakeError \/ StartStreaming PROVE RingInv'
  BY <1>5, RingFrame DEF TakeError, StartStreaming, BeginSession
<1>6. ASSUME NEW p \in Paths, StartLocalRecording(p) PROVE RingInv'
  BY <1>6, RingFrame DEF StartLocalRecording, BeginLocalRecording, BeginSession
<1>7. ASSUME StopRecordingBackground \/ StopRecording PROVE RingInv'
  BY <1>7, RingDetach DEF StopRecordingBackground, StopRecording
<1>8. ASSUME BuildFails PROVE RingInv'
  BY <1>8, RingFrame DEF BuildFails
<1>9. ASSUME BuildAndPushFrame PROVE RingInv'
  <2>1. /\ isRecording /\ pipeline = 0 /\ PushFrame(session)
        /\ pipes' = [pipes EXCEPT ![session] = NewPipe]
        /\ UNCHANGED <<replay, rings, ringCount>>
    BY <1>9 DEF BuildAndPushFrame, NeedsPipeline
  <2>2. session # 0
    BY <2>1, ActiveLive DEF Sessions
  <2>3. CASE pipeline' = session /\ UNCHANGED <<isRecording, outputPath, lastError, fin>>
    BY <2>1, <2>3, RingBuild
  <2>4. CASE DetachStoppedSession(session)
    BY <2>1, <2>2, <2>4, RingDetach
  <2> QED BY <2>1, <2>3, <2>4 DEF PushFrame
<1>10. ASSUME PushNextFrame PROVE RingInv'
  <2>1. /\ isRecording /\ pipeline # 0 /\ PushFrame(pipeline)
        /\ UNCHANGED <<replay, pipes, rings, ringCount>>
    BY <1>10 DEF PushNextFrame
  <2>2. CASE pipeline' = pipeline /\ UNCHANGED <<isRecording, outputPath, lastError, fin>>
    BY <2>1, <2>2, RingFrame
  <2>3. CASE DetachStoppedSession(pipeline)
    BY <2>1, <2>3, RingDetach
  <2> QED BY <2>1, <2>2, <2>3 DEF PushFrame
<1>11. ASSUME NEW s \in Sessions, CaptureSample(s) PROVE RingInv'
  <2>1. /\ Live(s) /\ rings' = [rings EXCEPT ![pipes[s].ring] = @ \cup {s}]
        /\ UNCHANGED <<pipeline, replay, pipes, ringCount, fin>>
    BY <1>11 DEF CaptureSample, Live, engineVars
  <2>2. \A t \in Sessions, r \in Rings : Wrote(t, r)' => Wrote(t, r)
    BY <2>1 DEF Wrote, Live, TypeOK
  <2> QED BY <2>1, <2>2 DEF RingInv, StaleRing, ClearPending
<1>12. ASSUME NEW s \in Sessions, Finalizer(s) PROVE RingInv'
  BY <1>12, RingFinalizer
<1>13. CASE UNCHANGED vars
  BY <1>13, RingFrame DEF vars, engineVars
<1> QED
  BY <1>1, <1>2, <1>3, <1>4, <1>5, <1>6, <1>7, <1>8, <1>9, <1>10, <1>11, <1>12,
     <1>13 DEF Next, Owner, ProcessRawFrame

LEMMA ClipOwned ==
  ASSUME TypeOK, LifeInv, RingInv
  PROVE  ReplayOnlyOfSession
<1> SUFFICES ASSUME isRecording, pipeline # 0, pipes[pipeline].ring # 0,
                    \A t \in Sessions : fin[t].phase \in {"idle", "done"},
                    NEW s \in rings[pipes[pipeline].ring]
             PROVE  s = pipeline
  BY DEF ReplayOnlyOfSession
<1>1. pipeline \in Sessions
  BY ActiveLive
<1>2. pipes[pipeline].ring \in Rings
  BY <1>1, BoundsAssumption DEF TypeOK, PipeType, Rings
<1>3. s \in Sessions /\ Wrote(s, pipes[pipeline].ring)
  BY <1>2 DEF TypeOK, Wrote
<1> QED BY <1>2, <1>3 DEF RingInv, ClearPending, StaleRing

\* Once no stop is being finalized, the clip that can be saved is of the
\* running session alone, however its ring was shared, switched off and on.
THEOREM ClipIsOfSession == Spec => []ReplayOnlyOfSession
<1>1. Init => TypeOK /\ LifeInv /\ RingInv
  BY InitType, InitLife, InitRing
<1>2. TypeOK /\ LifeInv /\ RingInv /\ [Next]_vars => (TypeOK /\ LifeInv /\ RingInv)'
  BY NextType, NextLife, NextRing
<1>3. TypeOK /\ LifeInv /\ RingInv => ReplayOnlyOfSession
  BY ClipOwned
<1> QED BY <1>1, <1>2, <1>3, PTL DEF Spec

-----------------------------------------------------------------------------
(* The refinement: every step of the engine, of a streaming thread or of a *)
(* finalizer is one step of SessionLifecycle or leaves it where it is.     *)

LEMMA SameSessions == Lifecycle!SessionIds = Sessions
BY DEF Lifecycle!SessionIds, Sessions

LEMMA InitLifecycle == Init => Lifecycle!LifeInit
BY SameSessions, BoundsAssumption
   DEF Init, Lifecycle!LifeInit, stages, outputs, StageOf, OutputOf, NoPipe, NoParts,
       Sessions

\* A pipeline is Null only after its finalizer stopped it.
NullIsStopped ==
  \A s \in Sessions : pipes[s].state = "null" => fin[s].phase \in {"clear", "post", "done"}

LEMMA InitNull == Init => NullIsStopped
BY DEF Init, NullIsStopped, NoPipe

LEMMA NullDetach ==
  ASSUME TypeOK, LifeInv, NullIsStopped, isRecording, NEW held, DetachStoppedSession(held),
         pipes' = pipes \/ pipes' = [pipes EXCEPT ![session] = NewPipe]
  PROVE  NullIsStopped'
<1>1. session \in Sessions /\ fin[session].phase = "idle"
  BY DEF LifeInv, ActiveSession
<1>2. pipes'[session].state # "null"
  BY <1>1 DEF NullIsStopped, NewPipe, TypeOK
<1>3. \A s \in Sessions : s # session => pipes'[s] = pipes[s] /\ fin'[s] = fin[s]
  BY DEF DetachStoppedSession, TypeOK
<1> QED BY <1>2, <1>3 DEF NullIsStopped

LEMMA NextNull ==
  ASSUME TypeOK, LifeInv, NullIsStopped, [Next]_vars
  PROVE  NullIsStopped'
<1>1. ASSUME UNCHANGED <<pipes, fin>> PROVE NullIsStopped'
  BY <1>1 DEF NullIsStopped
<1>2. ASSUME BuildAndPushFrame PROVE NullIsStopped'
  <2>1. /\ isRecording /\ PushFrame(session)
        /\ pipes' = [pipes EXCEPT ![session] = NewPipe]
    BY <1>2 DEF BuildAndPushFrame, NeedsPipeline
  <2>2. CASE fin' = fin
    BY <2>1, <2>2 DEF NullIsStopped, NewPipe, TypeOK
  <2>3. CASE DetachStoppedSession(session)
    BY NullDetach, <2>1, <2>3
  <2> QED BY <2>1, <2>2, <2>3 DEF PushFrame
<1>3. ASSUME PushNextFrame PROVE NullIsStopped'
  BY <1>1, NullDetach, <1>3 DEF PushNextFrame, PushFrame
<1>4. ASSUME StopRecording \/ StopRecordingBackground PROVE NullIsStopped'
  BY NullDetach, <1>4 DEF StopRecording, StopRecordingBackground
<1>5. ASSUME NEW s \in Sessions, Finalizer(s) PROVE NullIsStopped'
  <2>1. CASE FinalizerDrain(s)
    BY <2>1 DEF FinalizerDrain, NullIsStopped, TypeOK, PipeType, PartsType
  <2>2. CASE FinalizerStop(s)
    BY <2>2 DEF FinalizerStop, NullIsStopped, TypeOK, PipeType, PartsType
  <2>3. CASE FinalizerClearRing(s)
    BY <2>3 DEF FinalizerClearRing, NullIsStopped, TypeOK, PartsType
  <2>4. CASE FinalizerPost(s)
    BY <2>4 DEF FinalizerPost, NullIsStopped, TypeOK, PartsType
  <2> QED BY <1>5, <2>1, <2>2, <2>3, <2>4 DEF Finalizer
<1>6. ASSUME NEW x, \/ SetStreamSettings(x) \/ SetVideoEncoder(x) \/ StartLocalRecording(x)
                   \/ CaptureSample(x)
      PROVE  NullIsStopped'
  BY <1>1, <1>6 DEF SetStreamSettings, SetVideoEncoder, StartLocalRecording,
                    CaptureSample, worldVars
<1>7. ASSUME SetReplayDuration \/ DisableReplay \/ TakeError \/ StartStreaming \/ BuildFails
      PROVE  NullIsStopped'
  BY <1>1, <1>7 DEF SetReplayDuration, DisableReplay, TakeError, StartStreaming,
                    BuildFails, worldVars
<1>8. CASE UNCHANGED vars
  BY <1>1, <1>8 DEF vars, worldVars
<1> QED
  BY <1>2, <1>3, <1>4, <1>5, <1>6, <1>7, <1>8 DEF Next, Owner, ProcessRawFrame

-----------------------------------------------------------------------------
\* The abstract state depends on four variables, and on the state of a pipeline
\* and the phase of a finalizer only.
LEMMA Stutter ==
  ASSUME UNCHANGED <<isRecording, session, pipes>>,
         \A s \in Sessions : \/ fin'[s].phase = fin[s].phase
                             \/ fin[s].phase = "drain" /\ fin'[s].phase = "stop"
                             \/ fin[s].phase = "clear" /\ fin'[s].phase = "post"
  PROVE  UNCHANGED <<stages, outputs>>
<1>1. \A s \in Sessions : OutputOf(s)' = OutputOf(s)
  BY DEF OutputOf
<1>2. \A s \in Sessions : StageOf(s)' = StageOf(s)
  BY DEF StageOf
<1> QED BY <1>1, <1>2, Zenon DEF stages, outputs

LEMMA BeginStep ==
  ASSUME TypeOK, LifeInv, ~isRecording, NEW kind, BeginSession(kind),
         UNCHANGED <<pipes, fin>>
  PROVE  Lifecycle!LifeNext
<1>1. /\ session \in 0..MaxSessions /\ session' = session + 1 /\ session' \in Sessions
      /\ isRecording' /\ session \in Nat /\ session' > session
  BY BoundsAssumption DEF TypeOK, BeginSession, Sessions
<1>2. \A s \in Sessions : fin[s].phase \in Phases /\ s \in Nat
  BY BoundsAssumption DEF TypeOK, PartsType, Sessions
<1>5. fin[session'].phase = "idle"
  BY <1>1 DEF LifeInv, FreshSessions, Sessions
<1>3. stages[session'] = "unused" /\ stages'[session'] = "active"
  <2>1. StageOf(session') = "unused"
    BY <1>1, <1>5 DEF StageOf
  <2>2. ASSUME NEW s, s = session' PROVE StageOf(s)' = "active"
    BY <1>1, <1>5, <2>2 DEF StageOf
  <2> QED BY <1>1, <2>1, <2>2 DEF stages
<1>4. \A t \in Sessions : stages[t] # "active" /\ (t < session' => stages[t] # "unused")
  <2> SUFFICES ASSUME NEW t \in Sessions
               PROVE  StageOf(t) # "active" /\ (t < session' => StageOf(t) # "unused")
    BY DEF stages
  <2>1. StageOf(t) # "active"
    BY <1>1, <1>2 DEF StageOf
  <2>2. ASSUME t < session' PROVE ~(t > session)
    BY <1>1, <1>2, <2>2, BoundsAssumption
  <2> QED BY <2>1, <2>2 DEF StageOf
<1>6. \A t \in Sessions : t # session' => stages'[t] = stages[t]
  BY <1>1, <1>2 DEF stages, StageOf
<1>7. stages' = [stages EXCEPT ![session'] = "active"] /\ outputs' = outputs
  BY <1>1, <1>3, <1>6 DEF stages, outputs, OutputOf
<1> QED BY <1>1, <1>3, <1>4, <1>7, SameSessions DEF Lifecycle!LifeNext, Lifecycle!Begin

\* A session detached with its pipeline, just built or not, or without one.
LEMMA DetachStep ==
  ASSUME TypeOK, LifeInv, isRecording, NEW held, DetachStoppedSession(held),
         session' = session
  PROVE  /\ session \in Sessions
         /\ stages[session] = "active"
         /\ stages' = [stages EXCEPT ![session] = "finalizing"]
<1>1. session \in Sessions /\ session \in Nat /\ ~isRecording'
  BY BoundsAssumption DEF LifeInv, ActiveSession, Sessions, DetachStoppedSession
<1>2. fin'[session].phase \in {"clear", "drain"}
  BY <1>1 DEF DetachStoppedSession, TypeOK
<1>3. \A s \in Sessions : s # session => fin'[s] = fin[s]
  BY DEF DetachStoppedSession, TypeOK
<1>4. StageOf(session) = "active"
  BY <1>1 DEF StageOf, LifeInv, ActiveSession
<1>5. ASSUME NEW s \in Sessions, s # session PROVE StageOf(s)' = StageOf(s)
  BY <1>3, <1>5 DEF StageOf
<1>6. StageOf(session)' = "finalizing"
  BY <1>1, <1>2 DEF StageOf
<1>7. ASSUME NEW s \in Sessions
      PROVE  StageOf(s)' = IF s = session THEN "finalizing" ELSE StageOf(s)
  BY <1>5, <1>6
<1> QED BY <1>1, <1>4, <1>7 DEF stages

\* Building the pipeline of the active session opens its output; the frame it
\* was built for may end the session at once.
LEMMA OpenStep ==
  ASSUME TypeOK, LifeInv, NullIsStopped, isRecording, pipeline = 0, session' = session,
         pipes' = [pipes EXCEPT ![session] = NewPipe], PushFrame(session)
  PROVE  Lifecycle!LifeNext
<1>1. session \in Sessions /\ session # 0 /\ fin[session].phase = "idle"
  BY BoundsAssumption DEF LifeInv, ActiveSession, Sessions
<1>2. pipes[session].state = "absent"
  BY <1>1, ActiveLive DEF Live, NullIsStopped, TypeOK, PipeType
<1>3. ASSUME NEW s \in Sessions
      PROVE  OutputOf(s)' = IF s = session THEN "open" ELSE OutputOf(s)
  BY <1>1, <1>3 DEF OutputOf, TypeOK, NewPipe
<1>4. outputs[session] = "absent" /\ outputs' = [outputs EXCEPT ![session] = "open"]
  BY <1>1, <1>2, <1>3 DEF outputs, OutputOf
<1>5. \E next \in {"active", "finalizing"} :
        stages[session] = "active" /\ stages' = [stages EXCEPT ![session] = next]
  <2>1. CASE isRecording' = isRecording /\ fin' = fin
    <3>1. stages' = stages
      BY <2>1 DEF stages, StageOf
    <3>2. StageOf(session) = "active"
      BY <1>1, BoundsAssumption DEF StageOf, Sessions
    <3> QED BY <1>1, <3>1, <3>2 DEF stages
  <2>2. CASE DetachStoppedSession(session)
    BY <2>2, DetachStep
  <2> QED BY <2>1, <2>2 DEF PushFrame
<1> QED BY <1>1, <1>4, <1>5, SameSessions DEF Lifecycle!LifeNext, Lifecycle!Open

LEMMA StopStep ==
  ASSUME TypeOK, LifeInv, isRecording, NEW held, DetachStoppedSession(held),
         UNCHANGED <<session, pipes>>
  PROVE  Lifecycle!LifeNext
<1>1. outputs' = outputs
  BY DEF outputs, OutputOf
<1> QED BY <1>1, DetachStep, SameSessions DEF Lifecycle!LifeNext, Lifecycle!Stop

LEMMA FailStep ==
  ASSUME TypeOK, LifeInv, NullIsStopped, BuildFails
  PROVE  Lifecycle!LifeNext
<1>1. /\ isRecording /\ ~isRecording' /\ pipeline = 0
      /\ UNCHANGED <<pipes, fin, session>>
  BY DEF BuildFails, NeedsPipeline, worldVars
<1>2. session \in Sessions /\ session \in Nat /\ fin[session].phase = "idle"
  BY <1>1, BoundsAssumption DEF LifeInv, ActiveSession, Sessions
<1>3. pipes[session].state = "absent" /\ outputs' = outputs
  BY <1>1, <1>2, ActiveLive DEF Live, NullIsStopped, TypeOK, PipeType, outputs, OutputOf
<1>4. StageOf(session) = "active" /\ StageOf(session)' = "failed"
  BY <1>1, <1>2 DEF StageOf
<1>5. ASSUME NEW s \in Sessions, s # session PROVE StageOf(s)' = StageOf(s)
  BY <1>1, <1>5 DEF StageOf
<1>6. ASSUME NEW s \in Sessions
      PROVE  StageOf(s)' = IF s = session THEN "failed" ELSE StageOf(s)
  <2>1. CASE s = session
    BY <1>1, <1>2, <2>1 DEF StageOf
  <2> QED BY <1>5, <2>1
<1>7. stages[session] = "active" /\ stages' = [stages EXCEPT ![session] = "failed"]
  BY <1>2, <1>4, <1>6 DEF stages
<1> QED BY <1>2, <1>3, <1>7, SameSessions DEF Lifecycle!LifeNext, Lifecycle!Fail, outputs, OutputOf

LEMMA FinalizerStep ==
  ASSUME TypeOK, LifeInv, NullIsStopped, NEW s \in Sessions, Finalizer(s)
  PROVE  Lifecycle!LifeNext \/ UNCHANGED <<stages, outputs>>
<1>1. UNCHANGED <<isRecording, session>> /\ fin[s].phase # "idle"
  BY DEF Finalizer, FinalizerDrain, FinalizerStop, FinalizerClearRing, FinalizerPost,
         engineVars, histVars
<1>2. /\ s \in Nat /\ session \in Nat
      /\ ~(s > session) /\ ~(s = session /\ isRecording)
  BY <1>1, BoundsAssumption DEF LifeInv, ActiveSession, FreshSessions, Sessions, TypeOK
<1>3. CASE FinalizerDrain(s)
  <2>1. Live(s)
    BY <1>3 DEF FinalizerDrain, LifeInv, LivePipelineHasOneOwner
  <2>2. fin' = [fin EXCEPT ![s].phase = "stop"] /\ pipes' = [pipes EXCEPT ![s].state = "draining"]
    BY <1>3 DEF FinalizerDrain
  <2>3. ASSUME NEW t \in Sessions PROVE OutputOf(t)' = OutputOf(t)
    BY <2>1, <2>2, <2>3 DEF OutputOf, Live, TypeOK, PipeType
  <2>4. ASSUME NEW t \in Sessions PROVE StageOf(t)' = StageOf(t)
    BY <1>1, <1>2, <1>3, <2>2, <2>4 DEF FinalizerDrain, StageOf, TypeOK, PartsType
  <2> QED BY <2>3, <2>4 DEF stages, outputs
<1>4. CASE FinalizerStop(s)
  <2>1. Live(s) /\ fin[s].phase = "stop"
    BY <1>4 DEF FinalizerStop, LifeInv, LivePipelineHasOneOwner
  <2>2. fin' = [fin EXCEPT ![s].phase = "clear"] /\ pipes' = [pipes EXCEPT ![s].state = "null"]
    BY <1>4 DEF FinalizerStop
  <2>3. ASSUME NEW t \in Sessions
        PROVE  OutputOf(t)' = IF t = s THEN "closed" ELSE OutputOf(t)
    BY <2>1, <2>2, <2>3 DEF OutputOf, Live, TypeOK, PipeType
  <2>4. ASSUME NEW t \in Sessions PROVE StageOf(t)' = StageOf(t)
    BY <1>1, <1>2, <2>1, <2>2, <2>4 DEF StageOf, TypeOK, PartsType
  <2>5. StageOf(s) = "finalizing" /\ OutputOf(s) = "open"
    BY <1>2, <2>1 DEF StageOf, OutputOf, Live
  <2> QED BY <2>3, <2>4, <2>5, SameSessions
          DEF stages, outputs, Lifecycle!LifeNext, Lifecycle!Finalize, Lifecycle!Close
<1>5. CASE FinalizerClearRing(s)
  BY <1>5, Stutter DEF FinalizerClearRing, engineVars, histVars, TypeOK, PartsType
<1>6. CASE FinalizerPost(s)
  <2>1. fin[s].phase = "post" /\ fin' = [fin EXCEPT ![s].phase = "done"] /\ pipes' = pipes
    BY <1>6 DEF FinalizerPost
  <2>2. ASSUME NEW t \in Sessions
        PROVE  StageOf(t)' = IF t = s THEN "finished" ELSE StageOf(t)
    BY <1>1, <1>2, <2>1, <2>2 DEF StageOf, TypeOK, PartsType
  <2>3. StageOf(s) = "finalizing" /\ outputs' = outputs
    BY <1>2, <2>1 DEF StageOf, outputs, OutputOf
  <2>4. ~Live(s)
    BY <1>2, <2>1 DEF LifeInv, LivePipelineHasOneOwner
  <2>5. OutputOf(s) # "open"
    BY <2>4 DEF OutputOf, Live, TypeOK, PipeType
  <2> QED BY <2>2, <2>3, <2>5, SameSessions
          DEF stages, outputs, Lifecycle!LifeNext, Lifecycle!Finalize, Lifecycle!Finish
<1> QED BY <1>3, <1>4, <1>5, <1>6 DEF Finalizer

LEMMA NextLifecycle ==
  ASSUME TypeOK, LifeInv, NullIsStopped, [Next]_vars
  PROVE  Lifecycle!LifeNext \/ UNCHANGED <<stages, outputs>>
<1>1. ASSUME UNCHANGED <<isRecording, session, pipes, fin>>
      PROVE  UNCHANGED <<stages, outputs>>
  BY <1>1, Stutter
<1>2. ASSUME NEW x, \/ SetStreamSettings(x) \/ SetVideoEncoder(x) \/ CaptureSample(x)
      PROVE  UNCHANGED <<stages, outputs>>
  BY <1>1, <1>2 DEF SetStreamSettings, SetVideoEncoder, CaptureSample, worldVars,
                    engineVars, histVars
<1>3. ASSUME SetReplayDuration \/ DisableReplay \/ TakeError
      PROVE  UNCHANGED <<stages, outputs>>
  BY <1>1, <1>3 DEF SetReplayDuration, DisableReplay, TakeError, worldVars, histVars
<1>4. ASSUME StartStreaming
      PROVE  Lifecycle!LifeNext \/ UNCHANGED <<stages, outputs>>
  BY <1>1, <1>4, BeginStep DEF StartStreaming, worldVars
<1>5. ASSUME NEW p, StartLocalRecording(p) PROVE Lifecycle!LifeNext
  BY <1>5, BeginStep DEF StartLocalRecording, BeginLocalRecording, worldVars
<1>6. ASSUME StopRecording \/ StopRecordingBackground PROVE Lifecycle!LifeNext
  BY <1>6, StopStep DEF StopRecording, StopRecordingBackground, histVars
<1>7. ASSUME BuildAndPushFrame PROVE Lifecycle!LifeNext
  BY <1>7, OpenStep DEF BuildAndPushFrame, NeedsPipeline
<1>8. ASSUME PushNextFrame
      PROVE  Lifecycle!LifeNext \/ UNCHANGED <<stages, outputs>>
  BY <1>1, <1>8, StopStep DEF PushNextFrame, PushFrame, histVars
<1>9. CASE UNCHANGED vars
  BY <1>1, <1>9 DEF vars, engineVars, worldVars, histVars
<1> QED
  BY <1>2, <1>3, <1>4, <1>5, <1>6, <1>7, <1>8, <1>9, FailStep, FinalizerStep
     DEF Next, Owner, ProcessRawFrame

\* The engine implements the session life cycle: every behaviour of the engine
\* is, read through stages and outputs, a behaviour of SessionLifecycle.
THEOREM ImplementsSessionLifecycle == Spec => Lifecycle!LifeSpec
<1>1. Init => TypeOK /\ LifeInv /\ NullIsStopped /\ Lifecycle!LifeInit
  BY InitType, InitLife, InitNull, InitLifecycle
<1>2. TypeOK /\ LifeInv /\ NullIsStopped /\ [Next]_vars
        => (TypeOK /\ LifeInv /\ NullIsStopped)'
  BY NextType, NextLife, NextNull
<1>3. TypeOK /\ LifeInv /\ NullIsStopped /\ [Next]_vars
        => [Lifecycle!LifeNext]_<<stages, outputs>>
  BY NextLifecycle
<1> QED BY <1>1, <1>2, <1>3, PTL DEF Spec, Lifecycle!LifeSpec, Lifecycle!lifeVars
=============================================================================
