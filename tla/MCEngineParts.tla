----------------------------- MODULE MCEngineParts -----------------------------
(***************************************************************************)
(* Small instances of the core's parts with a life of their own, side by   *)
(* side: the engine under any embedder, the engine under the GUI, the      *)
(* targets of a stream, and a headless recording job.  A behaviour is one  *)
(* of the part chosen at the start; the others stay as they were.          *)
(***************************************************************************)
EXTENDS AppSession, MCStreamReconnect, RecordingJob

VARIABLE enginePart  \* the part that runs

partVars == <<enginePart, appVars, streamVars, jobVars>>

EnginePartsInit ==
  /\ enginePart \in {"engine", "gui", "stream", "job"}
  /\ AppInit /\ StreamInit /\ JobInit
  /\ enginePart = "job" \/ config = CHOOSE c \in Configs : TRUE
  /\ enginePart \in {"engine", "gui"} \/ videoEncoder = "hardware"

EnginePartsNext ==
  \/ /\ enginePart = "engine" /\ Next
     /\ UNCHANGED <<enginePart, guiVars, streamVars, jobVars>>
  \/ /\ enginePart = "gui" /\ AppNext
     /\ UNCHANGED <<enginePart, streamVars, jobVars>>
  \/ /\ enginePart = "stream" /\ StreamNext
     /\ UNCHANGED <<enginePart, appVars, jobVars>>
  \/ /\ enginePart = "job" /\ JobNext
     /\ UNCHANGED <<enginePart, appVars, streamVars>>

(* The fairness of each part's own specification.                          *)
EnginePartsFairness ==
  /\ \A s \in Sessions : WF_vars(enginePart \in {"engine", "gui"} /\ Finalizer(s))
  /\ WF_appVars(enginePart = "gui" /\ GuiPollFinalization)
  /\ WF_appVars(enginePart = "gui" /\ GuiTakeError)
  /\ WF_streamVars(enginePart = "stream" /\ BeginService)
  /\ WF_streamVars(enginePart = "stream" /\ ServiceStep)
  /\ WF_streamVars(enginePart = "stream" /\ Tick)
  /\ WF_streamVars(enginePart = "stream" /\ WorkerFires)
  /\ WF_jobVars(enginePart = "job" /\ OwnerGoesOn)
  /\ WF_jobVars(enginePart = "job" /\ Ticker)

EnginePartsSpec ==
  EnginePartsInit /\ [][EnginePartsNext]_partVars /\ EnginePartsFairness
=============================================================================
