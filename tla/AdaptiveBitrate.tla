---------------------------- MODULE AdaptiveBitrate ----------------------------
(***************************************************************************)
(* The live bitrate of a stream: AdaptiveBitrateController                 *)
(* (rivulet-core/src/stream_runtime.rs) with the policy of the stream's    *)
(* settings (stream.rs), driven by the engine's service_adaptive_bitrate   *)
(* (lib.rs) with samples of the stream's health.  The controller is told   *)
(* the time since set_multistream_settings, a clock that starts over with  *)
(* every call and stands at zero while no target list is configured; the   *)
(* controller itself, and the bitrate, live as long as the engine.         *)
(* What makes health good or poor (health.rs) is the environment's choice. *)
(***************************************************************************)
EXTENDS Integers

CONSTANTS BitratePolicies,  \* the policies of the user's settings
          BitrateChoices,   \* the bitrates the user may set
          BitrateCooldown,  \* AdaptiveBitrateController.cooldown
          BitrateSamples,   \* required_samples
          MaxBitrateTime,   \* bound: seconds
          MaxBitrateEdits   \* bound: changes of the settings and sessions

ASSUME BitrateAssumption ==
  /\ BitratePolicies \subseteq
       [enabled : BOOLEAN, minimum : Nat, maximum : Nat, step : Nat \ {0}]
  /\ \A p \in BitratePolicies : p.minimum <= p.maximum
  /\ BitrateChoices \subseteq Nat
  /\ BitrateCooldown \in Nat /\ BitrateSamples \in Nat \ {0}
  /\ MaxBitrateTime \in Nat /\ MaxBitrateEdits \in Nat

VARIABLES
  bitrateNow,      \* real time
  bitrateEpoch,    \* reconnect_started; -1: None
  bitratePolicy,   \* stream_settings.adaptive_bitrate
  bitrateHealth,   \* stream_health.is_some(): a streaming session is active
  bitrateKbps,     \* encoder_bitrate_kbps
  bitrateEncoder,  \* the "bitrate" property of video_enc; -1: no pipeline
  bitratePending,  \* pending: a status and how often in a row; count 0: None
  bitrateLast,     \* last_change; -1: None
  bitrateChanged,  \* history: the real time of the last change; -1: none
  bitrateEdits

bitrateVars == <<bitrateNow, bitrateEpoch, bitratePolicy, bitrateHealth, bitrateKbps,
                 bitrateEncoder, bitratePending, bitrateLast, bitrateChanged, bitrateEdits>>
bitrateController == <<bitrateKbps, bitratePending, bitrateLast, bitrateChanged>>

NoSample == [status |-> "Good", count |-> 0]

BitrateInit ==
  /\ bitrateNow = 0 /\ bitrateEpoch = -1
  /\ bitratePolicy \in BitratePolicies /\ bitrateHealth = FALSE
  /\ bitrateKbps \in BitrateChoices /\ bitrateEncoder = -1
  /\ bitratePending = NoSample /\ bitrateLast = -1 /\ bitrateChanged = -1
  /\ bitrateEdits = 0

BitrateTick ==
  /\ bitrateNow < MaxBitrateTime /\ bitrateNow' = bitrateNow + 1
  /\ UNCHANGED <<bitrateEpoch, bitratePolicy, bitrateHealth, bitrateEncoder, bitrateController, bitrateEdits>>

BitrateEdit == bitrateEdits < MaxBitrateEdits /\ bitrateEdits' = bitrateEdits + 1

\* set_multistream_settings, before or during a session.
BitrateTargets ==
  /\ BitrateEdit
  /\ bitrateEpoch' \in {bitrateNow, -1}
  /\ UNCHANGED <<bitrateNow, bitratePolicy, bitrateHealth, bitrateEncoder, bitrateController>>

\* set_stream_settings
BitrateSettings(p) ==
  /\ BitrateEdit
  /\ bitratePolicy' = p
  /\ UNCHANGED <<bitrateNow, bitrateEpoch, bitrateHealth, bitrateEncoder, bitrateController>>

\* set_video_bitrate "must be called before recording starts".
BitrateChosen(kbps) ==
  /\ ~bitrateHealth /\ BitrateEdit
  /\ bitrateKbps' = kbps
  /\ UNCHANGED <<bitrateNow, bitrateEpoch, bitratePolicy, bitrateHealth, bitrateEncoder,
                 bitratePending, bitrateLast, bitrateChanged>>

\* start_streaming or start_local_recording with a stream configured.
BitrateStart ==
  /\ ~bitrateHealth /\ BitrateEdit
  /\ bitrateHealth' = TRUE
  /\ UNCHANGED <<bitrateNow, bitrateEpoch, bitratePolicy, bitrateEncoder, bitrateController>>

\* The first frame builds the pipeline with the bitrate in its description.
BitrateBuild ==
  /\ bitrateHealth /\ bitrateEncoder = -1
  /\ bitrateEncoder' = bitrateKbps
  /\ UNCHANGED <<bitrateNow, bitrateEpoch, bitratePolicy, bitrateHealth, bitrateController, bitrateEdits>>

\* detach_stopped_session
BitrateStop ==
  /\ bitrateHealth
  /\ bitrateHealth' = FALSE /\ bitrateEpoch' = -1 /\ bitrateEncoder' = -1
  /\ UNCHANGED <<bitrateNow, bitratePolicy, bitrateController, bitrateEdits>>

-----------------------------------------------------------------------------
Smaller(a, b) == IF a < b THEN a ELSE b
Greater(a, b) == IF a > b THEN a ELSE b

\* AdaptiveBitrate::next_bitrate for the two statuses the controller asks it about.
NextBitrate(status) ==
  IF status = "Poor" THEN Greater(Greater(bitrateKbps - bitratePolicy.step, 0), bitratePolicy.minimum)
                     ELSE Smaller(bitrateKbps + bitratePolicy.step, bitratePolicy.maximum)

\* Mutant: without a target list the clock is that of the process.
ProcessClock == IF bitrateEpoch = -1 THEN bitrateNow ELSE bitrateNow - bitrateEpoch

\* reconnect_started.elapsed(), or zero.
BitrateClock == IF bitrateEpoch = -1 THEN 0 ELSE bitrateNow - bitrateEpoch

\* now.saturating_sub(last) < cooldown
CoolingDown == bitrateLast # -1 /\ Greater(BitrateClock - bitrateLast, 0) < BitrateCooldown

Sampled(status) ==
  [status |-> status,
   count  |-> IF bitratePending.count > 0 /\ bitratePending.status = status
              THEN Smaller(bitratePending.count + 1, BitrateSamples) ELSE 1]

\* service_adaptive_bitrate: one sample of the health.  Enough equal samples
\* while nothing cools down are a decision, which may be to stay.
BitrateService(status) ==
  /\ bitrateHealth
  /\ IF ~bitratePolicy.enabled \/ status = "other"
     THEN bitratePending' = NoSample /\ UNCHANGED <<bitrateKbps, bitrateLast, bitrateChanged>>
     ELSE IF Sampled(status).count < BitrateSamples \/ CoolingDown
     THEN bitratePending' = Sampled(status) /\ UNCHANGED <<bitrateKbps, bitrateLast, bitrateChanged>>
     ELSE /\ bitratePending' = NoSample
          /\ bitrateKbps' = NextBitrate(status)
          /\ IF bitrateKbps' = bitrateKbps THEN UNCHANGED <<bitrateLast, bitrateChanged>>
             ELSE bitrateLast' = BitrateClock /\ bitrateChanged' = bitrateNow
  /\ bitrateEncoder' = IF bitrateEncoder # -1 /\ bitrateKbps' # bitrateKbps THEN bitrateKbps' ELSE bitrateEncoder
  /\ UNCHANGED <<bitrateNow, bitrateEpoch, bitratePolicy, bitrateHealth, bitrateEdits>>

BitrateNext ==
  \/ BitrateTick \/ BitrateTargets \/ BitrateStart \/ BitrateBuild \/ BitrateStop
  \/ \E p \in BitratePolicies : BitrateSettings(p)
  \/ \E kbps \in BitrateChoices : BitrateChosen(kbps)
  \/ \E status \in {"Good", "Poor", "other"} : BitrateService(status)

BitrateSpec == BitrateInit /\ [][BitrateNext]_bitrateVars
-----------------------------------------------------------------------------
\* Types of the engine's fields; in particular the clock never runs backwards
\* below zero, and the encoder has the bitrate the engine believes it has.
BitrateTypeOK ==
  /\ bitrateNow \in Nat /\ bitrateEpoch \in -1..bitrateNow
  /\ bitratePolicy \in BitratePolicies /\ bitrateHealth \in BOOLEAN
  /\ bitrateKbps \in Nat /\ bitrateEncoder \in {-1, bitrateKbps}
  /\ bitratePending \in [status : {"Good", "Poor"}, count : 0..BitrateSamples]
  /\ bitrateLast \in Nat \cup {-1} /\ bitrateChanged \in -1..bitrateNow

InBounds(kbps) == kbps \in bitratePolicy.minimum .. bitratePolicy.maximum

\* The controller "avoids bitrate flapping": two of its changes are a cooldown
\* apart in real time, although its clock starts over, stops and is replaced
\* between them; and from a bitrate within the policy's bounds a change moves
\* by at most a step and stays within them.
BitrateCalm ==
  [][bitrateHealth /\ bitrateKbps' # bitrateKbps =>
       /\ bitrateChanged = -1 \/ bitrateNow - bitrateChanged >= BitrateCooldown
       /\ InBounds(bitrateKbps) =>
            /\ InBounds(bitrateKbps')
            /\ bitrateKbps' \in bitrateKbps - bitratePolicy.step .. bitrateKbps + bitratePolicy.step]_bitrateVars
=============================================================================
