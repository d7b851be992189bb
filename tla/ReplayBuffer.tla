------------------------------ MODULE ReplayBuffer ------------------------------
(***************************************************************************)
(* The ring of encoded packets behind "instant replay"                     *)
(* (rivulet-core/src/replay.rs), as the capture callbacks fill it          *)
(* (install_replay_capture in rivulet-core/src/lib.rs) and as a clip is    *)
(* assembled from it.  Time is counted in video frames.  A stream's        *)
(* timestamps grow in the order its packets arrive, so popping from the    *)
(* front until a packet is new enough keeps a set of times: a track is the *)
(* set of its packets' times.  One audio track stands for all, since each  *)
(* is treated alike; B-frames, caps and payloads are left out.             *)
(* EngineSession models whose sessions share a ring and when it is cleared.*)
(***************************************************************************)
EXTENDS Integers

CONSTANTS ReplayWindows,   \* the retention windows the user may choose
          ReplayGop,       \* the encoder's longest distance between key frames
          MaxReplayTime,   \* bound: frames of a session
          MaxReplayEdits   \* bound: changes of the window, and sessions ended

ASSUME ReplayAssumption ==
  /\ ReplayWindows \subseteq Nat
  /\ ReplayGop \in Nat \ {0} /\ MaxReplayTime \in Nat /\ MaxReplayEdits \in Nat

VARIABLES
  replayWindow,  \* duration
  replayVideo,   \* video: the times of the packets kept
  replayNewest,  \* newest_video_dts; -1: None
  replayAudio,   \* segments of the audio track
  replayHeard,   \* newest_pts of the audio track; -1: None
  replayKeys,    \* the times of the session's key frames, kept or not
  replayNext,    \* the time of the frame the encoder will deliver next
  replaySounds,  \* history: the times of all the session's audio packets
  replayCut,     \* history: the highest cutoffs so far, of video and audio
  replayEdits

replayVars == <<replayWindow, replayVideo, replayNewest, replayAudio, replayHeard, replayKeys,
                replayNext, replaySounds, replayCut, replayEdits>>

Nothing == [video |-> 0, audio |-> 0]

ReplayInit ==
  /\ replayWindow \in ReplayWindows
  /\ replayVideo = {} /\ replayNewest = -1
  /\ replayAudio = {} /\ replayHeard = -1
  /\ replayKeys = {} /\ replayNext = 0 /\ replaySounds = {}
  /\ replayCut = Nothing /\ replayEdits = 0

Larger(a, b) == IF a > b THEN a ELSE b

\* newest.saturating_sub(window)
Cutoff(newest, window) == Larger(newest - window, 0)

Kept(track, cutoff) == {t \in track : t >= cutoff}

\* The latest of a set of times.
Latest(times) == CHOOSE t \in times \cup {0} : \A u \in times : u <= t

\* evict: each track by its own newest packet.  The history follows what the
\* session really delivered.
Evict(video, newest, audio, heard) ==
  /\ replayVideo' = Kept(video, Cutoff(newest, replayWindow'))
  /\ replayAudio' = Kept(audio, Cutoff(heard, replayWindow'))
  /\ replayCut' = [video |-> Larger(replayCut.video, Cutoff(replayNext' - 1, replayWindow')),
                   audio |-> Larger(replayCut.audio, Cutoff(Latest(replaySounds'), replayWindow'))]

\* push_video, from the callback of replay_video_sink.  The encoder begins with
\* a key frame and lets at most ReplayGop frames pass until the next.
ReplayPushVideo(key) ==
  /\ replayNext < MaxReplayTime
  /\ key \/ \E k \in replayKeys : replayNext - k < ReplayGop
  /\ replayKeys' = IF key THEN replayKeys \cup {replayNext} ELSE replayKeys
  /\ replayNext' = replayNext + 1
  /\ replayNewest' = Larger(replayNewest, replayNext)
  /\ UNCHANGED <<replayWindow, replayHeard, replaySounds, replayEdits>>
  /\ Evict(replayVideo \cup {replayNext}, replayNewest', replayAudio, replayHeard)

\* push_audio, from the callback of replay_audio_sink_0: a track that was
\* silent for a while goes on with the time of the session.
ReplayPushAudio(t) ==
  /\ t <= replayNext /\ \A u \in replaySounds : u < t
  /\ replaySounds' = replaySounds \cup {t}
  /\ replayHeard' = Larger(replayHeard, t)
  /\ UNCHANGED <<replayWindow, replayNewest, replayKeys, replayNext, replayEdits>>
  /\ Evict(replayVideo, replayNewest, replayAudio \cup {t}, replayHeard')

\* Mutant: the new window takes effect with the next packet.
SetDurationLazily(window) ==
  /\ replayEdits < MaxReplayEdits /\ replayEdits' = replayEdits + 1
  /\ replayWindow' = window
  /\ UNCHANGED <<replayVideo, replayNewest, replayAudio, replayHeard, replayKeys, replayNext,
                 replaySounds, replayCut>>

ReplaySetDuration(window) ==
  /\ replayEdits < MaxReplayEdits /\ replayEdits' = replayEdits + 1
  /\ replayWindow' = window
  /\ UNCHANGED <<replayNewest, replayHeard, replayKeys, replayNext, replaySounds>>
  /\ Evict(replayVideo, replayNewest, replayAudio, replayHeard)

\* Mutant: the newest timestamps of the last session stay.
ClearPackets ==
  /\ replayEdits < MaxReplayEdits /\ replayEdits' = replayEdits + 1
  /\ replayVideo' = {} /\ replayAudio' = {}
  /\ replayKeys' = {} /\ replayNext' = 0 /\ replaySounds' = {} /\ replayCut' = Nothing
  /\ UNCHANGED <<replayWindow, replayNewest, replayHeard>>

\* clear, at the end of a session; the next one's timestamps start at zero.
ReplayClear ==
  /\ replayEdits < MaxReplayEdits /\ replayEdits' = replayEdits + 1
  /\ replayVideo' = {} /\ replayNewest' = -1
  /\ replayAudio' = {} /\ replayHeard' = -1
  /\ replayKeys' = {} /\ replayNext' = 0 /\ replaySounds' = {} /\ replayCut' = Nothing
  /\ UNCHANGED replayWindow

ReplayNext ==
  \/ \E key \in BOOLEAN : ReplayPushVideo(key)
  \/ \E t \in 0..MaxReplayTime : ReplayPushAudio(t)
  \/ \E w \in ReplayWindows : ReplaySetDuration(w)
  \/ ReplayClear

ReplaySpec == ReplayInit /\ [][ReplayNext]_replayVars
-----------------------------------------------------------------------------
(* snapshot and normalize: the clip a save would write now.                *)

\* The earliest of a set of times.
First(times) == CHOOSE t \in times : \A u \in times : t <= u

\* The video from the first key frame on; without one there is none.
ClipVideo ==
  LET keys == replayVideo \cap replayKeys
  IN {t \in replayVideo : keys # {} /\ t >= First(keys)}

\* Where the packet captured at time t of a track comes to lie in the clip.
ClipTime(t, track) == t - First(track)
-----------------------------------------------------------------------------
ReplayTypeOK ==
  /\ replayWindow \in ReplayWindows /\ replayNext \in Nat
  /\ replayVideo \subseteq Nat /\ replayKeys \subseteq Nat
  /\ replayAudio \subseteq Nat /\ replaySounds \subseteq Nat
  /\ replayNewest \in Nat \cup {-1} /\ replayHeard \in Nat \cup {-1}
  /\ replayCut \in [video : Nat, audio : Nat] /\ replayEdits \in 0..MaxReplayEdits

\* The clip is everything captured since the first key frame inside the window:
\* eviction packet by packet, windows changed in between and ended sessions
\* cost less than one group of pictures, and no sound at all.
ReplayCovers ==
  /\ replayAudio = {t \in replaySounds : t >= replayCut.audio}
  /\ \A t \in 0..(replayNext - 1) :
       (\E k \in replayKeys : replayCut.video <= k /\ k <= t) => t \in ClipVideo
  /\ replayCut.video + ReplayGop <= replayNext =>
       \E t \in ClipVideo : t < replayCut.video + ReplayGop

\* No packet is kept for longer than the window in force, so neither the memory
\* nor a clip grows past it, also right after the window was made smaller.
ReplayWithinWindow ==
  /\ \A t \in replayVideo : replayNewest - replayWindow <= t /\ t <= replayNewest
  /\ \A t \in replayAudio : replayHeard - replayWindow <= t /\ t <= replayHeard

\* The comment on normalize: "Relative A/V sync is preserved".
ReplayInSync ==
  \A t \in ClipVideo \cap replayAudio : ClipTime(t, ClipVideo) = ClipTime(t, replayAudio)
=============================================================================
