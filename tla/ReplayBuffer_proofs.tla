-------------------------- MODULE ReplayBuffer_proofs --------------------------
(***************************************************************************)
(* TLAPS proofs about ReplayBuffer, for every set of windows, every        *)
(* distance between key frames and sessions of any length:                 *)
(*   - StaysInWindow: no packet is kept for longer than the window;        *)
(*   - ClipCovers:    a clip holds all that was captured since the first   *)
(*                    key frame inside the window;                         *)
(*   - ReplayTypeCorrect: the ring's variables keep their types.           *)
(***************************************************************************)
EXTENDS ReplayBuffer, WellFoundedInduction, TLAPS

BufferTypes ==
  /\ replayWindow \in Nat /\ replayNext \in Nat
  /\ replayVideo \subseteq Nat /\ replayKeys \subseteq 0..(replayNext - 1)
  /\ replayAudio \subseteq Nat /\ replaySounds \subseteq Nat
  /\ replayNewest \in Nat \cup {-1} /\ replayHeard \in Nat \cup {-1}

-----------------------------------------------------------------------------
(* Cutoffs.                                                                *)

LEMMA CutoffTypes ==
  ASSUME NEW newest \in Nat \cup {-1}, NEW window \in Nat
  PROVE  /\ Cutoff(newest, window) \in Nat
         /\ newest - window <= Cutoff(newest, window)
         /\ Cutoff(newest, window) <= Larger(newest, 0)
BY DEF Cutoff, Larger

\* A track without packets has the cutoff of one whose newest is at zero.
LEMMA SameCutoff ==
  ASSUME NEW newest \in Nat \cup {-1}, NEW window \in Nat
  PROVE  Cutoff(Larger(newest, 0), window) = Cutoff(newest, window)
<1>1. CASE newest = -1
  BY <1>1 DEF Cutoff, Larger
<1>2. CASE newest \in Nat
  BY <1>2 DEF Larger
<1> QED BY <1>1, <1>2

WindowInv == BufferTypes /\ ReplayWithinWindow

LEMMA InitWindow == ReplayInit => WindowInv
BY ReplayAssumption DEF ReplayInit, WindowInv, BufferTypes, ReplayWithinWindow

\* Evicting a track leaves only what the window in force allows.
LEMMA KeptWithin ==
  ASSUME NEW track \in SUBSET Nat, NEW newest \in Nat \cup {-1}, NEW window \in Nat,
         \A t \in track : t <= newest
  PROVE  /\ Kept(track, Cutoff(newest, window)) \in SUBSET Nat
         /\ \A t \in Kept(track, Cutoff(newest, window)) : newest - window <= t /\ t <= newest
<1>1. Cutoff(newest, window) \in Nat /\ newest - window <= Cutoff(newest, window)
  BY CutoffTypes
<1> DEFINE cutoff == Cutoff(newest, window)
           oldest == newest - window
<1>2. oldest \in Int /\ cutoff \in Nat /\ oldest <= cutoff
  BY <1>1
<1> HIDE DEF cutoff, oldest
<1>3. \A t \in Kept(track, cutoff) : t \in track /\ t \in Nat /\ cutoff <= t
  BY <1>2 DEF Kept
<1>4. \A t \in Kept(track, cutoff) : oldest <= t
  BY <1>2, <1>3
<1> QED BY <1>3, <1>4 DEF cutoff, oldest

LEMMA NextWindow == WindowInv /\ [ReplayNext]_replayVars => WindowInv'
<1> SUFFICES ASSUME WindowInv, [ReplayNext]_replayVars PROVE WindowInv'
  OBVIOUS
<1> USE DEF WindowInv, BufferTypes, ReplayWithinWindow
<1>1. ASSUME NEW key \in BOOLEAN, ReplayPushVideo(key) PROVE WindowInv'
  <2>1. replayWindow' = replayWindow /\ replayHeard' = replayHeard /\ replayNext' = replayNext + 1
        /\ replaySounds' = replaySounds /\ replayNewest' = Larger(replayNewest, replayNext)
        /\ replayKeys' \subseteq replayKeys \cup {replayNext}
    BY <1>1 DEF ReplayPushVideo
  <2> DEFINE newest == Larger(replayNewest, replayNext)
             video == replayVideo \cup {replayNext}
  <2>2. newest \in Nat /\ video \in SUBSET Nat /\ \A t \in video : t <= newest
    BY DEF Larger
  <2>3. replayVideo' = Kept(video, Cutoff(newest, replayWindow))
        /\ replayAudio' = Kept(replayAudio, Cutoff(replayHeard, replayWindow))
    BY <1>1, <2>1 DEF ReplayPushVideo, Evict
  <2>4. replayKeys' \subseteq 0..(replayNext' - 1)
    BY <2>1
  <2> HIDE DEF newest, video
  <2>5. /\ replayVideo' \in SUBSET Nat
        /\ \A t \in replayVideo' : newest - replayWindow <= t /\ t <= newest
    BY <2>2, <2>3, KeptWithin
  <2>6. /\ replayAudio' \in SUBSET Nat
        /\ \A t \in replayAudio' : replayHeard - replayWindow <= t /\ t <= replayHeard
    BY <2>3, KeptWithin
  <2>7. replayNewest' = newest
    BY <2>1 DEF newest
  <2> QED BY <2>1, <2>2, <2>4, <2>5, <2>6, <2>7
<1>2. ASSUME NEW t \in 0..MaxReplayTime, ReplayPushAudio(t) PROVE WindowInv'
  <2>1. /\ replayWindow' = replayWindow /\ replayNewest' = replayNewest /\ replayNext' = replayNext
        /\ replayKeys' = replayKeys /\ replaySounds' = replaySounds \cup {t}
        /\ replayHeard' = Larger(replayHeard, t) /\ t \in Nat
    BY <1>2, ReplayAssumption DEF ReplayPushAudio
  <2> DEFINE heard == Larger(replayHeard, t)
             audio == replayAudio \cup {t}
  <2>2. heard \in Nat /\ audio \in SUBSET Nat /\ \A u \in audio : u <= heard
    BY <2>1 DEF Larger
  <2>3. replayAudio' = Kept(audio, Cutoff(heard, replayWindow))
        /\ replayVideo' = Kept(replayVideo, Cutoff(replayNewest, replayWindow))
    BY <1>2, <2>1 DEF ReplayPushAudio, Evict
  <2> HIDE DEF heard, audio
  <2>4. /\ replayAudio' \in SUBSET Nat
        /\ \A u \in replayAudio' : heard - replayWindow <= u /\ u <= heard
    BY <2>2, <2>3, KeptWithin
  <2>5. /\ replayVideo' \in SUBSET Nat
        /\ \A u \in replayVideo' : replayNewest - replayWindow <= u /\ u <= replayNewest
    BY <2>3, KeptWithin
  <2>6. replayHeard' = heard
    BY <2>1 DEF heard
  <2> QED BY <2>1, <2>2, <2>4, <2>5, <2>6
<1>3. ASSUME NEW w \in ReplayWindows, ReplaySetDuration(w) PROVE WindowInv'
  <2>1. /\ replayWindow' = w /\ w \in Nat /\ replayNewest' = replayNewest
        /\ replayNext' = replayNext /\ replayKeys' = replayKeys
        /\ replaySounds' = replaySounds /\ replayHeard' = replayHeard
        /\ replayVideo' = Kept(replayVideo, Cutoff(replayNewest, w))
        /\ replayAudio' = Kept(replayAudio, Cutoff(replayHeard, w))
    BY <1>3, ReplayAssumption DEF ReplaySetDuration, Evict
  <2>2. /\ replayVideo' \in SUBSET Nat
        /\ \A u \in replayVideo' : replayNewest - w <= u /\ u <= replayNewest
    BY <2>1, KeptWithin
  <2>3. /\ replayAudio' \in SUBSET Nat
        /\ \A u \in replayAudio' : replayHeard - w <= u /\ u <= replayHeard
    BY <2>1, KeptWithin
  <2> QED BY <2>1, <2>2, <2>3
<1>4. ASSUME ReplayClear PROVE WindowInv'
  BY <1>4 DEF ReplayClear
<1>5. ASSUME UNCHANGED replayVars PROVE WindowInv'
  BY <1>5 DEF replayVars
<1> QED BY <1>1, <1>2, <1>3, <1>4, <1>5 DEF ReplayNext

\* Pushes and changes of the window leave no packet older than the window in
\* force (evict after every push and in set_duration).
THEOREM StaysInWindow == ReplaySpec => []ReplayWithinWindow
<1>1. ReplaySpec => []WindowInv
  BY InitWindow, NextWindow, PTL DEF ReplaySpec
<1> QED BY <1>1, PTL DEF WindowInv

-----------------------------------------------------------------------------
(* What a clip covers.                                                     *)

LEMMA LeastNumber ==
  ASSUME NEW T \in SUBSET Nat, T # {}
  PROVE  \E m \in T : \A k \in T : m <= k
<1>1. PICK m \in T : \A k \in T : <<k, m>> \notin OpToRel(<, Nat)
  BY NatLessThanWellFounded, WFMin
<1>2. \A k \in T : k < m => <<k, m>> \in OpToRel(<, Nat)
  BY DEF OpToRel
<1>3. \A k \in T : ~(k < m)
  BY <1>1, <1>2
<1> QED BY <1>3

LEMMA FirstIsLeast ==
  ASSUME NEW T \in SUBSET Nat, T # {}
  PROVE  First(T) \in T /\ \A k \in T : First(T) <= k
BY LeastNumber DEF First

\* The kept video is what was captured since the highest cutoff so far, which
\* the newest packet is never behind.
VideoInv ==
  /\ replayCut.video \in Nat
  /\ replayVideo = {t \in 0..(replayNext - 1) : t >= replayCut.video}
  /\ replayNewest = replayNext - 1
  /\ replayCut.video <= Larger(replayNext - 1, 0)
  /\ \A t \in 0..(replayNext - 1) : \E k \in replayKeys : k <= t /\ t < k + ReplayGop

\* The kept audio likewise; heard is the newest packet there was.
AudioInv ==
  /\ replayCut.audio \in Nat
  /\ replayAudio = {t \in replaySounds : t >= replayCut.audio}
  /\ replaySounds = {} => replayHeard = -1
  /\ replaySounds # {} => replayHeard \in replaySounds /\ \A t \in replaySounds : t <= replayHeard
  /\ replayCut.audio <= Larger(replayHeard, 0)

CoverInv == WindowInv /\ VideoInv /\ AudioInv

LEMMA InitCover == ReplayInit => CoverInv
BY InitWindow DEF ReplayInit, CoverInv, VideoInv, AudioInv, Nothing, Larger

LEMMA LatestHeard ==
  ASSUME NEW sounds \in SUBSET Nat, NEW heard \in Nat \cup {-1},
         sounds = {} => heard = -1,
         sounds # {} => heard \in sounds /\ \A t \in sounds : t <= heard
  PROVE  Latest(sounds) = Larger(heard, 0)
<1>1. CASE sounds = {}
  <2>1. Latest(sounds) = 0
    BY <1>1 DEF Latest
  <2> QED BY <1>1, <2>1 DEF Larger
<1>2. CASE sounds # {}
  <2>1. heard \in sounds \cup {0} /\ heard \in Nat /\ \A t \in sounds : t <= heard
    BY <1>2
  <2>2. \A m \in sounds \cup {0} : (\A t \in sounds : t <= m) => m = heard
    BY <1>2, <2>1
  <2>3. Latest(sounds) = heard
    BY <2>1, <2>2 DEF Latest
  <2> QED BY <2>1, <2>3 DEF Larger
<1> QED BY <1>1, <1>2

\* Evicting by a cutoff keeps what is behind the higher of both cutoffs.
LEMMA KeptSince ==
  ASSUME NEW times \in SUBSET Nat, NEW cut \in Nat, NEW cutoff \in Nat
  PROVE  /\ Larger(cut, cutoff) \in Nat
         /\ Kept({t \in times : t >= cut}, cutoff) = {t \in times : t >= Larger(cut, cutoff)}
<1>1. \A t \in Nat : t >= Larger(cut, cutoff) <=> t >= cut /\ t >= cutoff
  BY DEF Larger
<1> QED BY <1>1 DEF Kept, Larger

LEMMA VideoStays ==
  ASSUME BufferTypes, VideoInv, replayWindow' \in Nat,
         UNCHANGED <<replayNewest, replayKeys, replayNext>>,
         replayVideo' = Kept(replayVideo, Cutoff(replayNewest, replayWindow')),
         replayCut'.video = Larger(replayCut.video, Cutoff(replayNext - 1, replayWindow'))
  PROVE  VideoInv'
<1> DEFINE cut == replayCut.video
           cutoff == Cutoff(replayNext - 1, replayWindow')
           times == 0..(replayNext - 1)
<1>1. cut \in Nat /\ cutoff \in Nat /\ cutoff <= Larger(replayNext - 1, 0)
      /\ replayNext - 1 \in Nat \cup {-1} /\ replayNewest = replayNext - 1
  BY CutoffTypes DEF VideoInv, BufferTypes
<1>2. /\ Larger(cut, cutoff) \in Nat
      /\ Kept({t \in times : t >= cut}, cutoff) = {t \in times : t >= Larger(cut, cutoff)}
  <2>1. times \in SUBSET Nat
    BY DEF BufferTypes
  <2> HIDE DEF cut, cutoff, times
  <2> QED BY <1>1, <2>1, KeptSince
<1>3. Larger(cut, cutoff) <= Larger(replayNext - 1, 0)
  BY <1>1 DEF VideoInv, Larger
<1> QED BY <1>1, <1>2, <1>3 DEF VideoInv

LEMMA AudioStays ==
  ASSUME BufferTypes, AudioInv, replayWindow' \in Nat,
         UNCHANGED <<replayHeard, replaySounds>>,
         replayAudio' = Kept(replayAudio, Cutoff(replayHeard, replayWindow')),
         replayCut'.audio = Larger(replayCut.audio, Cutoff(Latest(replaySounds), replayWindow'))
  PROVE  AudioInv'
<1> DEFINE cut == replayCut.audio
           cutoff == Cutoff(replayHeard, replayWindow')
<1>1. cut \in Nat /\ cutoff \in Nat /\ cutoff <= Larger(replayHeard, 0)
  BY CutoffTypes DEF AudioInv, BufferTypes
<1>2. Cutoff(Latest(replaySounds), replayWindow') = cutoff
  <2>1. Latest(replaySounds) = Larger(replayHeard, 0)
    BY LatestHeard DEF AudioInv, BufferTypes
  <2>2. replayHeard \in Nat \cup {-1}
    BY DEF BufferTypes
  <2> QED BY <2>1, <2>2, SameCutoff
<1>3. /\ Larger(cut, cutoff) \in Nat
      /\ Kept({t \in replaySounds : t >= cut}, cutoff)
           = {t \in replaySounds : t >= Larger(cut, cutoff)}
  <2>1. replaySounds \in SUBSET Nat
    BY DEF BufferTypes
  <2> HIDE DEF cut, cutoff
  <2> QED BY <1>1, <2>1, KeptSince
<1>4. Larger(cut, cutoff) <= Larger(replayHeard, 0)
  BY <1>1 DEF AudioInv, Larger
<1> QED BY <1>1, <1>2, <1>3, <1>4 DEF AudioInv

LEMMA VideoGrows ==
  ASSUME BufferTypes, VideoInv, NEW key \in BOOLEAN, ReplayPushVideo(key)
  PROVE  VideoInv'
<1> DEFINE cut == replayCut.video
           cutoff == Cutoff(replayNext, replayWindow)
           times == 0..replayNext
<1>1. /\ replayNext' = replayNext + 1 /\ replayWindow' = replayWindow
      /\ replayNewest' = Larger(replayNewest, replayNext)
      /\ replayNext \in Nat /\ replayWindow \in Nat /\ replayNewest = replayNext - 1
  BY DEF ReplayPushVideo, BufferTypes, VideoInv
<1>2. replayNewest' = replayNext /\ replayNext' - 1 = replayNext
  BY <1>1 DEF Larger
<1>3. cut \in Nat /\ cutoff \in Nat /\ cutoff <= replayNext /\ cut <= replayNext
  <2>1. cutoff \in Nat /\ cutoff <= Larger(replayNext, 0)
    BY <1>1, CutoffTypes
  <2>2. Larger(replayNext, 0) = replayNext /\ Larger(replayNext - 1, 0) <= replayNext
        /\ Larger(replayNext - 1, 0) \in Nat
    BY <1>1 DEF Larger
  <2>3. cut \in Nat /\ cut <= Larger(replayNext - 1, 0)
    BY DEF VideoInv
  <2> HIDE DEF cut, cutoff
  <2> QED BY <1>1, <2>1, <2>2, <2>3
<1>4. replayVideo \cup {replayNext} = {t \in times : t >= cut}
  BY <1>1, <1>3 DEF VideoInv
<1>5. replayVideo' = Kept({t \in times : t >= cut}, cutoff)
      /\ replayCut'.video = Larger(cut, cutoff)
  <2>1. Evict(replayVideo \cup {replayNext}, replayNewest', replayAudio, replayHeard)
    BY DEF ReplayPushVideo
  <2> QED BY <1>1, <1>2, <1>4, <2>1 DEF Evict
<1>6. Larger(cut, cutoff) \in Nat
      /\ replayVideo' = {t \in times : t >= Larger(cut, cutoff)}
  <2>1. times \in SUBSET Nat
    BY <1>1
  <2> HIDE DEF cut, cutoff, times
  <2> QED BY <1>3, <1>5, <2>1, KeptSince
<1>7. Larger(cut, cutoff) <= Larger(replayNext, 0)
  BY <1>1, <1>3 DEF Larger
<1>8. \A t \in times : \E k \in replayKeys' : k <= t /\ t < k + ReplayGop
  <2>1. /\ key \/ \E k \in replayKeys : replayNext - k < ReplayGop
        /\ replayKeys' = IF key THEN replayKeys \cup {replayNext} ELSE replayKeys
    BY DEF ReplayPushVideo
  <2>2. CASE key
    BY <1>1, <2>1, <2>2, ReplayAssumption DEF VideoInv
  <2>3. CASE ~key
    <3>1. PICK k \in replayKeys : replayNext - k < ReplayGop
      BY <2>1, <2>3
    <3>2. k \in Int /\ k <= replayNext /\ replayNext < k + ReplayGop
      BY <1>1, <3>1, ReplayAssumption DEF BufferTypes
    <3> QED BY <1>1, <2>1, <2>3, <3>2 DEF VideoInv
  <2> QED BY <2>2, <2>3
<1> QED BY <1>2, <1>5, <1>6, <1>7, <1>8 DEF VideoInv

LEMMA AudioGrows ==
  ASSUME BufferTypes, AudioInv, NEW t \in Nat, ReplayPushAudio(t)
  PROVE  AudioInv'
<1> DEFINE cut == replayCut.audio
           cutoff == Cutoff(t, replayWindow)
           times == replaySounds \cup {t}
<1>1. /\ replaySounds' = times /\ replayWindow' = replayWindow /\ replayWindow \in Nat
      /\ replayHeard' = Larger(replayHeard, t) /\ \A u \in replaySounds : u < t
      /\ replaySounds \subseteq Nat /\ replayHeard \in Nat \cup {-1}
  BY DEF ReplayPushAudio, BufferTypes
<1>2. replayHeard < t /\ replayHeard' = t
  BY <1>1 DEF AudioInv, Larger
<1>3. cut \in Nat /\ cutoff \in Nat /\ cutoff <= t /\ cut <= t
  <2>1. cutoff \in Nat /\ cutoff <= Larger(t, 0)
    BY <1>1, CutoffTypes
  <2>2. Larger(t, 0) = t /\ Larger(replayHeard, 0) <= t /\ Larger(replayHeard, 0) \in Nat
    BY <1>1, <1>2 DEF Larger
  <2>3. cut \in Nat /\ cut <= Larger(replayHeard, 0)
    BY DEF AudioInv
  <2> HIDE DEF cut, cutoff
  <2> QED BY <2>1, <2>2, <2>3
<1>4. replayAudio \cup {t} = {u \in times : u >= cut}
  BY <1>1, <1>3 DEF AudioInv
<1>5. times \in SUBSET Nat /\ \A u \in times : u <= t
  BY <1>1
<1>6. Cutoff(Latest(times), replayWindow) = cutoff
  <2>1. Latest(times) = Larger(t, 0)
    BY <1>5, LatestHeard
  <2> QED BY <1>1, <2>1 DEF Cutoff, Larger
<1>7. replayAudio' = Kept({u \in times : u >= cut}, cutoff)
      /\ replayCut'.audio = Larger(cut, cutoff)
  <2>1. Evict(replayVideo, replayNewest, replayAudio \cup {t}, replayHeard')
    BY DEF ReplayPushAudio
  <2> QED BY <1>1, <1>2, <1>4, <1>6, <2>1 DEF Evict
<1>8. Larger(cut, cutoff) \in Nat /\ replayAudio' = {u \in times : u >= Larger(cut, cutoff)}
  BY <1>3, <1>5, <1>7, KeptSince
<1>9. Larger(cut, cutoff) <= Larger(t, 0)
  BY <1>3 DEF Larger
<1> HIDE DEF cut, cutoff
<1> QED BY <1>1, <1>2, <1>5, <1>7, <1>8, <1>9 DEF AudioInv

LEMMA NextCover == CoverInv /\ [ReplayNext]_replayVars => CoverInv'
<1> SUFFICES ASSUME CoverInv, [ReplayNext]_replayVars PROVE CoverInv'
  OBVIOUS
<1>1. WindowInv' /\ BufferTypes /\ VideoInv /\ AudioInv
  BY NextWindow DEF CoverInv, WindowInv
<1>2. ASSUME NEW key \in BOOLEAN, ReplayPushVideo(key) PROVE CoverInv'
  <2>1. VideoInv'
    BY <1>1, <1>2, VideoGrows
  <2>2. /\ replayWindow' \in Nat /\ UNCHANGED <<replayHeard, replaySounds>>
        /\ replayAudio' = Kept(replayAudio, Cutoff(replayHeard, replayWindow'))
        /\ replayCut'.audio = Larger(replayCut.audio, Cutoff(Latest(replaySounds), replayWindow'))
    BY <1>1, <1>2 DEF ReplayPushVideo, Evict, BufferTypes
  <2>3. AudioInv'
    BY <1>1, <2>2, AudioStays
  <2> QED BY <1>1, <2>1, <2>3 DEF CoverInv
<1>3. ASSUME NEW t \in 0..MaxReplayTime, ReplayPushAudio(t) PROVE CoverInv'
  <2>1. AudioInv'
    BY <1>1, <1>3, AudioGrows, ReplayAssumption
  <2>2. /\ replayWindow' \in Nat /\ UNCHANGED <<replayNewest, replayKeys, replayNext>>
        /\ replayVideo' = Kept(replayVideo, Cutoff(replayNewest, replayWindow'))
        /\ replayCut'.video = Larger(replayCut.video, Cutoff(replayNext - 1, replayWindow'))
    BY <1>1, <1>3 DEF ReplayPushAudio, Evict, BufferTypes
  <2>3. VideoInv'
    BY <1>1, <2>2, VideoStays
  <2> QED BY <1>1, <2>1, <2>3 DEF CoverInv
<1>4. ASSUME NEW w \in ReplayWindows, ReplaySetDuration(w) PROVE CoverInv'
  <2>1. /\ replayWindow' \in Nat /\ UNCHANGED <<replayHeard, replaySounds>>
        /\ UNCHANGED <<replayNewest, replayKeys, replayNext>>
        /\ replayAudio' = Kept(replayAudio, Cutoff(replayHeard, replayWindow'))
        /\ replayCut'.audio = Larger(replayCut.audio, Cutoff(Latest(replaySounds), replayWindow'))
        /\ replayVideo' = Kept(replayVideo, Cutoff(replayNewest, replayWindow'))
        /\ replayCut'.video = Larger(replayCut.video, Cutoff(replayNext - 1, replayWindow'))
    BY <1>4, ReplayAssumption DEF ReplaySetDuration, Evict
  <2> QED BY <1>1, <2>1, AudioStays, VideoStays DEF CoverInv
<1>5. ASSUME ReplayClear PROVE CoverInv'
  <2>1. VideoInv'
    BY <1>5 DEF ReplayClear, VideoInv, Nothing, Larger
  <2>2. AudioInv'
    BY <1>5 DEF ReplayClear, AudioInv, Nothing, Larger
  <2> QED BY <1>1, <2>1, <2>2 DEF CoverInv
<1>6. ASSUME UNCHANGED replayVars PROVE CoverInv'
  BY <1>1, <1>6 DEF replayVars, CoverInv, VideoInv, AudioInv
<1> QED BY <1>2, <1>3, <1>4, <1>5, <1>6 DEF ReplayNext

\* From a key frame that is kept on, all the video is in the clip.
LEMMA ClipFromKey ==
  ASSUME CoverInv, NEW k \in replayKeys, replayCut.video <= k, NEW t \in 0..(replayNext - 1), k <= t
  PROVE  t \in ClipVideo
<1> DEFINE keys == replayVideo \cap replayKeys
<1>1. k \in keys /\ keys \in SUBSET Nat /\ k \in Nat /\ t \in Nat /\ replayCut.video \in Nat
  BY DEF CoverInv, WindowInv, BufferTypes, VideoInv
<1>2. First(keys) \in Nat /\ First(keys) <= k
  BY <1>1, FirstIsLeast
<1>3. t \in replayVideo
  BY <1>1 DEF CoverInv, VideoInv
<1> QED BY <1>1, <1>2, <1>3 DEF ClipVideo

LEMMA CoverCovers == CoverInv => ReplayCovers
<1> SUFFICES ASSUME CoverInv PROVE ReplayCovers
  OBVIOUS
<1>1. \A t \in 0..(replayNext - 1) :
        (\E k \in replayKeys : replayCut.video <= k /\ k <= t) => t \in ClipVideo
  BY ClipFromKey
<1>2. ASSUME replayCut.video + ReplayGop <= replayNext
      PROVE  \E t \in ClipVideo : t < replayCut.video + ReplayGop
  <2> DEFINE u == replayCut.video + ReplayGop - 1
  <2>1. u \in 0..(replayNext - 1) /\ replayCut.video \in Nat /\ ReplayGop \in Nat
    BY <1>2, ReplayAssumption DEF CoverInv, WindowInv, BufferTypes, VideoInv
  <2>2. PICK k \in replayKeys : k <= u /\ u < k + ReplayGop
    BY <2>1 DEF CoverInv, VideoInv
  <2>3. k \in 0..(replayNext - 1)
    BY DEF CoverInv, WindowInv, BufferTypes
  <2>4. replayCut.video <= k /\ k < replayCut.video + ReplayGop /\ k <= k
    BY <2>1, <2>2, <2>3
  <2> QED BY <2>3, <2>4, ClipFromKey
<1>3. replayAudio = {t \in replaySounds : t >= replayCut.audio}
  BY DEF CoverInv, AudioInv
<1> QED BY <1>1, <1>2, <1>3 DEF ReplayCovers

\* A clip is everything captured since the first key frame inside the window,
\* less than one group of pictures after its beginning, and all the sound of
\* the window, however packets, changes of the window and ends of sessions
\* alternate (evict, clear, normalize).
THEOREM ClipCovers == ReplaySpec => []ReplayCovers
<1>1. ReplaySpec => []CoverInv
  BY InitCover, NextCover, PTL DEF ReplaySpec
<1> QED BY <1>1, CoverCovers, PTL

-----------------------------------------------------------------------------
(* Types.                                                                  *)

ReplayRest ==
  /\ replayWindow \in ReplayWindows /\ replayEdits \in 0..MaxReplayEdits
  /\ replayCut = [video |-> replayCut.video, audio |-> replayCut.audio]

LEMMA NextRest == ReplayRest /\ [ReplayNext]_replayVars => ReplayRest'
<1> SUFFICES ASSUME ReplayRest, [ReplayNext]_replayVars PROVE ReplayRest'
  OBVIOUS
<1>1. replayWindow' \in ReplayWindows /\ replayEdits' \in 0..MaxReplayEdits
  <2>1. /\ replayWindow' = replayWindow \/ replayWindow' \in ReplayWindows
        /\ \/ replayEdits' = replayEdits
           \/ replayEdits < MaxReplayEdits /\ replayEdits' = replayEdits + 1
    BY DEF ReplayNext, ReplayPushVideo, ReplayPushAudio, ReplaySetDuration, ReplayClear, replayVars
  <2> QED BY <2>1, ReplayAssumption DEF ReplayRest
<1>2. replayCut' = [video |-> replayCut'.video, audio |-> replayCut'.audio]
  BY DEF ReplayRest, ReplayNext, ReplayPushVideo, ReplayPushAudio, ReplaySetDuration,
         ReplayClear, Evict, Nothing, replayVars
<1> QED BY <1>1, <1>2 DEF ReplayRest

\* The ring's variables keep their types, whatever is pushed and whenever the
\* window changes or a session ends (ReplayBuffer of replay.rs).
THEOREM ReplayTypeCorrect == ReplaySpec => []ReplayTypeOK
<1>1. ReplayInit => ReplayRest
  BY ReplayAssumption DEF ReplayInit, ReplayRest, Nothing
<1>2. CoverInv /\ ReplayRest => ReplayTypeOK
  <2> SUFFICES ASSUME CoverInv, ReplayRest PROVE ReplayTypeOK
    OBVIOUS
  <2>1. replayKeys \subseteq Nat
    BY DEF CoverInv, WindowInv, BufferTypes
  <2>2. replayCut \in [video : Nat, audio : Nat]
    BY DEF CoverInv, VideoInv, AudioInv, ReplayRest
  <2> QED BY <2>1, <2>2 DEF CoverInv, WindowInv, BufferTypes, ReplayRest, ReplayTypeOK
<1> QED BY <1>1, <1>2, InitCover, NextCover, NextRest, PTL DEF ReplaySpec
=============================================================================
