--------------------------- MODULE Components_proofs ---------------------------
(***************************************************************************)
(* TLAPS proofs about the components that MCComponents runs and that have  *)
(* no proof module of their own, and about all of them side by side, for   *)
(* every value of their constants:                                         *)
(*   - OnlyVerifiedInstalled (Updater): only a complete and verified file  *)
(*                        of a newer release is installed;                 *)
(*   - FrameIsWhole (SharedFrame): an accepted frame has one geometry;     *)
(*   - CrashIsOffered (CrashRecords): a crash is offered until it was      *)
(*                        dealt with;                                      *)
(*   - BurstHasOneNotice (AlertFeed): a burst of alerts has one line;      *)
(*   - BurstBounded (ChatSend): the bound on what the limiter lets through *)
(*                        from any moment on, for any number of handles;   *)
(*   - StaysCalm (AdaptiveBitrate): changes are a cooldown apart in real   *)
(*                        time and small;                                  *)
(*   - ComponentsTypeCorrect, ComponentsStaySafe (MCComponents): all       *)
(*                        variables have their types and all the promises  *)
(*                        hold when the components are put side by side.   *)
(***************************************************************************)
EXTENDS MCComponents, ObsServer_proofs, ReplayBuffer_proofs, SceneTree_proofs,
        FiniteSetTheorems, SequenceTheorems, TLAPS

-----------------------------------------------------------------------------
(* The updater.                                                            *)

Verified(r) == r > 0 /\ updaterFile = [release |-> r, state |-> "good"]

\* The task of a thread and what the view shows while it runs.
Fits(thread) ==
  \/ thread.task = "check" /\ updaterUi.state = "checking"
  \/ /\ thread.task \in {"download", "fill", "verify"}
     /\ updaterUi.state = "downloading" /\ thread.release > 0
  \/ /\ thread.task \in {"install", "child"}
     /\ updaterUi.state = "installing" /\ Verified(thread.release)

ThreadsShape ==
  updaterThread = [t \in UpdaterThreads |->
    [task |-> updaterThread[t].task, release |-> updaterThread[t].release]]
DogShape == updaterDog = [phase |-> updaterDog.phase, release |-> updaterDog.release]

\* One thread at most runs, while the window is there, and it is the one the
\* view shows; and nothing is written once the watchdog has the file.
InstallInv ==
  /\ updaterLatest \in Nat
  /\ ThreadsShape /\ DogShape
  /\ \A t \in UpdaterThreads : updaterThread[t].task # "none" =>
       /\ updaterGui /\ Fits(updaterThread[t])
       /\ \A u \in UpdaterThreads : u # t => updaterThread[u].task = "none"
  /\ updaterUi.state = "available" => updaterUi.release > 0
  /\ updaterUi.state = "downloaded" => Verified(updaterUi.release)
  /\ updaterDog.phase # "none" =>
       Verified(updaterDog.release) /\ (~updaterGui \/ updaterUi.state = "installed")

LEMMA InitInstall == UpdaterInit => InstallInv
BY DEF UpdaterInit, InstallInv, ThreadsShape, DogShape, NoThread, NoDog, Ui

\* A free frame starts a thread when none runs.
LEMMA SpawnInstall ==
  ASSUME InstallInv, ~UpdaterBusy, updaterGui, updaterUi.state # "installed",
         NEW state, NEW task, NEW release, Spawn(state, task, release),
         \/ state = "checking" /\ task = "check"
         \/ state = "downloading" /\ task = "download" /\ release > 0
         \/ state = "installing" /\ task = "install" /\ Verified(release),
         UNCHANGED <<updaterGui, updaterFile, updaterDog, updaterLatest>>
  PROVE  InstallInv'
<1>1. \A t \in UpdaterThreads : updaterThread[t].task = "none"
  BY DEF InstallInv, Fits, UpdaterBusy
<1>2. PICK t \in UpdaterThreads :
        updaterThread' = [updaterThread EXCEPT ![t] = [task |-> task, release |-> release]]
  BY DEF Spawn
<1>3. /\ updaterThread'[t].task = task /\ updaterThread'[t].release = release
      /\ \A u \in UpdaterThreads : u # t => updaterThread'[u] = updaterThread[u]
      /\ ThreadsShape'
  BY <1>2 DEF InstallInv, ThreadsShape
<1>4. updaterUi'.state = state /\ updaterUi'.release = release
  BY DEF Spawn, Ui
<1>5. updaterDog.phase = "none"
  BY DEF InstallInv
<1>6. Fits(updaterThread[t])'
  BY <1>3, <1>4 DEF Fits, Verified
<1> QED BY <1>1, <1>3, <1>4, <1>5, <1>6 DEF InstallInv, DogShape

\* A thread t goes on to another task or ends with another state.
LEMMA ThreadInstall ==
  ASSUME InstallInv, NEW t \in UpdaterThreads, updaterThread[t].task # "none",
         UNCHANGED <<updaterGui, updaterLatest>>,
         \A u \in UpdaterThreads : u # t => updaterThread'[u] = updaterThread[u],
         ThreadsShape', DogShape',
         updaterThread'[t].task = "none" \/ Fits(updaterThread[t])',
         updaterUi'.state = "available" => updaterUi'.release > 0,
         updaterUi'.state = "downloaded" => Verified(updaterUi.release)',
         updaterDog'.phase # "none" =>
           Verified(updaterDog.release)' /\ updaterUi'.state = "installed"
  PROVE  InstallInv'
BY DEF InstallInv

LEMMA NextInstall == InstallInv /\ [UpdaterNext]_updaterVars => InstallInv'
<1> SUFFICES ASSUME InstallInv, [UpdaterNext]_updaterVars PROVE InstallInv'
  OBVIOUS
<1>1. ASSUME UNCHANGED <<updaterUi, updaterThread, updaterGui, updaterFile, updaterDog, updaterLatest>>
      PROVE  InstallInv'
  BY <1>1 DEF InstallInv, Fits, Verified, ThreadsShape, DogShape
<1>2. ASSUME UpdaterPublish PROVE InstallInv'
  BY <1>2 DEF UpdaterPublish, updaterGuiVars, InstallInv, Fits, Verified, ThreadsShape, DogShape
<1>3. ASSUME UpdaterView PROVE InstallInv'
  BY <1>1, <1>3 DEF UpdaterView
<1>4. ASSUME UpdaterQuit PROVE InstallInv'
  BY <1>4 DEF UpdaterQuit, InstallInv, Verified, NoThread, ThreadsShape, DogShape
<1>5. ASSUME NEW pressed, UpdaterFrame(pressed) PROVE InstallInv'
  <2>1. /\ updaterGui /\ updaterUi.state # "installed"
        /\ UNCHANGED <<updaterGui, updaterFile, updaterDog, updaterLatest>>
        /\ HandleUpdateActions(updaterClicks \cup pressed)
    BY <1>5 DEF UpdaterFrame
  <2>2. \/ UNCHANGED <<updaterUi, updaterThread>>
        \/ /\ ~UpdaterBusy
           /\ \/ Spawn("checking", "check", 0)
              \/ /\ updaterUi.state = "available"
                 /\ Spawn("downloading", "download", updaterUi.release)
              \/ /\ updaterUi.state = "downloaded"
                 /\ Spawn("installing", "install", updaterUi.release)
    BY <2>1 DEF HandleUpdateActions
  <2>3. CASE ~UpdaterBusy /\ Spawn("checking", "check", 0)
    BY <2>1, <2>3, SpawnInstall
  <2>4. CASE ~UpdaterBusy /\ updaterUi.state = "available"
             /\ Spawn("downloading", "download", updaterUi.release)
    BY <2>1, <2>4, SpawnInstall DEF InstallInv
  <2>5. CASE ~UpdaterBusy /\ updaterUi.state = "downloaded"
             /\ Spawn("installing", "install", updaterUi.release)
    BY <2>1, <2>5, SpawnInstall DEF InstallInv
  <2> QED BY <1>1, <2>1, <2>2, <2>3, <2>4, <2>5
<1>6. ASSUME NEW t \in UpdaterThreads, UpdaterThreadStep(t) PROVE InstallInv'
  <2> DEFINE r == updaterThread[t].release
  <2>1. UNCHANGED <<updaterGui, updaterLatest>> /\ updaterThread[t].task # "none"
    BY <1>6 DEF UpdaterThreadStep, UpdaterChecked, UpdaterDownload, UpdaterFill,
                UpdaterVerify, UpdaterInstall, UpdaterChild, Running
  <2>2. updaterGui /\ Fits(updaterThread[t])
    BY <2>1 DEF InstallInv
  <2>3. ASSUME NEW task, Becomes(t, task)
        PROVE  /\ updaterThread'[t].task = task /\ updaterThread'[t].release = r
               /\ \A u \in UpdaterThreads : u # t => updaterThread'[u] = updaterThread[u]
               /\ ThreadsShape'
               /\ updaterUi' = updaterUi
    BY <2>3 DEF Becomes, InstallInv, ThreadsShape
  <2>4. ASSUME NEW state, NEW release, Ends(t, state, release)
        PROVE  /\ updaterThread'[t].task = "none"
               /\ \A u \in UpdaterThreads : u # t => updaterThread'[u] = updaterThread[u]
               /\ ThreadsShape'
               /\ updaterUi'.state = state /\ updaterUi'.release = release
    BY <2>4 DEF Ends, InstallInv, ThreadsShape, NoThread, Ui
  <2>5. /\ updaterDog.phase = "none"
        /\ UNCHANGED updaterDog => DogShape'
    BY <2>2 DEF InstallInv, Fits, DogShape
  <2>6. CASE UpdaterChecked(t)
    BY <2>1, <2>4, <2>5, <2>6, ThreadInstall DEF UpdaterChecked, Running, InstallInv
  <2>7. CASE UpdaterDownload(t)
    <3>1. updaterUi.state = "downloading" /\ r > 0
      BY <2>2, <2>7 DEF Fits, UpdaterDownload, Running
    <3> QED BY <2>1, <2>3, <2>4, <2>5, <2>7, <3>1, ThreadInstall DEF UpdaterDownload, Fits
  <2>8. CASE UpdaterFill(t)
    <3>1. updaterUi.state = "downloading" /\ r > 0
      BY <2>2, <2>8 DEF Fits, UpdaterFill, Running
    <3> QED BY <2>1, <2>3, <2>4, <2>5, <2>8, <3>1, ThreadInstall DEF UpdaterFill, Fits
  <2>9. CASE UpdaterVerify(t)
    <3>1. r > 0
      BY <2>2, <2>9 DEF Fits, UpdaterVerify, Running
    <3> QED BY <2>1, <2>4, <2>5, <2>9, <3>1, ThreadInstall DEF UpdaterVerify, Verified
  <2>10. CASE UpdaterInstall(t)
    <3>1. updaterUi.state = "installing" /\ Verified(r)
      BY <2>2, <2>10 DEF Fits, UpdaterInstall, Running
    <3>2. CASE Becomes(t, "child") /\ UNCHANGED <<updaterFile, updaterDog>>
      BY <2>1, <2>3, <2>5, <3>1, <3>2, ThreadInstall DEF Fits, Verified
    <3>3. CASE Ends(t, "error", 0) /\ UNCHANGED <<updaterFile, updaterDog>>
      BY <2>1, <2>4, <2>5, <3>3, ThreadInstall
    <3>4. CASE Ends(t, "installed", r) /\ UNCHANGED updaterFile
               /\ \E p \in {"wait", "msi"} : updaterDog' = [phase |-> p, release |-> r]
      <4>1. updaterDog'.release = r /\ DogShape'
        BY <3>4 DEF DogShape
      <4>2. Verified(updaterDog.release)'
        BY <3>1, <3>4, <4>1 DEF Verified
      <4> QED BY <2>1, <2>4, <3>4, <4>1, <4>2, ThreadInstall
    <3>5. CASE Ends(t, "installed", r) /\ UNCHANGED updaterDog
      BY <2>1, <2>4, <2>5, <3>5, ThreadInstall
    <3> QED BY <2>10, <3>2, <3>3, <3>4, <3>5 DEF UpdaterInstall
  <2>11. CASE UpdaterChild(t)
    BY <2>1, <2>4, <2>5, <2>11, ThreadInstall DEF UpdaterChild
  <2> QED BY <1>6, <2>6, <2>7, <2>8, <2>9, <2>10, <2>11 DEF UpdaterThreadStep
<1>7. ASSUME UpdaterDogWaits \/ UpdaterDogRuns PROVE InstallInv'
  <2>1. /\ UNCHANGED <<updaterUi, updaterThread, updaterGui, updaterFile, updaterLatest>>
        /\ updaterDog.phase # "none"
        /\ \/ updaterDog'.phase = "none"
           \/ updaterDog'.release = updaterDog.release
        /\ DogShape'
    BY <1>7 DEF UpdaterDogWaits, UpdaterDogRuns, Dog, NoDog, updaterGuiVars, InstallInv,
                DogShape
  <2> QED BY <2>1 DEF InstallInv, Fits, Verified, ThreadsShape
<1>8. CASE UNCHANGED updaterVars
  BY <1>1, <1>8 DEF updaterVars, updaterGuiVars
<1> QED
  BY <1>2, <1>3, <1>4, <1>5, <1>6, <1>7, <1>8 DEF UpdaterNext, UpdaterClose

\* From the click to the end of the installation the file is the complete and
\* verified one of the release shown, for any releases and any clicks.
THEOREM OnlyVerifiedInstalled == UpdaterSpec => []InstallsVerified
<1>1. InstallInv => InstallsVerified
  BY DEF InstallInv, InstallsVerified, Installing, Fits, Verified
<1> QED BY <1>1, InitInstall, NextInstall, PTL DEF UpdaterSpec
-----------------------------------------------------------------------------
(* The shared frame.                                                       *)

\* Sizes are natural numbers; a word that is still to be written holds the
\* frame before, and the reader has no word older than the oldest it may see.
FrameInv ==
  /\ sharedFrames \in Nat /\ sharedFrames <= MaxSharedFrames
  /\ sharedOldest \in Nat /\ sharedOldest <= sharedFrames
  /\ sharedToWrite # {} => sharedFrames > 0
  /\ sharedSizes \in [0..MaxSharedFrames -> [width : Nat, height : Nat]]
  /\ sharedMemory \in [SharedWords -> Int]
  /\ \A w \in SharedWords :
       sharedMemory[w] = IF w \in sharedToWrite THEN sharedFrames - 1 ELSE sharedFrames
  /\ sharedCopy \in [SharedWords -> Int]
  /\ sharedPhase \in {"header", "pixels"} =>
       /\ \A w \in SharedWords : sharedCopy[w] # -1 => sharedCopy[w] \in sharedOldest..sharedFrames
       /\ sharedToWrite = {} \/ sharedOldest < sharedFrames
  /\ sharedPhase = "pixels" =>
       /\ \A w \in SharedWords : sharedCopy[w] # -1
       /\ SharedWidth # 0 /\ SharedHeight # 0
       /\ SharedWidth * SharedHeight = SharedPixels
       /\ sharedLength = SharedPixels /\ sharedLength <= SharedSize

\* A product says what one factor is when the other is known.
LEMMA Cancel ==
  ASSUME NEW x \in Nat, x # 0, NEW y \in Nat, NEW z \in Nat, x * y = x * z PROVE y = z
OBVIOUS
LEMMA InitFrame == SharedInit => FrameInv
BY SharedAssumption DEF SharedInit, FrameInv, NoGeometry

LEMMA NextFrame == FrameInv /\ [SharedNext]_sharedVars => FrameInv'
<1> SUFFICES ASSUME FrameInv, [SharedNext]_sharedVars PROVE FrameInv'
  OBVIOUS
<1> USE DEF sharedReader, sharedWriter
<1>1. ASSUME NEW g \in SharedGeometries, SharedBegin(g) PROVE FrameInv'
  <2>1. g \in [width : Nat, height : Nat]
    BY SharedAssumption
  <2>2. /\ sharedFrames' = sharedFrames + 1 /\ sharedFrames' \in Nat
        /\ sharedFrames' <= MaxSharedFrames
        /\ sharedToWrite' = SharedWords /\ sharedMemory' = sharedMemory
        /\ UNCHANGED <<sharedCopy, sharedPhase, sharedLength, sharedOldest>>
    BY <1>1, SharedAssumption DEF SharedBegin, FrameInv
  <2>3. sharedSizes' \in [0..MaxSharedFrames -> [width : Nat, height : Nat]]
    BY <1>1, <2>1 DEF SharedBegin, FrameInv
  <2>4. \A f \in 0..sharedFrames : sharedSizes'[f] = sharedSizes[f]
    BY <1>1, SharedAssumption DEF SharedBegin, FrameInv
  <2>5. sharedPhase = "pixels" => \A w \in SharedWords : sharedCopy[w] \in 0..sharedFrames
    BY DEF FrameInv
  <2>6. sharedPhase = "pixels" =>
          SharedWidth' = SharedWidth /\ SharedHeight' = SharedHeight /\ SharedPixels' = SharedPixels
    BY <2>2, <2>4, <2>5 DEF SharedWidth, SharedHeight, SharedPixels, SharedWords
  <2>7. \A w \in SharedWords : sharedMemory'[w] = sharedFrames' - 1
    BY <1>1, <2>2 DEF SharedBegin, FrameInv
  <2>8. sharedOldest' <= sharedFrames' /\ sharedOldest' < sharedFrames'
    BY <2>2 DEF FrameInv
  <2>9. \A w \in SharedWords : sharedCopy[w] \in sharedOldest..sharedFrames
                                 => sharedCopy'[w] \in sharedOldest'..sharedFrames'
    BY <2>2 DEF FrameInv
  <2> QED BY <2>2, <2>3, <2>6, <2>7, <2>8, <2>9 DEF FrameInv
<1>2. ASSUME NEW w \in SharedWords, SharedWrite(w) PROVE FrameInv'
  <2>1. /\ sharedMemory' = [sharedMemory EXCEPT ![w] = sharedFrames]
        /\ sharedToWrite' = sharedToWrite \ {w} /\ w \in sharedToWrite
        /\ UNCHANGED <<sharedFrames, sharedSizes, sharedCopy, sharedPhase, sharedLength, sharedOldest>>
    BY <1>2 DEF SharedWrite
  <2> QED BY <2>1 DEF FrameInv, SharedWidth, SharedHeight, SharedPixels
<1>3. ASSUME SharedOpen PROVE FrameInv'
  BY <1>3 DEF SharedOpen, FrameInv
<1>4. ASSUME NEW w \in SharedWords, SharedRead(w) PROVE FrameInv'
  <2>1. /\ sharedPhase = "header" /\ sharedCopy' = [sharedCopy EXCEPT ![w] = sharedMemory[w]]
        /\ UNCHANGED <<sharedWriter, sharedPhase, sharedLength, sharedOldest>>
    BY <1>4 DEF SharedRead
  <2>2. sharedMemory[w] \in sharedOldest..sharedFrames
    BY <2>1 DEF FrameInv
  <2> QED BY <2>1, <2>2 DEF FrameInv
<1>5. ASSUME SharedCheck PROVE FrameInv'
  <2>1. /\ sharedPhase = "header" /\ \A w \in SharedWords : sharedCopy[w] # -1
        /\ UNCHANGED <<sharedWriter, sharedCopy, sharedOldest>>
    BY <1>5 DEF SharedCheck
  <2>2. CASE Plausible /\ sharedPhase' = "pixels" /\ sharedLength' = SharedPixels
    <3>1. SharedWidth' = SharedWidth /\ SharedHeight' = SharedHeight /\ SharedPixels' = SharedPixels
      BY <2>1 DEF SharedWidth, SharedHeight, SharedPixels
    <3> QED BY <2>1, <2>2, <3>1 DEF Plausible, FrameInv
  <2>3. CASE sharedPhase' = "rejected"
    BY <2>1, <2>3 DEF FrameInv
  <2> QED BY <1>5, <2>2, <2>3 DEF SharedCheck
<1>6. CASE UNCHANGED sharedVars
  BY <1>6 DEF sharedVars, FrameInv, SharedWidth, SharedHeight, SharedPixels
<1> QED BY <1>1, <1>2, <1>3, <1>4, <1>5, <1>6 DEF SharedNext

\* A frame the reader accepts has the geometry of one frame and as many pixels,
\* although its words may come from two frames, for windows of any size.
THEOREM FrameIsWhole == SharedSpec => []AcceptedGeometry
<1>1. FrameInv => AcceptedGeometry
  <2> SUFFICES ASSUME FrameInv, sharedPhase = "pixels"
               PROVE  /\ sharedLength <= SharedSize
                      /\ sharedFrames <= sharedOldest + 1 =>
                           \E f \in SharedSpan :
                             /\ sharedSizes[f] = [width |-> SharedWidth, height |-> SharedHeight]
                             /\ sharedLength = SharedWidth * SharedHeight
    BY DEF AcceptedGeometry
  <2>1. /\ sharedLength <= SharedSize /\ SharedWidth # 0 /\ SharedHeight # 0
        /\ sharedLength = SharedWidth * SharedHeight
        /\ SharedWidth * SharedHeight = SharedPixels
    BY DEF FrameInv
  <2> SUFFICES ASSUME sharedFrames <= sharedOldest + 1
               PROVE  \E f \in SharedSpan :
                        sharedSizes[f] = [width |-> SharedWidth, height |-> SharedHeight]
    BY <2>1
  <2> DEFINE a == sharedCopy["width"]
             b == sharedCopy["height"]
             c == sharedCopy["size"]
             W(f) == sharedSizes[f].width
             H(f) == sharedSizes[f].height
  <2>2. a \in SharedSpan /\ b \in SharedSpan /\ c \in SharedSpan
    BY DEF FrameInv, SharedSpan, SharedWords
  <2>3. a = b \/ c = a \/ c = b
    BY <2>2 DEF SharedSpan, FrameInv
  <2>4. \A f \in SharedSpan : /\ W(f) \in Nat /\ H(f) \in Nat
                              /\ sharedSizes[f] = [width |-> W(f), height |-> H(f)]
    <3> SUFFICES ASSUME NEW f \in SharedSpan
                 PROVE  /\ W(f) \in Nat /\ H(f) \in Nat
                        /\ sharedSizes[f] = [width |-> W(f), height |-> H(f)]
      OBVIOUS
    <3>1. f \in 0..MaxSharedFrames
      BY SharedAssumption DEF SharedSpan, FrameInv
    <3>2. sharedSizes[f] \in [width : Nat, height : Nat]
      BY <3>1 DEF FrameInv
    <3> QED BY <3>2
  <2>5. W(a) # 0 /\ H(b) # 0 /\ W(a) * H(b) = W(c) * H(c)
    BY <2>1 DEF SharedWidth, SharedHeight, SharedPixels
  <2> SUFFICES \E f \in SharedSpan : W(f) = W(a) /\ H(f) = H(b)
    BY <2>4 DEF SharedWidth, SharedHeight
  <2> HIDE DEF W, H, a, b, c
  <2>6. CASE a = b
    BY <2>2, <2>6
  <2>7. CASE c = a
    <3>1. H(b) = H(a)
      BY <2>2, <2>4, <2>5, <2>7, Cancel
    <3> QED BY <2>2, <3>1
  <2>8. CASE c = b
    <3>1. H(b) * W(a) = H(b) * W(b)
      <4>1. W(a) \in Nat /\ W(b) \in Nat /\ H(b) \in Nat
        BY <2>2, <2>4
      <4>2. W(a) * H(b) = W(b) * H(b)
        BY <2>5, <2>8
      <4> QED BY <4>1, <4>2
    <3>2. W(a) = W(b)
      BY <2>2, <2>4, <2>5, <3>1, Cancel
    <3> QED BY <2>2, <3>2
  <2> QED BY <2>3, <2>6, <2>7, <2>8
<1> QED BY <1>1, InitFrame, NextFrame, PTL DEF SharedSpec

-----------------------------------------------------------------------------
(* The crash records.                                                      *)

\* While the clock has only gone on, the newest record that can be read is the
\* crash that is due, and none is from the future.
DueInv ==
  /\ crashClock \in Nat
  /\ ~crashClockBack =>
       /\ crashDue = LatestRecord(crashFiles)
       /\ crashFiles \subseteq [at : Nat, intact : BOOLEAN]
       /\ \A f \in crashFiles : f.at <= crashClock
  /\ CrashOffered

LEMMA InitDue == CrashInit => DueInv
BY DEF CrashInit, DueInv, CrashOffered, LatestRecord

\* The record of a panic is the newest, and the rotation keeps it.
LEMMA WrittenIsLatest ==
  ASSUME NEW files, files \subseteq [at : Nat, intact : BOOLEAN], crashClock \in Nat,
         \A f \in files : f.at <= crashClock
  PROVE  LatestRecord(Rotated(CrashWritten(files, TRUE))) = crashClock
<1> DEFINE new == [at |-> crashClock, intact |-> TRUE]
           all == CrashWritten(files, TRUE)
           kept == Rotated(all)
           intact == {f \in kept : f.intact}
<1>1. new \in all /\ \A f \in all : f.at \in Nat /\ f.at <= crashClock
  BY DEF CrashWritten
<1>2. new.at = crashClock /\ new.intact
  OBVIOUS
<1> HIDE DEF new, all
<1>3. Newer(all, new) = {}
  BY <1>1, <1>2 DEF Newer
<1>4. Cardinality(Newer(all, new)) < MaxCrashRecords
  BY <1>3, FS_EmptySet, CrashAssumption
<1>5. new \in kept
  BY <1>1, <1>4 DEF Rotated
<1>6. kept \subseteq all
  BY DEF Rotated
<1> HIDE DEF kept
<1>7. new \in intact /\ \A g \in intact : g.at \in Nat /\ g.at <= new.at
  BY <1>1, <1>2, <1>5, <1>6
<1> DEFINE latest == CHOOSE f \in intact : \A g \in intact : g.at <= f.at
<1>8. latest \in intact /\ \A g \in intact : g.at <= latest.at
  BY <1>7
<1>9. LatestRecord(kept) = latest.at
  BY <1>7 DEF LatestRecord
<1> HIDE DEF intact, latest
<1>10. latest.at = crashClock
  BY <1>2, <1>7, <1>8
<1> QED BY <1>9, <1>10 DEF kept, all

LEMMA NextDue == DueInv /\ [CrashNext]_crashVars => DueInv'
<1> SUFFICES ASSUME DueInv, [CrashNext]_crashVars PROVE DueInv'
  OBVIOUS
<1>1. ASSUME CrashTick PROVE DueInv'
  BY <1>1 DEF CrashTick, DueInv, CrashOffered
<1>2. ASSUME CrashClockSetBack PROVE DueInv'
  BY <1>2 DEF CrashClockSetBack, DueInv, CrashOffered
<1>3. ASSUME CrashLaunch PROVE DueInv'
  BY <1>3 DEF CrashLaunch, DueInv, CrashOffered
<1>4. ASSUME CrashQuit \/ RequestCrashReport PROVE DueInv'
  BY <1>4 DEF CrashQuit, RequestCrashReport, DueInv, CrashOffered
<1>5. ASSUME CrashPanic PROVE DueInv'
  <2>1. ~crashRunning' /\ UNCHANGED <<crashClock, crashClockBack>>
    BY <1>5 DEF CrashPanic
  <2>2. CASE crashClockBack
    BY <2>1, <2>2 DEF DueInv, CrashOffered
  <2>3. CASE ~crashClockBack
    <3>1. /\ crashFiles \subseteq [at : Nat, intact : BOOLEAN] /\ crashClock \in Nat
          /\ \A f \in crashFiles : f.at <= crashClock
          /\ crashDue = LatestRecord(crashFiles)
      BY <2>3 DEF DueInv
    <3>2. \A ok \in BOOLEAN :
            /\ CrashWritten(crashFiles, ok) \subseteq [at : Nat, intact : BOOLEAN]
            /\ \A f \in CrashWritten(crashFiles, ok) : f.at <= crashClock
      BY <3>1 DEF CrashWritten
    <3>3. CASE /\ crashFiles' = Rotated(CrashWritten(crashFiles, TRUE))
               /\ crashDue' = crashClock
      <4>1. crashDue' = LatestRecord(crashFiles')
        BY <3>1, <3>3, WrittenIsLatest
      <4>2. crashFiles' \subseteq CrashWritten(crashFiles, TRUE)
        BY <3>3 DEF Rotated
      <4> QED BY <2>1, <3>1, <3>2, <4>1, <4>2 DEF DueInv, CrashOffered
    <3>4. CASE /\ crashFiles' = CrashWritten(crashFiles, FALSE)
               /\ crashDue' = LatestRecord(crashFiles')
      BY <2>1, <3>1, <3>2, <3>4 DEF DueInv, CrashOffered
    <3>5. CASE UNCHANGED <<crashFiles, crashDue>>
      BY <2>1, <3>1, <3>5 DEF DueInv, CrashOffered
    <3> QED BY <1>5, <3>3, <3>4, <3>5 DEF CrashPanic
  <2> QED BY <2>2, <2>3
<1>6. ASSUME ReconcileCrashReport PROVE DueInv'
  <2>1. UNCHANGED <<crashClock, crashRunning, crashClockBack>>
    BY <1>6 DEF ReconcileCrashReport
  <2>2. CASE UNCHANGED <<crashFiles, crashPending, crashDue, crashReported>>
    BY <2>1, <2>2 DEF DueInv, CrashOffered
  <2>3. CASE /\ crashReported' /\ crashDue' = LatestRecord(crashFiles')
             /\ crashFiles' \subseteq crashFiles
    BY <2>1, <2>3 DEF DueInv, CrashOffered
  <2> QED BY <1>6, <2>2, <2>3 DEF ReconcileCrashReport
<1>7. CASE UNCHANGED crashVars
  BY <1>7 DEF crashVars, DueInv, CrashOffered
<1> QED BY <1>1, <1>2, <1>3, <1>4, <1>5, <1>6, <1>7 DEF CrashNext

\* A crash that reached the disk is offered until it was dealt with, for any
\* number of crashes, launches and records kept.
THEOREM CrashIsOffered == CrashSpec => []CrashOffered
<1>1. DueInv => CrashOffered
  BY DEF DueInv
<1> QED BY <1>1, InitDue, NextDue, PTL DEF CrashSpec
-----------------------------------------------------------------------------
(* The alert feed.                                                         *)

Notices == Seq([source : Sources, suppressed : Nat])

\* The line of a burst: see OneNoticePerBurst.
LineOf(s) ==
  IF alertTold[s] THEN NoticesOf(s) = {}
  ELSE \E i \in Newest(s) : alertNotices[i].suppressed = alertHidden[s]

\* What a window's key counts is what was suppressed in it, and only a window
\* that suppressed something has its notice shown.
SuppressInv ==
  /\ alertWindow \in [Sources -> [old : BOOLEAN, used : Nat, pending : Nat]]
  /\ alertNotices \in Notices
  /\ alertHidden \in [Sources -> Nat] /\ alertTold \in [Sources -> BOOLEAN]
  /\ \A s \in Sources : alertHidden[s] = alertWindow[s].pending
  /\ \A s \in Sources : alertTold[s] => alertHidden[s] > 0
  /\ \A s \in Sources : alertHidden[s] > 0 => LineOf(s)

LEMMA InitSuppress == AlertInit => SuppressInv
BY DEF AlertInit, SuppressInv, Notices, Sources

\* Which notices a source has depends on the sources of the notices alone.
LEMMA SameNewest ==
  ASSUME NEW s, alertNotices \in Notices, alertNotices' \in Notices,
         DOMAIN alertNotices' = DOMAIN alertNotices,
         \A i \in DOMAIN alertNotices : alertNotices'[i].source = alertNotices[i].source
  PROVE  Newest(s)' = Newest(s) /\ NoticesOf(s)' = NoticesOf(s)
BY DEF Newest, NoticesOf

\* A notice that is queued is the newest of its source.
LEMMA AppendedIsNewest ==
  ASSUME NEW s \in Sources, NEW n \in Nat, alertNotices \in Notices,
         alertNotices' = Append(alertNotices, [source |-> s, suppressed |-> n])
  PROVE  /\ alertNotices' \in Notices
         /\ Len(alertNotices) + 1 \in Newest(s)'
         /\ alertNotices'[Len(alertNotices) + 1].suppressed = n
         /\ \A r \in Sources \ {s} : Newest(r)' = Newest(r) /\ NoticesOf(r)' = NoticesOf(r)
         /\ \A i \in DOMAIN alertNotices : alertNotices'[i] = alertNotices[i]
<1> DEFINE last == Len(alertNotices) + 1
<1>1. /\ alertNotices' \in Notices
      /\ DOMAIN alertNotices = 1..Len(alertNotices) /\ Len(alertNotices) \in Nat
      /\ DOMAIN alertNotices' = 1..last
      /\ alertNotices'[last] = [source |-> s, suppressed |-> n]
      /\ \A i \in 1..Len(alertNotices) : alertNotices'[i] = alertNotices[i]
  BY DEF Notices
<1>2. last \in Newest(s)'
  BY <1>1 DEF Newest, NoticesOf
<1>3. ASSUME NEW r \in Sources \ {s} PROVE NoticesOf(r)' = NoticesOf(r)
  BY <1>1 DEF NoticesOf
<1>4. ASSUME NEW r \in Sources \ {s} PROVE Newest(r)' = Newest(r)
  BY <1>3 DEF Newest
<1> QED BY <1>1, <1>2, <1>3, <1>4

LEMMA PushSuppress ==
  ASSUME SuppressInv, NEW s \in Sources, PushFrom(s)
  PROVE  SuppressInv'
<1> DEFINE w == IF alertWindow[s].old THEN [old |-> FALSE, used |-> 0, pending |-> 0]
                ELSE alertWindow[s]
           over == w.used >= AlertBudget
<1>1. w \in [old : BOOLEAN, used : Nat, pending : Nat]
  BY DEF SuppressInv
<1>2. over => ~alertWindow[s].old /\ w = alertWindow[s]
  BY AlertAssumption
<1>3. CASE ~over
  <2>1. /\ alertNotices' = alertNotices
        /\ alertWindow' = [alertWindow EXCEPT ![s] = [w EXCEPT !.used = @ + 1]]
        /\ alertHidden' = [alertHidden EXCEPT ![s] =
                             IF alertWindow[s].old THEN 0 ELSE alertHidden[s]]
        /\ alertTold' = [alertTold EXCEPT ![s] = ~alertWindow[s].old /\ @]
    BY <1>3 DEF PushFrom
  <2> DEFINE more == [w EXCEPT !.used = @ + 1]
  <2>2. /\ alertWindow' \in [Sources -> [old : BOOLEAN, used : Nat, pending : Nat]]
        /\ alertHidden' \in [Sources -> Nat] /\ alertTold' \in [Sources -> BOOLEAN]
        /\ alertNotices' \in Notices
    <3> HIDE DEF w
    <3>1. more \in [old : BOOLEAN, used : Nat, pending : Nat]
      BY <1>1
    <3> HIDE DEF more
    <3>2. alertWindow' \in [Sources -> [old : BOOLEAN, used : Nat, pending : Nat]]
      BY <2>1, <3>1 DEF SuppressInv, more
    <3> QED BY <2>1, <3>2 DEF SuppressInv
  <2>3. \A r \in Sources : alertHidden'[r] = alertWindow'[r].pending
    BY <1>1, <2>1 DEF SuppressInv
  <2>4. \A r \in Sources :
          /\ alertTold'[r] => alertHidden'[r] > 0
          /\ alertHidden'[r] > 0 => /\ alertHidden'[r] = alertHidden[r]
                                    /\ alertTold'[r] = alertTold[r]
    <3> HIDE DEF w, over, more
    <3>1. \A r \in Sources \ {s} : alertTold'[r] = alertTold[r] /\ alertHidden'[r] = alertHidden[r]
      BY <2>1 DEF SuppressInv
    <3>2. CASE alertWindow[s].old
      <4>1. ~alertTold'[s] /\ alertHidden'[s] = 0
        BY <2>1, <3>2 DEF SuppressInv
      <4> QED BY <3>1, <4>1 DEF SuppressInv
    <3>3. CASE ~alertWindow[s].old
      <4>1. alertTold'[s] = alertTold[s] /\ alertHidden'[s] = alertHidden[s]
        BY <2>1, <3>3 DEF SuppressInv
      <4> QED BY <3>1, <4>1 DEF SuppressInv
    <3> QED BY <3>2, <3>3
  <2>5. \A r \in Sources : NoticesOf(r)' = NoticesOf(r) /\ Newest(r)' = Newest(r)
    BY <2>1 DEF Newest, NoticesOf
  <2> QED BY <2>1, <2>2, <2>3, <2>4, <2>5 DEF SuppressInv, LineOf
<1>4. CASE over
  <2> DEFINE grown == [i \in DOMAIN alertNotices |->
                IF i \in Newest(s) THEN [alertNotices[i] EXCEPT !.suppressed = w.pending + 1]
                ELSE alertNotices[i]]
  <2>1. /\ alertNotices' = IF w.pending = 0
                           THEN Append(alertNotices, [source |-> s, suppressed |-> 1])
                           ELSE grown
        /\ alertWindow' = [alertWindow EXCEPT ![s] = [w EXCEPT !.pending = @ + 1]]
        /\ alertHidden' = [alertHidden EXCEPT ![s] = alertHidden[s] + 1]
        /\ alertTold' = [alertTold EXCEPT ![s] = @]
    BY <1>2, <1>4 DEF PushFrom, SuppressInv
  <2> DEFINE more == [w EXCEPT !.pending = @ + 1]
  <2>2. /\ alertWindow' \in [Sources -> [old : BOOLEAN, used : Nat, pending : Nat]]
        /\ alertHidden' \in [Sources -> Nat] /\ alertTold' = alertTold
    <3> HIDE DEF w
    <3>1. more \in [old : BOOLEAN, used : Nat, pending : Nat]
      BY <1>1
    <3> HIDE DEF more
    <3>2. alertWindow' \in [Sources -> [old : BOOLEAN, used : Nat, pending : Nat]]
      BY <2>1, <3>1 DEF SuppressInv, more
    <3> QED BY <2>1, <3>2 DEF SuppressInv
  <2>3. w.pending = alertHidden[s] /\ w.pending \in Nat
    BY <1>1, <1>2, <1>4 DEF SuppressInv
  <2>4. \A r \in Sources : alertHidden'[r] = alertWindow'[r].pending
    BY <1>1, <2>1, <2>3 DEF SuppressInv
  <2>5. CASE w.pending = 0
    <3> HIDE DEF w
    <3>1. alertNotices' = Append(alertNotices, [source |-> s, suppressed |-> 1])
      BY <2>1, <2>5
    <3>2. alertNotices \in Notices
      BY DEF SuppressInv
    <3>3. /\ alertNotices' \in Notices
          /\ Len(alertNotices) + 1 \in Newest(s)'
          /\ alertNotices'[Len(alertNotices) + 1].suppressed = 1
          /\ \A r \in Sources \ {s} : Newest(r)' = Newest(r) /\ NoticesOf(r)' = NoticesOf(r)
          /\ \A i \in DOMAIN alertNotices : alertNotices'[i] = alertNotices[i]
      BY <3>1, <3>2, AppendedIsNewest
    <3> DEFINE n == alertHidden[s]
    <3>4. alertHidden'[s] = 1 /\ ~alertTold[s]
      <4>1. n = 0
        BY <2>3, <2>5
      <4>2. alertHidden'[s] = 1
        BY <2>1, <4>1 DEF SuppressInv
      <4>3. alertTold[s] => n > 0
        BY DEF SuppressInv
      <4> QED BY <4>1, <4>2, <4>3
    <3>5. \A r \in Sources \ {s} : alertHidden'[r] = alertHidden[r]
      BY <2>1 DEF SuppressInv
    <3>6. \A r \in Sources : Newest(r) \subseteq DOMAIN alertNotices
      BY DEF Newest, NoticesOf
    <3>7. \A r \in Sources \ {s} : alertHidden'[r] > 0 => LineOf(r)'
      BY <2>2, <3>3, <3>5, <3>6 DEF SuppressInv, LineOf
    <3>8. LineOf(s)'
      BY <2>2, <3>3, <3>4 DEF LineOf
    <3>9. \A r \in Sources : alertTold'[r] => alertHidden'[r] > 0
      BY <2>2, <3>4, <3>5 DEF SuppressInv
    <3> QED BY <2>2, <2>4, <3>3, <3>7, <3>8, <3>9 DEF SuppressInv
  <2>6. CASE w.pending # 0
    <3>1. alertNotices' = grown
      BY <2>1, <2>6
    <3> HIDE DEF w
    <3>2. /\ alertNotices \in Notices
          /\ \A i \in DOMAIN alertNotices :
               alertNotices[i] \in [source : Sources, suppressed : Nat]
      BY ElementOfSeq, LenProperties DEF SuppressInv, Notices
    <3>3. /\ DOMAIN grown = DOMAIN alertNotices
          /\ \A i \in DOMAIN alertNotices :
               /\ grown[i] \in [source : Sources, suppressed : Nat]
               /\ grown[i].source = alertNotices[i].source
               /\ i \in Newest(s) => grown[i].suppressed = w.pending + 1
               /\ i \notin Newest(s) => grown[i] = alertNotices[i]
      BY <2>3, <3>2
    <3>4. alertNotices' \in Notices
      <4>1. Len(alertNotices) \in Nat /\ DOMAIN alertNotices = 1..Len(alertNotices)
        BY <3>2, LenProperties DEF Notices
      <4>2. grown \in [1..Len(alertNotices) -> [source : Sources, suppressed : Nat]]
        BY <3>3, <4>1
      <4> QED BY <3>1, <4>1, <4>2, SeqDef DEF Notices
    <3>5. \A r \in Sources : Newest(r)' = Newest(r) /\ NoticesOf(r)' = NoticesOf(r)
      BY <3>1, <3>2, <3>3, <3>4, SameNewest
    <3>6. \A r \in Sources : Newest(r) \subseteq NoticesOf(r)
      BY DEF Newest
    <3>7. \A r \in Sources \ {s} : \A i \in Newest(r) :
            alertNotices'[i] = alertNotices[i]
      BY <3>1, <3>3, <3>6 DEF NoticesOf
    <3>8. \A r \in Sources : Newest(r) \subseteq DOMAIN alertNotices
      BY DEF Newest, NoticesOf
    <3>9. alertHidden'[s] = w.pending + 1 /\ \A r \in Sources \ {s} : alertHidden'[r] = alertHidden[r]
      BY <2>1, <2>3 DEF SuppressInv
    <3>10. LineOf(s)
      BY <2>3, <2>6 DEF SuppressInv
    <3> HIDE DEF grown
    <3>11. LineOf(s)'
      BY <2>2, <3>1, <3>3, <3>5, <3>8, <3>9, <3>10 DEF LineOf
    <3>12. \A r \in Sources \ {s} : alertHidden'[r] > 0 => LineOf(r)'
      BY <2>2, <3>5, <3>7, <3>9 DEF SuppressInv, LineOf
    <3>13. \A r \in Sources : alertTold'[r] => alertHidden'[r] > 0
      BY <2>2, <2>3, <3>9 DEF SuppressInv
    <3> QED BY <2>2, <2>4, <3>4, <3>11, <3>12, <3>13 DEF SuppressInv
  <2> QED BY <2>5, <2>6
<1> QED BY <1>3, <1>4

LEMMA NextSuppress == SuppressInv /\ [AlertNext]_alertVars => SuppressInv'
<1> SUFFICES ASSUME SuppressInv, [AlertNext]_alertVars PROVE SuppressInv'
  OBVIOUS
<1>1. ASSUME UNCHANGED alertIngest PROVE SuppressInv'
  BY <1>1 DEF alertIngest, SuppressInv, LineOf, Newest, NoticesOf
<1>2. CASE AlertTime
  <2>1. /\ alertWindow' = [s \in Sources |-> [alertWindow[s] EXCEPT !.old = TRUE]]
        /\ UNCHANGED <<alertNotices, alertHidden, alertTold>>
    BY <1>2 DEF AlertTime
  <2>2. \A s \in Sources :
          /\ alertWindow'[s] \in [old : BOOLEAN, used : Nat, pending : Nat]
          /\ alertWindow'[s].pending = alertWindow[s].pending
    BY <2>1 DEF SuppressInv
  <2>3. \A s \in Sources : LineOf(s)' = LineOf(s)
    BY <2>1 DEF LineOf, Newest, NoticesOf
  <2> QED BY <2>1, <2>2, <2>3 DEF SuppressInv
<1>3. CASE AlertPolicy
  BY <1>3 DEF AlertPolicy, SuppressInv, LineOf, Newest, NoticesOf
<1>4. CASE AlertShow
  <2>1. /\ alertNotices' = <<>> /\ UNCHANGED <<alertWindow, alertHidden>>
        /\ alertTold' = [s \in Sources |-> alertTold[s] \/ alertHidden[s] > 0]
    BY <1>4 DEF AlertShow
  <2>2. alertNotices' \in Notices /\ alertTold' \in [Sources -> BOOLEAN]
    BY <2>1 DEF Notices
  <2>3. \A s \in Sources : NoticesOf(s)' = {}
    BY <2>1 DEF NoticesOf
  <2> QED BY <2>1, <2>2, <2>3 DEF SuppressInv, LineOf
<1>5. ASSUME NEW s \in Sources, AlertTake(s) PROVE SuppressInv'
  BY <1>1, <1>5, PushSuppress DEF AlertTake
<1>6. CASE AlertApplyHook \/ AlertApplyEventsub \/ AlertJoined
  BY <1>1, <1>6 DEF AlertApplyHook, AlertApplyEventsub, AlertJoined
<1>7. CASE AlertWorker \/ AlertAnswered \/ AlertWelcomed \/ AlertSessionEnds \/ AlertNotified
  BY <1>1, <1>7 DEF AlertWorker, AlertAnswered, AlertDial, AlertConnected,
                    AlertWelcomed, AlertSubscribed, AlertStopped, AlertSlept,
                    AlertSent, AlertSessionEnds, AlertNotified, Reading
<1>8. ASSUME NEW s \in Sources, AlertTaken(s) \/ AlertSettings(s) PROVE SuppressInv'
  BY <1>1, <1>8 DEF AlertTaken, AlertSettings
<1>9. ASSUME NEW p \in AlertPosts, AlertPosted(p) \/ AlertPost(p) PROVE SuppressInv'
  BY <1>1, <1>9 DEF AlertPosted, AlertPost, AlertHandled, AlertDelivered, SetPost
<1>10. CASE UNCHANGED alertVars
  BY <1>1, <1>10 DEF alertVars
<1> QED BY <1>2, <1>3, <1>4, <1>5, <1>6, <1>7, <1>8, <1>9, <1>10 DEF AlertNext, AlertFrame

\* For any budget and any number of alerts, a burst has one line, which counts
\* all that was suppressed before it is shown and nothing of what is suppressed
\* after that.
THEOREM BurstHasOneNotice == AlertSpec => []OneNoticePerBurst
<1>1. SuppressInv => OneNoticePerBurst
  BY DEF SuppressInv, LineOf, OneNoticePerBurst
<1> QED BY <1>1, InitSuppress, NextSuppress, PTL DEF AlertSpec

-----------------------------------------------------------------------------
(* The chat's rate limiter.                                                *)

ChatRates == ChatCapacity \in Nat /\ ChatWindow \in Nat \ {0} /\ ChatFull \in Nat

LEMMA Rates == ChatRates
BY ChatAssumption DEF ChatRates, ChatFull

\* The limiter's variables have their types.
LimiterTypes ==
  /\ chatTokens \in 0..ChatFull
  /\ chatNow \in Nat /\ chatLast \in 0..chatNow
  /\ chatMark \in [at : 0..chatNow, sends : Nat]

\* Sends and tokens left together are what was there at first and what was
\* filled in since; nothing was sent since a moment after the last refill.
Account ==
  \/ chatLast < chatMark.at /\ chatMark.sends = 0
  \/ /\ chatMark.at <= chatLast
     /\ chatMark.sends * ChatWindow + chatTokens
          <= ChatFull + (chatLast - chatMark.at) * ChatCapacity

LimiterInv == LimiterTypes /\ Account

\* Time that passes in two parts fills in as much as both parts.
LEMMA FilledInParts ==
  ASSUME NEW a \in Nat, NEW b \in Nat, NEW c \in Nat, a <= b, b <= c
  PROVE  /\ (b - a) * ChatCapacity \in Nat
         /\ (c - b) * ChatCapacity \in Nat
         /\ (c - a) * ChatCapacity = (b - a) * ChatCapacity + (c - b) * ChatCapacity
<1> DEFINE d == b - a
           e == c - b
<1>1. d \in Nat /\ e \in Nat /\ c - a = d + e
  OBVIOUS
<1> HIDE DEF d, e
<1>2. \A m, n, k \in Nat : m * k \in Nat /\ (m + n) * k = m * k + n * k
  OBVIOUS
<1>3. d * ChatCapacity \in Nat /\ e * ChatCapacity \in Nat
      /\ (d + e) * ChatCapacity = d * ChatCapacity + e * ChatCapacity
  BY <1>1, <1>2, Rates DEF ChatRates
<1> QED BY <1>1, <1>3 DEF d, e

LEMMA InitLimiter == ChatInit => LimiterInv
<1> SUFFICES ASSUME ChatInit PROVE LimiterInv
  OBVIOUS
<1>1. LimiterTypes
  BY Rates DEF ChatInit, LimiterTypes, ChatRates
<1>2. 0 * ChatWindow = 0 /\ (0 - 0) * ChatCapacity = 0
  BY Rates DEF ChatRates
<1>3. Account
  BY <1>2, Rates DEF ChatInit, Account, ChatRates
<1> QED BY <1>1, <1>3 DEF LimiterInv

\* A new handle and a new moment both start the account again.
LEMMA NewAccount ==
  ASSUME LimiterTypes, chatMark' = [at |-> chatNow, sends |-> 0], chatNow' = chatNow,
         \/ chatTokens' = ChatFull /\ chatLast' = chatNow
         \/ UNCHANGED <<chatTokens, chatLast>>
  PROVE  LimiterInv'
<1>1. 0 * ChatWindow = 0 /\ \A n \in Nat : (n - n) * ChatCapacity = 0
  BY Rates DEF ChatRates
<1>2. chatMark'.at = chatNow /\ chatMark'.sends = 0 /\ chatLast' \in 0..chatNow
      /\ chatTokens' \in 0..ChatFull
  BY Rates DEF LimiterTypes, ChatRates
<1>3. LimiterTypes'
  BY <1>2 DEF LimiterTypes
<1>4. CASE chatLast' < chatNow
  BY <1>2, <1>3, <1>4 DEF LimiterInv, Account
<1>5. CASE chatLast' = chatNow
  <2>1. chatMark'.sends * ChatWindow + chatTokens'
          <= ChatFull + (chatLast' - chatMark'.at) * ChatCapacity
    <3>1. chatMark'.sends * ChatWindow = 0 /\ (chatLast' - chatMark'.at) * ChatCapacity = 0
      BY <1>1, <1>2, <1>5 DEF LimiterTypes
    <3> QED BY <1>2, <3>1, Rates DEF ChatRates
  <2> QED BY <1>2, <1>3, <1>5, <2>1 DEF LimiterInv, Account, LimiterTypes
<1> QED BY <1>2, <1>4, <1>5 DEF LimiterTypes

\* A send first counts the tokens up to now, and takes one and is counted, or
\* takes none and is not.
LEMMA SendKeepsAccount ==
  ASSUME LimiterInv, TryAcquire, UNCHANGED chatNow,
         IF Refilled >= ChatWindow
         THEN chatMark' = [chatMark EXCEPT !.sends = @ + 1]
         ELSE UNCHANGED chatMark
  PROVE  LimiterInv'
<1> DEFINE at == chatMark.at
           sends == chatMark.sends
           filled == (chatNow - chatLast) * ChatCapacity
           total == (chatNow - at) * ChatCapacity
           sent == sends * ChatWindow
<1>1. /\ at \in Nat /\ at <= chatNow /\ sends \in Nat /\ chatNow \in Nat
      /\ chatLast \in Nat /\ chatLast <= chatNow
      /\ chatTokens \in 0..ChatFull /\ ChatFull \in Nat /\ ChatWindow \in Nat \ {0}
  BY Rates DEF LimiterInv, LimiterTypes, ChatRates
<1>2. filled \in Nat /\ total \in Nat /\ sent \in Nat /\ (sends + 1) * ChatWindow = sent + ChatWindow
  <2>1. filled \in Nat /\ total \in Nat
    BY <1>1, FilledInParts
  <2>2. \A m, k \in Nat : m * k \in Nat /\ (m + 1) * k = m * k + k
    OBVIOUS
  <2> QED BY <1>1, <2>1, <2>2
<1>3. Refilled \in 0..ChatFull /\ Refilled <= chatTokens + filled
  BY <1>1, <1>2 DEF Refilled
<1>4. sent + Refilled <= ChatFull + total
  <2>1. CASE chatLast < at /\ sends = 0
    <3>1. sent = 0
      BY <1>1, <2>1
    <3> HIDE DEF total, filled, sent
    <3> QED BY <1>1, <1>2, <1>3, <2>1, <3>1
  <2>2. CASE at <= chatLast /\ sent + chatTokens <= ChatFull + (chatLast - at) * ChatCapacity
    <3>1. total = (chatLast - at) * ChatCapacity + filled /\ (chatLast - at) * ChatCapacity \in Nat
      BY <1>1, <2>2, FilledInParts
    <3> DEFINE early == (chatLast - at) * ChatCapacity
    <3>2. sent + chatTokens <= ChatFull + early /\ total = early + filled /\ early \in Nat
      BY <2>2, <3>1
    <3> HIDE DEF total, filled, sent, early
    <3> QED BY <1>1, <1>2, <1>3, <3>2
  <2> QED BY <2>1, <2>2 DEF LimiterInv, Account
<1>5. CASE Refilled >= ChatWindow
  <2>1. chatTokens' = Refilled - ChatWindow /\ chatLast' = chatNow
    BY <1>5 DEF TryAcquire
  <2>2. chatMark' = [at |-> at, sends |-> sends + 1]
    BY <1>5 DEF LimiterInv, LimiterTypes
  <2>3. LimiterTypes'
    BY <1>1, <1>3, <1>5, <2>1, <2>2 DEF LimiterTypes
  <2>4. (sends + 1) * ChatWindow + chatTokens' <= ChatFull + total
    <3> HIDE DEF total, filled, sent
    <3> QED BY <1>1, <1>2, <1>3, <1>4, <2>1
  <2> QED BY <1>1, <2>1, <2>2, <2>3, <2>4 DEF LimiterInv, Account
<1>6. CASE ~(Refilled >= ChatWindow)
  <2>1. chatTokens' = Refilled /\ chatLast' = chatNow /\ chatMark' = chatMark
    BY <1>6 DEF TryAcquire
  <2>2. LimiterTypes'
    BY <1>1, <1>3, <2>1 DEF LimiterTypes, LimiterInv
  <2> QED BY <1>1, <1>4, <2>1, <2>2 DEF LimiterInv, Account
<1> QED BY <1>5, <1>6

LEMMA SameLimiter ==
  ASSUME LimiterInv, UNCHANGED <<chatTokens, chatLast, chatNow, chatMark>>
  PROVE  LimiterInv'
BY DEF LimiterInv, LimiterTypes, Account

LEMMA NextLimiter == LimiterInv /\ [ChatNext]_chatVars => LimiterInv'
<1> SUFFICES ASSUME LimiterInv, [ChatNext]_chatVars PROVE LimiterInv'
  OBVIOUS
<1>1. ASSUME ChatTick PROVE LimiterInv'
  BY <1>1 DEF ChatTick, LimiterInv, LimiterTypes, Account, chatLimiter
<1>2. ASSUME ChatMark PROVE LimiterInv'
  BY <1>2, NewAccount DEF ChatMark, LimiterInv, chatLimiter
<1>3. ASSUME ChatConnect PROVE LimiterInv'
  BY <1>3, NewAccount DEF ChatConnect, LimiterInv
<1>4. ASSUME ChatDisconnect PROVE LimiterInv'
  BY <1>4, SameLimiter DEF ChatDisconnect, chatLimiter
<1>5. ASSUME ChatSendMessage PROVE LimiterInv'
  BY <1>5, SendKeepsAccount DEF ChatSendMessage
<1>6. ASSUME NEW h \in Handles, ChatWorker(h) \/ ChatAnswered(h) PROVE LimiterInv'
  <2>1. ASSUME NEW from, NEW to, At(h, from, to) PROVE LimiterInv'
    BY <2>1, SameLimiter DEF At, chatLimiter
  <2> QED BY <1>6, <2>1 DEF ChatWorker, ChatAnswered, ChatStart, ChatConnected, ChatDrain, ChatPosted,
         ChatDrained, ChatRead, ChatPolled, ChatSlept
<1>7. ASSUME UNCHANGED chatVars PROVE LimiterInv'
  BY <1>7, SameLimiter DEF chatVars, chatLimiter
<1> QED BY <1>1, <1>2, <1>3, <1>4, <1>5, <1>6, <1>7 DEF ChatNext

LEMMA AccountBounds == LimiterInv => ChatBurstBounded
<1> SUFFICES ASSUME LimiterInv PROVE ChatBurstBounded
  OBVIOUS
<1> DEFINE at == chatMark.at
           sent == chatMark.sends * ChatWindow
           early == (chatLast - at) * ChatCapacity
           late == (chatNow - chatLast) * ChatCapacity
           total == (chatNow - at) * ChatCapacity
<1>1. /\ at \in Nat /\ at <= chatNow /\ chatMark.sends \in Nat
      /\ chatNow \in Nat /\ chatLast \in Nat /\ chatLast <= chatNow /\ chatTokens \in Nat /\ ChatFull \in Nat /\ ChatWindow \in Nat
  BY Rates DEF LimiterInv, LimiterTypes, ChatRates
<1>2. total \in Nat /\ sent \in Nat
  <2>1. total \in Nat
    <3>1. at \in Nat /\ chatNow \in Nat /\ at <= chatNow /\ chatNow <= chatNow
      BY <1>1
    <3> HIDE DEF at
    <3> QED BY ONLY <3>1, FilledInParts
  <2>2. \A m, k \in Nat : m * k \in Nat
    OBVIOUS
  <2> QED BY <1>1, <2>1, <2>2
<1>3. CASE chatMark.sends = 0
  <2>1. sent = 0
    BY <1>1, <1>3
  <2> QED BY <1>1, <1>2, <2>1 DEF ChatBurstBounded
<1>4. CASE at <= chatLast /\ sent + chatTokens <= ChatFull + early
  <2>1. total = early + late /\ early \in Nat /\ late \in Nat
    <3>1. /\ at \in Nat /\ chatLast \in Nat /\ chatNow \in Nat
          /\ at <= chatLast /\ chatLast <= chatNow
      BY <1>1, <1>4
    <3> HIDE DEF at
    <3> QED BY ONLY <3>1, FilledInParts
  <2>2. sent <= ChatFull + total
    <3> HIDE DEF sent, early, late, total
    <3> QED BY <1>1, <1>2, <1>4, <2>1
  <2> QED BY <1>1, <1>2, <2>2 DEF ChatBurstBounded
<1> QED BY <1>3, <1>4 DEF LimiterInv, Account

\* From any moment on, a handle lets through at most its capacity at once and
\* its rate after that, for every capacity and window and however sends, pauses
\* and reconnects alternate (RateLimiter::try_acquire).
THEOREM BurstBounded == ChatSpec => []ChatBurstBounded
<1>1. ChatSpec => []LimiterInv
  BY InitLimiter, NextLimiter, PTL DEF ChatSpec
<1> QED BY <1>1, AccountBounds, PTL

-----------------------------------------------------------------------------
(* The adaptive bitrate controller.                                        *)

ControllerTypes ==
  /\ bitrateNow \in Nat /\ bitrateEpoch \in -1..bitrateNow
  /\ bitratePolicy \in BitratePolicies /\ bitrateKbps \in Nat
  /\ bitrateLast \in Nat \cup {-1} /\ bitrateChanged \in -1..bitrateNow

\* The clock of the controller may fall back, to zero, but never runs ahead of
\* real time: what looks like a cooldown since the last change is at least one.
ClockBehind ==
  /\ bitrateLast = -1 <=> bitrateChanged = -1
  /\ bitrateLast # -1 => BitrateClock - bitrateLast <= bitrateNow - bitrateChanged

CalmInv == ControllerTypes /\ ClockBehind

LEMMA InitCalm == BitrateInit => CalmInv
BY BitrateAssumption DEF BitrateInit, CalmInv, ControllerTypes, ClockBehind

LEMMA PolicyTypes ==
  ASSUME ControllerTypes
  PROVE  /\ bitratePolicy.minimum \in Nat /\ bitratePolicy.maximum \in Nat
         /\ bitratePolicy.step \in Nat \ {0}
         /\ bitratePolicy.minimum <= bitratePolicy.maximum
BY BitrateAssumption DEF ControllerTypes

LEMMA NextBitrateTypes ==
  ASSUME ControllerTypes, NEW status
  PROVE  NextBitrate(status) \in Nat
BY PolicyTypes DEF ControllerTypes, NextBitrate, Smaller, Greater

\* What leaves the controller alone: the clock goes on, stands or starts over.
LEMMA ClockKeepsCalm ==
  ASSUME CalmInv, UNCHANGED <<bitrateLast, bitrateChanged>>,
         bitratePolicy' \in BitratePolicies, bitrateKbps' \in Nat,
         \/ bitrateNow' = bitrateNow + 1 /\ bitrateEpoch' = bitrateEpoch
         \/ bitrateNow' = bitrateNow /\ bitrateEpoch' \in {bitrateEpoch, bitrateNow, -1}
  PROVE  CalmInv'
<1>1. ControllerTypes'
  BY DEF CalmInv, ControllerTypes
<1>2. BitrateClock \in Nat
  BY DEF CalmInv, ControllerTypes, BitrateClock
<1>3. bitrateLast' # -1 => BitrateClock' - bitrateLast' <= bitrateNow' - bitrateChanged'
  <2> SUFFICES ASSUME bitrateLast # -1
               PROVE  BitrateClock' - bitrateLast <= bitrateNow' - bitrateChanged
    OBVIOUS
  <2>1. /\ bitrateLast \in Nat /\ bitrateChanged \in Int /\ bitrateNow \in Nat
        /\ BitrateClock - bitrateLast <= bitrateNow - bitrateChanged
        /\ bitrateChanged <= bitrateNow
    BY DEF CalmInv, ControllerTypes, ClockBehind
  <2>2. CASE bitrateNow' = bitrateNow + 1 /\ bitrateEpoch' = bitrateEpoch
    <3>1. BitrateClock' = BitrateClock \/ BitrateClock' = BitrateClock + 1
      BY <2>2 DEF CalmInv, ControllerTypes, BitrateClock
    <3> QED BY <1>2, <2>1, <2>2, <3>1
  <2>3. CASE bitrateNow' = bitrateNow
    <3>1. BitrateClock' = BitrateClock \/ BitrateClock' = 0
      BY <2>3 DEF CalmInv, ControllerTypes, BitrateClock
    <3> QED BY <1>2, <2>1, <2>3, <3>1
  <2> QED BY <2>2, <2>3
<1>4. ClockBehind'
  BY <1>3 DEF CalmInv, ClockBehind
<1> QED BY <1>1, <1>4 DEF CalmInv

LEMMA ServiceKeepsCalm ==
  ASSUME CalmInv, NEW status, BitrateService(status)
  PROVE  CalmInv'
<1>1. /\ bitrateNow' = bitrateNow /\ bitrateEpoch' = bitrateEpoch /\ bitratePolicy' = bitratePolicy
      /\ BitrateClock' = BitrateClock
  BY DEF BitrateService, BitrateClock
<1>2. CASE UNCHANGED <<bitrateLast, bitrateChanged>>
  <2>1. bitrateKbps' \in {bitrateKbps, NextBitrate(status)}
    BY DEF BitrateService
  <2>2. bitrateKbps' \in Nat /\ bitratePolicy' \in BitratePolicies
    BY <1>1, <2>1, NextBitrateTypes DEF CalmInv, ControllerTypes
  <2> QED BY <1>1, <1>2, <2>2, ClockKeepsCalm
<1>3. CASE bitrateLast' = BitrateClock /\ bitrateChanged' = bitrateNow
  <2>1. bitrateKbps' \in {bitrateKbps, NextBitrate(status)}
    BY DEF BitrateService
  <2>2. bitrateKbps' \in Nat
    BY <2>1, NextBitrateTypes DEF CalmInv, ControllerTypes
  <2>3. BitrateClock \in Nat
    BY DEF CalmInv, ControllerTypes, BitrateClock
  <2>4. ControllerTypes'
    BY <1>1, <1>3, <2>2, <2>3 DEF CalmInv, ControllerTypes
  <2>5. ClockBehind'
    BY <1>1, <1>3, <2>3, <2>4 DEF ClockBehind, ControllerTypes
  <2> QED BY <2>4, <2>5 DEF CalmInv
<1> QED BY <1>2, <1>3 DEF BitrateService

LEMMA NextCalm == CalmInv /\ [BitrateNext]_bitrateVars => CalmInv'
<1> SUFFICES ASSUME CalmInv, [BitrateNext]_bitrateVars PROVE CalmInv'
  OBVIOUS
<1>0. bitratePolicy \in BitratePolicies /\ bitrateKbps \in Nat
  BY DEF CalmInv, ControllerTypes
<1>1. CASE BitrateTick
  BY <1>0, <1>1, ClockKeepsCalm DEF BitrateTick, bitrateController
<1>2. CASE BitrateTargets
  BY <1>0, <1>2, ClockKeepsCalm DEF BitrateTargets, BitrateEdit, bitrateController
<1>3. CASE BitrateStart
  BY <1>0, <1>3, ClockKeepsCalm DEF BitrateStart, BitrateEdit, bitrateController
<1>4. CASE BitrateBuild
  BY <1>0, <1>4, ClockKeepsCalm DEF BitrateBuild, bitrateController
<1>5. CASE BitrateStop
  BY <1>0, <1>5, ClockKeepsCalm DEF BitrateStop, bitrateController
<1>6. ASSUME NEW p \in BitratePolicies, BitrateSettings(p) PROVE CalmInv'
  BY <1>0, <1>6, ClockKeepsCalm DEF BitrateSettings, BitrateEdit, bitrateController
<1>7. ASSUME NEW kbps \in BitrateChoices, BitrateChosen(kbps) PROVE CalmInv'
  BY <1>0, <1>7, ClockKeepsCalm, BitrateAssumption DEF BitrateChosen, BitrateEdit
<1>8. ASSUME NEW status, BitrateService(status) PROVE CalmInv'
  BY <1>8, ServiceKeepsCalm
<1>9. CASE UNCHANGED bitrateVars
  BY <1>0, <1>9, ClockKeepsCalm DEF bitrateVars
<1> QED BY <1>1, <1>2, <1>3, <1>4, <1>5, <1>6, <1>7, <1>8, <1>9 DEF BitrateNext

\* What a change of the bitrate during a session has to satisfy.
CalmChange ==
  bitrateHealth /\ bitrateKbps' # bitrateKbps =>
    /\ bitrateChanged = -1 \/ bitrateNow - bitrateChanged >= BitrateCooldown
    /\ InBounds(bitrateKbps) =>
         /\ InBounds(bitrateKbps')
         /\ bitrateKbps' \in bitrateKbps - bitratePolicy.step .. bitrateKbps + bitratePolicy.step

LEMMA ServiceIsCalm ==
  ASSUME CalmInv, NEW status, BitrateService(status)
  PROVE  CalmChange
<1> SUFFICES ASSUME bitrateKbps' # bitrateKbps
             PROVE  /\ bitrateChanged = -1 \/ bitrateNow - bitrateChanged >= BitrateCooldown
                    /\ InBounds(bitrateKbps) =>
                         /\ InBounds(bitrateKbps')
                         /\ bitrateKbps' \in bitrateKbps - bitratePolicy.step
                                               .. bitrateKbps + bitratePolicy.step
  BY DEF CalmChange
<1>1. ~CoolingDown /\ bitrateKbps' = NextBitrate(status)
  BY DEF BitrateService
<1>2. bitrateChanged = -1 \/ bitrateNow - bitrateChanged >= BitrateCooldown
  <2>1. CASE bitrateLast = -1
    BY <2>1 DEF CalmInv, ClockBehind
  <2>2. CASE bitrateLast # -1
    <3>1. BitrateClock \in Nat /\ bitrateLast \in Nat /\ BitrateCooldown \in Nat
          /\ bitrateNow \in Nat /\ bitrateChanged \in -1..bitrateNow
      BY <2>2, BitrateAssumption DEF CalmInv, ControllerTypes, BitrateClock
    <3>2. BitrateClock - bitrateLast >= BitrateCooldown \/ BitrateCooldown = 0
      BY <1>1, <2>2, <3>1 DEF CoolingDown, Greater
    <3> QED BY <2>2, <3>1, <3>2 DEF CalmInv, ClockBehind
  <2> QED BY <2>1, <2>2
<1>3. ASSUME InBounds(bitrateKbps)
      PROVE  /\ InBounds(bitrateKbps')
             /\ bitrateKbps' \in bitrateKbps - bitratePolicy.step
                                   .. bitrateKbps + bitratePolicy.step
  <2>1. bitratePolicy' = bitratePolicy
    BY DEF BitrateService
  <2> QED BY <1>1, <1>3, <2>1, PolicyTypes
             DEF InBounds, NextBitrate, Smaller, Greater, CalmInv, ControllerTypes
<1> QED BY <1>2, <1>3

LEMMA NextIsCalm == CalmInv /\ [BitrateNext]_bitrateVars => [CalmChange]_bitrateVars
<1> SUFFICES ASSUME CalmInv, BitrateNext PROVE CalmChange
  OBVIOUS
<1>1. ASSUME NEW status, BitrateService(status) PROVE CalmChange
  BY <1>1, ServiceIsCalm
<1>2. ASSUME NEW kbps, BitrateChosen(kbps) PROVE CalmChange
  BY <1>2 DEF BitrateChosen, CalmChange
<1> QED BY <1>1, <1>2 DEF BitrateNext, BitrateTick, BitrateTargets, BitrateStart, BitrateBuild,
                          BitrateStop, BitrateSettings, bitrateController, CalmChange

\* Two changes of the bitrate by the controller are a cooldown apart in real
\* time, whenever targets are reconfigured and sessions end between them, and a
\* change from within the policy's bounds is at most a step and stays within
\* them, for every policy (AdaptiveBitrateController::update).
THEOREM StaysCalm == BitrateSpec => BitrateCalm
<1>1. BitrateSpec => []CalmInv
  BY InitCalm, NextCalm, PTL DEF BitrateSpec
<1>2. BitrateSpec => [][CalmChange]_bitrateVars
  BY <1>1, NextIsCalm, PTL DEF BitrateSpec
<1> QED BY <1>2 DEF BitrateCalm, CalmChange

-----------------------------------------------------------------------------
(* Types: chat.                                                            *)

Sent == {"message", "disconnect"}
WorkerPhases == {"none", "start", "connect", "drain", "post", "read", "poll", "sleep", "done"}

\* A moment has seen no more sends than there were.
ChatShape ==
  /\ chatPlatform \in ChatPlatforms
  /\ chatMade \in 0..MaxChats /\ chatHandle \in {0, chatMade}
  /\ chatNow \in 0..MaxChatTime
  /\ chatQueue \in [Handles -> Seq(Sent)] /\ chatStop \in [Handles -> BOOLEAN]
  /\ chatWorker \in [Handles -> WorkerPhases]
  /\ chatLeft \in [Handles -> 0..ChatQuota]
  /\ chatSends \in 0..MaxChatSends
  /\ chatMark \in [at : Nat, sends : 0..chatSends]

LEMMA InitChatShape == ChatInit => ChatShape
BY ChatAssumption, EmptySeq DEF ChatInit, ChatShape, WorkerPhases, Sent

LEMMA FarewellTypes ==
  ASSUME ChatShape
  PROVE  Stopped \in [Handles -> BOOLEAN] /\ Farewell \in [Handles -> Seq(Sent)]
<1>1. \A q \in Seq(Sent) : Append(q, "disconnect") \in Seq(Sent)
  BY AppendProperties DEF Sent
<1> QED BY <1>1 DEF ChatShape, Stopped, Farewell

LEMMA WorkerShape ==
  ASSUME ChatShape, NEW h \in Handles, ChatWorker(h) \/ ChatAnswered(h)
  PROVE  ChatShape'
<1>1. ASSUME NEW from, NEW to \in WorkerPhases, At(h, from, to)
      PROVE  /\ chatWorker' \in [Handles -> WorkerPhases]
             /\ UNCHANGED <<chatPlatform, chatHandle, chatMade, chatTokens, chatLast, chatNow,
                            chatStop, chatSends, chatMark>>
  BY <1>1 DEF At, ChatShape, chatLimiter
<1>2. SessionEnd(h) \in WorkerPhases
  BY DEF SessionEnd, WorkerPhases
<1>3. \E from : \E to \in WorkerPhases : At(h, from, to)
  BY <1>2 DEF ChatWorker, ChatAnswered, ChatStart, ChatConnected, ChatDrain, ChatPosted,
         ChatDrained, ChatRead, ChatPolled, ChatSlept, WorkerPhases
<1>4. /\ chatWorker' \in [Handles -> WorkerPhases]
      /\ UNCHANGED <<chatPlatform, chatHandle, chatMade, chatTokens, chatLast, chatNow,
                     chatStop, chatSends, chatMark>>
  BY <1>1, <1>3
<1>5. chatQueue' \in [Handles -> Seq(Sent)]
  <2>1. CASE UNCHANGED chatQueue
    BY <2>1 DEF ChatShape
  <2>2. CASE chatQueue[h] # <<>> /\ chatQueue' = [chatQueue EXCEPT ![h] = Tail(@)]
    <3>1. Tail(chatQueue[h]) \in Seq(Sent)
      BY <2>2, HeadTailProperties DEF ChatShape
    <3> QED BY <2>2, <3>1 DEF ChatShape
  <2> QED BY <2>1, <2>2 DEF ChatWorker, ChatAnswered, ChatStart, ChatConnected, ChatDrain, ChatPosted,
         ChatDrained, ChatRead, ChatPolled, ChatSlept
<1>6. chatLeft' \in [Handles -> 0..ChatQuota]
  <2>1. \/ UNCHANGED chatLeft
        \/ chatLeft[h] # 0 /\ chatLeft' = [chatLeft EXCEPT ![h] = @ - 1]
        \/ chatLeft' = [chatLeft EXCEPT ![h] = 0]
    BY DEF ChatWorker, ChatAnswered, ChatStart, ChatConnected, ChatDrain, ChatPosted,
         ChatDrained, ChatRead, ChatPolled, ChatSlept
  <2>2. /\ chatLeft \in [Handles -> 0..ChatQuota] /\ 0 \in 0..ChatQuota
        /\ chatLeft[h] # 0 => chatLeft[h] - 1 \in 0..ChatQuota
    BY ChatAssumption DEF ChatShape
  <2> QED BY <2>1, <2>2
<1> QED BY <1>4, <1>5, <1>6 DEF ChatShape

LEMMA NextChatShape == ChatShape /\ [ChatNext]_chatVars => ChatShape'
<1> SUFFICES ASSUME ChatShape, [ChatNext]_chatVars PROVE ChatShape'
  OBVIOUS
<1>1. CASE ChatTick
  BY <1>1, ChatAssumption DEF ChatTick, ChatShape, chatThreads
<1>2. CASE ChatMark
  BY <1>2, ChatAssumption DEF ChatMark, ChatShape, chatThreads
<1>3. CASE ChatConnect
  <2>1. chatWorker' \in [Handles -> WorkerPhases]
    BY <1>3 DEF ChatConnect, ChatShape, WorkerPhases
  <2>2. chatMade' \in 0..MaxChats /\ chatHandle' \in {0, chatMade'}
    BY <1>3, ChatAssumption DEF ChatConnect, ChatShape
  <2> QED BY <1>3, <2>1, <2>2, FarewellTypes, ChatAssumption DEF ChatConnect, ChatShape
<1>4. CASE ChatDisconnect
  BY <1>4, FarewellTypes DEF ChatDisconnect, ChatShape
<1>5. CASE ChatSendMessage
  <2>1. chatHandle \in Handles
    BY <1>5, ChatAssumption DEF ChatSendMessage, ChatShape, Handles
  <2>2. Append(chatQueue[chatHandle], "message") \in Seq(Sent)
    BY <2>1, AppendProperties DEF ChatShape, Sent
  <2>3. chatQueue' \in [Handles -> Seq(Sent)]
    BY <1>5, <2>1, <2>2 DEF ChatSendMessage, ChatShape
  <2>4. chatSends' = chatSends + 1 /\ chatSends' \in 0..MaxChatSends
    BY <1>5, ChatAssumption DEF ChatSendMessage, ChatShape
  <2>5. chatMark'.sends \in {chatMark.sends, chatMark.sends + 1}
    BY <1>5 DEF ChatSendMessage, ChatShape
  <2> QED BY <1>5, <2>3, <2>4, <2>5 DEF ChatSendMessage, ChatShape
<1>6. ASSUME NEW h \in Handles, ChatWorker(h) \/ ChatAnswered(h) PROVE ChatShape'
  BY <1>6, WorkerShape
<1>7. CASE UNCHANGED chatVars
  BY <1>7 DEF chatVars, chatThreads, ChatShape
<1> QED BY <1>1, <1>2, <1>3, <1>4, <1>5, <1>6, <1>7 DEF ChatNext

\* Every variable of the chat keeps its type.
LEMMA ChatTypeCorrect == ChatSpec => []ChatTypeOK
<1>1. LimiterInv /\ ChatShape => ChatTypeOK
  <2> SUFFICES ASSUME LimiterInv, ChatShape PROVE ChatTypeOK
    OBVIOUS
  <2>1. chatMark \in [at : 0..chatNow, sends : 0..MaxChatSends]
    BY ChatAssumption DEF LimiterInv, LimiterTypes, ChatShape
  <2> QED BY <2>1 DEF LimiterInv, LimiterTypes, ChatShape, ChatTypeOK, Sent, WorkerPhases
<1> QED BY <1>1, InitLimiter, NextLimiter, InitChatShape, NextChatShape, PTL DEF ChatSpec

-----------------------------------------------------------------------------
(* Types: adaptive bitrate.                                                *)

\* The encoder has the bitrate the engine believes it has, and there is none
\* without a session.
EncoderInv ==
  /\ bitrateHealth \in BOOLEAN
  /\ bitrateEncoder \in {-1, bitrateKbps}
  /\ ~bitrateHealth => bitrateEncoder = -1
  /\ bitratePending \in [status : {"Good", "Poor"}, count : 0..BitrateSamples]

LEMMA NoSampleTyped == NoSample \in [status : {"Good", "Poor"}, count : 0..BitrateSamples]
BY BitrateAssumption DEF NoSample

LEMMA InitEncoder == BitrateInit => EncoderInv
BY NoSampleTyped DEF BitrateInit, EncoderInv

LEMMA SampledTypes ==
  ASSUME EncoderInv, NEW status \in {"Good", "Poor"}
  PROVE  Sampled(status) \in [status : {"Good", "Poor"}, count : 0..BitrateSamples]
<1>1. bitratePending.count \in 0..BitrateSamples
  BY DEF EncoderInv
<1> DEFINE again == Smaller(bitratePending.count + 1, BitrateSamples)
<1>2. again \in 0..BitrateSamples /\ 1 \in 0..BitrateSamples
  BY <1>1, BitrateAssumption DEF Smaller
<1> HIDE DEF again
<1> QED BY <1>2 DEF Sampled, again

LEMMA NextEncoder == EncoderInv /\ [BitrateNext]_bitrateVars => EncoderInv'
<1> SUFFICES ASSUME EncoderInv, [BitrateNext]_bitrateVars PROVE EncoderInv'
  OBVIOUS
<1>1. CASE BitrateTick \/ BitrateTargets \/ BitrateStart \/ BitrateBuild \/ BitrateStop
  BY <1>1 DEF BitrateTick, BitrateTargets, BitrateStart, BitrateBuild, BitrateStop,
              bitrateController, EncoderInv
<1>2. ASSUME NEW p, BitrateSettings(p) PROVE EncoderInv'
  BY <1>2 DEF BitrateSettings, bitrateController, EncoderInv
<1>3. ASSUME NEW kbps, BitrateChosen(kbps) PROVE EncoderInv'
  BY <1>3 DEF BitrateChosen, EncoderInv
<1>4. ASSUME NEW status \in {"Good", "Poor", "other"}, BitrateService(status) PROVE EncoderInv'
  <2>1. bitratePending' = NoSample
        \/ (status \in {"Good", "Poor"} /\ bitratePending' = Sampled(status))
    BY <1>4 DEF BitrateService
  <2>2. bitratePending' \in [status : {"Good", "Poor"}, count : 0..BitrateSamples]
    BY <2>1, SampledTypes, NoSampleTyped
  <2>3. bitrateHealth /\ bitrateHealth' = bitrateHealth /\ bitrateEncoder' \in {-1, bitrateKbps'}
    BY <1>4 DEF BitrateService, EncoderInv
  <2> QED BY <2>2, <2>3 DEF EncoderInv
<1>5. CASE UNCHANGED bitrateVars
  BY <1>5 DEF bitrateVars, EncoderInv
<1> QED BY <1>1, <1>2, <1>3, <1>4, <1>5 DEF BitrateNext

\* Every variable of the bitrate's supervision keeps its type.
LEMMA BitrateTypeCorrect == BitrateSpec => []BitrateTypeOK
<1>1. CalmInv /\ EncoderInv => BitrateTypeOK
  BY DEF CalmInv, ControllerTypes, EncoderInv, BitrateTypeOK
<1> QED BY <1>1, InitCalm, NextCalm, InitEncoder, NextEncoder, PTL DEF BitrateSpec

-----------------------------------------------------------------------------
(* Types: the shared frame.                                                *)

\* The reader has seen no frame that was not begun; a length that was taken is
\* the number of pixels of some frame.
ReaderInv ==
  /\ sharedToWrite \subseteq SharedWords
  /\ sharedSizes \in [0..MaxSharedFrames -> SharedGeometries \cup {NoGeometry}]
  /\ sharedCopy \in [SharedWords -> -1..sharedFrames]
  /\ sharedPhase \in {"none", "header", "pixels", "rejected"}
  /\ sharedLength \in Nat /\ sharedReads \in 0..MaxSharedReads

LEMMA InitReader == SharedInit => ReaderInv
BY SharedAssumption DEF SharedInit, ReaderInv

LEMMA MemoryTypes ==
  ASSUME FrameInv
  PROVE  sharedMemory \in [SharedWords -> 0..sharedFrames]
BY DEF FrameInv

LEMMA NextReader == FrameInv /\ ReaderInv /\ [SharedNext]_sharedVars => ReaderInv'
<1> SUFFICES ASSUME FrameInv, ReaderInv, [SharedNext]_sharedVars PROVE ReaderInv'
  OBVIOUS
<1> USE DEF sharedReader, sharedWriter
<1>0. sharedFrames \in Nat /\ sharedFrames <= MaxSharedFrames /\ MaxSharedFrames \in Nat
  BY SharedAssumption DEF FrameInv
<1>1. ASSUME NEW g \in SharedGeometries, SharedBegin(g) PROVE ReaderInv'
  <2>1. sharedFrames' = sharedFrames + 1 /\ sharedCopy' \in [SharedWords -> -1..sharedFrames']
    BY <1>0, <1>1 DEF SharedBegin, ReaderInv
  <2>2. sharedSizes' \in [0..MaxSharedFrames -> SharedGeometries \cup {NoGeometry}]
    BY <1>0, <1>1 DEF SharedBegin, ReaderInv
  <2> QED BY <1>1, <2>1, <2>2 DEF SharedBegin, ReaderInv
<1>2. ASSUME NEW w \in SharedWords, SharedWrite(w) PROVE ReaderInv'
  BY <1>2 DEF SharedWrite, ReaderInv
<1>3. CASE SharedOpen
  BY <1>0, <1>3, SharedAssumption DEF SharedOpen, ReaderInv
<1>4. ASSUME NEW w \in SharedWords, SharedRead(w) PROVE ReaderInv'
  <2>1. sharedMemory[w] \in -1..sharedFrames
    BY <1>0, MemoryTypes
  <2> QED BY <1>4, <2>1 DEF SharedRead, ReaderInv
<1>5. CASE SharedCheck
  <2>1. sharedLength' \in Nat
    <3>1. sharedCopy["size"] \in 0..MaxSharedFrames
      BY <1>0, <1>5 DEF SharedCheck, ReaderInv, SharedWords
    <3>2. sharedSizes[sharedCopy["size"]] \in [width : Nat, height : Nat]
      BY <3>1 DEF FrameInv
    <3>3. \A m, n \in Nat : m * n \in Nat
      OBVIOUS
    <3>4. SharedPixels \in Nat
      BY <3>2, <3>3 DEF SharedPixels
    <3> QED BY <1>5, <3>4 DEF SharedCheck, ReaderInv
  <2> QED BY <1>5, <2>1 DEF SharedCheck, ReaderInv
<1>6. CASE UNCHANGED sharedVars
  BY <1>6 DEF sharedVars, ReaderInv
<1> QED BY <1>1, <1>2, <1>3, <1>4, <1>5, <1>6 DEF SharedNext

\* Every variable of the shared frame's two sides keeps its type.
LEMMA SharedTypeCorrect == SharedSpec => []SharedTypeOK
<1>1. FrameInv /\ ReaderInv => SharedTypeOK
  BY MemoryTypes, SharedAssumption DEF FrameInv, ReaderInv, SharedTypeOK
<1>2. SharedInit => FrameInv /\ ReaderInv
  BY InitFrame, InitReader
<1>3. FrameInv /\ ReaderInv /\ [SharedNext]_sharedVars => (FrameInv /\ ReaderInv)'
  BY NextFrame, NextReader
<1> QED BY <1>1, <1>2, <1>3, PTL DEF SharedSpec

-----------------------------------------------------------------------------
(* Types: the updater.                                                     *)

UiStates ==
  {"idle", "checking", "uptodate", "available", "noasset", "downloading", "downloaded",
   "installing", "installed", "error"}
Tasks == {"none", "check", "download", "fill", "verify", "install", "child"}
Releases == 0..MaxReleases

UpdaterShape ==
  /\ updaterLatest \in Releases
  /\ updaterUi \in [state : UiStates, release : Releases]
  /\ updaterThread \in [UpdaterThreads -> [task : Tasks, release : Releases]]
  /\ updaterClicks \subseteq {"check", "download", "install"}
  /\ updaterFile \in [release : Releases, state : {"none", "partial", "good", "bad"}]
  /\ updaterDog \in [phase : {"none", "wait", "grace", "msi"}, release : Releases]

LEMMA NothingTyped ==
  /\ NoThread \in [task : Tasks, release : Releases]
  /\ NoFile \in [release : Releases, state : {"none", "partial", "good", "bad"}]
  /\ NoDog \in [phase : {"none", "wait", "grace", "msi"}, release : Releases]
  /\ 0 \in Releases
BY UpdaterAssumption DEF NoThread, NoFile, NoDog, Tasks, Releases

LEMMA InitUpdater == UpdaterInit => UpdaterShape
BY NothingTyped DEF UpdaterInit, UpdaterShape, Ui, UiStates

LEMMA SpawnShape ==
  ASSUME UpdaterShape, NEW state \in UiStates, NEW task \in Tasks, NEW release \in Releases,
         Spawn(state, task, release)
  PROVE  /\ updaterUi' \in [state : UiStates, release : Releases]
         /\ updaterThread' \in [UpdaterThreads -> [task : Tasks, release : Releases]]
BY DEF UpdaterShape, Spawn, Ui

LEMMA FrameShape ==
  ASSUME UpdaterShape, NEW pressed, UpdaterFrame(pressed)
  PROVE  UpdaterShape'
<1>1. updaterUi.release \in Releases /\ 0 \in Releases
  BY NothingTyped DEF UpdaterShape
<1>2. updaterClicks \cup pressed \subseteq {"check", "download", "install"}
  BY DEF UpdaterFrame, Buttons, UpdaterShape
<1>3. updaterClicks' \subseteq {"check", "download", "install"}
  BY <1>2 DEF UpdaterFrame, HandleUpdateActions
<1>4. \/ UNCHANGED <<updaterUi, updaterThread>>
      \/ Spawn("checking", "check", 0)
      \/ Spawn("downloading", "download", updaterUi.release)
      \/ Spawn("installing", "install", updaterUi.release)
  BY DEF UpdaterFrame, HandleUpdateActions
<1>5. {"checking", "downloading", "installing"} \subseteq UiStates
      /\ {"check", "download", "install"} \subseteq Tasks
  BY DEF UiStates, Tasks
<1>6. /\ updaterUi' \in [state : UiStates, release : Releases]
      /\ updaterThread' \in [UpdaterThreads -> [task : Tasks, release : Releases]]
  BY <1>1, <1>4, <1>5, SpawnShape DEF UpdaterShape
<1> QED BY <1>3, <1>6 DEF UpdaterFrame, UpdaterShape

LEMMA EndsShape ==
  ASSUME UpdaterShape, NEW t \in UpdaterThreads, NEW state \in UiStates, NEW release \in Releases,
         Ends(t, state, release)
  PROVE  /\ updaterUi' \in [state : UiStates, release : Releases]
         /\ updaterThread' \in [UpdaterThreads -> [task : Tasks, release : Releases]]
BY NothingTyped DEF UpdaterShape, Ends, Ui

LEMMA BecomesShape ==
  ASSUME UpdaterShape, NEW t \in UpdaterThreads, NEW task \in Tasks, Becomes(t, task)
  PROVE  /\ updaterUi' \in [state : UiStates, release : Releases]
         /\ updaterThread' \in [UpdaterThreads -> [task : Tasks, release : Releases]]
<1>1. [updaterThread[t] EXCEPT !.task = task] \in [task : Tasks, release : Releases]
  BY DEF UpdaterShape
<1> QED BY <1>1 DEF UpdaterShape, Becomes

LEMMA ThreadShape ==
  ASSUME UpdaterShape, NEW t \in UpdaterThreads, UpdaterThreadStep(t)
  PROVE  UpdaterShape'
<1> DEFINE r == updaterThread[t].release
<1>1. r \in Releases /\ 0 \in Releases /\ updaterLatest \in Releases
  BY NothingTyped DEF UpdaterShape
<1>2. updaterLatest' = updaterLatest /\ updaterClicks' = updaterClicks
  BY DEF UpdaterThreadStep, UpdaterChecked, UpdaterDownload, UpdaterFill, UpdaterVerify,
         UpdaterInstall, UpdaterChild, Running
<1>3. \/ \E state \in UiStates, release \in Releases : Ends(t, state, release)
      \/ \E task \in Tasks : Becomes(t, task)
  BY <1>1 DEF UpdaterThreadStep, UpdaterChecked, UpdaterDownload, UpdaterFill, UpdaterVerify,
         UpdaterInstall, UpdaterChild, UiStates, Tasks
<1>4. /\ updaterUi' \in [state : UiStates, release : Releases]
      /\ updaterThread' \in [UpdaterThreads -> [task : Tasks, release : Releases]]
  BY <1>3, EndsShape, BecomesShape
<1>5. updaterFile' \in [release : Releases, state : {"none", "partial", "good", "bad"}]
  BY <1>1, NothingTyped DEF UpdaterShape, UpdaterThreadStep, UpdaterChecked, UpdaterDownload, UpdaterFill,
         UpdaterVerify, UpdaterInstall, UpdaterChild
<1>6. updaterDog' \in [phase : {"none", "wait", "grace", "msi"}, release : Releases]
  BY <1>1 DEF UpdaterShape, UpdaterThreadStep, UpdaterChecked, UpdaterDownload, UpdaterFill,
         UpdaterVerify, UpdaterInstall, UpdaterChild
<1> QED BY <1>2, <1>4, <1>5, <1>6 DEF UpdaterShape

LEMMA NextUpdater == UpdaterShape /\ [UpdaterNext]_updaterVars => UpdaterShape'
<1> SUFFICES ASSUME UpdaterShape, [UpdaterNext]_updaterVars PROVE UpdaterShape'
  OBVIOUS
<1>1. CASE UpdaterPublish
  <2>1. updaterLatest' \in Releases
    BY <1>1, UpdaterAssumption DEF UpdaterPublish, UpdaterShape, Releases
  <2> QED BY <1>1, <2>1 DEF UpdaterPublish, updaterGuiVars, UpdaterShape
<1>2. CASE UpdaterView
  BY <1>2 DEF UpdaterView, UpdaterShape
<1>3. CASE UpdaterQuit \/ UpdaterClose
  BY <1>3, NothingTyped DEF UpdaterQuit, UpdaterClose, UpdaterShape
<1>4. ASSUME NEW pressed, UpdaterFrame(pressed) PROVE UpdaterShape'
  BY <1>4, FrameShape
<1>5. ASSUME NEW t \in UpdaterThreads, UpdaterThreadStep(t) PROVE UpdaterShape'
  BY <1>5, ThreadShape
<1>6. CASE UpdaterDogWaits \/ UpdaterDogRuns
  <2>1. updaterDog' \in [phase : {"none", "wait", "grace", "msi"}, release : Releases]
    BY <1>6, NothingTyped DEF UpdaterDogWaits, UpdaterDogRuns, Dog, UpdaterShape
  <2> QED BY <1>6, <2>1 DEF UpdaterDogWaits, UpdaterDogRuns, Dog, updaterGuiVars, UpdaterShape
<1>7. CASE UNCHANGED updaterVars
  BY <1>7 DEF updaterVars, updaterGuiVars, UpdaterShape
<1> QED BY <1>1, <1>2, <1>3, <1>4, <1>5, <1>6, <1>7 DEF UpdaterNext

\* Every variable of the updater keeps its type.
LEMMA UpdaterTypeCorrect == UpdaterSpec => []UpdaterTypeOK
<1>1. UpdaterShape => UpdaterTypeOK
  BY DEF UpdaterShape, UpdaterTypeOK, UiStates, Tasks, Releases
<1> QED BY <1>1, InitUpdater, NextUpdater, PTL DEF UpdaterSpec

-----------------------------------------------------------------------------
(* Types: the crash records.                                               *)

Records == [at : 1..MaxCrashTime, intact : BOOLEAN]

\* There is a newest among the records that parse.
LEMMA LatestTypes ==
  ASSUME NEW files \in SUBSET Records
  PROVE  LatestRecord(files) \in 0..MaxCrashTime
<1> DEFINE intact == {f \in files : f.intact}
           ages == {MaxCrashTime - f.at : f \in intact}
<1>1. CASE intact = {}
  BY <1>1, CrashAssumption DEF LatestRecord, NoCrash
<1>2. CASE intact # {}
  <2>1. \A f \in intact : f.at \in 1..MaxCrashTime
    BY DEF Records
  <2>2. ages \in SUBSET Nat /\ ages # {}
    BY <1>2, <2>1, CrashAssumption
  <2>3. PICK m \in ages : \A k \in ages : m <= k
    BY <2>2, LeastNumber
  <2>4. PICK f \in intact : m = MaxCrashTime - f.at
    BY <2>3
  <2>5. \A g \in intact : g.at <= f.at
    BY <2>1, <2>3, <2>4, CrashAssumption
  <2> DEFINE latest == CHOOSE g \in intact : \A h \in intact : h.at <= g.at
  <2>6. latest \in intact
    BY <2>5
  <2>7. latest.at \in 0..MaxCrashTime
    BY <2>1, <2>6
  <2> QED BY <1>2, <2>7 DEF LatestRecord
<1> QED BY <1>1, <1>2

LEMMA InitCrash == CrashInit => CrashTypeOK
<1> SUFFICES ASSUME CrashInit PROVE CrashTypeOK
  OBVIOUS
<1>1. {crashRunning, crashRequested, crashReported, crashClockBack} \subseteq BOOLEAN
  BY DEF CrashInit
<1>2. /\ crashFiles = {} /\ crashClock \in 1..MaxCrashTime /\ crashes \in 0..MaxCrashes
      /\ crashPending \in 0..MaxCrashTime /\ crashDue \in 0..MaxCrashTime
  BY CrashAssumption DEF CrashInit, NoCrash
<1> QED BY <1>1, <1>2 DEF CrashTypeOK

LEMMA NextCrash == CrashTypeOK /\ [CrashNext]_crashVars => CrashTypeOK'
<1> SUFFICES ASSUME CrashTypeOK, [CrashNext]_crashVars PROVE CrashTypeOK'
  OBVIOUS
<1>1. /\ crashRunning \in BOOLEAN /\ crashRequested \in BOOLEAN /\ crashReported \in BOOLEAN
      /\ crashClockBack \in BOOLEAN
  BY DEF CrashTypeOK
<1>2. {crashRunning', crashRequested', crashReported', crashClockBack'} \subseteq BOOLEAN
  BY <1>1 DEF CrashNext, CrashTick, CrashClockSetBack, CrashLaunch, CrashQuit, CrashPanic,
              RequestCrashReport, ReconcileCrashReport, crashVars
<1>3. crashFiles \in SUBSET Records /\ crashClock \in 1..MaxCrashTime
  BY DEF CrashTypeOK, Records
<1>4. crashClock' \in 1..MaxCrashTime
  <2>1. \/ crashClock' = crashClock
        \/ crashClock < MaxCrashTime /\ crashClock' = crashClock + 1
        \/ crashClock > 1 /\ crashClock' = crashClock - 1
    BY DEF CrashNext, CrashTick, CrashClockSetBack, CrashLaunch, CrashQuit, CrashPanic,
           RequestCrashReport, ReconcileCrashReport, crashVars
  <2> QED BY <1>3, <2>1, CrashAssumption
<1>5. crashFiles' \in SUBSET Records
  <2>1. ASSUME NEW intact \in BOOLEAN PROVE CrashWritten(crashFiles, intact) \in SUBSET Records
    BY <1>3 DEF CrashWritten, Records
  <2>2. Rotated(CrashWritten(crashFiles, TRUE)) \in SUBSET Records
    BY <2>1 DEF Rotated
  <2> QED BY <1>3, <2>1, <2>2 DEF CrashNext, CrashTick, CrashClockSetBack, CrashLaunch, CrashQuit,
              CrashPanic, RequestCrashReport, ReconcileCrashReport, crashVars
<1>6. LatestRecord(crashFiles) \in 0..MaxCrashTime /\ LatestRecord(crashFiles') \in 0..MaxCrashTime
  BY <1>3, <1>5, LatestTypes
<1>7. crashPending' \in 0..MaxCrashTime /\ crashDue' \in 0..MaxCrashTime
  <2>1. /\ NoCrash \in 0..MaxCrashTime /\ crashClock \in 0..MaxCrashTime
        /\ crashPending \in 0..MaxCrashTime /\ crashDue \in 0..MaxCrashTime
    BY <1>3, CrashAssumption DEF CrashTypeOK, NoCrash
  <2>2. /\ crashPending' \in {crashPending, NoCrash, LatestRecord(crashFiles)}
        /\ crashDue' \in {crashDue, crashClock, LatestRecord(crashFiles')}
    BY DEF CrashNext, CrashTick, CrashClockSetBack, CrashLaunch, CrashQuit,
           CrashPanic, RequestCrashReport, ReconcileCrashReport, crashVars
  <2> QED BY <1>6, <2>1, <2>2
<1>8. crashes' \in 0..MaxCrashes
  <2>1. \/ crashes' = crashes
        \/ crashes < MaxCrashes /\ crashes' = crashes + 1
    BY DEF CrashNext, CrashTick, CrashClockSetBack, CrashLaunch, CrashQuit,
           CrashPanic, RequestCrashReport, ReconcileCrashReport, crashVars
  <2> QED BY <2>1, CrashAssumption DEF CrashTypeOK
<1> QED BY <1>2, <1>4, <1>5, <1>7, <1>8 DEF CrashTypeOK, Records

\* Every variable of the crash records keeps its type.
LEMMA CrashTypeCorrect == CrashSpec => []CrashTypeOK
BY InitCrash, NextCrash, PTL DEF CrashSpec

-----------------------------------------------------------------------------
(* Types: the alert feed.                                                  *)

Phases == {"frame", "hook", "apply", "join", "eventsub", "show"}
Starts == 0..MaxAlertEdits
Posts == [phase : {"none", "read", "send"}, server : Starts]
Steps == {"dial", "connect", "greet", "post", "read", "send", "sleep", "done"}
WorkerStates == [phase : Steps, stop : BOOLEAN]
Counted == [source : Sources, suppressed : Nat \ {0}]
Windows == [old : BOOLEAN, used : 0..AlertBudget, pending : Nat]
Bounds == [alerts : 0..MaxAlerts, windows : 0..MaxWindows, edits : Starts]

\* A transport was started with settings there were; a window's count stays
\* within the budget, and a notice counts an alert at least.
TransportTypes ==
  /\ alertPc \in Phases
  /\ alertWanted \in [Sources -> Starts] /\ alertApplied \in [Sources -> Starts]
  /\ alertChan \in [Sources -> 0..AlertChannel]
  /\ alertPost \in [AlertPosts -> Posts]
  /\ alertWorker \in WorkerStates
  /\ alertUsed \in Bounds
IngestTypes ==
  /\ alertQueue \in Nat
  /\ alertNotices \in Seq(Counted)
  /\ alertWindow \in [Sources -> Windows]

LEMMA InitAlertTypes == AlertInit => TransportTypes /\ IngestTypes /\ alertOn \in BOOLEAN
<1> SUFFICES ASSUME AlertInit PROVE TransportTypes /\ IngestTypes /\ alertOn \in BOOLEAN
  OBVIOUS
<1>1. TransportTypes
  BY AlertAssumption DEF AlertInit, TransportTypes, Phases, Starts, Posts, Steps, WorkerStates, Bounds,
                         NoPost
<1>2. [old |-> TRUE, used |-> 0, pending |-> 0] \in Windows
  BY AlertAssumption DEF Windows
<1>3. IngestTypes
  BY <1>2, EmptySeq DEF AlertInit, IngestTypes
<1> QED BY <1>1, <1>3 DEF AlertInit

LEMMA PushTypes ==
  ASSUME IngestTypes, NEW s \in Sources, PushFrom(s)
  PROVE  IngestTypes'
<1> DEFINE w == IF alertWindow[s].old THEN [old |-> FALSE, used |-> 0, pending |-> 0]
                ELSE alertWindow[s]
           over == w.used >= AlertBudget
<1>1. alertWindow[s] \in Windows /\ AlertBudget \in Nat \ {0}
  BY AlertAssumption DEF IngestTypes
<1>2. w \in Windows
  BY <1>1 DEF Windows
<1>3. /\ alertWindow' = [alertWindow EXCEPT ![s] =
           IF over THEN [w EXCEPT !.pending = @ + 1] ELSE [w EXCEPT !.used = @ + 1]]
      /\ alertQueue' = IF over THEN alertQueue ELSE alertQueue + 1
      /\ alertNotices' =
           IF ~over THEN alertNotices
           ELSE IF w.pending = 0 THEN Append(alertNotices, [source |-> s, suppressed |-> 1])
           ELSE [i \in DOMAIN alertNotices |->
                   IF i \in Newest(s) THEN [alertNotices[i] EXCEPT !.suppressed = w.pending + 1]
                   ELSE alertNotices[i]]
  BY DEF PushFrom
<1> HIDE DEF w
<1>4. alertWindow' \in [Sources -> Windows]
  <2>1. over => [w EXCEPT !.pending = @ + 1] \in Windows
    BY <1>2 DEF Windows
  <2>2. ~over => [w EXCEPT !.used = @ + 1] \in Windows
    BY <1>1, <1>2 DEF Windows
  <2> QED BY <1>3, <2>1, <2>2 DEF IngestTypes
<1>5. alertNotices' \in Seq(Counted)
  <2>1. CASE ~over
    BY <1>3, <2>1 DEF IngestTypes
  <2>2. CASE over /\ w.pending = 0
    <3>1. [source |-> s, suppressed |-> 1] \in Counted
      BY DEF Counted
    <3> QED BY <1>3, <2>2, <3>1, AppendProperties DEF IngestTypes
  <2>3. CASE over /\ w.pending # 0
    <3>1. w.pending + 1 \in Nat \ {0}
      BY <1>2 DEF Windows
    <3> DEFINE n == Len(alertNotices)
    <3>2. n \in Nat /\ DOMAIN alertNotices = 1..n /\ \A i \in 1..n : alertNotices[i] \in Counted
      BY LenProperties, ElementOfSeq DEF IngestTypes
    <3>3. \A i \in 1..n : [alertNotices[i] EXCEPT !.suppressed = w.pending + 1] \in Counted
      BY <3>1, <3>2 DEF Counted
    <3> HIDE DEF n
    <3>4. alertNotices' \in [1..n -> Counted]
      BY <1>3, <2>3, <3>2, <3>3
    <3> QED BY <3>2, <3>4, SeqDef
  <2> QED BY <2>1, <2>2, <2>3
<1> QED BY <1>3, <1>4, <1>5 DEF IngestTypes

LEMMA NextIngest == IngestTypes /\ [AlertNext]_alertVars => IngestTypes'
<1> SUFFICES ASSUME IngestTypes, [AlertNext]_alertVars PROVE IngestTypes'
  OBVIOUS
<1>1. ASSUME UNCHANGED alertIngest PROVE IngestTypes'
  BY <1>1 DEF alertIngest, IngestTypes
<1>2. CASE AlertTime
  <2>1. \A s \in Sources : [alertWindow[s] EXCEPT !.old = TRUE] \in Windows
    BY DEF IngestTypes, Windows
  <2> QED BY <1>2, <2>1 DEF AlertTime, IngestTypes
<1>3. CASE AlertPolicy
  BY <1>3 DEF AlertPolicy, IngestTypes
<1>4. CASE AlertShow
  BY <1>4, EmptySeq DEF AlertShow, IngestTypes
<1>5. ASSUME NEW s \in Sources, AlertTake(s) PROVE IngestTypes'
  BY <1>1, <1>5, PushTypes DEF AlertTake
<1>6. CASE AlertApplyHook \/ AlertApplyEventsub \/ AlertJoined
  BY <1>1, <1>6 DEF AlertApplyHook, AlertApplyEventsub, AlertJoined
<1>7. CASE AlertWorker \/ AlertAnswered \/ AlertWelcomed \/ AlertSessionEnds \/ AlertNotified
  BY <1>1, <1>7 DEF AlertWorker, AlertAnswered, AlertDial, AlertConnected,
                    AlertWelcomed, AlertSubscribed, AlertStopped, AlertSlept,
                    AlertSent, AlertSessionEnds, AlertNotified, Reading
<1>8. ASSUME NEW s \in Sources, AlertTaken(s) \/ AlertSettings(s) PROVE IngestTypes'
  BY <1>1, <1>8 DEF AlertTaken, AlertSettings
<1>9. ASSUME NEW p \in AlertPosts, AlertPosted(p) \/ AlertPost(p) PROVE IngestTypes'
  BY <1>1, <1>9 DEF AlertPosted, AlertPost, AlertHandled, AlertDelivered, SetPost
<1>10. CASE UNCHANGED alertVars
  BY <1>1, <1>10 DEF alertVars
<1> QED BY <1>2, <1>3, <1>4, <1>5, <1>6, <1>7, <1>8, <1>9, <1>10 DEF AlertNext, AlertFrame

LEMMA SpendTypes ==
  ASSUME alertUsed \in Bounds, NEW b \in {"alerts", "windows", "edits"}, Spend(b),
         b = "alerts" => alertUsed.alerts < MaxAlerts,
         b = "windows" => alertUsed.windows < MaxWindows,
         b = "edits" => alertUsed.edits < MaxAlertEdits
  PROVE  alertUsed' \in Bounds
<1>1. /\ alertUsed.alerts \in 0..MaxAlerts /\ alertUsed.windows \in 0..MaxWindows
      /\ alertUsed.edits \in 0..MaxAlertEdits
  BY DEF Bounds, Starts
<1> QED BY <1>1, AlertAssumption DEF Spend, Bounds, Starts

LEMMA WorkerTypes ==
  ASSUME TransportTypes, NEW from, NEW to \in Steps,
         Worker(from, to)
  PROVE  alertWorker' \in WorkerStates
BY DEF TransportTypes, Worker, WorkerStates

LEMMA PostTypes ==
  ASSUME TransportTypes, NEW p \in AlertPosts, NEW r \in Posts, SetPost(p, r)
  PROVE  /\ alertPost' \in [AlertPosts -> Posts]
         /\ UNCHANGED <<alertPc, alertWanted, alertApplied, alertWorker, alertOn>>
BY DEF TransportTypes, SetPost

LEMMA ChannelTypes ==
  ASSUME TransportTypes, NEW s \in Sources,
         \/ alertChan' = [alertChan EXCEPT ![s] = 0]
         \/ alertChan[s] > 0 /\ alertChan' = [alertChan EXCEPT ![s] = @ - 1]
         \/ alertChan[s] < AlertChannel /\ alertChan' = [alertChan EXCEPT ![s] = @ + 1]
  PROVE  alertChan' \in [Sources -> 0..AlertChannel]
<1>1. /\ alertChan[s] \in 0..AlertChannel /\ 0 \in 0..AlertChannel
      /\ alertChan[s] > 0 => alertChan[s] - 1 \in 0..AlertChannel
      /\ alertChan[s] < AlertChannel => alertChan[s] + 1 \in 0..AlertChannel
  BY AlertAssumption DEF TransportTypes
<1> QED BY <1>1 DEF TransportTypes

LEMMA StartTypes ==
  ASSUME TransportTypes, StartEventsub
  PROVE  /\ alertApplied' \in [Sources -> Starts] /\ alertWorker' \in WorkerStates
         /\ alertChan' \in [Sources -> 0..AlertChannel]
<1>1. "eventsub" \in Sources
  BY DEF Sources
<1>2. alertChan' \in [Sources -> 0..AlertChannel]
  BY <1>1, ChannelTypes DEF StartEventsub
<1> QED BY <1>1, <1>2 DEF StartEventsub, TransportTypes, Steps, WorkerStates

LEMMA NextTransport == TransportTypes /\ [AlertNext]_alertVars => TransportTypes'
<1> SUFFICES ASSUME TransportTypes, [AlertNext]_alertVars PROVE TransportTypes'
  OBVIOUS
<1> USE DEF alertTransport
<1>0. alertUsed \in Bounds /\ "hook" \in Sources /\ "eventsub" \in Sources /\ 0 \in Starts
  BY AlertAssumption DEF TransportTypes, Sources, Starts
<1>1. CASE AlertTime \/ AlertPolicy
  BY <1>0, <1>1, SpendTypes DEF AlertTime, AlertPolicy, TransportTypes
<1>2. ASSUME NEW s \in Sources, AlertSettings(s) PROVE TransportTypes'
  <2>1. alertUsed.edits + 1 \in Starts
    BY <1>0, <1>2, AlertAssumption DEF AlertSettings, Bounds, Starts
  <2>2. alertWanted' \in [Sources -> Starts] /\ alertUsed' \in Bounds
    BY <1>0, <1>2, <2>1, SpendTypes DEF AlertSettings, TransportTypes
  <2> QED BY <1>2, <2>2 DEF AlertSettings, TransportTypes
<1>3. CASE AlertApplyHook
  <2>1. /\ alertApplied' \in [Sources -> Starts]
        /\ alertChan' = alertChan \/ alertChan' = [alertChan EXCEPT !["hook"] = 0]
    BY <1>0, <1>3 DEF AlertApplyHook, TransportTypes
  <2>2. alertChan' \in [Sources -> 0..AlertChannel]
    BY <1>0, <2>1, ChannelTypes DEF TransportTypes
  <2> QED BY <1>3, <2>1, <2>2 DEF AlertApplyHook, TransportTypes, Phases
<1>4. ASSUME NEW s \in Sources, AlertTake(s) PROVE TransportTypes'
  <2>1. alertChan' \in [Sources -> 0..AlertChannel]
    BY <1>4, ChannelTypes DEF AlertTake
  <2> QED BY <1>4, <2>1 DEF AlertTake, TransportTypes
<1>5. ASSUME NEW s \in Sources, AlertTaken(s) PROVE TransportTypes'
  BY <1>5 DEF AlertTaken, TransportTypes, Phases
<1>6. CASE AlertApplyEventsub
  <2>1. /\ alertPc' \in Phases
        /\ UNCHANGED <<alertWanted, alertPost, alertUsed>>
    BY <1>6 DEF AlertApplyEventsub, Phases
  <2>2. \/ StartEventsub
        \/ /\ UNCHANGED <<alertApplied, alertChan>>
           /\ alertWorker' = alertWorker \/ alertWorker' = [alertWorker EXCEPT !.stop = TRUE]
    BY <1>6 DEF AlertApplyEventsub
  <2>3. /\ alertApplied' \in [Sources -> Starts] /\ alertWorker' \in WorkerStates
        /\ alertChan' \in [Sources -> 0..AlertChannel]
    BY <2>2, StartTypes DEF TransportTypes, WorkerStates
  <2> QED BY <2>1, <2>3 DEF TransportTypes
<1>7. CASE AlertJoined
  BY <1>7, StartTypes DEF AlertJoined, TransportTypes, Phases
<1>8. CASE AlertShow
  BY <1>8 DEF AlertShow, TransportTypes, Phases
<1>9. CASE AlertWorker \/ AlertAnswered \/ AlertWelcomed \/ AlertSessionEnds \/ AlertNotified
  <2>1. \E from : \E to \in Steps : Worker(from, to)
    BY <1>9 DEF AlertWorker, AlertAnswered, AlertDial, AlertConnected,
                AlertWelcomed, AlertSubscribed, AlertStopped, AlertSlept,
                AlertSent, AlertSessionEnds, AlertNotified, Reading, Steps
  <2>2. alertWorker' \in WorkerStates
    BY <2>1, WorkerTypes
  <2>3. alertUsed' \in Bounds
    BY <1>0, <1>9, SpendTypes DEF AlertWorker, AlertAnswered, AlertDial, AlertConnected,
                                  AlertWelcomed, AlertSubscribed, AlertStopped, AlertSlept,
                                  AlertSent, AlertSessionEnds, AlertNotified, Reading
  <2>4. \/ alertChan' = alertChan
        \/ /\ alertChan["eventsub"] < AlertChannel
           /\ alertChan' = [alertChan EXCEPT !["eventsub"] = @ + 1]
    BY <1>9 DEF AlertWorker, AlertAnswered, AlertDial, AlertConnected,
                AlertWelcomed, AlertSubscribed, AlertStopped, AlertSlept,
                AlertSent, AlertSessionEnds, AlertNotified, Reading
  <2>5. alertChan' \in [Sources -> 0..AlertChannel]
    BY <1>0, <2>4, ChannelTypes DEF TransportTypes
  <2>6. UNCHANGED <<alertPc, alertWanted, alertApplied, alertPost>>
    BY <1>9 DEF AlertWorker, AlertAnswered, AlertDial, AlertConnected,
                AlertWelcomed, AlertSubscribed, AlertStopped, AlertSlept,
                AlertSent, AlertSessionEnds, AlertNotified, Reading
  <2> QED BY <2>2, <2>3, <2>5, <2>6 DEF TransportTypes
<1>10. ASSUME NEW p \in AlertPosts, AlertPosted(p) \/ AlertPost(p) PROVE TransportTypes'
  <2>1. \E r \in Posts : SetPost(p, r)
    <3>1. alertPost[p] \in Posts /\ alertApplied["hook"] \in Starts
      BY <1>0 DEF TransportTypes
    <3>2. /\ NoPost \in Posts /\ [alertPost[p] EXCEPT !.phase = "send"] \in Posts
          /\ [phase |-> "read", server |-> alertApplied["hook"]] \in Posts
      BY <1>0, <3>1 DEF NoPost, Posts
    <3> QED BY <1>10, <3>2 DEF AlertPosted, AlertPost, AlertHandled, AlertDelivered
  <2>2. /\ alertPost' \in [AlertPosts -> Posts]
        /\ UNCHANGED <<alertPc, alertWanted, alertApplied, alertWorker, alertOn>>
    BY <2>1, PostTypes
  <2>3. alertUsed' \in Bounds
    BY <1>0, <1>10, SpendTypes DEF AlertPosted, AlertPost, AlertHandled, AlertDelivered
  <2>4. \/ alertChan' = alertChan
        \/ alertChan["hook"] < AlertChannel /\ alertChan' = [alertChan EXCEPT !["hook"] = @ + 1]
    BY <1>10 DEF AlertPosted, AlertPost, AlertHandled, AlertDelivered
  <2>5. alertChan' \in [Sources -> 0..AlertChannel]
    BY <1>0, <2>4, ChannelTypes DEF TransportTypes
  <2> QED BY <2>2, <2>3, <2>5 DEF TransportTypes
<1>11. CASE UNCHANGED alertVars
  BY <1>11 DEF alertVars, TransportTypes
<1> QED BY <1>1, <1>2, <1>3, <1>4, <1>5, <1>6, <1>7, <1>8, <1>9, <1>10, <1>11
        DEF AlertNext, AlertFrame

LEMMA NextOn == alertOn \in BOOLEAN /\ [AlertNext]_alertVars => (alertOn \in BOOLEAN)'
<1> SUFFICES ASSUME alertOn \in BOOLEAN, [AlertNext]_alertVars PROVE alertOn' \in BOOLEAN
  OBVIOUS
<1>1. alertOn' = alertOn \/ alertOn' = ~alertOn
  BY DEF AlertNext, AlertFrame, AlertTime, AlertPolicy, AlertApplyHook, AlertApplyEventsub,
         AlertJoined, AlertShow, AlertTake, AlertTaken, AlertWorker, AlertAnswered, AlertDial, AlertConnected,
                                                        AlertWelcomed, AlertSubscribed, AlertStopped, AlertSlept,
                                                        AlertSent, AlertSessionEnds, AlertNotified, Reading, AlertSettings, AlertPosted,
         AlertPost, AlertHandled, AlertDelivered, SetPost, alertVars
<1> QED BY <1>1

\* Every variable of the alert feed keeps its type.
LEMMA AlertTypeCorrect == AlertSpec => []AlertTypeOK
<1>1. SuppressInv /\ TransportTypes /\ IngestTypes /\ alertOn \in BOOLEAN => AlertTypeOK
  BY DEF SuppressInv, TransportTypes, IngestTypes, AlertTypeOK, Phases, Starts, Posts,
         Steps, WorkerStates, Counted, Windows, Bounds
<1> QED BY <1>1, InitSuppress, NextSuppress, InitAlertTypes, NextIngest, NextTransport, NextOn,
           PTL DEF AlertSpec

-----------------------------------------------------------------------------
(* The components side by side.                                            *)

\* Side by side, each component starts and steps as it does alone.
LEMMA PartsRunAlone ==
  PartsSpec => /\ ObsSpec /\ AlertSpec /\ ReplaySpec /\ ChatSpec /\ BitrateSpec
               /\ SharedSpec /\ UpdaterSpec /\ SceneSpec /\ CrashSpec
<1>1. PartsInit => /\ ObsInit /\ AlertInit /\ ReplayInit /\ ChatInit /\ BitrateInit
                   /\ SharedInit /\ UpdaterInit /\ SceneInit /\ CrashInit
  BY DEF PartsInit
<1>2. [PartsNext]_allVars =>
        /\ [ObsNext]_obsVars /\ [AlertNext]_alertVars /\ [ReplayNext]_replayVars
        /\ [ChatNext]_chatVars /\ [BitrateNext]_bitrateVars /\ [SharedNext]_sharedVars
        /\ [UpdaterNext]_updaterVars /\ [SceneNext]_sceneVars /\ [CrashNext]_crashVars
  BY DEF PartsNext, allVars
<1> QED BY <1>1, <1>2, PTL
        DEF PartsSpec, ObsSpec, AlertSpec, ReplaySpec, ChatSpec, BitrateSpec, SharedSpec,
            UpdaterSpec, SceneSpec, CrashSpec

\* Every variable of every component keeps its type, for any number of
\* sessions, alerts, packets, messages, frames, releases, scenes and crashes,
\* whichever component runs; in particular the encoder has the bitrate the
\* engine believes it has, and a scene's history names scenes that exist.
THEOREM ComponentsTypeCorrect == PartsSpec => []ComponentsTypeOK
<1>1. PartsSpec => [](part \in Parts)
  <2>1. PartsInit => part \in Parts
    BY DEF PartsInit
  <2>2. part \in Parts /\ [PartsNext]_allVars => (part \in Parts)'
    BY DEF PartsNext, allVars
  <2> QED BY <2>1, <2>2, PTL DEF PartsSpec
<1>2. /\ part \in Parts
      /\ ObsTypeOK /\ AlertTypeOK /\ ReplayTypeOK /\ ChatTypeOK /\ BitrateTypeOK
      /\ SharedTypeOK /\ UpdaterTypeOK /\ SceneTypeOK /\ CrashTypeOK
      => ComponentsTypeOK
  BY DEF ComponentsTypeOK
<1> QED BY <1>1, <1>2, PartsRunAlone, ObsTypeCorrect, AlertTypeCorrect, ReplayTypeCorrect,
           ChatTypeCorrect, BitrateTypeCorrect, SharedTypeCorrect, UpdaterTypeCorrect,
           SceneTypeCorrect, CrashTypeCorrect, PTL

\* Whatever the components promise alone they promise side by side, which is
\* how they are run: the safety of the server's clients and commands, of alerts,
\* clips, the chat's rate, shared frames, installations, scenes and crash
\* records, and of every change of the bitrate.
THEOREM ComponentsStaySafe ==
  PartsSpec => /\ [](/\ ClientsInSync /\ NoStaleCommand /\ OneNoticePerBurst
                     /\ ReplayCovers /\ ReplayWithinWindow /\ ChatBurstBounded
                     /\ AcceptedGeometry /\ InstallsVerified /\ ScenesSound /\ CrashOffered)
               /\ BitrateCalm
BY PartsRunAlone, ClientsLearnTheTruth, CommandsEndWithServer, BurstHasOneNotice, ClipCovers,
   StaysInWindow, BurstBounded, FrameIsWhole, OnlyVerifiedInstalled, ScenesStaySound,
   CrashIsOffered, StaysCalm, PTL
=============================================================================
