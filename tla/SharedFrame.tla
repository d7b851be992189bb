------------------------------ MODULE SharedFrame ------------------------------
(***************************************************************************)
(* The frame that the Vulkan layer inside a game hands to Rivulet through  *)
(* shared memory: write_frame_to_shm (rivulet-vulkan-layer/src/lib.rs) and *)
(* ShmReader::read_frame (rivulet-core/src/capture_channel.rs).  The two   *)
(* processes share no lock.  Both copy the header word by word in an order *)
(* the source does not fix, and the writer may overtake the reader.        *)
(*                                                                         *)
(* A word of the memory holds the number of the frame it was written for,  *)
(* 0 for the zeros of a new region.  The layer's mutex lets one frame be   *)
(* written at a time.  Sizes are counted in pixels; the pixels themselves, *)
(* which nothing validates, and the constant words are left out.           *)
(***************************************************************************)
EXTENDS Integers

CONSTANTS SharedGeometries,  \* sizes of the captured window
          SharedSize,        \* pixels the reader's mapping has room for
          SharedLargest,     \* MAX_PIXEL_BYTES, in pixels
          MaxSharedFrames,   \* bound: frames written
          MaxSharedReads     \* bound: frames read

ASSUME SharedAssumption ==
  /\ SharedGeometries \subseteq [width : Nat \ {0}, height : Nat \ {0}]
  /\ SharedSize \in Nat /\ SharedLargest \in Nat
  /\ MaxSharedFrames \in Nat /\ MaxSharedReads \in Nat

SharedWords == {"magic", "width", "height", "size"}

VARIABLES
  sharedFrames,   \* the number of the frame written last, or being written
  sharedSizes,    \* the geometry of each frame
  sharedMemory,   \* the header's words in shared memory
  sharedToWrite,  \* the words the writer has still to copy
  sharedCopy,     \* the words in the reader's FrameHeader; -1: not read yet
  sharedPhase,    \* the reader: "none", "header", "pixels", "rejected"
  sharedLength,   \* how many pixels it copies
  sharedOldest,   \* history: the oldest frame a word of it may come from
  sharedReads

sharedWriter == <<sharedFrames, sharedSizes, sharedMemory, sharedToWrite>>
sharedReader == <<sharedCopy, sharedPhase, sharedLength, sharedOldest, sharedReads>>
sharedVars   == <<sharedWriter, sharedReader>>

NoGeometry == [width |-> 0, height |-> 0]

SharedInit ==
  /\ sharedFrames = 0 /\ sharedToWrite = {}
  /\ sharedSizes = [f \in 0..MaxSharedFrames |-> NoGeometry]
  /\ sharedMemory = [w \in SharedWords |-> 0]
  /\ sharedCopy = [w \in SharedWords |-> -1]
  /\ sharedPhase = "none" /\ sharedLength = 0 /\ sharedOldest = 0 /\ sharedReads = 0

-----------------------------------------------------------------------------
(* The writer: write_frame_to_shm.                                         *)

SharedBegin(g) ==
  /\ sharedToWrite = {} /\ sharedFrames < MaxSharedFrames
  /\ sharedFrames' = sharedFrames + 1
  /\ sharedSizes' = [sharedSizes EXCEPT ![sharedFrames + 1] = g]
  /\ sharedToWrite' = SharedWords
  /\ UNCHANGED <<sharedMemory, sharedReader>>

SharedWrite(w) ==
  /\ w \in sharedToWrite
  /\ sharedMemory' = [sharedMemory EXCEPT ![w] = sharedFrames]
  /\ sharedToWrite' = sharedToWrite \ {w}
  /\ UNCHANGED <<sharedFrames, sharedSizes, sharedReader>>

-----------------------------------------------------------------------------
(* The reader: read_frame.                                                 *)

SharedOpen ==
  /\ sharedPhase # "header" /\ sharedReads < MaxSharedReads
  /\ sharedReads' = sharedReads + 1
  /\ sharedPhase' = "header" /\ sharedLength' = 0
  /\ sharedCopy' = [w \in SharedWords |-> -1]
  /\ sharedOldest' = IF sharedToWrite = {} THEN sharedFrames ELSE sharedFrames - 1
  /\ UNCHANGED sharedWriter

\* FrameHeader::from_bytes
SharedRead(w) ==
  /\ sharedPhase = "header" /\ sharedCopy[w] = -1
  /\ sharedCopy' = [sharedCopy EXCEPT ![w] = sharedMemory[w]]
  /\ UNCHANGED <<sharedWriter, sharedPhase, sharedLength, sharedOldest, sharedReads>>

SharedWidth  == sharedSizes[sharedCopy["width"]].width
SharedHeight == sharedSizes[sharedCopy["height"]].height
SharedPixels == sharedSizes[sharedCopy["size"]].width * sharedSizes[sharedCopy["size"]].height

\* Mutant: data_size need only fit, not agree with the geometry.
PlausibleSize ==
  /\ sharedCopy["magic"] # 0
  /\ SharedWidth # 0 /\ SharedHeight # 0
  /\ SharedPixels <= SharedLargest
  /\ SharedPixels <= SharedSize

\* The magic, and is_plausible, on the reader's own copy of the header.
Plausible ==
  /\ sharedCopy["magic"] # 0
  /\ SharedWidth # 0 /\ SharedHeight # 0
  /\ SharedWidth * SharedHeight = SharedPixels
  /\ SharedPixels <= SharedLargest
  /\ SharedPixels <= SharedSize

\* The header is taken, and the pixels are copied, or the read gives None.
SharedCheck ==
  /\ sharedPhase = "header" /\ \A w \in SharedWords : sharedCopy[w] # -1
  /\ IF Plausible
     THEN sharedPhase' = "pixels" /\ sharedLength' = SharedPixels
     ELSE sharedPhase' = "rejected" /\ UNCHANGED sharedLength
  /\ UNCHANGED <<sharedWriter, sharedCopy, sharedOldest, sharedReads>>

SharedNext ==
  \/ \E g \in SharedGeometries : SharedBegin(g)
  \/ \E w \in SharedWords : SharedWrite(w) \/ SharedRead(w)
  \/ SharedOpen \/ SharedCheck

SharedSpec == SharedInit /\ [][SharedNext]_sharedVars
-----------------------------------------------------------------------------
\* The frames a word of the header may have been read from.
SharedSpan == sharedOldest..sharedFrames

SharedTypeOK ==
  /\ sharedFrames \in 0..MaxSharedFrames /\ sharedToWrite \subseteq SharedWords
  /\ sharedSizes \in [0..MaxSharedFrames -> SharedGeometries \cup {NoGeometry}]
  /\ sharedMemory \in [SharedWords -> 0..sharedFrames]
  /\ sharedCopy \in [SharedWords -> -1..sharedFrames]
  /\ sharedPhase \in {"none", "header", "pixels", "rejected"}
  /\ sharedLength \in Nat /\ sharedOldest \in 0..sharedFrames /\ sharedReads \in 0..MaxSharedReads

\* A frame that is accepted has the geometry of one frame and as many pixels,
\* all inside the mapping, although its words may come from two frames with
\* nothing but the size to tell them apart.  With a third frame it may not.
AcceptedGeometry ==
  sharedPhase = "pixels" =>
    /\ sharedLength <= SharedSize
    /\ sharedFrames <= sharedOldest + 1 =>
         \E f \in SharedSpan : /\ sharedSizes[f] = [width |-> SharedWidth, height |-> SharedHeight]
                               /\ sharedLength = SharedWidth * SharedHeight
=============================================================================
