------------------------------- MODULE SceneTree -------------------------------
(***************************************************************************)
(* The scenes of the desktop app: the collection with its folder tree, its *)
(* active scene, its switch history and its undo stack (SceneManager,      *)
(* rivulet-core/src/scene.rs), the preview and program roles of Studio     *)
(* Mode (studio.rs), and the calls the scene dock, the hotkeys, the OBS    *)
(* clients and the import button make (app.rs).                            *)
(*                                                                         *)
(* Scenes are numbered in the order in which they are made, which is their *)
(* order in the collection's Vec.  A folder is a scene with children.      *)
(* Names, colours, kinds, the collection's and the profile's name and the  *)
(* contents of a scene are left out: an edit of one only adds an undo step *)
(* that changes nothing here.  The app starts with no scene; SceneFiles    *)
(* are the collections it exported earlier and may import.                 *)
(***************************************************************************)
EXTENDS Naturals, Sequences, SequencesExt

CONSTANTS MaxScenes,       \* bound: scenes made
          SceneFiles,      \* exported collections
          FileScenes,      \* they name the scenes 1..FileScenes
          MaxSceneEdits    \* bound: edits and switches (undo and redo are free)

NoScene == 0
SceneIds == 1..MaxScenes

Collections == [ids : SUBSET SceneIds, parent : [SceneIds -> SceneIds \cup {NoScene}],
                active : SceneIds \cup {NoScene}, history : Seq(SceneIds),
                defaults : SUBSET SceneIds]

Empty == [ids |-> {}, parent |-> [s \in SceneIds |-> NoScene], active |-> NoScene,
          history |-> <<>>, defaults |-> {}]

(* No set of scenes is closed under "parent": a walk up from any scene     *)
(* leaves the tree.                                                        *)
IsForest(c) ==
  /\ \A s \in c.ids : c.parent[s] \in c.ids \cup {NoScene}
  /\ \A S \in SUBSET c.ids : S # {} => \E s \in S : c.parent[s] \notin S

Sound(c) ==
  /\ IsForest(c)
  /\ c.active \in c.ids \cup {NoScene}
  /\ c.active = NoScene => c.ids = {}
  /\ c.defaults \subseteq c.ids

HistoryExists(c) == \A i \in DOMAIN c.history : c.history[i] \in c.ids

ASSUME SceneAssumption ==
  /\ MaxScenes \in Nat /\ FileScenes \in 0..MaxScenes /\ MaxSceneEdits \in Nat
  /\ SceneFiles \subseteq Collections
  /\ \A c \in SceneFiles : /\ c.ids \subseteq 1..FileScenes
                           /\ Sound(c) /\ HistoryExists(c)

VARIABLES
  sceneNow,    \* the collection
  sceneUndo,   \* the snapshots of the undo stack, the newest last
  sceneRedo,
  studio,      \* StudioMode: enabled, and the preview and the program scene
  scenesMade,  \* how many scenes were made
  sceneEdits

sceneVars == <<sceneNow, sceneUndo, sceneRedo, studio, scenesMade, sceneEdits>>

StudioOff == [enabled |-> FALSE, preview |-> NoScene, program |-> NoScene]

SceneInit ==
  /\ sceneNow = Empty /\ sceneUndo = <<>> /\ sceneRedo = <<>>
  /\ studio = StudioOff
  /\ scenesMade = FileScenes /\ sceneEdits = 0

-----------------------------------------------------------------------------
(* The collection.                                                         *)

(* record_change: an operation that changed nothing is not an undo step.   *)
Record(next) ==
  /\ sceneEdits < MaxSceneEdits /\ sceneEdits' = sceneEdits + 1
  /\ sceneNow' = next
  /\ IF next = sceneNow THEN UNCHANGED <<sceneUndo, sceneRedo>>
     ELSE /\ sceneUndo' = Append(sceneUndo, sceneNow)
          /\ sceneRedo' = <<>>

LastScene(ids) ==
  IF ids = {} THEN NoScene ELSE CHOOSE s \in ids : \A t \in ids : t <= s

(* Whether no walk up from p reaches id: some set of scenes holds p, not   *)
(* id, and every parent of its members.                                    *)
Outside(c, p, id) ==
  \E U \in SUBSET c.ids : /\ p \in U /\ id \notin U
                          /\ \A s \in U : c.parent[s] \in U \cup {NoScene}

Pushed(c, id, parent) ==
  [ids |-> c.ids \cup {id}, parent |-> [c.parent EXCEPT ![id] = parent],
   active |-> IF c.active = NoScene THEN id ELSE c.active,
   history |-> c.history, defaults |-> c.defaults]

(* retain: a history without the scene that goes.                          *)
Without(history, id) ==
  LET kept[n \in 0..Len(history)] ==
        IF n = 0 THEN <<>>
        ELSE IF history[n] = id THEN kept[n - 1] ELSE Append(kept[n - 1], history[n])
  IN  kept[Len(history)]

(* remove_inner: the children move up one level; a removed active scene is *)
(* replaced by the newest one of the history, else by the last scene; a    *)
(* scene that is gone is skipped.                                          *)
Removed(c, id) ==
  LET left  == c.ids \ {id}
      trail == Without(c.history, id)
      gone  == c.active = id
      back  == gone /\ trail # <<>>
  IN IF id \notin c.ids THEN c ELSE
     [ids      |-> left,
      parent   |-> [s \in SceneIds |-> IF s = id THEN NoScene
                                       ELSE IF c.parent[s] = id THEN c.parent[id]
                                       ELSE c.parent[s]],
      active   |-> IF ~gone THEN c.active
                   ELSE IF back /\ Last(trail) \in left THEN Last(trail)
                   ELSE LastScene(left),
      history  |-> IF back THEN Front(trail) ELSE trail,
      defaults |-> c.defaults \ {id}]

RemovedMany(c, batch) ==
  IF Len(batch) = 1 THEN Removed(c, batch[1])
  ELSE Removed(Removed(c, batch[1]), batch[2])

(* A check of the scene on which the drag started only.                    *)
CanDropFirst(c, batch, parent) ==
  /\ batch \subseteq c.ids
  /\ parent # NoScene => /\ parent \in c.ids \ batch
                         /\ \E id \in batch : Outside(c, parent, id)

(* The check of can_drop_selection and of set_parent_many: every member.   *)
CanDrop(c, batch, parent) ==
  /\ batch \subseteq c.ids
  /\ parent # NoScene => /\ parent \in c.ids \ batch
                         /\ \A id \in batch : Outside(c, parent, id)

Moved(c, batch, parent) ==
  [c EXCEPT !.parent = [s \in SceneIds |-> IF s \in batch THEN parent ELSE @[s]]]

Active(c, id, history) ==
  [ids |-> c.ids, parent |-> c.parent, active |-> id, history |-> history,
   defaults |-> c.defaults]

Switched(c, id) ==
  Active(c, id, IF c.active \in {id, NoScene} THEN c.history ELSE Append(c.history, c.active))

(* The entries of the history that switch_back does not skip.              *)
Known(c) == {i \in DOMAIN c.history : c.history[i] \in c.ids}

WentBack(c, top) == Active(c, c.history[top], SubSeq(c.history, 1, top - 1))

-----------------------------------------------------------------------------
(* What the user and the remote controls do.                               *)

AddScene ==
  /\ scenesMade < MaxScenes /\ scenesMade' = scenesMade + 1
  /\ Record(Pushed(sceneNow, scenesMade + 1, NoScene))
  /\ UNCHANGED studio

DuplicateScene(id) ==
  /\ id \in sceneNow.ids
  /\ scenesMade < MaxScenes /\ scenesMade' = scenesMade + 1
  /\ Record(Pushed(sceneNow, scenesMade + 1, sceneNow.parent[id]))
  /\ UNCHANGED studio

(* StudioMode::remove_scene, for the scenes of a batch in their order.     *)
RoleLost(s, id) ==
  [s EXCEPT !.preview = IF @ # id THEN @ ELSE IF s.program = id THEN NoScene ELSE s.program,
            !.program = IF @ = id THEN NoScene ELSE @]

RolesLost(s, batch) ==
  IF Len(batch) = 1 THEN RoleLost(s, batch[1])
  ELSE RoleLost(RoleLost(s, batch[1]), batch[2])

RemoveScenes(batch) ==
  /\ \E i \in DOMAIN batch : batch[i] \in sceneNow.ids
  /\ Record(RemovedMany(sceneNow, batch))
  /\ studio' = RolesLost(studio, batch)
  /\ UNCHANGED scenesMade

DropScenes(batch, parent) ==
  /\ CanDrop(sceneNow, batch, parent)
  /\ Record(Moved(sceneNow, batch, parent))
  /\ UNCHANGED <<studio, scenesMade>>

SetFolderDefault(id) ==
  /\ id \in sceneNow.ids
  /\ Record([sceneNow EXCEPT !.defaults = @ \cup {id}])
  /\ UNCHANGED <<studio, scenesMade>>

ClearFolderDefault(id) ==
  /\ id \in sceneNow.defaults
  /\ Record([sceneNow EXCEPT !.defaults = @ \ {id}])
  /\ UNCHANGED <<studio, scenesMade>>

(* switch_active_scene: a row of the dock while Studio Mode is off, and    *)
(* the search field, a hotkey, MIDI or an OBS client at any time.          *)
SwitchScene(id) ==
  /\ id \in sceneNow.ids
  /\ Record(Switched(sceneNow, id))
  /\ UNCHANGED <<studio, scenesMade>>

SwitchBack ==
  /\ ~studio.enabled /\ sceneNow.active # NoScene
  /\ \/ \E top \in Known(sceneNow) :
           /\ \A i \in Known(sceneNow) : i <= top
           /\ Record(WentBack(sceneNow, top))
     \/ /\ Known(sceneNow) = {}
        /\ sceneNow' = [sceneNow EXCEPT !.history = <<>>]
        /\ UNCHANGED <<sceneUndo, sceneRedo, sceneEdits>>
  /\ UNCHANGED <<studio, scenesMade>>

ImportScenes(file) ==
  /\ sceneEdits < MaxSceneEdits /\ sceneEdits' = sceneEdits + 1
  /\ sceneNow' = file /\ sceneUndo' = <<>> /\ sceneRedo' = <<>>
  /\ UNCHANGED <<studio, scenesMade>>

UndoScene ==
  /\ sceneUndo # <<>>
  /\ sceneNow' = Last(sceneUndo) /\ sceneUndo' = Front(sceneUndo)
  /\ sceneRedo' = Append(sceneRedo, sceneNow)
  /\ UNCHANGED <<studio, scenesMade, sceneEdits>>

RedoScene ==
  /\ sceneRedo # <<>>
  /\ sceneNow' = Last(sceneRedo) /\ sceneRedo' = Front(sceneRedo)
  /\ sceneUndo' = Append(sceneUndo, sceneNow)
  /\ UNCHANGED <<studio, scenesMade, sceneEdits>>

ToggleStudio ==
  /\ studio' = IF studio.enabled THEN StudioOff
               ELSE [enabled |-> TRUE, preview |-> sceneNow.active,
                     program |-> sceneNow.active]
  /\ UNCHANGED <<sceneNow, sceneUndo, sceneRedo, scenesMade, sceneEdits>>

SelectPreview(id) ==
  /\ studio.enabled /\ id \in sceneNow.ids
  /\ studio' = [studio EXCEPT !.preview = id]
  /\ UNCHANGED <<sceneNow, sceneUndo, sceneRedo, scenesMade, sceneEdits>>

(* take_studio_preview; switch_to refuses a scene that is gone.            *)
TakePreview ==
  /\ studio.enabled /\ studio.preview \notin {NoScene, studio.program}
  /\ studio' = [studio EXCEPT !.program = studio.preview]
  /\ IF studio.preview \in sceneNow.ids THEN Record(Switched(sceneNow, studio.preview))
     ELSE UNCHANGED <<sceneNow, sceneUndo, sceneRedo, sceneEdits>>
  /\ UNCHANGED scenesMade

Batches == {<<a>> : a \in SceneIds} \cup {b \in SceneIds \X SceneIds : b[1] # b[2]}

SceneNext ==
  \/ AddScene
  \/ \E id \in SceneIds : DuplicateScene(id)
  \/ \E batch \in Batches : RemoveScenes(batch)
  \/ \E batch \in SUBSET SceneIds \ {{}}, p \in SceneIds \cup {NoScene} : DropScenes(batch, p)
  \/ \E id \in SceneIds : SetFolderDefault(id)
  \/ \E id \in SceneIds : ClearFolderDefault(id)
  \/ \E id \in SceneIds : SwitchScene(id)
  \/ SwitchBack
  \/ \E file \in SceneFiles : ImportScenes(file)
  \/ UndoScene
  \/ RedoScene
  \/ ToggleStudio
  \/ \E id \in SceneIds : SelectPreview(id)
  \/ TakePreview

SceneSpec == SceneInit /\ [][SceneNext]_sceneVars

-----------------------------------------------------------------------------
(* Properties.                                                             *)

Snapshots == {sceneNow} \cup {sceneUndo[i] : i \in DOMAIN sceneUndo}
                        \cup {sceneRedo[i] : i \in DOMAIN sceneRedo}

(* The types; a switch history names scenes that exist.                    *)
SceneTypeOK ==
  /\ sceneNow \in Collections
  /\ sceneUndo \in Seq(Collections) /\ sceneRedo \in Seq(Collections)
  /\ studio \in [enabled : BOOLEAN, preview : SceneIds \cup {NoScene},
                 program : SceneIds \cup {NoScene}]
  /\ scenesMade \in FileScenes..MaxScenes /\ sceneEdits \in 0..MaxSceneEdits
  /\ \A c \in Snapshots : HistoryExists(c)

(* Whatever is added, removed, dragged, undone and redone, alone or as a   *)
(* batch, every scene's parent exists and no folder is inside itself (or   *)
(* the scene would be missing from the dock), a collection with scenes has *)
(* an active one, which is on air, and no default transition belongs to a  *)
(* scene that is gone; and so it is in every snapshot an undo or a redo    *)
(* will bring back.                                                        *)
ScenesSound == \A c \in Snapshots : Sound(c)

(* While Studio Mode is on, its program scene is the one the engine sends, *)
(* which compose_output_frame takes from the collection's active scene.    *)
ProgramIsLive == studio.enabled => studio.program = sceneNow.active
=============================================================================
