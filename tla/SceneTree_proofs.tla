---------------------------- MODULE SceneTree_proofs ----------------------------
(***************************************************************************)
(* TLAPS proofs about SceneTree, for any number of scenes and any imported *)
(* collections:                                                            *)
(*   - ScenesStaySound:  the collection and every snapshot of the undo and *)
(*                       redo stacks stay trees with an active scene;      *)
(*   - SceneTypeCorrect: the variables keep their types, and a history     *)
(*                       names only scenes that exist.                     *)
(***************************************************************************)
EXTENDS SceneTree, SequenceTheorems, WellFoundedInduction, TLAPS

\* A collection of some of the first n scenes, with the scenes of its history.
Shape(c, n) ==
  /\ c = [ids |-> c.ids, parent |-> c.parent, active |-> c.active, history |-> c.history,
          defaults |-> c.defaults]
  /\ c.ids \subseteq SceneIds /\ c.ids \subseteq 1..n
  /\ c.parent \in [SceneIds -> SceneIds \cup {NoScene}]
  /\ c.history \in Seq(c.ids)

Good(c, n) == Shape(c, n) /\ Sound(c)

-----------------------------------------------------------------------------
(* Histories.                                                              *)

LEMMA LargerSet ==
  ASSUME NEW S, NEW T, S \subseteq T, NEW q \in Seq(S)
  PROVE  q \in Seq(T)
<1>1. q \in [1..Len(q) -> S] /\ Len(q) \in Nat
  BY LenProperties
<1>2. q \in [1..Len(q) -> T]
  BY <1>1
<1> QED BY <1>1, <1>2, SeqDef

\* Any set of numbers has a least one.
LEMMA LeastIndex ==
  ASSUME NEW T \in SUBSET Nat, T # {}
  PROVE  \E n \in T : \A m \in T : n <= m
<1>1. PICK n \in T : \A m \in T : <<m, n>> \notin OpToRel(<, Nat)
  BY NatLessThanWellFounded, WFMin
<1>2. \A m \in T : ~(m < n)
  BY <1>1 DEF OpToRel
<1> QED BY <1>2

\* One step of the recursion of Without.
KeptStep(q, x, kept, n) ==
  IF n = 0 THEN <<>> ELSE IF q[n] = x THEN kept[n - 1] ELSE Append(kept[n - 1], q[n])

\* The recursion has a solution: else there would be a shortest prefix without one.
LEMMA KeptExists ==
  ASSUME NEW q, NEW x, NEW l \in Nat
  PROVE  \E kept : kept = [n \in 0..l |-> KeptStep(q, x, kept, n)]
<1> DEFINE Solved(m) == \E kept : kept = [n \in 0..m |-> KeptStep(q, x, kept, n)]
           T == {m \in Nat : ~Solved(m)}
<1>1. SUFFICES ASSUME T # {} PROVE FALSE
  BY <1>1
<1>2. PICK m \in T : \A k \in T : m <= k
  BY <1>1, LeastIndex
<1>3. CASE m = 0
  <2> DEFINE kept == [n \in 0..0 |-> <<>>]
  <2>1. kept = [n \in 0..0 |-> KeptStep(q, x, kept, n)]
    BY DEF KeptStep
  <2> QED BY <1>3, <2>1
<1>4. CASE m # 0
  <2>1. m - 1 \in Nat /\ m - 1 \notin T
    BY <1>2, <1>4
  <2>2. PICK g : g = [n \in 0..(m - 1) |-> KeptStep(q, x, g, n)]
    BY <2>1
  <2> DEFINE h == [n \in 0..m |-> IF n = m THEN KeptStep(q, x, g, m) ELSE g[n]]
  <2>3. ASSUME NEW n \in 0..m PROVE h[n] = KeptStep(q, x, h, n)
    <3>1. n # 0 => h[n - 1] = g[n - 1]
      BY <1>4
    <3>2. KeptStep(q, x, h, n) = KeptStep(q, x, g, n)
      BY <3>1 DEF KeptStep
    <3>3. CASE n = m
      BY <3>2, <3>3
    <3>4. CASE n # m
      BY <2>2, <3>2, <3>4
    <3> QED BY <3>3, <3>4
  <2>4. h = [n \in 0..m |-> h[n]]
    OBVIOUS
  <2> HIDE DEF h
  <2>5. h = [n \in 0..m |-> KeptStep(q, x, h, n)]
    BY <2>3, <2>4
  <2> QED BY <2>5
<1> QED BY <1>3, <1>4

\* What is left of a history names the scenes it named, but the one that goes.
LEMMA WithoutNames ==
  ASSUME NEW S, NEW q \in Seq(S), NEW x
  PROVE  Without(q, x) \in Seq(S \ {x})
<1> DEFINE kept == CHOOSE g : g = [n \in 0..Len(q) |-> KeptStep(q, x, g, n)]
<1>1. Without(q, x) = kept[Len(q)]
  BY DEF Without, KeptStep
<1>2. Len(q) \in Nat
  BY LenProperties
<1>3. kept = [n \in 0..Len(q) |-> KeptStep(q, x, kept, n)]
  BY <1>2, KeptExists
<1> HIDE DEF kept
<1> DEFINE T == {m \in 0..Len(q) : kept[m] \notin Seq(S \ {x})}
<1>4. SUFFICES ASSUME T # {} PROVE FALSE
  BY <1>1, <1>2
<1>5. T \in SUBSET Nat
  BY <1>2
<1>6. PICK m \in T : \A k \in T : m <= k
  BY <1>4, <1>5, LeastIndex
<1>7. kept[m] = KeptStep(q, x, kept, m)
  BY <1>3
<1>8. CASE m = 0
  BY <1>7, <1>8, EmptySeq DEF KeptStep
<1>9. CASE m # 0
  <2>1. m - 1 \in 0..Len(q) /\ m - 1 \notin T
    BY <1>2, <1>6, <1>9
  <2>2. kept[m - 1] \in Seq(S \ {x})
    BY <2>1
  <2>3. q[m] \in S
    BY <1>2, <1>9, ElementOfSeq
  <2>4. q[m] # x => Append(kept[m - 1], q[m]) \in Seq(S \ {x})
    BY <2>2, <2>3, AppendProperties
  <2> QED BY <1>7, <1>9, <2>2, <2>4 DEF KeptStep
<1> QED BY <1>8, <1>9

LEMMA PushGood ==
  ASSUME NEW S, NEW s \in Seq(S), NEW c \in S
  PROVE  Append(s, c) \in Seq(S) /\ <<>> \in Seq(S)
OBVIOUS

LEMMA PopGood ==
  ASSUME NEW S, NEW s \in Seq(S), s # <<>>
  PROVE  Last(s) \in S /\ Front(s) \in Seq(S)
BY DEF Last, Front

-----------------------------------------------------------------------------
(* The operations on a collection.                                         *)

LEMMA PushedGood ==
  ASSUME NEW n \in Nat, NEW c, Good(c, n), n + 1 \in SceneIds, NEW p \in c.ids \cup {NoScene}
  PROVE  Good(Pushed(c, n + 1, p), n + 1)
<1> DEFINE id == n + 1
           d == Pushed(c, id, p)
<1>1. id \notin c.ids /\ id # NoScene /\ id \in SceneIds
  BY DEF Good, Shape, NoScene
<1>2. d = [ids |-> c.ids \cup {id}, parent |-> [c.parent EXCEPT ![id] = p],
           active |-> IF c.active = NoScene THEN id ELSE c.active, history |-> c.history,
           defaults |-> c.defaults]
  BY DEF Pushed
<1>3. Shape(d, id)
  BY <1>1, <1>2 DEF Good, Shape
<1>4. \A s \in SceneIds : d.parent[s] = IF s = id THEN p ELSE c.parent[s]
  BY <1>2 DEF Good, Shape
<1>5. \A s \in d.ids : d.parent[s] \in d.ids \cup {NoScene}
  BY <1>1, <1>2, <1>4 DEF Good, Shape, Sound, IsForest
<1>6. ASSUME NEW S \in SUBSET d.ids, S # {} PROVE \E s \in S : d.parent[s] \notin S
  <2>1. CASE S = {id}
    BY <1>1, <1>4, <2>1
  <2>2. CASE S # {id}
    <3>1. S \ {id} \in SUBSET c.ids /\ S \ {id} # {}
      BY <1>2, <2>2, <1>6
    <3>2. PICK s \in S \ {id} : c.parent[s] \notin S \ {id}
      BY <3>1 DEF Good, Sound, IsForest
    <3>3. c.parent[s] # id /\ d.parent[s] = c.parent[s]
      BY <1>1, <1>4, <3>1, <3>2 DEF Good, Shape, Sound, IsForest
    <3> QED BY <3>2, <3>3
  <2> QED BY <2>1, <2>2
<1>7. Sound(d)
  <2>1. IsForest(d)
    BY <1>5, <1>6 DEF IsForest
  <2>2. /\ d.active \in d.ids \cup {NoScene} /\ (d.active = NoScene => d.ids = {})
        /\ d.defaults \subseteq d.ids
    BY <1>1, <1>2 DEF Good, Sound
  <2> QED BY <2>1, <2>2 DEF Sound
<1> QED BY <1>3, <1>7 DEF Good

LEMMA LastSceneExists ==
  ASSUME NEW ids \in SUBSET SceneIds, ids # {}
  PROVE  LastScene(ids) \in ids
<1>1. MaxScenes \in Nat
  BY SceneAssumption
<1> DEFINE below == {MaxScenes - s : s \in ids}
<1>2. below \in SUBSET Nat /\ below # {}
  BY <1>1 DEF SceneIds
<1>3. PICK m \in below : \A k \in below : <<k, m>> \notin OpToRel(<, Nat)
  BY <1>2, NatLessThanWellFounded, WFMin
<1>4. \A k \in below : ~(k < m)
  BY <1>2, <1>3 DEF OpToRel
<1>5. PICK s \in ids : m = MaxScenes - s
  OBVIOUS
<1>6. \A t \in ids : t <= s
  BY <1>1, <1>4, <1>5 DEF SceneIds
<1> QED BY <1>6 DEF LastScene

\* Removing a scene leaves no cycle: what was below it is now below its parent.
LEMMA RemovedGood ==
  ASSUME NEW n \in Nat, NEW c, Good(c, n), NEW id
  PROVE  Good(Removed(c, id), n)
<1>0. CASE id \notin c.ids
  BY <1>0 DEF Removed
<1>1. CASE id \in c.ids
  <2> DEFINE d == Removed(c, id)
             left == c.ids \ {id}
             trail == Without(c.history, id)
             gone == c.active = id
             back == gone /\ trail # <<>>
  <2>1. d = [ids      |-> left,
             parent   |-> [s \in SceneIds |-> IF s = id THEN NoScene
                                              ELSE IF c.parent[s] = id THEN c.parent[id]
                                              ELSE c.parent[s]],
             active   |-> IF ~gone THEN c.active
                          ELSE IF back /\ Last(trail) \in left THEN Last(trail)
                          ELSE LastScene(left),
             history  |-> IF back THEN Front(trail) ELSE trail,
             defaults |-> c.defaults \ {id}]
    BY <1>1 DEF Removed
  <2> HIDE DEF d
  <2>2. id \in SceneIds /\ c.parent[id] \in c.ids \cup {NoScene} /\ c.parent[id] # id
    <3>1. id \in SceneIds /\ {id} \in SUBSET c.ids /\ c.parent[id] \in c.ids \cup {NoScene}
      BY <1>1 DEF Good, Shape, Sound, IsForest
    <3> QED BY <3>1 DEF Good, Sound, IsForest
  <2>3. /\ d.ids = left /\ d.defaults = c.defaults \ {id}
        /\ \A s \in left : d.parent[s] = IF c.parent[s] = id THEN c.parent[id] ELSE c.parent[s]
    BY <2>1 DEF Good, Shape
  <2>4. Shape(d, n)
    <3>1. d.parent \in [SceneIds -> SceneIds \cup {NoScene}]
      BY <2>1, <2>2 DEF Good, Shape
    <3>2. trail \in Seq(left) /\ (trail # <<>> => Front(trail) \in Seq(left))
      BY WithoutNames, PopGood DEF Good, Shape
    <3>3. d.history \in Seq(left)
      BY <2>1, <3>2
    <3> HIDE DEF trail
    <3> QED BY <2>1, <3>1, <3>3 DEF Good, Shape
  <2>5. \A s \in d.ids : d.parent[s] \in d.ids \cup {NoScene}
    BY <2>2, <2>3 DEF Good, Sound, IsForest
  <2>6. ASSUME NEW S \in SUBSET d.ids, S # {} PROVE \E s \in S : d.parent[s] \notin S
    <3>1. S \in SUBSET c.ids /\ id \notin S /\ S \cup {id} \in SUBSET c.ids
      BY <1>1, <2>3
    <3>2. PICK s \in S : c.parent[s] \notin S
      BY <2>6, <3>1 DEF Good, Sound, IsForest
    <3>3. CASE c.parent[s] # id
      BY <2>3, <3>2, <3>3
    <3>4. CASE c.parent[s] = id
      <4>1. PICK t \in S \cup {id} : c.parent[t] \notin S \cup {id}
        BY <3>1 DEF Good, Sound, IsForest
      <4>2. CASE t = id
        BY <2>3, <3>4, <4>1, <4>2
      <4>3. CASE t # id
        BY <2>3, <4>1, <4>3
      <4> QED BY <4>2, <4>3
    <3> QED BY <3>3, <3>4
  <2>7. d.active \in d.ids \cup {NoScene} /\ (d.active = NoScene => d.ids = {})
    <3>1. NoScene \notin left /\ left \in SUBSET SceneIds
      BY DEF Good, Shape, SceneIds, NoScene
    <3>2. CASE ~gone
      BY <1>1, <2>1, <3>1, <3>2 DEF Good, Sound
    <3>3. CASE gone /\ back /\ Last(trail) \in left
      BY <2>1, <3>1, <3>3
    <3>4. CASE gone /\ ~(back /\ Last(trail) \in left)
      <4>1. d.active = LastScene(left)
        BY <2>1, <3>4
      <4>2. CASE left = {}
        BY <2>3, <4>1, <4>2 DEF LastScene
      <4>3. CASE left # {}
        BY <2>3, <3>1, <4>1, <4>3, LastSceneExists
      <4> QED BY <4>2, <4>3
    <3> QED BY <3>2, <3>3, <3>4
  <2>8. d.defaults \subseteq d.ids
    BY <2>3 DEF Good, Sound
  <2>9. Sound(d)
    BY <2>5, <2>6, <2>7, <2>8 DEF Sound, IsForest
  <2> QED BY <2>4, <2>9 DEF Good, d
<1> QED BY <1>0, <1>1

LEMMA MovedGood ==
  ASSUME NEW n \in Nat, NEW c, Good(c, n), NEW batch, NEW p \in SceneIds \cup {NoScene},
         CanDrop(c, batch, p)
  PROVE  Good(Moved(c, batch, p), n)
<1> DEFINE d == Moved(c, batch, p)
           parent == [s \in SceneIds |-> IF s \in batch THEN p ELSE c.parent[s]]
<1>1. d = [ids |-> c.ids, parent |-> parent, active |-> c.active, history |-> c.history,
           defaults |-> c.defaults]
  <2>1. d = [c EXCEPT !.parent = parent]
    BY DEF Moved
  <2> QED BY <2>1 DEF Good, Shape
<1> HIDE DEF d
<1>2. /\ d.ids = c.ids /\ d.active = c.active /\ d.defaults = c.defaults
      /\ \A s \in c.ids : d.parent[s] = IF s \in batch THEN p ELSE c.parent[s]
  BY <1>1 DEF Good, Shape
<1>3. Shape(d, n)
  BY <1>1 DEF Good, Shape
<1>4. /\ batch \subseteq c.ids
      /\ p # NoScene => p \in c.ids /\ p \notin batch /\ \A id \in batch : Outside(c, p, id)
  BY DEF CanDrop
<1>5. \A s \in d.ids : d.parent[s] \in d.ids \cup {NoScene}
  BY <1>2, <1>4 DEF Good, Sound, IsForest
<1>6. ASSUME NEW S \in SUBSET c.ids, S # {}, \A s \in S : d.parent[s] \in S PROVE FALSE
  <2>0. NoScene \notin S
    BY DEF Good, Shape, SceneIds, NoScene
  <2>1. PICK s \in S : c.parent[s] \notin S
    BY <1>6 DEF Good, Sound, IsForest
  <2>2. s \in batch /\ p \in S
    BY <1>2, <1>6, <2>1
  <2>3. p # NoScene /\ p \in c.ids
    BY <1>4, <2>0, <2>2
  <2> DEFINE Closed(U) == p \in U /\ \A t \in U : c.parent[t] \in U \cup {NoScene}
             above == {t \in S : \A U \in SUBSET c.ids : Closed(U) => t \in U}
  <2>4. p \in above
    BY <2>2
  <2>5. \A t \in above : t \notin batch
    <3> SUFFICES ASSUME NEW t \in above, t \in batch PROVE FALSE
      OBVIOUS
    <3>1. Outside(c, p, t)
      BY <1>4, <2>3
    <3>2. PICK U \in SUBSET c.ids : Closed(U) /\ t \notin U
      BY <3>1 DEF Outside
    <3> QED BY <3>2
  <2>6. \A t \in above : c.parent[t] \in above
    <3> SUFFICES ASSUME NEW t \in above PROVE c.parent[t] \in above
      OBVIOUS
    <3>1. c.parent[t] \in S
      BY <1>2, <1>6, <2>5
    <3>2. \A U \in SUBSET c.ids : Closed(U) => c.parent[t] \in U
      BY <2>0, <3>1
    <3> QED BY <3>1, <3>2
  <2>7. above \in SUBSET c.ids /\ above # {}
    BY <2>4
  <2> HIDE DEF above
  <2> QED BY <2>6, <2>7 DEF Good, Sound, IsForest
<1>7. IsForest(d)
  BY <1>2, <1>5, <1>6 DEF IsForest
<1>8. Sound(d)
  BY <1>2, <1>7 DEF Good, Sound
<1> QED BY <1>3, <1>8 DEF Good, d

\* Another active scene, or another default, changes nothing of the tree.
LEMMA ActiveGood ==
  ASSUME NEW n \in Nat, NEW c, Good(c, n), NEW id \in c.ids,
         NEW history \in Seq(c.ids)
  PROVE  Good(Active(c, id, history), n)
<1> DEFINE d == Active(c, id, history)
<1>1. /\ d.ids = c.ids /\ d.active = id /\ d.defaults = c.defaults /\ d.parent = c.parent
      /\ d.history = history
      /\ d = [ids |-> d.ids, parent |-> d.parent, active |-> d.active, history |-> d.history,
              defaults |-> d.defaults]
  BY DEF Active
<1>2. id # NoScene
  BY DEF Good, Shape, SceneIds, NoScene
<1> HIDE DEF d
<1>3. Shape(d, n)
  BY <1>1 DEF Good, Shape
<1>4. Sound(d)
  BY <1>1, <1>2 DEF Good, Sound, IsForest
<1> QED BY <1>3, <1>4 DEF Good, d

LEMMA SwitchedGood ==
  ASSUME NEW n \in Nat, NEW c, Good(c, n), NEW id \in c.ids
  PROVE  Good(Switched(c, id), n)
<1> DEFINE history == IF c.active \in {id, NoScene} THEN c.history ELSE Append(c.history, c.active)
<1>1. c.history \in Seq(c.ids) /\ (c.active \notin {id, NoScene} => c.active \in c.ids)
  BY DEF Good, Shape, Sound
<1>2. history \in Seq(c.ids)
  BY <1>1, PushGood
<1>3. Switched(c, id) = Active(c, id, history)
  BY DEF Switched
<1> HIDE DEF history
<1> QED BY <1>2, <1>3, ActiveGood

LEMMA WentBackGood ==
  ASSUME NEW n \in Nat, NEW c, Good(c, n), NEW top \in Known(c)
  PROVE  Good(WentBack(c, top), n)
<1>1. c.history \in Seq(c.ids) /\ top \in DOMAIN c.history /\ c.history[top] \in c.ids
  BY DEF Good, Shape, Known
<1>2. top \in 1..Len(c.history) /\ Len(c.history) \in Nat
  BY <1>1, LenProperties
<1> DEFINE h == c.history
           m == top - 1
<1>3. m \in Int /\ 1 \in Int /\ \A i \in 1..m : h[i] \in c.ids
  BY <1>1, <1>2, ElementOfSeq
<1> HIDE DEF h, m
<1>4. SubSeq(h, 1, m) \in Seq(c.ids)
  BY <1>3, SubSeqProperties, Zenon
<1>5. SubSeq(c.history, 1, top - 1) \in Seq(c.ids)
  BY <1>4 DEF h, m
<1> QED BY <1>1, <1>5, ActiveGood DEF WentBack

LEMMA DefaultsGood ==
  ASSUME NEW n \in Nat, NEW c, Good(c, n), NEW defaults \in SUBSET c.ids
  PROVE  Good([c EXCEPT !.defaults = defaults], n)
<1> DEFINE d == [c EXCEPT !.defaults = defaults]
<1>1. d = [ids |-> c.ids, parent |-> c.parent, active |-> c.active, history |-> c.history,
           defaults |-> defaults]
  BY DEF Good, Shape
<1> HIDE DEF d
<1>2. /\ d.ids = c.ids /\ d.active = c.active /\ d.defaults = defaults /\ d.parent = c.parent
      /\ d.history = c.history
  BY <1>1
<1>3. Shape(d, n)
  BY <1>1, <1>2 DEF Good, Shape
<1>4. Sound(d)
  BY <1>2 DEF Good, Sound, IsForest
<1> QED BY <1>3, <1>4 DEF Good, d

LEMMA HistoryGood ==
  ASSUME NEW n \in Nat, NEW c, Good(c, n), NEW history \in Seq(c.ids)
  PROVE  Good([c EXCEPT !.history = history], n)
<1> DEFINE d == [c EXCEPT !.history = history]
<1>0. c = [ids |-> c.ids, parent |-> c.parent, active |-> c.active, history |-> c.history,
           defaults |-> c.defaults]
  BY DEF Good, Shape
<1>1. d = [ids |-> c.ids, parent |-> c.parent, active |-> c.active, history |-> history,
           defaults |-> c.defaults]
  BY <1>0
<1> HIDE DEF d
<1>2. /\ d.ids = c.ids /\ d.active = c.active /\ d.defaults = c.defaults
      /\ d.parent = c.parent /\ d.history = history
  BY <1>1
<1>3. Shape(d, n)
  BY <1>1, <1>2 DEF Good, Shape
<1>4. Sound(d)
  BY <1>2 DEF Good, Sound, IsForest
<1> QED BY <1>3, <1>4 DEF Good, d

LEMMA GoodMonotone ==
  ASSUME NEW n \in Nat, NEW c, Good(c, n)
  PROVE  Good(c, n + 1)
BY DEF Good, Shape

-----------------------------------------------------------------------------
(* The invariant: the collection and both stacks are drawn from one set of *)
(* good collections.                                                       *)

Stacks(S) ==
  /\ sceneNow \in S /\ sceneUndo \in Seq(S) /\ sceneRedo \in Seq(S)
  /\ \A c \in S : Good(c, scenesMade)

SceneInv == scenesMade \in FileScenes..MaxScenes /\ \E S : Stacks(S)

LEMMA InitScene == SceneInit => SceneInv
<1> SUFFICES ASSUME SceneInit PROVE SceneInv
  OBVIOUS
<1>1. scenesMade \in FileScenes..MaxScenes
  BY SceneAssumption DEF SceneInit
<1>2. Good(Empty, scenesMade)
  <2>1. Shape(Empty, scenesMade)
    BY DEF Shape, Empty
  <2>2. Sound(Empty)
    BY DEF Sound, IsForest, Empty
  <2> QED BY <2>1, <2>2 DEF Good
<1>3. Stacks({Empty})
  BY <1>2 DEF Stacks, SceneInit
<1> QED BY <1>1, <1>3 DEF SceneInv

\* An edit to a good collection keeps the invariant, whether or not it adds a step.
LEMMA RecordKeeps ==
  ASSUME SceneInv, NEW next, Record(next), Good(next, scenesMade),
         scenesMade' = scenesMade
  PROVE  SceneInv'
<1>1. PICK S : Stacks(S)
  BY DEF SceneInv
<1> DEFINE T == S \cup {next}
<1>2. /\ sceneNow' \in T /\ sceneUndo \in Seq(T) /\ sceneRedo \in Seq(T) /\ sceneNow \in T
      /\ \A c \in T : Good(c, scenesMade)
  BY <1>1 DEF Stacks, Record
<1>3. sceneUndo' \in Seq(T) /\ sceneRedo' \in Seq(T)
  BY <1>2, PushGood DEF Record
<1>4. \A c \in T : Good(c, scenesMade')
  BY <1>2
<1>5. Stacks(T)'
  BY <1>2, <1>3, <1>4 DEF Stacks
<1> QED BY <1>5 DEF SceneInv

\* The same when the edit makes the next scene.
LEMMA RecordMakes ==
  ASSUME SceneInv, NEW next, Record(next), scenesMade < MaxScenes,
         scenesMade' = scenesMade + 1, Good(next, scenesMade + 1)
  PROVE  SceneInv'
<1>1. PICK S : Stacks(S)
  BY DEF SceneInv
<1>2. scenesMade \in Nat /\ scenesMade + 1 \in FileScenes..MaxScenes
  BY SceneAssumption DEF SceneInv
<1> DEFINE T == S \cup {next}
<1>3. \A c \in T : Good(c, scenesMade + 1)
  BY <1>1, <1>2, GoodMonotone DEF Stacks
<1>4. sceneNow' \in T /\ sceneUndo \in Seq(T) /\ sceneRedo \in Seq(T) /\ sceneNow \in T
  BY <1>1 DEF Stacks, Record
<1>5. sceneUndo' \in Seq(T) /\ sceneRedo' \in Seq(T)
  BY <1>4, PushGood DEF Record
<1>6. \A c \in T : Good(c, scenesMade')
  BY <1>3
<1>7. Stacks(T)'
  BY <1>4, <1>5, <1>6 DEF Stacks
<1>8. scenesMade' \in FileScenes..MaxScenes
  BY <1>2
<1> QED BY <1>7, <1>8 DEF SceneInv

\* The same when the collection changes without an undo step.
LEMMA ReplacedKeeps ==
  ASSUME SceneInv, NEW next, sceneNow' = next, Good(next, scenesMade),
         UNCHANGED <<sceneUndo, sceneRedo, scenesMade>>
  PROVE  SceneInv'
<1>1. PICK S : Stacks(S)
  BY DEF SceneInv
<1> DEFINE T == S \cup {next}
<1>2. Stacks(T)'
  BY <1>1 DEF Stacks
<1> QED BY <1>2 DEF SceneInv

LEMMA FileGood ==
  ASSUME NEW n \in FileScenes..MaxScenes, NEW c \in SceneFiles
  PROVE  Good(c, n)
<1>1. c \in Collections /\ c.ids \subseteq 1..FileScenes /\ Sound(c) /\ HistoryExists(c)
  BY SceneAssumption
<1>4. c.history \in Seq(c.ids)
  <2>1. c.history \in Seq(SceneIds)
    BY <1>1 DEF Collections
  <2>2. c.history \in [1..Len(c.history) -> SceneIds] /\ Len(c.history) \in Nat
    BY <2>1, LenProperties
  <2>3. c.history \in [1..Len(c.history) -> c.ids]
    BY <1>1, <2>2 DEF HistoryExists
  <2> QED BY <2>2, <2>3, SeqDef
<1>2. 1..FileScenes \subseteq 1..n
  BY SceneAssumption
<1>3. Shape(c, n)
  BY <1>1, <1>2, <1>4 DEF Shape, Collections
<1> QED BY <1>1, <1>3 DEF Good

-----------------------------------------------------------------------------
(* Every step keeps it.                                                    *)

LEMMA StepScene == SceneInv /\ [SceneNext]_sceneVars => SceneInv'
<1> SUFFICES ASSUME SceneInv, [SceneNext]_sceneVars PROVE SceneInv'
  OBVIOUS
<1>1. PICK S : Stacks(S)
  BY DEF SceneInv
<1>2. /\ Good(sceneNow, scenesMade) /\ scenesMade \in Nat /\ MaxScenes \in Nat
      /\ scenesMade < MaxScenes => scenesMade + 1 \in SceneIds
  BY <1>1, SceneAssumption DEF Stacks, SceneInv, SceneIds
<1>3. CASE AddScene
  BY <1>2, <1>3, PushedGood, RecordMakes DEF AddScene
<1>4. ASSUME NEW id \in SceneIds, DuplicateScene(id) PROVE SceneInv'
  <2>1. sceneNow.parent[id] \in sceneNow.ids \cup {NoScene}
    BY <1>2, <1>4 DEF DuplicateScene, Good, Sound, IsForest
  <2> QED BY <1>2, <1>4, <2>1, PushedGood, RecordMakes DEF DuplicateScene
<1>5. ASSUME NEW batch \in Batches, RemoveScenes(batch) PROVE SceneInv'
  <2>1. Good(Removed(sceneNow, batch[1]), scenesMade)
    BY <1>2, RemovedGood
  <2>2. Good(RemovedMany(sceneNow, batch), scenesMade)
    BY <1>2, <2>1, RemovedGood DEF RemovedMany
  <2> QED BY <1>5, <2>2, RecordKeeps DEF RemoveScenes
<1>6. ASSUME NEW batch \in SUBSET SceneIds, NEW p \in SceneIds \cup {NoScene},
             DropScenes(batch, p)
      PROVE  SceneInv'
  BY <1>2, <1>6, MovedGood, RecordKeeps DEF DropScenes
<1>7. ASSUME NEW id \in SceneIds, SetFolderDefault(id) PROVE SceneInv'
  <2>1. sceneNow.defaults \cup {id} \in SUBSET sceneNow.ids
    BY <1>2, <1>7 DEF SetFolderDefault, Good, Sound
  <2> QED BY <1>2, <1>7, <2>1, DefaultsGood, RecordKeeps DEF SetFolderDefault
<1>8. ASSUME NEW id \in SceneIds, ClearFolderDefault(id) PROVE SceneInv'
  <2>1. sceneNow.defaults \ {id} \in SUBSET sceneNow.ids
    BY <1>2, <1>8 DEF ClearFolderDefault, Good, Sound
  <2> QED BY <1>2, <1>8, <2>1, DefaultsGood, RecordKeeps DEF ClearFolderDefault
<1>9. ASSUME NEW id \in SceneIds, SwitchScene(id) PROVE SceneInv'
  BY <1>2, <1>9, SwitchedGood, RecordKeeps DEF SwitchScene
<1>10. CASE SwitchBack
  <2>1. ASSUME NEW top \in Known(sceneNow), Record(WentBack(sceneNow, top)),
               scenesMade' = scenesMade
        PROVE  SceneInv'
    BY <1>2, <2>1, WentBackGood, RecordKeeps
  <2>2. ASSUME sceneNow' = [sceneNow EXCEPT !.history = <<>>],
               UNCHANGED <<sceneUndo, sceneRedo, scenesMade>>
        PROVE  SceneInv'
    BY <1>2, <2>2, HistoryGood, EmptySeq, ReplacedKeeps
  <2> QED BY <1>10, <2>1, <2>2 DEF SwitchBack
<1>11. ASSUME NEW file \in SceneFiles, ImportScenes(file) PROVE SceneInv'
  <2>1. Good(file, scenesMade)
    BY FileGood DEF SceneInv
  <2>2. Stacks({file})'
    BY <1>11, <2>1 DEF ImportScenes, Stacks
  <2> QED BY <1>11, <2>2 DEF ImportScenes, SceneInv
<1>12. CASE UndoScene
  <2>1. sceneNow' \in S /\ sceneUndo' \in Seq(S)
    BY <1>1, <1>12, PopGood DEF UndoScene, Stacks
  <2>2. Stacks(S)'
    BY <1>1, <1>12, <2>1 DEF UndoScene, Stacks
  <2> QED BY <1>12, <2>2 DEF UndoScene, SceneInv
<1>13. CASE RedoScene
  <2>1. sceneNow' \in S /\ sceneRedo' \in Seq(S)
    BY <1>1, <1>13, PopGood DEF RedoScene, Stacks
  <2>2. Stacks(S)'
    BY <1>1, <1>13, <2>1 DEF RedoScene, Stacks
  <2> QED BY <1>13, <2>2 DEF RedoScene, SceneInv
<1>14. ASSUME UNCHANGED <<sceneNow, sceneUndo, sceneRedo, scenesMade>> PROVE SceneInv'
  <2>1. Stacks(S)'
    BY <1>1, <1>14 DEF Stacks
  <2> QED BY <1>14, <2>1 DEF SceneInv
<1>15. CASE ToggleStudio
  BY <1>14, <1>15 DEF ToggleStudio
<1>16. ASSUME NEW id \in SceneIds, SelectPreview(id) PROVE SceneInv'
  BY <1>14, <1>16 DEF SelectPreview
<1>17. CASE TakePreview
  <2>1. CASE studio.preview \in sceneNow.ids
    BY <1>2, <1>17, <2>1, SwitchedGood, RecordKeeps DEF TakePreview
  <2>2. CASE studio.preview \notin sceneNow.ids
    BY <1>14, <1>17, <2>2 DEF TakePreview
  <2> QED BY <2>1, <2>2
<1>18. CASE UNCHANGED sceneVars
  BY <1>14, <1>18 DEF sceneVars
<1> QED
  BY <1>3, <1>4, <1>5, <1>6, <1>7, <1>8, <1>9, <1>10, <1>11, <1>12, <1>13, <1>15, <1>16,
     <1>17, <1>18
  DEF SceneNext

-----------------------------------------------------------------------------
(* The theorems.                                                           *)

LEMMA InvIsSound == SceneInv => ScenesSound
<1> SUFFICES ASSUME SceneInv PROVE ScenesSound
  OBVIOUS
<1>1. PICK S : Stacks(S)
  BY DEF SceneInv
<1>2. Snapshots \subseteq S
  BY <1>1 DEF Stacks, Snapshots
<1> QED BY <1>1, <1>2 DEF Stacks, Good, ScenesSound

(***************************************************************************)
(* Whatever collections are imported and however many scenes are made,     *)
(* dragged, removed, undone and redone, the collection and every snapshot  *)
(* stay a tree with an active scene (scene.rs, scene_dock.rs).             *)
(***************************************************************************)
THEOREM ScenesStaySound == SceneSpec => []ScenesSound
<1>1. SceneSpec => []SceneInv
  BY InitScene, StepScene, PTL DEF SceneSpec
<1> QED BY <1>1, InvIsSound, PTL

\* What the other variables are.
RolesInv ==
  /\ sceneEdits \in 0..MaxSceneEdits
  /\ studio \in [enabled : BOOLEAN, preview : SceneIds \cup {NoScene},
                 program : SceneIds \cup {NoScene}]

LEMMA RoleTypes ==
  ASSUME NEW s \in [enabled : BOOLEAN, preview : SceneIds \cup {NoScene},
                   program : SceneIds \cup {NoScene}],
         NEW id
  PROVE  RoleLost(s, id) \in [enabled : BOOLEAN, preview : SceneIds \cup {NoScene},
                             program : SceneIds \cup {NoScene}]
BY DEF RoleLost

LEMMA StepRoles ==
  ASSUME SceneInv, RolesInv, [SceneNext]_sceneVars
  PROVE  RolesInv'
<1>1. ASSUME NEW next, Record(next) PROVE sceneEdits' \in 0..MaxSceneEdits
  BY <1>1, SceneAssumption DEF Record, RolesInv
<1>2. sceneNow.ids \subseteq SceneIds /\ sceneNow.active \in SceneIds \cup {NoScene}
  BY DEF SceneInv, Stacks, Good, Shape, Sound
<1>3. ASSUME NEW batch \in Batches, RemoveScenes(batch) PROVE RolesInv'
  <2>1. studio' = RoleLost(studio, batch[1])
        \/ studio' = RoleLost(RoleLost(studio, batch[1]), batch[2])
    BY <1>3 DEF RemoveScenes, RolesLost
  <2>2. studio' \in [enabled : BOOLEAN, preview : SceneIds \cup {NoScene},
                    program : SceneIds \cup {NoScene}]
    BY <2>1, RoleTypes DEF RolesInv
  <2>3. sceneEdits' \in 0..MaxSceneEdits
    BY <1>1, <1>3 DEF RemoveScenes
  <2> QED BY <2>2, <2>3 DEF RolesInv
<1>4. ASSUME studio' = studio,
             sceneEdits' = sceneEdits \/ \E next : Record(next)
      PROVE  RolesInv'
  BY <1>1, <1>4 DEF RolesInv
<1>5. ASSUME NEW file, ImportScenes(file) PROVE RolesInv'
  BY <1>5, SceneAssumption DEF ImportScenes, RolesInv
<1>6. CASE ToggleStudio
  BY <1>2, <1>6 DEF ToggleStudio, RolesInv, StudioOff
<1>7. ASSUME NEW id, SelectPreview(id) PROVE RolesInv'
  BY <1>2, <1>7 DEF SelectPreview, RolesInv
<1>8. CASE TakePreview
  <2>1. sceneEdits' \in 0..MaxSceneEdits
    BY <1>1, <1>8 DEF TakePreview, RolesInv
  <2>2. studio' \in [enabled : BOOLEAN, preview : SceneIds \cup {NoScene},
                    program : SceneIds \cup {NoScene}]
    BY <1>8 DEF TakePreview, RolesInv
  <2> QED BY <2>1, <2>2 DEF RolesInv
<1>9. ASSUME \/ AddScene \/ SwitchBack \/ UndoScene \/ RedoScene
             \/ \E id \in SceneIds : \/ DuplicateScene(id) \/ SetFolderDefault(id)
                                     \/ ClearFolderDefault(id) \/ SwitchScene(id)
             \/ \E batch, p : DropScenes(batch, p)
      PROVE  RolesInv'
  BY <1>4, <1>9 DEF AddScene, SwitchBack, UndoScene, RedoScene, DuplicateScene,
                    SetFolderDefault, ClearFolderDefault, SwitchScene, DropScenes
<1>10. CASE UNCHANGED sceneVars
  BY <1>4, <1>10 DEF sceneVars
<1> QED BY <1>3, <1>5, <1>6, <1>7, <1>8, <1>9, <1>10 DEF SceneNext

LEMMA InvIsTyped == SceneInv /\ RolesInv => SceneTypeOK
<1> SUFFICES ASSUME SceneInv, RolesInv PROVE SceneTypeOK
  OBVIOUS
<1>1. PICK S : Stacks(S)
  BY DEF SceneInv
<1>2. ASSUME NEW c \in S PROVE c \in Collections /\ HistoryExists(c)
  <2>1. Good(c, scenesMade)
    BY <1>1 DEF Stacks
  <2>2. c.history \in Seq(c.ids) /\ c.ids \subseteq SceneIds
    BY <2>1 DEF Good, Shape
  <2>3. c.history \in Seq(SceneIds)
    BY <2>2, LargerSet
  <2>4. HistoryExists(c)
    BY <2>2, LenProperties, ElementOfSeq DEF HistoryExists
  <2>5. c.active \in SceneIds \cup {NoScene} /\ c.defaults \in SUBSET SceneIds
    BY <2>1, <2>2 DEF Good, Sound
  <2>6. /\ c = [ids |-> c.ids, parent |-> c.parent, active |-> c.active, history |-> c.history,
                defaults |-> c.defaults]
        /\ c.parent \in [SceneIds -> SceneIds \cup {NoScene}]
    BY <2>1 DEF Good, Shape
  <2>7. c \in Collections
    BY <2>2, <2>3, <2>5, <2>6 DEF Collections
  <2> QED BY <2>4, <2>7
<1>3. S \subseteq Collections
  BY <1>2
<1>4. sceneUndo \in Seq(Collections) /\ sceneRedo \in Seq(Collections) /\ sceneNow \in Collections
  BY <1>1, <1>3, LargerSet DEF Stacks
<1>5. Snapshots \subseteq S
  BY <1>1 DEF Stacks, Snapshots
<1> QED BY <1>2, <1>4, <1>5 DEF SceneTypeOK, SceneInv, RolesInv

\* Every variable of the scene tree keeps its type, and no history, of the
\* collection or of a snapshot, names a scene that is gone (remove_inner
\* retains the others).
THEOREM SceneTypeCorrect == SceneSpec => []SceneTypeOK
<1>1. SceneInit => SceneInv /\ RolesInv
  BY InitScene, SceneAssumption DEF SceneInit, RolesInv, StudioOff
<1>2. SceneInv /\ RolesInv /\ [SceneNext]_sceneVars => (SceneInv /\ RolesInv)'
  BY StepScene, StepRoles
<1> QED BY <1>1, <1>2, InvIsTyped, PTL DEF SceneSpec
=============================================================================
