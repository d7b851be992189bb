--------------------------- MODULE ObsServer_proofs ---------------------------
(***************************************************************************)
(* TLAPS proofs about ObsServer, for every number of clients, requests,    *)
(* edits and restarts and every set of commands and faults:                *)
(*   - CommandsEndWithServer: no command outlives its server;              *)
(*   - ObsTypeCorrect:    every variable keeps its type;                   *)
(*   - ClientsLearnTheTruth: once everything sent has arrived, a client    *)
(*                        that believes what is not so was left out in one *)
(*                        of the three known ways.                         *)
(***************************************************************************)
EXTENDS ObsServer, SequenceTheorems, TLAPS

-----------------------------------------------------------------------------
(* The commands.                                                           *)

\* Commands that were sent to the running server.
Current == [from : ObsSessions \cup {NoSession}, command : ObsCommands, server : {obsServer}]

CommandInv == obsCmds \in Seq(Current) /\ obsBatch \in Seq(Current)

\* Forgetting who sent a command keeps it.
LEMMA OrphanedIsCurrent ==
  ASSUME NEW q \in Seq(Current), NEW s PROVE Orphaned(q, s) \in Seq(Current)
<1>1. \A i \in DOMAIN q : q[i] \in Current
  BY ElementOfSeq, LenProperties
<1>2. \A i \in DOMAIN q :
        (IF q[i].from = s THEN [q[i] EXCEPT !.from = NoSession] ELSE q[i]) \in Current
  BY <1>1 DEF Current
<1>3. DOMAIN q = 1..Len(q) /\ Len(q) \in Nat
  BY LenProperties
<1>4. Orphaned(q, s) \in [1..Len(q) -> Current]
  BY <1>2, <1>3 DEF Orphaned
<1> QED BY <1>3, <1>4, SeqDef

LEMMA NextCommand == CommandInv /\ [ObsNext]_obsVars => CommandInv'
<1> SUFFICES ASSUME CommandInv, [ObsNext]_obsVars PROVE CommandInv'
  OBVIOUS
<1>1. ASSUME UNCHANGED <<obsServer, obsCmds, obsBatch>> PROVE CommandInv'
  BY <1>1 DEF CommandInv, Current
<1>2. ASSUME NEW w \in {"same", "off", "new"}, ObsFrame(w) PROVE CommandInv'
  <2>1. obsCmds' = <<>> /\ (obsBatch' = <<>> \/ (obsBatch' = obsCmds /\ obsServer' = obsServer))
    BY <1>2 DEF ObsFrame
  <2>2. <<>> \in Seq(Current')
    BY EmptySeq
  <2>3. obsServer' = obsServer => Current' = Current
    BY DEF Current
  <2> QED BY <2>1, <2>2, <2>3 DEF CommandInv
<1>3. ASSUME ObsExecute PROVE CommandInv'
  <2>1. obsBatch # <<>> /\ obsBatch' = Tail(obsBatch) /\ UNCHANGED <<obsServer, obsCmds>>
    BY <1>3 DEF ObsExecute
  <2>2. Tail(obsBatch) \in Seq(Current)
    BY <2>1, HeadTailProperties DEF CommandInv
  <2> QED BY <2>1, <2>2 DEF CommandInv, Current
<1>4. ASSUME NEW s \in ObsSessions, NEW c \in ObsCommands, ObsRequest(s, c)
      PROVE  CommandInv'
  <2>1. CASE ObsDown(s)
    BY <1>1, <1>4, <2>1 DEF ObsRequest
  <2>2. CASE ~ObsDown(s)
    <3>1. obsSess[s].server = obsServer
      BY <2>2 DEF ObsDown
    <3>2. /\ obsCmds' = Append(obsCmds, [from |-> s, command |-> c, server |-> obsServer])
          /\ UNCHANGED <<obsServer, obsBatch>>
      BY <1>4, <2>2, <3>1 DEF ObsRequest
    <3>3. [from |-> s, command |-> c, server |-> obsServer] \in Current
      BY DEF Current
    <3>4. obsCmds' \in Seq(Current)
      BY <3>2, <3>3, AppendProperties DEF CommandInv
    <3> QED BY <3>2, <3>4 DEF CommandInv, Current
  <2> QED BY <2>1, <2>2
<1>5. ASSUME NEW s \in ObsSessions, ObsGiveUp(s) PROVE CommandInv'
  <2>1. /\ obsCmds' = Orphaned(obsCmds, s) /\ obsBatch' = Orphaned(obsBatch, s)
        /\ obsServer' = obsServer
    BY <1>5 DEF ObsGiveUp
  <2>2. obsCmds' \in Seq(Current) /\ obsBatch' \in Seq(Current)
    BY <2>1, OrphanedIsCurrent DEF CommandInv
  <2> QED BY <2>1, <2>2 DEF CommandInv, Current
<1>6. ASSUME NEW s \in ObsSessions,
             \/ ObsAccept(s) \/ ObsIdentify(s) \/ ObsDeliver(s) \/ ObsDisconnect(s)
             \/ ObsReject(s) \/ ObsAnswer(s) \/ ObsEnd(s)
      PROVE  CommandInv'
  BY <1>1, <1>6 DEF ObsAccept, ObsIdentify, ObsDeliver, ObsDisconnect, ObsReject,
                    ObsAnswer, ObsEnd, Gone, obsUiVars
<1>7. ASSUME ObsBroadcast \/ \E f \in Outputs : ObsEdit(f) PROVE CommandInv'
  BY <1>1, <1>7 DEF ObsBroadcast, ObsEdit
<1>8. CASE UNCHANGED obsVars
  BY <1>1, <1>8 DEF obsVars, obsUiVars
<1>9. ASSUME NEW s \in ObsSessions, ObsStall(s) \/ ObsResume(s) PROVE CommandInv'
  BY <1>1, <1>9 DEF ObsStall, ObsResume, obsUiVars
<1> QED
  BY <1>2, <1>9, <1>3, <1>4, <1>5, <1>6, <1>7, <1>8
     DEF ObsNext, ObsUiNext, ObsSession, ObsSessionGoesOn

\* What waits for the UI thread was sent to the server that runs, for any
\* number of clients, requests and restarts.
THEOREM CommandsEndWithServer == ObsSpec => []NoStaleCommand
<1>1. ObsInit => CommandInv
  BY EmptySeq DEF ObsInit, CommandInv
<1>2. CommandInv => NoStaleCommand
  <2> SUFFICES ASSUME NEW q \in Seq(Current), NEW i \in DOMAIN q PROVE q[i].server = obsServer
    BY DEF CommandInv, NoStaleCommand
  <2>1. q[i] \in Current
    BY ElementOfSeq, LenProperties
  <2> QED BY <2>1 DEF Current
<1> QED BY <1>1, <1>2, NextCommand, PTL DEF ObsSpec

-----------------------------------------------------------------------------
(* What a queue of events will make its client believe.                    *)

OnOff  == {"on", "off"}
Events == [output : Outputs, value : OnOff]

\* The last event about output f in q says that f is v; or there is none.
SaysLast(q, f, v) ==
  \E i \in DOMAIN q : /\ q[i].output = f /\ q[i].value = v
                      /\ \A k \in DOMAIN q : k > i => q[k].output # f
Silent(q, f) == \A i \in DOMAIN q : q[i].output # f

\* Whoever believes w of f and has q delivered does not believe of f what
\* differs from v.
Tells(q, w, f, v) == SaysLast(q, f, v) \/ (Silent(q, f) /\ w \in {"unknown", v})

\* One event about f.
LEMMA OneEvent ==
  ASSUME NEW f \in Outputs, NEW v \in OnOff
  PROVE  LET q == <<[output |-> f, value |-> v]>>
         IN  /\ q \in Seq(Events) /\ SaysLast(q, f, v)
             /\ \A g \in Outputs : g # f => Silent(q, g)
<1> DEFINE e == [output |-> f, value |-> v]
           q == <<e>>
<1>1. e \in Events
  BY DEF Events
<1>2. q \in Seq(Events) /\ DOMAIN q = {1} /\ q[1] = e
  BY <1>1
<1>3. SaysLast(q, f, v) /\ \A g \in Outputs : g # f => Silent(q, g)
  BY <1>2 DEF SaysLast, Silent
<1> QED BY <1>2, <1>3

LEMMA NoEvent == <<>> \in Seq(Events) /\ \A f : Silent(<<>>, f)
BY EmptySeq DEF Silent

\* Events that are queued behind others.
LEMMA QueuedBehind ==
  ASSUME NEW q \in Seq(Events), NEW e \in Seq(Events), NEW f, NEW v
  PROVE  /\ q \o e \in Seq(Events)
         /\ SaysLast(e, f, v) => SaysLast(q \o e, f, v)
         /\ SaysLast(q, f, v) /\ Silent(e, f) => SaysLast(q \o e, f, v)
         /\ Silent(q, f) /\ Silent(e, f) => Silent(q \o e, f)
<1> DEFINE b == q \o e
<1>1. /\ b \in Seq(Events)
      /\ Len(b) = Len(q) + Len(e)
      /\ \A i \in 1..Len(q) + Len(e) : b[i] = IF i <= Len(q) THEN q[i] ELSE e[i - Len(q)]
  BY ConcatProperties
<1>2. /\ DOMAIN q = 1..Len(q) /\ DOMAIN e = 1..Len(e) /\ DOMAIN b = 1..Len(q) + Len(e)
      /\ Len(q) \in Nat /\ Len(e) \in Nat
  BY <1>1, LenProperties
<1> HIDE DEF b
<1>3. ASSUME NEW k \in DOMAIN b, k > Len(q) PROVE k - Len(q) \in DOMAIN e /\ b[k] = e[k - Len(q)]
  BY <1>1, <1>2, <1>3
<1>4. ASSUME NEW k \in DOMAIN b, ~(k > Len(q)) PROVE k \in DOMAIN q /\ b[k] = q[k]
  BY <1>1, <1>2, <1>4
<1>5. ASSUME SaysLast(e, f, v) PROVE SaysLast(b, f, v)
  <2>1. PICK i \in DOMAIN e : /\ e[i].output = f /\ e[i].value = v
                              /\ \A k \in DOMAIN e : k > i => e[k].output # f
    BY <1>5 DEF SaysLast
  <2>2. i + Len(q) \in DOMAIN b /\ i + Len(q) > Len(q) /\ b[i + Len(q)] = e[i]
    BY <1>1, <1>2
  <2>3. ASSUME NEW k \in DOMAIN b, k > i + Len(q) PROVE b[k].output # f
    <3>1. k > Len(q) /\ k - Len(q) > i
      BY <1>2, <2>3
    <3> QED BY <1>3, <2>1, <3>1
  <2> QED BY <2>1, <2>2, <2>3 DEF SaysLast
<1>6. ASSUME SaysLast(q, f, v), Silent(e, f) PROVE SaysLast(b, f, v)
  <2>1. PICK i \in DOMAIN q : /\ q[i].output = f /\ q[i].value = v
                              /\ \A k \in DOMAIN q : k > i => q[k].output # f
    BY <1>6 DEF SaysLast
  <2>2. i \in DOMAIN b /\ b[i] = q[i]
    BY <1>1, <1>2
  <2>3. ASSUME NEW k \in DOMAIN b, k > i PROVE b[k].output # f
    BY <1>3, <1>4, <1>6, <2>1, <2>3 DEF Silent
  <2> QED BY <2>1, <2>2, <2>3 DEF SaysLast
<1>7. ASSUME Silent(q, f), Silent(e, f) PROVE Silent(b, f)
  BY <1>3, <1>4, <1>7 DEF Silent
<1> QED BY <1>1, <1>5, <1>6, <1>7 DEF b

\* What the UI thread broadcasts about one output or the other.
Said(S, f) == IF f \in S THEN <<[output |-> f, value |-> obsUi[f]]>> ELSE <<>>

LEMMA BothSaid ==
  ASSUME obsUi \in [Outputs -> OnOff], NEW S
  PROVE  LET e == Said(S, "recording") \o Said(S, "muted")
         IN  /\ e \in Seq(Events)
             /\ \A f \in Outputs : IF f \in S THEN SaysLast(e, f, obsUi[f]) ELSE Silent(e, f)
<1>1. ASSUME NEW f \in Outputs
      PROVE  /\ Said(S, f) \in Seq(Events)
             /\ f \in S => SaysLast(Said(S, f), f, obsUi[f])
             /\ f \notin S => Silent(Said(S, f), f)
             /\ \A g \in Outputs : g # f => Silent(Said(S, f), g)
  BY OneEvent, NoEvent DEF Said
<1> DEFINE r == Said(S, "recording")
           m == Said(S, "muted")
<1>2. /\ r \in Seq(Events) /\ m \in Seq(Events) /\ Silent(r, "muted") /\ Silent(m, "recording")
      /\ IF "recording" \in S THEN SaysLast(r, "recording", obsUi["recording"])
         ELSE Silent(r, "recording")
      /\ IF "muted" \in S THEN SaysLast(m, "muted", obsUi["muted"]) ELSE Silent(m, "muted")
  BY <1>1 DEF Outputs
<1> HIDE DEF r, m
<1>3. IF "recording" \in S THEN SaysLast(r \o m, "recording", obsUi["recording"])
      ELSE Silent(r \o m, "recording")
  BY <1>2, QueuedBehind
<1>4. IF "muted" \in S THEN SaysLast(r \o m, "muted", obsUi["muted"])
      ELSE Silent(r \o m, "muted")
  BY <1>2, QueuedBehind
<1>5. r \o m \in Seq(Events)
  BY <1>2, QueuedBehind
<1> QED BY <1>3, <1>4, <1>5 DEF Outputs, r, m

-----------------------------------------------------------------------------
(* The types, and what each kind of step does to the sessions.             *)

Replies == {NoReply, Failed} \cup [kind : {"success"}, output : Outputs, value : OnOff]

SessionType == [phase : {"none", "identify", "idle", "waiting"}, server : Nat,
                reply : Replies, queue : Seq(Events)]

ObsShape ==
  /\ obsUi \in [Outputs -> OnOff] /\ obsBase \subseteq [Outputs -> OnOff]
  /\ obsServer \in {0, obsStarted} /\ obsStarted \in 0..MaxServers
  /\ obsPc \in {"frame", "execute"}
  /\ obsSess \in [ObsSessions -> SessionType]
  /\ \A s \in ObsSessions : obsSess[s].server <= obsStarted
  /\ obsView \in [ObsSessions -> [Outputs -> {"on", "off", "unknown"}]]
  /\ obsWhy \in [Outputs -> {"told", "absorbed", "late", "overtaken"}]
  /\ obsRequests \in 0..MaxRequests /\ obsEdits \in 0..MaxEdits

\* Session s and its view, and no other, change.
OnlySession(s) == \A t \in ObsSessions : t # s => obsSess'[t] = obsSess[t] /\ obsView'[t] = obsView[t]

LEMMA SetSession ==
  ASSUME ObsShape, NEW s \in ObsSessions, NEW r \in SessionType, Set(s, r)
  PROVE  /\ obsSess' \in [ObsSessions -> SessionType] /\ obsSess'[s] = r
         /\ \A t \in ObsSessions : t # s => obsSess'[t] = obsSess[t]
BY DEF ObsShape, Set

LEMMA ReplyShapes ==
  /\ NoReply \in Replies /\ Failed \in Replies /\ NoReply # Failed
  /\ NoReply.kind = "none" /\ Failed.kind = "failure"
  /\ \A r \in Replies : r.kind = "success" => r.output \in Outputs /\ r.value \in OnOff
  /\ \A f \in Outputs, v \in OnOff : [kind |-> "success", output |-> f, value |-> v] \in Replies
BY DEF NoReply, Failed, Replies

LEMMA ClosedShape ==
  /\ Closed \in SessionType /\ Closed.phase = "none" /\ Closed.server = 0
  /\ Closed.reply = NoReply /\ Closed.queue = <<>>
BY ReplyShapes, NoEvent DEF Closed, SessionType

\* A broadcast adds its events to the queues of the registered sessions of one
\* server and touches nothing else.
LEMMA EachTold ==
  ASSUME ObsShape, NEW server, NEW e \in Seq(Events), obsSess' = ToEach(server, e)
  PROVE  /\ obsSess' \in [ObsSessions -> SessionType]
         /\ \A s \in ObsSessions :
              /\ obsSess'[s].phase = obsSess[s].phase
              /\ obsSess'[s].server = obsSess[s].server
              /\ obsSess'[s].reply = obsSess[s].reply
              /\ obsSess'[s].queue = IF Registered(s) /\ obsSess[s].server = server
                                     THEN obsSess[s].queue \o e ELSE obsSess[s].queue
<1>1. ASSUME NEW s \in ObsSessions
      PROVE  obsSess[s] \in SessionType /\ obsSess[s].queue \o e \in Seq(Events)
  <2>1. obsSess[s] \in SessionType /\ obsSess[s].queue \in Seq(Events)
    BY DEF ObsShape, SessionType
  <2> QED BY <2>1, ConcatProperties
<1>2. ASSUME NEW s \in ObsSessions, NEW q \in Seq(Events)
      PROVE  /\ [obsSess[s] EXCEPT !.queue = q] \in SessionType
             /\ [obsSess[s] EXCEPT !.queue = q].phase = obsSess[s].phase
             /\ [obsSess[s] EXCEPT !.queue = q].server = obsSess[s].server
             /\ [obsSess[s] EXCEPT !.queue = q].reply = obsSess[s].reply
             /\ [obsSess[s] EXCEPT !.queue = q].queue = q
  BY <1>1 DEF SessionType
<1>3. ASSUME NEW s \in ObsSessions
      PROVE  obsSess'[s] = IF Registered(s) /\ obsSess[s].server = server
                           THEN [obsSess[s] EXCEPT !.queue = obsSess[s].queue \o e]
                           ELSE obsSess[s]
  BY DEF ToEach
<1>4. obsSess' \in [ObsSessions -> SessionType]
  BY <1>1, <1>2 DEF ToEach
<1>5. ASSUME NEW s \in ObsSessions
      PROVE  /\ obsSess'[s].phase = obsSess[s].phase
             /\ obsSess'[s].server = obsSess[s].server
             /\ obsSess'[s].reply = obsSess[s].reply
             /\ obsSess'[s].queue = IF Registered(s) /\ obsSess[s].server = server
                                    THEN obsSess[s].queue \o e ELSE obsSess[s].queue
  <2>1. CASE Registered(s) /\ obsSess[s].server = server
    <3>1. obsSess[s].queue \o e \in Seq(Events)
      BY <1>1
    <3>2. obsSess'[s] = [obsSess[s] EXCEPT !.queue = obsSess[s].queue \o e]
      BY <1>3, <2>1
    <3> QED BY <1>2, <2>1, <3>1, <3>2
  <2>2. CASE ~(Registered(s) /\ obsSess[s].server = server)
    BY <1>3, <2>2
  <2> QED BY <2>1, <2>2
<1> QED BY <1>4, <1>5

\* A dropped command changes the reply of a session that waits for it.
LEMMA Dropped ==
  ASSUME ObsShape, obsSess' = DropCommands
  PROVE  /\ obsSess' \in [ObsSessions -> SessionType]
         /\ \A s \in ObsSessions :
              /\ obsSess'[s].phase = obsSess[s].phase
              /\ obsSess'[s].server = obsSess[s].server
              /\ obsSess'[s].queue = obsSess[s].queue
              /\ \/ obsSess'[s].reply = obsSess[s].reply
                 \/ /\ \E i \in DOMAIN obsCmds : obsCmds[i].from = s
                    /\ obsSess'[s].reply = Failed
<1>1. ASSUME NEW s \in ObsSessions
      PROVE  /\ obsSess[s] \in SessionType
             /\ [obsSess[s] EXCEPT !.reply = Failed] \in SessionType
  BY ReplyShapes DEF ObsShape, SessionType
<1> QED BY <1>1 DEF DropCommands, SessionType

\* A result is put down for the session that waits for it.
LEMMA Replied ==
  ASSUME ObsShape, NEW s \in ObsSessions, NEW r \in Replies,
         obsSess' = [obsSess EXCEPT ![s].reply = r]
  PROVE  /\ obsSess' \in [ObsSessions -> SessionType]
         /\ \A t \in ObsSessions : t # s => obsSess'[t] = obsSess[t]
         /\ obsSess'[s].phase = obsSess[s].phase
         /\ obsSess'[s].server = obsSess[s].server
         /\ obsSess'[s].queue = obsSess[s].queue
         /\ obsSess'[s].reply = r
BY DEF ObsShape, SessionType

\* The connection is over.
LEMMA GoneSession ==
  ASSUME ObsShape, NEW s \in ObsSessions, Gone(s)
  PROVE  /\ obsSess' \in [ObsSessions -> SessionType] /\ obsSess'[s] = Closed
         /\ obsView' \in [ObsSessions -> [Outputs -> {"on", "off", "unknown"}]]
         /\ obsView'[s] = [f \in Outputs |-> "unknown"]
         /\ OnlySession(s)
         /\ UNCHANGED <<obsUiVars, obsWhy, obsRequests, obsEdits>>
<1>1. Set(s, Closed)
  BY DEF Gone
<1>2. obsSess' \in [ObsSessions -> SessionType] /\ obsSess'[s] = Closed
      /\ \A t \in ObsSessions : t # s => obsSess'[t] = obsSess[t]
  BY <1>1, SetSession, ClosedShape
<1> QED BY <1>2 DEF Gone, ObsShape, OnlySession

\* A thread's step that gives session s the phase p and the reply r.
Turned(s, p, r) ==
  /\ obsSess' \in [ObsSessions -> SessionType]
  /\ \A t \in ObsSessions : t # s => obsSess'[t] = obsSess[t]
  /\ obsSess'[s].phase = p /\ obsSess'[s].reply = r
  /\ obsSess'[s].server = obsSess[s].server /\ obsSess'[s].queue = obsSess[s].queue

ObsPhases == {"none", "identify", "idle", "waiting"}

LEMMA TurnedPhase ==
  ASSUME ObsShape, NEW s \in ObsSessions, NEW p \in ObsPhases,
         Set(s, [obsSess[s] EXCEPT !.phase = p])
  PROVE  Turned(s, p, obsSess[s].reply)
<1> DEFINE x == [obsSess[s] EXCEPT !.phase = p]
<1>1. /\ x \in SessionType /\ x.phase = p /\ x.reply = obsSess[s].reply
      /\ x.server = obsSess[s].server /\ x.queue = obsSess[s].queue
  BY DEF ObsShape, SessionType, ObsPhases
<1>2. Set(s, x)
  OBVIOUS
<1> HIDE DEF x
<1> QED BY <1>1, <1>2, SetSession DEF Turned

LEMMA TurnedBoth ==
  ASSUME ObsShape, NEW s \in ObsSessions, NEW p \in ObsPhases, NEW r \in Replies,
         Set(s, [obsSess[s] EXCEPT !.phase = p, !.reply = r])
  PROVE  Turned(s, p, r)
<1> DEFINE x == [obsSess[s] EXCEPT !.phase = p, !.reply = r]
<1>1. /\ x \in SessionType /\ x.phase = p /\ x.reply = r
      /\ x.server = obsSess[s].server /\ x.queue = obsSess[s].queue
  BY DEF ObsShape, SessionType, ObsPhases
<1>2. Set(s, x)
  OBVIOUS
<1> HIDE DEF x
<1> QED BY <1>1, <1>2, SetSession DEF Turned

LEMMA IdentifyStep ==
  ASSUME ObsShape, NEW s \in ObsSessions, ObsIdentify(s)
  PROVE  Turned(s, "idle", obsSess[s].reply)
<1>1. Set(s, [obsSess[s] EXCEPT !.phase = "idle"])
  BY DEF ObsIdentify
<1> QED BY <1>1, TurnedPhase DEF ObsPhases

LEMMA RequestStep ==
  ASSUME ObsShape, NEW s \in ObsSessions, NEW c, ObsRequest(s, c), ~ObsDown(s)
  PROVE  Turned(s, "waiting", NoReply)
<1>1. Set(s, [obsSess[s] EXCEPT !.phase = "waiting", !.reply = NoReply])
  BY DEF ObsRequest
<1> QED BY <1>1, ReplyShapes, TurnedBoth DEF ObsPhases

LEMMA GiveUpStep ==
  ASSUME ObsShape, NEW s \in ObsSessions, ObsGiveUp(s)
  PROVE  Turned(s, "idle", NoReply)
<1>1. Set(s, [obsSess[s] EXCEPT !.phase = "idle"]) /\ obsSess[s].reply = NoReply
  BY DEF ObsGiveUp
<1> QED BY <1>1, TurnedPhase DEF ObsPhases

LEMMA AcceptStep ==
  ASSUME ObsShape, NEW s \in ObsSessions, ObsAccept(s)
  PROVE  /\ obsSess' \in [ObsSessions -> SessionType]
         /\ \A t \in ObsSessions : t # s => obsSess'[t] = obsSess[t]
         /\ obsSess'[s].phase = "identify" /\ obsSess'[s].server = obsServer
         /\ obsSess'[s].reply = NoReply /\ obsSess'[s].queue = <<>>
<1> DEFINE r == [Closed EXCEPT !.phase = "identify", !.server = obsServer]
<1>1. /\ r \in SessionType /\ r.phase = "identify" /\ r.server = obsServer
      /\ r.reply = NoReply /\ r.queue = <<>>
  <2>1. obsServer \in Nat
    BY ObsAssumption DEF ObsShape
  <2> QED BY <2>1, ClosedShape DEF SessionType
<1>2. Set(s, r)
  BY DEF ObsAccept
<1> HIDE DEF r
<1> QED BY <1>1, <1>2, SetSession

LEMMA DeliverStep ==
  ASSUME ObsShape, NEW s \in ObsSessions, ObsDeliver(s)
  PROVE  /\ obsSess' \in [ObsSessions -> SessionType]
         /\ \A t \in ObsSessions : t # s => obsSess'[t] = obsSess[t]
         /\ obsSess'[s].phase = obsSess[s].phase /\ obsSess'[s].server = obsSess[s].server
         /\ obsSess'[s].reply = obsSess[s].reply /\ obsSess'[s].queue = <<>>
<1> DEFINE x == [obsSess[s] EXCEPT !.queue = <<>>]
<1>1. /\ x \in SessionType /\ x.phase = obsSess[s].phase /\ x.reply = obsSess[s].reply
      /\ x.server = obsSess[s].server /\ x.queue = <<>>
  BY NoEvent DEF ObsShape, SessionType
<1>2. Set(s, x)
  BY DEF ObsDeliver
<1> HIDE DEF x
<1> QED BY <1>1, <1>2, SetSession

\* What the answer of a session says to everybody.
AnswerEvents(r) == IF r.kind = "success" THEN <<[output |-> r.output, value |-> r.value]>> ELSE <<>>

LEMMA AnswerStep ==
  ASSUME ObsShape, NEW s \in ObsSessions, ObsAnswer(s)
  PROVE  /\ obsSess' \in [ObsSessions -> SessionType]
         /\ \A t \in ObsSessions :
              /\ t # s => obsSess'[t].phase = obsSess[t].phase /\ obsSess'[t].reply = obsSess[t].reply
              /\ obsSess'[t].server = obsSess[t].server
              /\ obsSess'[t].queue = IF Registered(t) /\ obsSess[t].server = obsSess[s].server
                                     THEN obsSess[t].queue \o AnswerEvents(obsSess[s].reply)
                                     ELSE obsSess[t].queue
         /\ obsSess'[s].phase = "idle" /\ obsSess'[s].reply = NoReply
         /\ AnswerEvents(obsSess[s].reply) \in Seq(Events)
<1> DEFINE e == AnswerEvents(obsSess[s].reply)
           told == ToEach(obsSess[s].server, e)
<1>1. obsSess' = [told EXCEPT ![s].phase = "idle", ![s].reply = NoReply]
  BY DEF ObsAnswer, AnswerEvents
<1>2. e \in Seq(Events)
  <2>1. obsSess[s].reply \in Replies
    BY DEF ObsShape, SessionType
  <2>2. CASE obsSess[s].reply.kind = "success"
    BY <2>1, <2>2, ReplyShapes, OneEvent DEF AnswerEvents
  <2>3. CASE obsSess[s].reply.kind # "success"
    BY <2>3, NoEvent DEF AnswerEvents
  <2> QED BY <2>2, <2>3
<1> HIDE DEF e
<1>3. ASSUME NEW t \in ObsSessions
      PROVE  /\ obsSess[t] \in SessionType /\ obsSess[t].queue \o e \in Seq(Events)
  <2>1. obsSess[t] \in SessionType /\ obsSess[t].queue \in Seq(Events)
    BY DEF ObsShape, SessionType
  <2> QED BY <1>2, <2>1, ConcatProperties
<1>4. ASSUME NEW t \in ObsSessions
      PROVE  /\ told[t] \in SessionType
             /\ told[t].phase = obsSess[t].phase /\ told[t].server = obsSess[t].server
             /\ told[t].reply = obsSess[t].reply
             /\ told[t].queue = IF Registered(t) /\ obsSess[t].server = obsSess[s].server
                                THEN obsSess[t].queue \o e ELSE obsSess[t].queue
  <2>1. CASE Registered(t) /\ obsSess[t].server = obsSess[s].server
    <3>1. told[t] = [obsSess[t] EXCEPT !.queue = obsSess[t].queue \o e]
      BY <2>1 DEF ToEach
    <3>2. obsSess[t] \in SessionType /\ obsSess[t].queue \o e \in Seq(Events)
      BY <1>3
    <3> QED BY <2>1, <3>1, <3>2 DEF SessionType
  <2>2. CASE ~(Registered(t) /\ obsSess[t].server = obsSess[s].server)
    BY <1>3, <2>2 DEF ToEach
  <2> QED BY <2>1, <2>2
<1>5. told = [t \in ObsSessions |-> told[t]]
  BY DEF ToEach
<1> HIDE DEF told
<1>6. /\ obsSess' = [t \in ObsSessions |->
                       IF t = s THEN [told[s] EXCEPT !.phase = "idle", !.reply = NoReply]
                       ELSE told[t]]
  BY <1>1, <1>5
<1>7. /\ [told[s] EXCEPT !.phase = "idle", !.reply = NoReply] \in SessionType
      /\ [told[s] EXCEPT !.phase = "idle", !.reply = NoReply].phase = "idle"
      /\ [told[s] EXCEPT !.phase = "idle", !.reply = NoReply].reply = NoReply
      /\ [told[s] EXCEPT !.phase = "idle", !.reply = NoReply].server = told[s].server
      /\ [told[s] EXCEPT !.phase = "idle", !.reply = NoReply].queue = told[s].queue
  <2>1. told[s] \in SessionType
    BY <1>4
  <2> QED BY <2>1, ReplyShapes DEF SessionType
<1>8. obsSess' \in [ObsSessions -> SessionType]
  BY <1>4, <1>6, <1>7
<1>9. ASSUME NEW t \in ObsSessions
      PROVE  /\ t # s => obsSess'[t].phase = obsSess[t].phase /\ obsSess'[t].reply = obsSess[t].reply
             /\ obsSess'[t].server = obsSess[t].server
             /\ obsSess'[t].queue = IF Registered(t) /\ obsSess[t].server = obsSess[s].server
                                    THEN obsSess[t].queue \o e ELSE obsSess[t].queue
  BY <1>4, <1>6, <1>7
<1> QED BY <1>2, <1>6, <1>7, <1>8, <1>9 DEF e

\* What executing a command can do.
LEMMA OutcomeShape ==
  ASSUME ObsShape, NEW c \in ObsCommands, NEW o \in Outcomes(c)
  PROVE  /\ o.output \in Outputs /\ o.value \in OnOff
         /\ o.ok \in BOOLEAN /\ o.tried \in BOOLEAN /\ (o.ok => o.tried)
<1>1. \A f \in Outputs : Flip(obsUi[f]) \in OnOff
  BY DEF Flip, OnOff
<1>2. ASSUME NEW f \in Outputs, NEW v \in OnOff, o = Switch(f, v)
      PROVE  /\ o.output \in Outputs /\ o.value \in OnOff
             /\ o.ok \in BOOLEAN /\ o.tried \in BOOLEAN /\ (o.ok => o.tried)
  BY <1>2 DEF Switch
<1>3. ASSUME o = Refusal \/ o = Attempt
      PROVE  /\ o.output \in Outputs /\ o.value \in OnOff
             /\ o.ok \in BOOLEAN /\ o.tried \in BOOLEAN /\ (o.ok => o.tried)
  <2>1. /\ o.output = "recording" /\ o.value = "off" /\ o.ok = FALSE
        /\ o.tried = FALSE \/ o.tried = TRUE
    BY <1>3 DEF Refusal, Attempt
  <2> QED BY <2>1 DEF Outputs, OnOff
<1>4. \/ o = Refusal \/ o = Attempt
      \/ \E f \in Outputs, v \in OnOff : o = Switch(f, v)
  <2>1. o \in {Switch("muted", Flip(obsUi["muted"])), Refusal, Attempt,
              Switch("recording", "off"), Switch("recording", "on")}
    BY DEF Outcomes
  <2>2. /\ "on" \in OnOff /\ "off" \in OnOff
        /\ "muted" \in Outputs /\ "recording" \in Outputs
    BY DEF OnOff, Outputs
  <2> QED BY <1>1, <2>1, <2>2
<1> QED BY <1>2, <1>3, <1>4

\* Executing the head of the batch: the output it is about, the baseline and
\* the reply of the session that waits for it.
LEMMA ExecuteStep ==
  ASSUME ObsShape, CommandInv, ObsExecute
  PROVE  \E o \in [ok : BOOLEAN, tried : BOOLEAN, output : Outputs, value : OnOff] :
           /\ o.ok => o.tried
           /\ obsUi' = IF o.ok THEN [obsUi EXCEPT ![o.output] = o.value] ELSE obsUi
           /\ obsBase' = IF o.tried THEN {obsUi'} ELSE obsBase
           /\ \A f \in Outputs :
                obsWhy'[f] = IF o.tried /\ f \in Absorbed(o) THEN "absorbed"
                             ELSE IF o.ok /\ f = o.output /\ Head(obsBatch).from = NoSession THEN "late"
                             ELSE obsWhy[f]
           /\ obsWhy' \in [Outputs -> {"told", "absorbed", "late", "overtaken"}]
           /\ \/ Head(obsBatch).from = NoSession /\ obsSess' = obsSess
              \/ /\ Head(obsBatch).from \in ObsSessions
                 /\ \E r \in Replies :
                      /\ obsSess' = [obsSess EXCEPT ![Head(obsBatch).from].reply = r]
                      /\ o.ok => r.kind = "success" /\ r.output = o.output /\ r.value = o.value
<1>1. obsBatch # <<>> /\ Head(obsBatch) \in Current
  BY HeadTailProperties DEF ObsExecute, CommandInv
<1>2. PICK o \in Outcomes(Head(obsBatch).command) :
        LET from == Head(obsBatch).from
        IN  /\ obsUi' = IF o.ok THEN [obsUi EXCEPT ![o.output] = o.value] ELSE obsUi
            /\ obsBase' = IF o.tried THEN {obsUi'} ELSE obsBase
            /\ obsSess' = IF from = NoSession THEN obsSess
                          ELSE [obsSess EXCEPT ![from].reply =
                                  IF o.ok THEN [kind |-> "success", output |-> o.output, value |-> o.value]
                                  ELSE Failed]
            /\ obsWhy' = [f \in Outputs |->
                 IF o.tried /\ f \in Absorbed(o) THEN "absorbed"
                 ELSE IF o.ok /\ f = o.output /\ from = NoSession THEN "late" ELSE obsWhy[f]]
  BY DEF ObsExecute
<1>3. /\ o.output \in Outputs /\ o.value \in OnOff
      /\ o.ok \in BOOLEAN /\ o.tried \in BOOLEAN /\ (o.ok => o.tried)
  BY <1>1, OutcomeShape DEF Current
<1>4. o \in [ok : BOOLEAN, tried : BOOLEAN, output : Outputs, value : OnOff]
  BY <1>3 DEF Outcomes, Switch, Refusal, Attempt
<1>5. obsWhy' \in [Outputs -> {"told", "absorbed", "late", "overtaken"}]
  BY <1>2 DEF ObsShape
<1>6. \/ Head(obsBatch).from = NoSession /\ obsSess' = obsSess
      \/ /\ Head(obsBatch).from \in ObsSessions
         /\ \E r \in Replies :
              /\ obsSess' = [obsSess EXCEPT ![Head(obsBatch).from].reply = r]
              /\ o.ok => r.kind = "success" /\ r.output = o.output /\ r.value = o.value
  <2>1. CASE Head(obsBatch).from = NoSession
    BY <1>2, <2>1
  <2>2. CASE Head(obsBatch).from # NoSession
    <3> DEFINE r == IF o.ok THEN [kind |-> "success", output |-> o.output, value |-> o.value]
                    ELSE Failed
    <3>1. r \in Replies /\ (o.ok => r.kind = "success" /\ r.output = o.output /\ r.value = o.value)
      BY <1>3, ReplyShapes
    <3>2. obsSess' = [obsSess EXCEPT ![Head(obsBatch).from].reply = r]
      BY <1>2, <2>2
    <3>3. Head(obsBatch).from \in ObsSessions
      BY <1>1, <2>2 DEF Current
    <3> HIDE DEF r
    <3> QED BY <3>1, <3>2, <3>3
  <2> QED BY <2>1, <2>2
<1> QED BY <1>2, <1>3, <1>4, <1>5, <1>6

LEMMA ServersStarted ==
  ASSUME ObsShape, NEW w, ObsFrame(w)
  PROVE  /\ obsServer' \in {0, obsStarted'} /\ obsStarted' \in 0..MaxServers
         /\ obsStarted <= obsStarted' /\ obsStarted \in Nat /\ obsStarted' \in Nat
         /\ obsServer' \in {0, obsServer} \/ obsServer' > obsStarted
BY ObsAssumption DEF ObsFrame, ObsShape

LEMMA NextShape == ObsShape /\ CommandInv /\ [ObsNext]_obsVars => ObsShape'
<1> SUFFICES ASSUME ObsShape, CommandInv, [ObsNext]_obsVars PROVE ObsShape'
  OBVIOUS
<1> USE DEF obsUiVars
<1>1. ASSUME NEW f \in Outputs, ObsEdit(f) PROVE ObsShape'
  BY <1>1, ObsAssumption DEF ObsEdit, ObsShape, OnOff, Flip
<1>2. ASSUME NEW w \in {"same", "off", "new"}, ObsFrame(w) PROVE ObsShape'
  <2>1. obsSess' = obsSess \/ obsSess' = DropCommands
    BY <1>2 DEF ObsFrame
  <2>2. /\ obsSess' \in [ObsSessions -> SessionType]
        /\ \A s \in ObsSessions : obsSess'[s].server = obsSess[s].server
    BY <2>1, Dropped DEF ObsShape
  <2>3. \A s \in ObsSessions : obsSess[s].server \in Nat
    BY DEF ObsShape, SessionType
  <2>4. \A s \in ObsSessions : obsSess'[s].server <= obsStarted'
    BY <1>2, <2>2, <2>3, ServersStarted DEF ObsShape
  <2> QED BY <1>2, <2>2, <2>4, ServersStarted DEF ObsFrame, ObsShape
<1>3. ASSUME ObsExecute PROVE ObsShape'
  <2>1. PICK o \in [ok : BOOLEAN, tried : BOOLEAN, output : Outputs, value : OnOff] :
          /\ obsUi' = IF o.ok THEN [obsUi EXCEPT ![o.output] = o.value] ELSE obsUi
          /\ obsBase' = IF o.tried THEN {obsUi'} ELSE obsBase
          /\ obsWhy' \in [Outputs -> {"told", "absorbed", "late", "overtaken"}]
          /\ \/ obsSess' = obsSess
             \/ /\ Head(obsBatch).from \in ObsSessions
                /\ \E r \in Replies : obsSess' = [obsSess EXCEPT ![Head(obsBatch).from].reply = r]
    BY <1>3, ExecuteStep
  <2>2. obsUi' \in [Outputs -> OnOff] /\ obsBase' \subseteq [Outputs -> OnOff]
    BY <2>1 DEF ObsShape
  <2>3. /\ obsSess' \in [ObsSessions -> SessionType]
        /\ \A s \in ObsSessions : obsSess'[s].server = obsSess[s].server
    BY <2>1, Replied DEF ObsShape
  <2> QED BY <1>3, <2>1, <2>2, <2>3 DEF ObsExecute, ObsShape
<1>4. ASSUME ObsBroadcast PROVE ObsShape'
  <2>1. PICK S : /\ obsSess' = ToEach(obsServer, Said(S, "recording") \o Said(S, "muted"))
                 /\ obsWhy' = [f \in Outputs |-> IF f \in S THEN "told" ELSE obsWhy[f]]
    BY <1>4 DEF ObsBroadcast, Said
  <2>2. Said(S, "recording") \o Said(S, "muted") \in Seq(Events)
    BY BothSaid DEF ObsShape
  <2>3. /\ obsSess' \in [ObsSessions -> SessionType]
        /\ \A s \in ObsSessions : obsSess'[s].server = obsSess[s].server
    BY <2>1, <2>2, EachTold
  <2> QED BY <1>4, <2>1, <2>3 DEF ObsBroadcast, ObsShape
<1>5. ASSUME NEW s \in ObsSessions, ObsAccept(s) PROVE ObsShape'
  BY <1>5, AcceptStep DEF ObsAccept, ObsShape
<1>6. ASSUME NEW s \in ObsSessions, NEW p, NEW r, Turned(s, p, r), obsStarted' = obsStarted
      PROVE  /\ obsSess' \in [ObsSessions -> SessionType]
             /\ \A t \in ObsSessions : obsSess'[t].server <= obsStarted'
  BY <1>6 DEF Turned, ObsShape
<1>7. ASSUME NEW s \in ObsSessions, ObsIdentify(s) PROVE ObsShape'
  BY <1>6, <1>7, IdentifyStep DEF ObsIdentify, ObsShape
<1>8. ASSUME NEW s \in ObsSessions, NEW c \in ObsCommands, ObsRequest(s, c) PROVE ObsShape'
  <2>1. obsRequests' \in 0..MaxRequests
    BY <1>8, ObsAssumption DEF ObsRequest, ObsShape
  <2>2. CASE ObsDown(s)
    BY <1>8, <2>1, <2>2 DEF ObsRequest, ObsShape
  <2>3. CASE ~ObsDown(s)
    BY <1>6, <1>8, <2>1, <2>3, RequestStep DEF ObsRequest, ObsShape
  <2> QED BY <2>2, <2>3
<1>9. ASSUME NEW s \in ObsSessions, ObsAnswer(s) PROVE ObsShape'
  <2>1. /\ obsSess' \in [ObsSessions -> SessionType]
        /\ \A t \in ObsSessions : obsSess'[t].server = obsSess[t].server
    BY <1>9, AnswerStep
  <2>2. obsWhy' \in [Outputs -> {"told", "absorbed", "late", "overtaken"}]
    BY <1>9 DEF ObsAnswer, ObsShape, WhyAfter
  <2> QED BY <1>9, <2>1, <2>2 DEF ObsAnswer, ObsShape
<1>10. ASSUME NEW s \in ObsSessions, ObsGiveUp(s) PROVE ObsShape'
  BY <1>6, <1>10, GiveUpStep DEF ObsGiveUp, ObsShape
<1>11. ASSUME NEW s \in ObsSessions, ObsDeliver(s) PROVE ObsShape'
  <2>1. obsView' \in [ObsSessions -> [Outputs -> {"on", "off", "unknown"}]]
    <3> DEFINE q == obsSess[s].queue
               last(f) == {i \in DOMAIN q : q[i].output = f /\ \A k \in DOMAIN q : k > i => q[k].output # f}
               new(f) == IF last(f) = {} THEN obsView[s][f] ELSE q[CHOOSE i \in last(f) : TRUE].value
    <3>1. obsView' = [obsView EXCEPT ![s] = [f \in Outputs |-> new(f)]]
      BY <1>11 DEF ObsDeliver
    <3>2. ASSUME NEW f \in Outputs PROVE new(f) \in {"on", "off", "unknown"}
      <4>1. CASE last(f) = {}
        BY <4>1 DEF ObsShape
      <4>2. CASE last(f) # {}
        <5>1. (CHOOSE i \in last(f) : TRUE) \in DOMAIN q
          BY <4>2
        <5>2. q \in Seq(Events)
          BY DEF ObsShape, SessionType
        <5>3. \A i \in DOMAIN q : q[i] \in Events
          BY <5>2, LenProperties, ElementOfSeq
        <5> QED BY <4>2, <5>1, <5>3 DEF Events, OnOff
      <4> QED BY <4>1, <4>2
    <3> HIDE DEF new
    <3> QED BY <3>1, <3>2 DEF ObsShape
  <2> QED BY <1>11, <2>1, DeliverStep DEF ObsDeliver, ObsShape
<1>12. ASSUME NEW s \in ObsSessions, ObsReject(s) \/ ObsDisconnect(s) \/ ObsEnd(s)
       PROVE  ObsShape'
  <2>1. Gone(s)
    BY <1>12 DEF ObsReject, ObsDisconnect, ObsEnd
  <2>2. \A t \in ObsSessions : obsSess'[t].server <= obsStarted
    BY <2>1, GoneSession, ClosedShape, ObsAssumption DEF OnlySession, ObsShape
  <2> QED BY <2>1, <2>2, GoneSession DEF ObsShape
<1>13. CASE UNCHANGED obsVars
  BY <1>13 DEF obsVars, ObsShape
<1>14. ASSUME NEW s \in ObsSessions, ObsStall(s) \/ ObsResume(s) PROVE ObsShape'
  BY <1>14 DEF ObsStall, ObsResume, ObsShape
<1> QED
  BY <1>1, <1>2, <1>14, <1>3, <1>4, <1>5, <1>7, <1>8, <1>9, <1>10, <1>11, <1>12, <1>13
     DEF ObsNext, ObsUiNext, ObsSession, ObsSessionGoesOn

-----------------------------------------------------------------------------
(* What ClientsInSync needs to be inductive: who waits for what.           *)

\* Session s has a command in q, and no session has two.
SentBy(s, q) == \E i \in DOMAIN q : q[i].from = s
OneEach(q) ==
  \A i, j \in DOMAIN q : q[i].from = q[j].from /\ q[i].from # NoSession => i = j

\* Whoever has a command under way waits for its result, once.
Awaits(s) == obsSess[s].phase = "waiting" /\ obsSess[s].reply = NoReply /\ ~ObsDown(s)

Senders ==
  /\ obsPc = "frame" => obsBatch = <<>>
  /\ obsServer = 0 => obsCmds = <<>> /\ obsBatch = <<>>
  /\ OneEach(obsCmds) /\ OneEach(obsBatch)
  /\ \A s \in ObsSessions :
       /\ ~(SentBy(s, obsCmds) /\ SentBy(s, obsBatch))
       /\ SentBy(s, obsCmds) \/ SentBy(s, obsBatch) => Awaits(s)

\* Nothing was said to the client of s yet.
Unheard(s) == obsSess[s].queue = <<>> /\ \A f \in Outputs : obsView[s][f] = "unknown"

PhaseInv ==
  \A s \in ObsSessions :
    /\ obsSess[s].phase \in {"none", "identify"} => Unheard(s)
    /\ obsSess[s].phase # "waiting" => obsSess[s].reply = NoReply
    /\ obsSess[s].phase = "none" <=> obsSess[s].server = 0

LEMMA EmptyQueues == \A s : ~SentBy(s, <<>>) /\ OneEach(<<>>)
BY EmptySeq DEF SentBy, OneEach

\* A step that leaves the commands and who awaits them alone.
LEMMA SendersFrame ==
  ASSUME Senders, UNCHANGED <<obsCmds, obsBatch, obsPc, obsServer>>,
         \A t \in ObsSessions : Awaits(t) => Awaits(t)'
  PROVE  Senders'
BY DEF Senders

LEMMA TailSenders ==
  ASSUME NEW q \in Seq(Current), q # <<>>, OneEach(q)
  PROVE  /\ OneEach(Tail(q))
         /\ \A s : SentBy(s, Tail(q)) => SentBy(s, q)
         /\ \A s : s # NoSession /\ s = Head(q).from => SentBy(s, q) /\ ~SentBy(s, Tail(q))
<1>1. /\ Tail(q) \in Seq(Current) /\ Len(Tail(q)) = Len(q) - 1
      /\ \A i \in 1..Len(Tail(q)) : Tail(q)[i] = q[i + 1]
  BY HeadTailProperties
<1>2. DOMAIN q = 1..Len(q) /\ Len(q) \in Nat \ {0} /\ DOMAIN Tail(q) = 1..Len(Tail(q))
  BY <1>1, LenProperties, EmptySeq
<1>3. ASSUME NEW i \in DOMAIN Tail(q) PROVE i + 1 \in DOMAIN q /\ i + 1 # 1 /\ Tail(q)[i] = q[i + 1]
  BY <1>1, <1>2
<1>4. Head(q) = q[1] /\ 1 \in DOMAIN q
  BY <1>2
<1>5. OneEach(Tail(q))
  <2> SUFFICES ASSUME NEW i \in DOMAIN Tail(q), NEW j \in DOMAIN Tail(q),
                      Tail(q)[i].from = Tail(q)[j].from, Tail(q)[i].from # NoSession
               PROVE  i = j
    BY DEF OneEach
  <2>1. i + 1 = j + 1
    BY <1>3 DEF OneEach
  <2> QED BY <1>1, <1>2, <2>1
<1> QED BY <1>3, <1>4, <1>5 DEF SentBy, OneEach

LEMMA AppendSenders ==
  ASSUME NEW q \in Seq(Current), NEW c \in Current, OneEach(q), ~SentBy(c.from, q)
  PROVE  /\ OneEach(Append(q, c))
         /\ \A s : SentBy(s, Append(q, c)) <=> (SentBy(s, q) \/ s = c.from)
<1> DEFINE p == Append(q, c)
<1>1. /\ p \in Seq(Current) /\ Len(p) = Len(q) + 1 /\ p[Len(q) + 1] = c
      /\ \A i \in 1..Len(q) : p[i] = q[i]
  BY AppendProperties
<1>2. /\ DOMAIN q = 1..Len(q) /\ Len(q) \in Nat /\ DOMAIN p = 1..Len(q) + 1
  BY <1>1, LenProperties
<1> HIDE DEF p
<1>3. ASSUME NEW i \in DOMAIN p
      PROVE  \/ i \in DOMAIN q /\ p[i] = q[i]
             \/ i = Len(q) + 1 /\ p[i] = c
  BY <1>1, <1>2
<1>4. \A i \in DOMAIN q : i \in DOMAIN p /\ p[i] = q[i]
  BY <1>1, <1>2
<1>5. OneEach(p)
  BY <1>3 DEF OneEach, SentBy
<1>6. Len(q) + 1 \in DOMAIN p
  BY <1>2
<1> QED BY <1>1, <1>3, <1>4, <1>5, <1>6 DEF SentBy, p

LEMMA OrphanedSenders ==
  ASSUME NEW q \in Seq(Current), NEW s \in ObsSessions, OneEach(q)
  PROVE  /\ OneEach(Orphaned(q, s))
         /\ ~SentBy(s, Orphaned(q, s))
         /\ \A t \in ObsSessions : SentBy(t, Orphaned(q, s)) => SentBy(t, q) /\ t # s
<1>1. \A i \in DOMAIN q : q[i] \in Current
  BY ElementOfSeq, LenProperties
<1>2. DOMAIN Orphaned(q, s) = DOMAIN q
  BY DEF Orphaned
<1>3. ASSUME NEW i \in DOMAIN q
      PROVE  Orphaned(q, s)[i].from = IF q[i].from = s THEN NoSession ELSE q[i].from
  BY <1>1 DEF Orphaned, Current
<1>4. NoSession # s /\ \A t \in ObsSessions : t # NoSession
  BY ObsAssumption
<1> QED BY <1>2, <1>3, <1>4 DEF OneEach, SentBy

LEMMA OrphanedNone == \A s : Orphaned(<<>>, s) = <<>>
<1> SUFFICES ASSUME NEW s PROVE Orphaned(<<>>, s) = <<>>
  OBVIOUS
<1>1. Orphaned(<<>>, s) \in Seq(Current) /\ DOMAIN Orphaned(<<>>, s) = DOMAIN <<>>
  BY EmptySeq, OrphanedIsCurrent DEF Orphaned
<1>2. Len(Orphaned(<<>>, s)) = 0
  BY <1>1, LenProperties, EmptySeq
<1> QED BY <1>1, <1>2, EmptySeq

LEMMA NextSenders ==
  ASSUME ObsShape, CommandInv, Senders, PhaseInv, [ObsNext]_obsVars
  PROVE  Senders'
<1> USE DEF obsUiVars
<1>1. ASSUME UNCHANGED <<obsCmds, obsBatch, obsPc, obsServer, obsSess>> PROVE Senders'
  BY <1>1, SendersFrame DEF Awaits, ObsDown
<1>2. ASSUME NEW w \in {"same", "off", "new"}, ObsFrame(w) PROVE Senders'
  <2>1. obsBatch = <<>> /\ obsCmds' = <<>> /\ obsPc' = "execute"
    BY <1>2 DEF ObsFrame, Senders
  <2>2. CASE w = "same"
    <3>1. obsBatch' = obsCmds /\ UNCHANGED <<obsServer, obsSess>>
      BY <1>2, <2>2 DEF ObsFrame
    <3> QED BY <2>1, <3>1, EmptyQueues DEF Senders, Awaits, ObsDown
  <2>3. CASE w # "same"
    <3>1. obsBatch' = <<>>
      BY <1>2, <2>3 DEF ObsFrame
    <3> QED BY <2>1, <3>1, EmptyQueues DEF Senders
  <2> QED BY <2>2, <2>3
<1>3. ASSUME ObsExecute PROVE Senders'
  <2> DEFINE from == Head(obsBatch).from
  <2>1. /\ obsBatch # <<>> /\ obsBatch' = Tail(obsBatch)
        /\ obsPc = "execute" /\ UNCHANGED <<obsServer, obsCmds, obsPc>>
    BY <1>3 DEF ObsExecute
  <2>2. /\ OneEach(obsBatch')
        /\ \A s : SentBy(s, obsBatch') => SentBy(s, obsBatch)
        /\ from # NoSession => SentBy(from, obsBatch) /\ ~SentBy(from, obsBatch')
    BY <2>1, TailSenders DEF Senders, CommandInv
  <2>3. \A t \in ObsSessions : t # from => obsSess'[t] = obsSess[t]
    BY <1>3, ExecuteStep, Replied
  <2>4. \A t \in ObsSessions : t # from /\ Awaits(t) => Awaits(t)'
    BY <2>1, <2>3 DEF Awaits, ObsDown
  <2>5. from \in ObsSessions => from # NoSession /\ ~SentBy(from, obsCmds)
    BY <2>2, ObsAssumption DEF Senders
  <2> HIDE DEF from
  <2> QED BY <2>1, <2>2, <2>4, <2>5 DEF Senders
<1>4. ASSUME ObsBroadcast PROVE Senders'
  <2>1. PICK S : obsSess' = ToEach(obsServer, Said(S, "recording") \o Said(S, "muted"))
    BY <1>4 DEF ObsBroadcast, Said
  <2>2. Said(S, "recording") \o Said(S, "muted") \in Seq(Events)
    BY BothSaid DEF ObsShape
  <2>3. \A t \in ObsSessions : Awaits(t) => Awaits(t)'
    BY <1>4, <2>1, <2>2, EachTold DEF Awaits, ObsDown, ObsBroadcast
  <2> QED BY <1>4, <2>3 DEF ObsBroadcast, Senders
<1>5. ASSUME NEW s \in ObsSessions, ~Awaits(s), UNCHANGED <<obsCmds, obsBatch, obsPc, obsServer>>,
             \A t \in ObsSessions : t # s => obsSess'[t] = obsSess[t]
      PROVE  Senders'
  <2>1. \A t \in ObsSessions : Awaits(t) => Awaits(t)'
    BY <1>5 DEF Awaits, ObsDown
  <2> QED BY <1>5, <2>1, SendersFrame
<1>6. ASSUME NEW s \in ObsSessions,
             ObsAccept(s) \/ ObsIdentify(s) \/ ObsDeliver(s) \/ ObsReject(s) \/ ObsDisconnect(s)
               \/ ObsEnd(s)
      PROVE  Senders'
  <2>1. ~Awaits(s) /\ UNCHANGED <<obsCmds, obsBatch, obsPc, obsServer>>
    BY <1>6 DEF ObsAccept, ObsIdentify, ObsDeliver, ObsReject, ObsDisconnect, ObsEnd, Gone,
                Awaits
  <2>2. \A t \in ObsSessions : t # s => obsSess'[t] = obsSess[t]
    BY <1>6, AcceptStep, IdentifyStep, DeliverStep, GoneSession
       DEF ObsReject, ObsDisconnect, ObsEnd, Turned, OnlySession
  <2> QED BY <1>5, <2>1, <2>2
<1>7. ASSUME NEW s \in ObsSessions, NEW c \in ObsCommands, ObsRequest(s, c) PROVE Senders'
  <2>1. CASE ObsDown(s)
    BY <1>1, <1>7, <2>1 DEF ObsRequest
  <2>2. CASE ~ObsDown(s)
    <3> DEFINE m == [from |-> s, command |-> c, server |-> obsSess[s].server]
    <3>1. m \in Current /\ m.from = s
      BY <2>2 DEF Current, ObsDown
    <3>2. ~Awaits(s)
      BY <1>7 DEF ObsRequest, Awaits
    <3>3. ~SentBy(s, obsCmds) /\ ~SentBy(s, obsBatch)
      BY <3>2 DEF Senders
    <3>4. obsCmds' = Append(obsCmds, m) /\ UNCHANGED <<obsBatch, obsPc, obsServer>>
      BY <1>7, <2>2 DEF ObsRequest
    <3> HIDE DEF m
    <3>5. /\ OneEach(obsCmds')
          /\ \A t : SentBy(t, obsCmds') <=> (SentBy(t, obsCmds) \/ t = s)
      BY <3>1, <3>3, <3>4, AppendSenders DEF Senders, CommandInv
    <3>6. Turned(s, "waiting", NoReply)
      BY <1>7, <2>2, RequestStep
    <3>7. Awaits(s)' /\ \A t \in ObsSessions : t # s /\ Awaits(t) => Awaits(t)'
      BY <2>2, <3>4, <3>6 DEF Turned, Awaits, ObsDown
    <3>8. obsServer' # 0
      BY <1>7, <2>2, <3>4 DEF ObsRequest, ObsDown, PhaseInv
    <3> QED BY <3>3, <3>4, <3>5, <3>7, <3>8 DEF Senders
  <2> QED BY <2>1, <2>2
<1>8. ASSUME NEW s \in ObsSessions, ObsAnswer(s) PROVE Senders'
  <2>1. ~Awaits(s) /\ UNCHANGED <<obsCmds, obsBatch, obsPc, obsServer>>
    BY <1>8 DEF ObsAnswer, Awaits
  <2>2. \A t \in ObsSessions : Awaits(t) => Awaits(t)'
    BY <1>8, <2>1, AnswerStep DEF Awaits, ObsDown
  <2> QED BY <2>1, <2>2, SendersFrame
<1>9. ASSUME NEW s \in ObsSessions, ObsGiveUp(s) PROVE Senders'
  <2>1. /\ obsCmds' = Orphaned(obsCmds, s) /\ obsBatch' = Orphaned(obsBatch, s)
        /\ UNCHANGED <<obsPc, obsServer>>
    BY <1>9 DEF ObsGiveUp
  <2>2. /\ OneEach(obsCmds') /\ OneEach(obsBatch')
        /\ \A t \in ObsSessions : /\ SentBy(t, obsCmds') => SentBy(t, obsCmds) /\ t # s
                                  /\ SentBy(t, obsBatch') => SentBy(t, obsBatch) /\ t # s
    BY <2>1, OrphanedSenders DEF Senders, CommandInv
  <2>3. \A t \in ObsSessions : t # s /\ Awaits(t) => Awaits(t)'
    BY <1>9, <2>1, GiveUpStep DEF Turned, Awaits, ObsDown
  <2> QED BY <2>1, <2>2, <2>3, OrphanedNone DEF Senders
<1>10. CASE \E f \in Outputs : ObsEdit(f)
  BY <1>1, <1>10 DEF ObsEdit
<1>11. CASE UNCHANGED obsVars
  BY <1>1, <1>11 DEF obsVars
<1>12. ASSUME NEW s \in ObsSessions, ObsStall(s) \/ ObsResume(s) PROVE Senders'
  BY <1>1, <1>12 DEF ObsStall, ObsResume
<1> QED
  BY <1>2, <1>12, <1>3, <1>4, <1>6, <1>7, <1>8, <1>9, <1>10, <1>11
     DEF ObsNext, ObsUiNext, ObsSession, ObsSessionGoesOn

\* A step after which every thread is where it was: only who waits may have
\* another reply and only who is registered another queue.
LEMMA PhaseFrame ==
  ASSUME PhaseInv, obsView' = obsView,
         \A t \in ObsSessions :
           /\ obsSess'[t].phase = obsSess[t].phase /\ obsSess'[t].server = obsSess[t].server
           /\ obsSess'[t].reply = obsSess[t].reply \/ obsSess[t].phase = "waiting"
           /\ obsSess'[t].queue = obsSess[t].queue \/ Registered(t)
  PROVE  PhaseInv'
BY DEF PhaseInv, Unheard, Registered

\* A step of the thread of s alone.
LEMMA PhaseOfOne ==
  ASSUME PhaseInv, NEW s \in ObsSessions, OnlySession(s),
         /\ obsSess'[s].phase \in {"none", "identify"} => Unheard(s)'
         /\ obsSess'[s].phase # "waiting" => obsSess'[s].reply = NoReply
         /\ obsSess'[s].phase = "none" <=> obsSess'[s].server = 0
  PROVE  PhaseInv'
<1> SUFFICES ASSUME NEW t \in ObsSessions
             PROVE  /\ obsSess'[t].phase \in {"none", "identify"} => Unheard(t)'
                    /\ obsSess'[t].phase # "waiting" => obsSess'[t].reply = NoReply
                    /\ obsSess'[t].phase = "none" <=> obsSess'[t].server = 0
  BY DEF PhaseInv
<1>1. CASE t = s
  BY <1>1
<1>2. CASE t # s
  BY <1>2 DEF OnlySession, PhaseInv, Unheard
<1> QED BY <1>1, <1>2

LEMMA NextPhase ==
  ASSUME ObsShape, CommandInv, Senders, PhaseInv, [ObsNext]_obsVars
  PROVE  PhaseInv'
<1> USE DEF obsUiVars
<1>1. ASSUME UNCHANGED <<obsSess, obsView>> PROVE PhaseInv'
  BY <1>1 DEF PhaseInv, Unheard
<1>2. ASSUME NEW w \in {"same", "off", "new"}, ObsFrame(w) PROVE PhaseInv'
  <2>1. obsView' = obsView /\ (obsSess' = obsSess \/ obsSess' = DropCommands)
    BY <1>2 DEF ObsFrame
  <2>2. CASE obsSess' = DropCommands
    <3>1. \A t \in ObsSessions : SentBy(t, obsCmds) => obsSess[t].phase = "waiting"
      BY DEF Senders, Awaits
    <3> QED BY <2>1, <2>2, <3>1, Dropped, PhaseFrame DEF SentBy
  <2> QED BY <1>1, <2>1, <2>2
<1>3. ASSUME ObsExecute PROVE PhaseInv'
  <2> DEFINE from == Head(obsBatch).from
  <2>1. obsView' = obsView /\ obsBatch # <<>>
    BY <1>3 DEF ObsExecute
  <2>2. CASE obsSess' = obsSess
    BY <1>1, <2>1, <2>2
  <2>3. CASE from \in ObsSessions /\ \E r \in Replies : obsSess' = [obsSess EXCEPT ![from].reply = r]
    <3>1. from # NoSession /\ SentBy(from, obsBatch)
      BY <2>1, <2>3, TailSenders, ObsAssumption DEF Senders, CommandInv
    <3>2. obsSess[from].phase = "waiting"
      BY <2>3, <3>1 DEF Senders, Awaits
    <3> HIDE DEF from
    <3>3. \A t \in ObsSessions :
            /\ obsSess'[t].phase = obsSess[t].phase /\ obsSess'[t].server = obsSess[t].server
            /\ obsSess'[t].reply = obsSess[t].reply \/ obsSess[t].phase = "waiting"
            /\ obsSess'[t].queue = obsSess[t].queue
      BY <2>3, <3>2, Replied
    <3> QED BY <2>1, <3>3, PhaseFrame
  <2> QED BY <1>3, <2>2, <2>3, ExecuteStep
<1>4. ASSUME ObsBroadcast PROVE PhaseInv'
  <2>1. PICK S : obsSess' = ToEach(obsServer, Said(S, "recording") \o Said(S, "muted"))
    BY <1>4 DEF ObsBroadcast, Said
  <2>2. Said(S, "recording") \o Said(S, "muted") \in Seq(Events)
    BY BothSaid DEF ObsShape
  <2>3. obsView' = obsView
    BY <1>4 DEF ObsBroadcast
  <2> QED BY <2>1, <2>2, <2>3, EachTold, PhaseFrame
<1>5. ASSUME NEW s \in ObsSessions, ObsAccept(s) PROVE PhaseInv'
  <2>1. OnlySession(s) /\ obsView' = obsView /\ obsServer # 0 /\ obsSess[s].phase = "none"
    BY <1>5, AcceptStep DEF ObsAccept, OnlySession
  <2>2. Unheard(s)'
    BY <1>5, <2>1, AcceptStep DEF PhaseInv, Unheard
  <2> QED BY <1>5, <2>1, <2>2, AcceptStep, PhaseOfOne
<1>6. ASSUME NEW s \in ObsSessions, NEW p \in {"idle", "waiting"}, Turned(s, p, NoReply),
             obsView' = obsView, obsSess[s].phase # "none"
      PROVE  PhaseInv'
  BY <1>6, PhaseOfOne DEF Turned, OnlySession, PhaseInv
<1>7. ASSUME NEW s \in ObsSessions, ObsIdentify(s) PROVE PhaseInv'
  <2>1. obsSess[s].reply = NoReply /\ obsView' = obsView /\ obsSess[s].phase # "none"
    BY <1>7 DEF ObsIdentify, PhaseInv
  <2> QED BY <1>6, <1>7, <2>1, IdentifyStep
<1>8. ASSUME NEW s \in ObsSessions, NEW c \in ObsCommands, ObsRequest(s, c) PROVE PhaseInv'
  <2>1. obsView' = obsView /\ obsSess[s].phase # "none"
    BY <1>8 DEF ObsRequest
  <2>2. CASE ObsDown(s)
    BY <1>1, <1>8, <2>2 DEF ObsRequest
  <2>3. CASE ~ObsDown(s)
    BY <1>6, <1>8, <2>1, <2>3, RequestStep
  <2> QED BY <2>2, <2>3
<1>9. ASSUME NEW s \in ObsSessions, ObsAnswer(s) PROVE PhaseInv'
  <2>1. obsView' = obsView /\ obsSess[s].phase = "waiting"
    BY <1>9 DEF ObsAnswer
  <2> SUFFICES ASSUME NEW t \in ObsSessions
               PROVE  /\ obsSess'[t].phase \in {"none", "identify"} => Unheard(t)'
                      /\ obsSess'[t].phase # "waiting" => obsSess'[t].reply = NoReply
                      /\ obsSess'[t].phase = "none" <=> obsSess'[t].server = 0
    BY DEF PhaseInv
  <2>2. CASE t = s
    BY <1>9, <2>1, <2>2, AnswerStep DEF PhaseInv
  <2>3. CASE t # s
    BY <1>9, <2>1, <2>3, AnswerStep DEF PhaseInv, Unheard, Registered
  <2> QED BY <2>2, <2>3
<1>10. ASSUME NEW s \in ObsSessions, ObsGiveUp(s) PROVE PhaseInv'
  BY <1>6, <1>10, GiveUpStep DEF ObsGiveUp
<1>11. ASSUME NEW s \in ObsSessions, ObsDeliver(s) PROVE PhaseInv'
  <2>1. \A t \in ObsSessions : t # s => obsView'[t] = obsView[t]
    BY <1>11 DEF ObsDeliver, ObsShape
  <2>2. OnlySession(s)
    BY <1>11, <2>1, DeliverStep DEF OnlySession
  <2>3. obsSess[s].phase = "idle"
    BY <1>11 DEF ObsDeliver
  <2> QED BY <1>11, <2>2, <2>3, DeliverStep, PhaseOfOne DEF PhaseInv
<1>12. ASSUME NEW s \in ObsSessions, ObsReject(s) \/ ObsDisconnect(s) \/ ObsEnd(s)
       PROVE  PhaseInv'
  <2>1. Gone(s)
    BY <1>12 DEF ObsReject, ObsDisconnect, ObsEnd
  <2>2. Unheard(s)' /\ OnlySession(s) /\ obsSess'[s] = Closed
    BY <2>1, GoneSession, ClosedShape DEF Unheard
  <2> QED BY <2>2, ClosedShape, PhaseOfOne
<1>13. CASE \E f \in Outputs : ObsEdit(f)
  BY <1>1, <1>13 DEF ObsEdit
<1>14. CASE UNCHANGED obsVars
  BY <1>1, <1>14 DEF obsVars
<1>15. ASSUME NEW s \in ObsSessions, ObsStall(s) \/ ObsResume(s) PROVE PhaseInv'
  BY <1>1, <1>15 DEF ObsStall, ObsResume
<1> QED
  BY <1>2, <1>15, <1>3, <1>4, <1>5, <1>7, <1>8, <1>9, <1>10, <1>11, <1>12, <1>13, <1>14
     DEF ObsNext, ObsUiNext, ObsSession, ObsSessionGoesOn

-----------------------------------------------------------------------------
(* The baseline.  There is at most one, and while a server runs without    *)
(* one its clients were told nothing and nothing is to be told.            *)

BaseInv ==
  /\ \A a, b \in obsBase : a = b
  /\ obsBase = {} /\ obsServer # 0 =>
       /\ obsPc = "execute" /\ obsBatch = <<>>
       /\ \A s \in ObsSessions : ~ObsDown(s) => Unheard(s) /\ obsSess[s].reply.kind # "success"

\* Nobody is answered, or told, for a reason other than a result.
LEMMA NothingToTell ==
  ASSUME ObsShape, NEW s \in ObsSessions, ObsAnswer(s), NEW t \in ObsSessions,
         obsSess[s].reply.kind # "success" \/ obsSess[t].server # obsSess[s].server
  PROVE  obsSess'[t].queue = obsSess[t].queue
<1>1. obsSess[t].queue \in Seq(Events)
  BY DEF ObsShape, SessionType
<1>2. obsSess[t].queue \o <<>> = obsSess[t].queue
  BY <1>1, ConcatEmptySeq
<1> QED BY <1>2, AnswerStep DEF AnswerEvents

\* A step of a session's thread.
LEMMA BaseFrame ==
  ASSUME BaseInv, UNCHANGED <<obsBase, obsServer, obsPc>>, obsBatch = <<>> => obsBatch' = <<>>,
         \A t \in ObsSessions :
           obsServer # 0 /\ obsSess'[t].server = obsServer
             => \/ /\ obsSess'[t].reply.kind # "success" /\ Unheard(t)'
                \/ /\ obsSess[t].server = obsServer
                   /\ Unheard(t) => Unheard(t)'
                   /\ obsSess'[t].reply.kind = "success" => obsSess[t].reply.kind = "success"
  PROVE  BaseInv'
BY DEF BaseInv, ObsDown

LEMMA NextBase ==
  ASSUME ObsShape, CommandInv, Senders, PhaseInv, BaseInv, [ObsNext]_obsVars
  PROVE  BaseInv'
<1> USE DEF obsUiVars
<1>1. PhaseInv'
  BY NextPhase
<1>2. ASSUME UNCHANGED <<obsBase, obsServer, obsPc, obsBatch, obsSess, obsView>> PROVE BaseInv'
  BY <1>2 DEF BaseInv, ObsDown, Unheard
<1>3. ASSUME NEW w \in {"same", "off", "new"}, ObsFrame(w) PROVE BaseInv'
  <2>1. obsBase' = obsBase /\ obsPc' = "execute" /\ (obsBase = {} => obsServer = 0)
    BY <1>3 DEF ObsFrame, BaseInv
  <2> SUFFICES ASSUME obsBase = {}, obsServer' # 0
               PROVE  /\ obsBatch' = <<>>
                      /\ \A s \in ObsSessions : ObsDown(s)'
    BY <2>1 DEF BaseInv
  <2>2. w = "new"
    BY <1>3, <2>1 DEF ObsFrame
  <2>3. obsBatch' = <<>> /\ obsServer' = obsStarted + 1 /\ obsSess' = DropCommands
    BY <1>3, <2>2 DEF ObsFrame
  <2>4. \A s \in ObsSessions : /\ obsSess'[s].server = obsSess[s].server
                               /\ obsSess[s].server \in Nat /\ obsSess[s].server <= obsStarted
    BY <2>3, Dropped DEF ObsShape, SessionType
  <2>5. obsStarted \in Nat
    BY ObsAssumption DEF ObsShape
  <2> QED BY <2>3, <2>4, <2>5 DEF ObsDown
<1>4. ASSUME ObsExecute PROVE BaseInv'
  <2>1. obsBatch # <<>>
    BY <1>4 DEF ObsExecute
  <2>2. obsBase # {}
    BY <2>1 DEF BaseInv, Senders
  <2>3. obsBase' = obsBase \/ obsBase' = {obsUi'}
    BY <1>4, ExecuteStep
  <2> QED BY <2>2, <2>3 DEF BaseInv
<1>5. ASSUME ObsBroadcast PROVE BaseInv'
  BY <1>5 DEF ObsBroadcast, BaseInv
<1>6. ASSUME NEW s \in ObsSessions, ObsAccept(s) PROVE BaseInv'
  <2>1. UNCHANGED <<obsBase, obsServer, obsPc, obsBatch, obsView>>
    BY <1>6 DEF ObsAccept
  <2>2. Unheard(s)' /\ obsSess'[s].reply.kind # "success"
    BY <1>1, <1>6, AcceptStep, ReplyShapes DEF PhaseInv
  <2>3. \A t \in ObsSessions : t # s => obsSess'[t] = obsSess[t]
    BY <1>6, AcceptStep
  <2> QED BY <2>1, <2>2, <2>3, BaseFrame DEF Unheard
<1>7. ASSUME NEW s \in ObsSessions, NEW p, NEW r,
             Turned(s, p, r), r.kind = "success" => obsSess[s].reply.kind = "success",
             UNCHANGED <<obsBase, obsServer, obsPc, obsView>>, obsBatch = <<>> => obsBatch' = <<>>
      PROVE  BaseInv'
  <2>1. ASSUME NEW t \in ObsSessions
        PROVE  /\ obsSess'[t].server = obsSess[t].server /\ obsSess'[t].queue = obsSess[t].queue
               /\ obsSess'[t].reply.kind = "success" => obsSess[t].reply.kind = "success"
    BY <1>7 DEF Turned
  <2> QED BY <1>7, <2>1, BaseFrame DEF Unheard
<1>8. ASSUME NEW s \in ObsSessions, ObsIdentify(s) PROVE BaseInv'
  BY <1>7, <1>8, IdentifyStep DEF ObsIdentify
<1>9. ASSUME NEW s \in ObsSessions, NEW c \in ObsCommands, ObsRequest(s, c) PROVE BaseInv'
  <2>1. CASE ObsDown(s)
    BY <1>2, <1>9, <2>1 DEF ObsRequest
  <2>2. CASE ~ObsDown(s)
    BY <1>7, <1>9, <2>2, RequestStep, ReplyShapes DEF ObsRequest
  <2> QED BY <2>1, <2>2
<1>10. ASSUME NEW s \in ObsSessions, ObsGiveUp(s) PROVE BaseInv'
  BY <1>7, <1>10, GiveUpStep, ReplyShapes, OrphanedNone DEF ObsGiveUp
<1>11. ASSUME NEW s \in ObsSessions, ObsAnswer(s) PROVE BaseInv'
  <2>1. UNCHANGED <<obsBase, obsServer, obsPc, obsBatch, obsView>>
    BY <1>11 DEF ObsAnswer
  <2> SUFFICES ASSUME obsBase = {}, obsServer # 0, NEW t \in ObsSessions, ~ObsDown(t)'
               PROVE  Unheard(t)' /\ obsSess'[t].reply.kind # "success"
    BY <2>1 DEF BaseInv
  <2>2. obsSess[t].server = obsServer /\ Unheard(t) /\ obsSess[t].reply.kind # "success"
    BY <1>11, <2>1, AnswerStep DEF ObsDown, BaseInv
  <2>3. obsSess'[t].reply.kind # "success"
    BY <1>11, <2>2, AnswerStep, ReplyShapes
  <2>4. obsSess[s].reply.kind # "success" \/ obsSess[t].server # obsSess[s].server
    BY <2>2 DEF BaseInv, ObsDown
  <2> QED BY <1>11, <2>1, <2>2, <2>3, <2>4, NothingToTell DEF Unheard
<1>12. ASSUME NEW s \in ObsSessions, ObsDeliver(s) PROVE BaseInv'
  <2>1. UNCHANGED <<obsBase, obsServer, obsPc, obsBatch>> /\ ~Unheard(s)
    BY <1>12 DEF ObsDeliver, Unheard
  <2>2. \A t \in ObsSessions : t # s => obsView'[t] = obsView[t]
    BY <1>12 DEF ObsDeliver, ObsShape
  <2>3. \A t \in ObsSessions : /\ obsSess'[t].server = obsSess[t].server
                               /\ obsSess'[t].reply = obsSess[t].reply
                               /\ Unheard(t) => Unheard(t)'
    BY <1>12, <2>1, <2>2, DeliverStep DEF Unheard
  <2> QED BY <2>1, <2>3, BaseFrame
<1>13. ASSUME NEW s \in ObsSessions, ObsReject(s) \/ ObsDisconnect(s) \/ ObsEnd(s)
       PROVE  BaseInv'
  <2>1. Gone(s)
    BY <1>13 DEF ObsReject, ObsDisconnect, ObsEnd
  <2>2. UNCHANGED <<obsBase, obsServer, obsPc, obsBatch>>
    BY <2>1 DEF Gone
  <2>3. OnlySession(s) /\ obsSess'[s].server = 0
    BY <2>1, GoneSession, ClosedShape
  <2> QED BY <2>2, <2>3, BaseFrame DEF OnlySession, Unheard
<1>14. CASE \E f \in Outputs : ObsEdit(f)
  BY <1>2, <1>14 DEF ObsEdit
<1>15. CASE UNCHANGED obsVars
  BY <1>2, <1>15 DEF obsVars
<1>16. ASSUME NEW s \in ObsSessions, ObsStall(s) \/ ObsResume(s) PROVE BaseInv'
  BY <1>2, <1>16 DEF ObsStall, ObsResume
<1> QED
  BY <1>3, <1>16, <1>4, <1>5, <1>6, <1>8, <1>9, <1>10, <1>11, <1>12, <1>13, <1>14, <1>15
     DEF ObsNext, ObsUiNext, ObsSession, ObsSessionGoesOn

-----------------------------------------------------------------------------
(* What every client will have heard of the baseline.                      *)

\* Session t is about to tell everybody of its change of f.
Answering(t, f) ==
  /\ obsSess[t].phase = "waiting" /\ ~ObsDown(t)
  /\ obsSess[t].reply.kind = "success" /\ obsSess[t].reply.output = f

\* With what is queued for it, the client of s does not believe that f is
\* anything but v.
Heard(s, f, v) == Tells(obsSess[s].queue, obsView[s][f], f, v)

SyncInv ==
  \A b \in obsBase, s \in ObsSessions, f \in Outputs :
    ~ObsDown(s) /\ obsWhy[f] = "told" => Heard(s, f, b[f]) \/ \E t \in ObsSessions : Answering(t, f)

LEMMA TellsBehind ==
  ASSUME NEW q \in Seq(Events), NEW e \in Seq(Events), NEW w, NEW f, NEW v,
         SaysLast(e, f, v) \/ (Silent(e, f) /\ Tells(q, w, f, v))
  PROVE  Tells(q \o e, w, f, v)
<1>1. /\ SaysLast(e, f, v) => SaysLast(q \o e, f, v)
      /\ SaysLast(q, f, v) /\ Silent(e, f) => SaysLast(q \o e, f, v)
      /\ Silent(q, f) /\ Silent(e, f) => Silent(q \o e, f)
  BY QueuedBehind
<1> QED BY <1>1 DEF Tells

LEMMA UnheardHeard ==
  ASSUME NEW s \in ObsSessions, Unheard(s), NEW f \in Outputs, NEW v
  PROVE  Heard(s, f, v)
BY NoEvent DEF Unheard, Heard, Tells

\* After everything queued is delivered the client believes the last of it.
LEMMA DeliveredHeard ==
  ASSUME ObsShape, NEW s \in ObsSessions, ObsDeliver(s), NEW f \in Outputs, NEW v, Heard(s, f, v)
  PROVE  Heard(s, f, v)'
<1> DEFINE q == obsSess[s].queue
           last == {i \in DOMAIN q : q[i].output = f /\ \A k \in DOMAIN q : k > i => q[k].output # f}
<1>1. obsView'[s][f] = IF last = {} THEN obsView[s][f] ELSE q[CHOOSE i \in last : TRUE].value
  <2> DEFINE lst(g) == {i \in DOMAIN q : q[i].output = g /\ \A k \in DOMAIN q : k > i => q[k].output # g}
             new(g) == IF lst(g) = {} THEN obsView[s][g] ELSE q[CHOOSE i \in lst(g) : TRUE].value
  <2>1. obsView' = [obsView EXCEPT ![s] = [g \in Outputs |-> new(g)]]
    BY DEF ObsDeliver
  <2>2. new(f) = IF last = {} THEN obsView[s][f] ELSE q[CHOOSE i \in last : TRUE].value
    OBVIOUS
  <2> HIDE DEF new, last
  <2>3. obsView'[s][f] = new(f)
    BY <2>1 DEF ObsShape
  <2> QED BY <2>2, <2>3
<1>2. obsSess'[s].queue = <<>>
  BY DeliverStep
<1>3. obsView'[s][f] \in {"unknown", v}
  <2>1. CASE SaysLast(q, f, v)
    <3>1. PICK i \in last : q[i].value = v
      BY <2>1 DEF SaysLast
    <3>2. q \in Seq(Events)
      BY DEF ObsShape, SessionType
    <3>3. DOMAIN q \subseteq Nat
      BY <3>2, LenProperties
    <3>4. \A j \in last : j = i
      BY <3>1, <3>3
    <3>5. (CHOOSE j \in last : TRUE) = i
      BY <3>1, <3>4
    <3> QED BY <1>1, <3>1, <3>5
  <2>2. CASE Silent(q, f) /\ obsView[s][f] \in {"unknown", v}
    BY <1>1, <2>2 DEF Silent
  <2> QED BY <2>1, <2>2 DEF Heard, Tells
<1> QED BY <1>2, <1>3, NoEvent DEF Heard, Tells

LEMMA SyncFrame ==
  ASSUME SyncInv, obsBase' = obsBase,
         \A s \in ObsSessions, f \in Outputs :
           ~ObsDown(s)' /\ obsWhy'[f] = "told" =>
             \/ Unheard(s)'
             \/ /\ ~ObsDown(s) /\ obsWhy[f] = "told"
                /\ \A v : Heard(s, f, v) => Heard(s, f, v)'
                /\ \A t \in ObsSessions : Answering(t, f) => Answering(t, f)'
  PROVE  SyncInv'
<1> SUFFICES ASSUME NEW b \in obsBase, NEW s \in ObsSessions, NEW f \in Outputs,
                    ~ObsDown(s)', obsWhy'[f] = "told"
             PROVE  Heard(s, f, b[f])' \/ \E t \in ObsSessions : Answering(t, f)'
  BY DEF SyncInv
<1>1. CASE Unheard(s)'
  <2>1. obsSess'[s].queue = <<>> /\ obsView'[s][f] = "unknown"
    BY <1>1 DEF Unheard
  <2>2. Tells(<<>>, "unknown", f, b[f])
    BY NoEvent DEF Tells
  <2> QED BY <2>1, <2>2 DEF Heard
<1>2. CASE /\ ~ObsDown(s) /\ obsWhy[f] = "told"
           /\ \A v : Heard(s, f, v) => Heard(s, f, v)'
           /\ \A t \in ObsSessions : Answering(t, f) => Answering(t, f)'
  BY <1>2 DEF SyncInv
<1> QED BY <1>1, <1>2

\* Executing a command: its own output is about to be told, every other one
\* was as the baseline has it, or its change is absorbed.
LEMMA ExecuteSync ==
  ASSUME ObsShape, CommandInv, Senders, PhaseInv, BaseInv, SyncInv, ObsExecute
  PROVE  SyncInv'
<1> DEFINE from == Head(obsBatch).from
<1>1. /\ obsBatch # <<>> /\ UNCHANGED <<obsServer, obsView>>
  BY DEF ObsExecute
<1>2. PICK o \in [ok : BOOLEAN, tried : BOOLEAN, output : Outputs, value : OnOff] :
           /\ o.ok => o.tried
           /\ obsUi' = IF o.ok THEN [obsUi EXCEPT ![o.output] = o.value] ELSE obsUi
           /\ obsBase' = IF o.tried THEN {obsUi'} ELSE obsBase
           /\ \A f \in Outputs :
                obsWhy'[f] = IF o.tried /\ f \in Absorbed(o) THEN "absorbed"
                             ELSE IF o.ok /\ f = o.output /\ from = NoSession THEN "late"
                             ELSE obsWhy[f]
           /\ \/ from = NoSession /\ obsSess' = obsSess
              \/ /\ from \in ObsSessions
                 /\ \E r \in Replies :
                      /\ obsSess' = [obsSess EXCEPT ![from].reply = r]
                      /\ o.ok => r.kind = "success" /\ r.output = o.output /\ r.value = o.value
  BY ExecuteStep
<1>3. from \in ObsSessions => Awaits(from)
  <2>1. from \in ObsSessions => SentBy(from, obsBatch)
    BY <1>1, TailSenders, ObsAssumption DEF Senders, CommandInv
  <2> QED BY <2>1 DEF Senders
<1>4. ASSUME NEW s \in ObsSessions
      PROVE  /\ obsSess'[s].phase = obsSess[s].phase /\ obsSess'[s].server = obsSess[s].server
             /\ obsSess'[s].queue = obsSess[s].queue
             /\ s # from => obsSess'[s] = obsSess[s]
  BY <1>2, Replied
<1> HIDE DEF from
<1>5. ASSUME NEW t \in ObsSessions, NEW f, Answering(t, f) PROVE Answering(t, f)'
  <2>1. t # from
    BY <1>3, <1>5, ReplyShapes DEF Answering, Awaits
  <2> QED BY <1>1, <1>4, <1>5, <2>1 DEF Answering, ObsDown
<1>6. ASSUME NEW s \in ObsSessions, NEW f, NEW v, Heard(s, f, v) PROVE Heard(s, f, v)'
  BY <1>1, <1>4, <1>6 DEF Heard
<1>7. CASE ~o.tried
  <2>1. obsBase' = obsBase /\ \A f \in Outputs : obsWhy'[f] = obsWhy[f]
    BY <1>2, <1>7
  <2>2. \A s \in ObsSessions : ObsDown(s)' <=> ObsDown(s)
    BY <1>1, <1>4 DEF ObsDown
  <2> QED BY <1>5, <1>6, <2>1, <2>2, SyncFrame
<1>8. CASE o.tried
  <2> SUFFICES ASSUME NEW n \in obsBase', NEW s \in ObsSessions, NEW f \in Outputs,
                      ~ObsDown(s)', obsWhy'[f] = "told"
               PROVE  Heard(s, f, n[f])' \/ \E t \in ObsSessions : Answering(t, f)'
    BY DEF SyncInv
  <2>1. ~ObsDown(s) /\ obsWhy[f] = "told" /\ f \notin Absorbed(o)
        /\ ~(o.ok /\ f = o.output /\ from = NoSession)
    BY <1>1, <1>2, <1>4, <1>8 DEF ObsDown
  <2>2. CASE o.ok /\ f = o.output
    <3>1. from \in ObsSessions
      BY <1>2, <2>1, <2>2
    <3>2. obsSess'[from].reply.kind = "success" /\ obsSess'[from].reply.output = f
      BY <1>2, <2>1, <2>2, <3>1, Replied
    <3>3. PICK u \in ObsSessions : u = from
      BY <3>1
    <3>4. Answering(u, f)'
      BY <1>1, <1>3, <1>4, <3>2, <3>3 DEF Answering, Awaits, ObsDown
    <3> QED BY <3>4
  <2>3. CASE ~(o.ok /\ f = o.output)
    <3>1. obsUi'[f] = obsUi[f] /\ f \notin Unsaid
      BY <1>2, <2>1, <2>3 DEF Absorbed, ObsShape
    <3>2. PICK b \in obsBase : TRUE
      BY <1>1 DEF BaseInv, Senders
    <3>3. b[f] = n[f]
      BY <1>2, <1>8, <3>1 DEF Unsaid
    <3>4. Heard(s, f, b[f]) \/ \E t \in ObsSessions : Answering(t, f)
      BY <2>1 DEF SyncInv
    <3>5. CASE Heard(s, f, b[f])
      <4>1. Heard(s, f, b[f])'
        BY <1>6, <3>5
      <4> QED BY <3>3, <4>1 DEF Heard
    <3>6. CASE \E t \in ObsSessions : Answering(t, f)
      BY <1>5, <3>6
    <3> QED BY <3>4, <3>5, <3>6
  <2> QED BY <2>2, <2>3
<1> QED BY <1>7, <1>8

\* The broadcast tells every registered session what is not as the baseline
\* has it.
LEMMA BroadcastSync ==
  ASSUME ObsShape, PhaseInv, BaseInv, SyncInv, ObsBroadcast
  PROVE  SyncInv'
<1>1. CASE obsServer = 0
  BY <1>1 DEF ObsBroadcast, SyncInv
<1>2. CASE obsServer # 0
  <2> DEFINE e == Said(Unsaid, "recording") \o Said(Unsaid, "muted")
  <2>1. /\ obsBase' = {obsUi} /\ obsSess' = ToEach(obsServer, e)
        /\ obsWhy' = [f \in Outputs |-> IF f \in Unsaid THEN "told" ELSE obsWhy[f]]
        /\ UNCHANGED <<obsServer, obsView>>
    BY <1>2 DEF ObsBroadcast, Said
  <2>2. /\ e \in Seq(Events)
        /\ \A f \in Outputs : IF f \in Unsaid THEN SaysLast(e, f, obsUi[f]) ELSE Silent(e, f)
    BY BothSaid DEF ObsShape
  <2> HIDE DEF e
  <2> SUFFICES ASSUME NEW n \in obsBase', NEW s \in ObsSessions, NEW f \in Outputs,
                      ~ObsDown(s)', obsWhy'[f] = "told"
               PROVE  Heard(s, f, n[f])' \/ \E t \in ObsSessions : Answering(t, f)'
    BY DEF SyncInv
  <2>3. ASSUME NEW t \in ObsSessions
        PROVE  /\ obsSess'[t].phase = obsSess[t].phase /\ obsSess'[t].reply = obsSess[t].reply
               /\ obsSess'[t].server = obsSess[t].server
               /\ obsSess'[t].queue = IF Registered(t) /\ ~ObsDown(t)
                                      THEN obsSess[t].queue \o e ELSE obsSess[t].queue
    BY <2>1, <2>2, EachTold DEF ObsDown
  <2>4. ~ObsDown(s) /\ obsSess[s].queue \in Seq(Events)
    BY <2>1, <2>3 DEF ObsDown, ObsShape, SessionType
  <2>5. CASE ~Registered(s)
    <3>1. Unheard(s)
      BY <2>5 DEF Registered, PhaseInv, ObsShape, SessionType
    <3>2. Heard(s, f, n[f])
      BY <3>1, UnheardHeard
    <3> QED BY <2>1, <2>3, <2>5, <3>2 DEF Heard
  <2>6. CASE Registered(s) /\ f \in Unsaid
    <3>1. Tells(obsSess[s].queue \o e, obsView[s][f], f, n[f])
      BY <2>1, <2>2, <2>4, <2>6, TellsBehind
    <3> QED BY <2>1, <2>3, <2>4, <2>6, <3>1 DEF Heard
  <2>7. CASE Registered(s) /\ f \notin Unsaid
    <3>1. Heard(s, f, n[f]) \/ \E t \in ObsSessions : Answering(t, f)
      <4>1. CASE obsBase = {}
        BY <1>2, <2>4, <4>1, UnheardHeard DEF BaseInv
      <4>2. CASE obsBase # {}
        <5>1. PICK b \in obsBase : TRUE
          BY <4>2
        <5>2. b[f] = n[f] /\ obsWhy[f] = "told"
          BY <2>1, <2>7 DEF Unsaid
        <5>3. Heard(s, f, b[f]) \/ \E t \in ObsSessions : Answering(t, f)
          BY <2>4, <5>2 DEF SyncInv
        <5> QED BY <5>2, <5>3
      <4> QED BY <4>1, <4>2
    <3>2. CASE Heard(s, f, n[f])
      <4>1. Tells(obsSess[s].queue \o e, obsView[s][f], f, n[f])
        BY <2>2, <2>4, <2>7, <3>2, TellsBehind DEF Heard
      <4> QED BY <2>1, <2>3, <2>4, <2>7, <4>1 DEF Heard
    <3>3. CASE \E t \in ObsSessions : Answering(t, f)
      BY <2>1, <2>3, <3>3 DEF Answering, ObsDown
    <3> QED BY <3>1, <3>2, <3>3
  <2> QED BY <2>5, <2>6, <2>7
<1> QED BY <1>1, <1>2

\* A result is told to everybody; it is the last word about its output, or an
\* older result was.
LEMMA AnswerSync ==
  ASSUME ObsShape, PhaseInv, BaseInv, SyncInv, NEW s \in ObsSessions, ObsAnswer(s)
  PROVE  SyncInv'
<1> DEFINE r == obsSess[s].reply
<1>1. UNCHANGED <<obsBase, obsServer, obsView>>
  BY DEF ObsAnswer, obsUiVars
<1>2. ASSUME NEW t \in ObsSessions
      PROVE  /\ t # s => obsSess'[t].phase = obsSess[t].phase /\ obsSess'[t].reply = obsSess[t].reply
             /\ obsSess'[t].server = obsSess[t].server /\ (ObsDown(t)' <=> ObsDown(t))
             /\ obsSess'[t].queue = IF Registered(t) /\ obsSess[t].server = obsSess[s].server
                                    THEN obsSess[t].queue \o AnswerEvents(r)
                                    ELSE obsSess[t].queue
  BY <1>1, AnswerStep DEF ObsDown
<1>3. ASSUME NEW f, ~Answering(s, f)
      PROVE  \A t \in ObsSessions : Answering(t, f) => Answering(t, f)'
  BY <1>2, <1>3 DEF Answering
<1>4. CASE r.kind # "success" \/ ObsDown(s)
  <2>1. obsWhy' = obsWhy /\ \A f : ~Answering(s, f)
    BY <1>4 DEF ObsAnswer, Answering
  <2>2. ASSUME NEW t \in ObsSessions, ~ObsDown(t), NEW f, NEW v, Heard(t, f, v)
        PROVE  Heard(t, f, v)'
    <3>1. obsSess'[t].queue = obsSess[t].queue
      BY <1>4, <2>2, NothingToTell DEF ObsDown
    <3> QED BY <1>1, <2>2, <3>1 DEF Heard
  <2> QED BY <1>1, <1>2, <1>3, <2>1, <2>2, SyncFrame
<1>5. CASE r.kind = "success" /\ ~ObsDown(s)
  <2>1. r \in Replies /\ r.output \in Outputs /\ r.value \in OnOff
    BY <1>5, ReplyShapes DEF ObsShape, SessionType
  <2> DEFINE e == AnswerEvents(r)
  <2>2. /\ e \in Seq(Events) /\ SaysLast(e, r.output, r.value)
        /\ \A g \in Outputs : g # r.output => Silent(e, g)
    BY <1>5, <2>1, OneEvent DEF AnswerEvents
  <2>3. obsWhy' = [obsWhy EXCEPT ![r.output] = WhyAfter(r.output, r.value)]
    BY <1>5 DEF ObsAnswer
  <2> HIDE DEF r, e
  <2> SUFFICES ASSUME NEW b \in obsBase, NEW t \in ObsSessions, NEW f \in Outputs,
                      ~ObsDown(t), obsWhy'[f] = "told"
               PROVE  Heard(t, f, b[f])' \/ \E u \in ObsSessions : Answering(u, f)'
    BY <1>1, <1>2 DEF SyncInv
  <2>4. obsSess[t].queue \in Seq(Events)
        /\ obsSess'[t].queue = IF Registered(t) THEN obsSess[t].queue \o e ELSE obsSess[t].queue
    BY <1>2, <1>5 DEF e, ObsDown, ObsShape, SessionType
  <2>5. CASE ~Registered(t)
    <3>1. Unheard(t)
      BY <2>5 DEF Registered, PhaseInv, ObsShape, SessionType
    <3>2. Heard(t, f, b[f])
      BY <3>1, UnheardHeard
    <3> QED BY <1>1, <2>4, <2>5, <3>2 DEF Heard
  <2>6. CASE Registered(t) /\ f = r.output
    <3>1. \E c \in obsBase : c[f] = r.value
      BY <2>1, <2>3, <2>6 DEF WhyAfter, ObsShape
    <3>2. b[f] = r.value
      BY <3>1 DEF BaseInv
    <3>3. Tells(obsSess[t].queue \o e, obsView[t][f], f, b[f])
      BY <2>2, <2>4, <2>6, <3>2, TellsBehind
    <3> QED BY <1>1, <2>4, <2>6, <3>3 DEF Heard
  <2>7. CASE Registered(t) /\ f # r.output
    <3>1. obsWhy[f] = "told" /\ ~Answering(s, f)
      BY <2>3, <2>7 DEF ObsShape, Answering, r
    <3>2. Heard(t, f, b[f]) \/ \E u \in ObsSessions : Answering(u, f)
      BY <3>1 DEF SyncInv
    <3>3. CASE Heard(t, f, b[f])
      <4>1. Tells(obsSess[t].queue \o e, obsView[t][f], f, b[f])
        BY <2>2, <2>4, <2>7, <3>3, TellsBehind DEF Heard
      <4> QED BY <1>1, <2>4, <2>7, <4>1 DEF Heard
    <3>4. CASE \E u \in ObsSessions : Answering(u, f)
      BY <1>3, <3>1, <3>4
    <3> QED BY <3>2, <3>3, <3>4
  <2> QED BY <2>5, <2>6, <2>7
<1> QED BY <1>4, <1>5

LEMMA NextSync ==
  ASSUME ObsShape, CommandInv, Senders, PhaseInv, BaseInv, SyncInv, [ObsNext]_obsVars
  PROVE  SyncInv'
<1> USE DEF obsUiVars
<1>1. PhaseInv'
  BY NextPhase
<1>2. ASSUME UNCHANGED <<obsBase, obsServer, obsWhy, obsSess, obsView>> PROVE SyncInv'
  BY <1>2 DEF SyncInv, ObsDown, Heard, Answering
<1>3. ASSUME NEW w \in {"same", "off", "new"}, ObsFrame(w) PROVE SyncInv'
  <2>1. /\ UNCHANGED <<obsBase, obsWhy, obsView>>
        /\ (obsServer' = obsServer /\ obsSess' = obsSess) \/ obsSess' = DropCommands
    BY <1>3 DEF ObsFrame
  <2>2. CASE obsServer' = obsServer /\ obsSess' = obsSess
    BY <1>2, <2>1, <2>2
  <2>3. CASE obsSess' = DropCommands /\ w = "same"
    BY <1>2, <1>3, <2>1, <2>3 DEF ObsFrame
  <2>4. CASE obsSess' = DropCommands /\ w # "same"
    <3>1. ASSUME NEW s \in ObsSessions, ~ObsDown(s)' PROVE Unheard(s)'
      <4>1. /\ obsSess'[s].server = obsSess[s].server /\ obsSess'[s].queue = obsSess[s].queue
            /\ obsSess[s].server \in Nat /\ obsSess[s].server <= obsStarted
        BY <2>4, Dropped DEF ObsShape, SessionType
      <4>2. obsServer' = 0 \/ obsServer' = obsStarted + 1
        BY <1>3, <2>4 DEF ObsFrame
      <4>3. obsStarted \in Nat
        BY ObsAssumption DEF ObsShape
      <4>4. obsSess[s].server = 0
        BY <3>1, <4>1, <4>2, <4>3 DEF ObsDown
      <4> QED BY <2>1, <4>1, <4>4 DEF PhaseInv, Unheard
    <3> QED BY <2>1, <3>1, SyncFrame
  <2> QED BY <2>1, <2>2, <2>3, <2>4
<1>4. ASSUME NEW s \in ObsSessions, UNCHANGED <<obsBase, obsServer, obsWhy>>, OnlySession(s),
             \A f \in Outputs : ~Answering(s, f),
             \/ Unheard(s)' \/ obsSess'[s].server # obsServer
             \/ /\ obsSess'[s].server = obsSess[s].server
                /\ \A f \in Outputs : \A v : Heard(s, f, v) => Heard(s, f, v)'
      PROVE  SyncInv'
  <2>1. ASSUME NEW t \in ObsSessions, NEW f \in Outputs, Answering(t, f) PROVE Answering(t, f)'
    BY <1>4, <2>1 DEF Answering, OnlySession, ObsDown
  <2>2. ASSUME NEW t \in ObsSessions, NEW f \in Outputs, ~ObsDown(t)', ~Unheard(t)'
        PROVE  ~ObsDown(t) /\ \A v : Heard(t, f, v) => Heard(t, f, v)'
    <3>1. CASE t = s
      BY <1>4, <2>2, <3>1 DEF ObsDown
    <3>2. CASE t # s
      BY <1>4, <2>2, <3>2 DEF ObsDown, OnlySession, Heard
    <3> QED BY <3>1, <3>2
  <2> QED BY <1>4, <2>1, <2>2, SyncFrame
<1>5. ASSUME NEW s \in ObsSessions, NEW p, NEW r, Turned(s, p, r),
             UNCHANGED <<obsBase, obsServer, obsWhy, obsView>>,
             obsSess[s].phase # "waiting" \/ obsSess[s].reply = NoReply
      PROVE  SyncInv'
  <2>1. OnlySession(s) /\ \A f \in Outputs : ~Answering(s, f)
    BY <1>5, ReplyShapes DEF Turned, OnlySession, Answering
  <2>2. \A f \in Outputs : \A v : Heard(s, f, v) => Heard(s, f, v)'
    BY <1>5 DEF Turned, Heard
  <2> QED BY <1>4, <1>5, <2>1, <2>2 DEF Turned
<1>6. ASSUME NEW s \in ObsSessions, ObsAccept(s) PROVE SyncInv'
  <2>1. UNCHANGED <<obsBase, obsServer, obsWhy, obsView>> /\ obsSess[s].phase = "none"
    BY <1>6 DEF ObsAccept
  <2>2. OnlySession(s) /\ Unheard(s)'
    BY <1>1, <1>6, <2>1, AcceptStep DEF OnlySession, PhaseInv
  <2>3. \A f \in Outputs : ~Answering(s, f)
    BY <2>1 DEF Answering
  <2> QED BY <1>4, <2>1, <2>2, <2>3
<1>7. ASSUME NEW s \in ObsSessions, ObsIdentify(s) PROVE SyncInv'
  BY <1>5, <1>7, IdentifyStep DEF ObsIdentify
<1>8. ASSUME NEW s \in ObsSessions, NEW c \in ObsCommands, ObsRequest(s, c) PROVE SyncInv'
  <2>1. CASE ObsDown(s)
    BY <1>2, <1>8, <2>1 DEF ObsRequest
  <2>2. CASE ~ObsDown(s)
    BY <1>5, <1>8, <2>2, RequestStep DEF ObsRequest
  <2> QED BY <2>1, <2>2
<1>9. ASSUME NEW s \in ObsSessions, ObsGiveUp(s) PROVE SyncInv'
  BY <1>5, <1>9, GiveUpStep DEF ObsGiveUp
<1>10. ASSUME NEW s \in ObsSessions, ObsDeliver(s) PROVE SyncInv'
  <2>1. UNCHANGED <<obsBase, obsServer, obsWhy>> /\ obsSess[s].phase = "idle"
    BY <1>10 DEF ObsDeliver
  <2>2. \A t \in ObsSessions : t # s => obsView'[t] = obsView[t]
    BY <1>10 DEF ObsDeliver, ObsShape
  <2>3. OnlySession(s) /\ obsSess'[s].server = obsSess[s].server
    BY <1>10, <2>2, DeliverStep DEF OnlySession
  <2>4. \A f \in Outputs : \A v : Heard(s, f, v) => Heard(s, f, v)'
    BY <1>10, DeliveredHeard
  <2>5. \A f \in Outputs : ~Answering(s, f)
    BY <2>1 DEF Answering
  <2> QED BY <1>4, <2>1, <2>3, <2>4, <2>5
<1>11. ASSUME NEW s \in ObsSessions, ObsReject(s) \/ ObsDisconnect(s) \/ ObsEnd(s)
       PROVE  SyncInv'
  <2>1. Gone(s) /\ obsSess[s].phase \in {"identify", "idle"}
    BY <1>11 DEF ObsReject, ObsDisconnect, ObsEnd
  <2>2. UNCHANGED <<obsBase, obsServer, obsWhy>>
    BY <2>1 DEF Gone
  <2>3. OnlySession(s) /\ Unheard(s)'
    BY <2>1, GoneSession, ClosedShape DEF Unheard
  <2>4. \A f \in Outputs : ~Answering(s, f)
    BY <2>1 DEF Answering
  <2> QED BY <1>4, <2>2, <2>3, <2>4
<1>12. CASE \E f \in Outputs : ObsEdit(f)
  BY <1>2, <1>12 DEF ObsEdit
<1>13. CASE UNCHANGED obsVars
  BY <1>2, <1>13 DEF obsVars
<1>14. ASSUME NEW s \in ObsSessions, ObsStall(s) \/ ObsResume(s) PROVE SyncInv'
  BY <1>2, <1>14 DEF ObsStall, ObsResume
<1> QED
  BY <1>3, <1>14, <1>6, <1>7, <1>8, <1>9, <1>10, <1>11, <1>12, <1>13, ExecuteSync, BroadcastSync,
     AnswerSync
     DEF ObsNext, ObsUiNext, ObsSession, ObsSessionGoesOn

-----------------------------------------------------------------------------
(* The theorems.                                                           *)

StuckInv == obsStuck \subseteq ObsSessions

ObsInv ==
  ObsShape /\ CommandInv /\ Senders /\ PhaseInv /\ BaseInv /\ SyncInv /\ StuckInv

LEMMA NextStuck == StuckInv /\ [ObsNext]_obsVars => StuckInv'
<1> SUFFICES ASSUME StuckInv, [ObsNext]_obsVars PROVE StuckInv'
  OBVIOUS
<1>1. ASSUME NEW s \in ObsSessions, ObsSession(s) PROVE StuckInv'
  <2>1. CASE ObsStall(s) \/ ObsResume(s)
    BY <2>1 DEF ObsStall, ObsResume, StuckInv
  <2>2. CASE ObsReject(s) \/ ObsDisconnect(s) \/ ObsEnd(s)
    BY <2>2 DEF ObsReject, ObsDisconnect, ObsEnd, Gone, StuckInv
  <2>3. CASE \/ ObsAccept(s) \/ ObsIdentify(s) \/ ObsDeliver(s) \/ ObsAnswer(s) \/ ObsGiveUp(s)
             \/ \E c \in ObsCommands : ObsRequest(s, c)
    BY <2>3 DEF ObsAccept, ObsIdentify, ObsDeliver, ObsAnswer, ObsGiveUp, ObsRequest, StuckInv
  <2> QED BY <1>1, <2>1, <2>2, <2>3 DEF ObsSession, ObsSessionGoesOn
<1>2. CASE (\E f \in Outputs : ObsEdit(f)) \/ (\E w \in {"same", "off", "new"} : ObsFrame(w))
  BY <1>2 DEF ObsEdit, ObsFrame, StuckInv
<1>3. CASE ObsExecute \/ ObsBroadcast \/ UNCHANGED obsVars
  BY <1>3 DEF ObsExecute, ObsBroadcast, obsVars, StuckInv
<1> QED BY <1>1, <1>2, <1>3 DEF ObsNext, ObsUiNext

LEMMA InitObs == ObsInit => ObsInv
<1> SUFFICES ASSUME ObsInit PROVE ObsInv
  OBVIOUS
<1> USE DEF ObsInit
<1>1. \A s \in ObsSessions : obsSess[s] = Closed /\ Unheard(s)
  BY ClosedShape DEF Unheard
<1>2. ObsShape
  BY <1>1, ClosedShape, ObsAssumption DEF ObsShape, OnOff
<1>3. CommandInv /\ Senders
  BY EmptySeq, EmptyQueues DEF CommandInv, Senders
<1>4. PhaseInv
  BY <1>1, ClosedShape DEF PhaseInv
<1> QED BY <1>2, <1>3, <1>4 DEF ObsInv, BaseInv, SyncInv, StuckInv

LEMMA AlwaysObs == ObsSpec => []ObsInv
<1>1. ObsInv /\ [ObsNext]_obsVars => ObsInv'
  BY NextShape, NextCommand, NextSenders, NextPhase, NextBase, NextSync, NextStuck DEF ObsInv
<1> QED BY <1>1, InitObs, PTL DEF ObsSpec

\* Every variable of the OBS server keeps its type: sessions, their queues,
\* the commands under way and what the clients believe.
THEOREM ObsTypeCorrect == ObsSpec => []ObsTypeOK
<1>1. ASSUME ObsInv PROVE ObsTypeOK
  <2> USE <1>1 DEF ObsInv
  <2>1. ASSUME NEW q \in {obsCmds, obsBatch}
        PROVE  q \in Seq([from : ObsSessions \cup {NoSession}, command : ObsCommands, server : 1..MaxServers])
    <3>1. q \in Seq(Current) /\ (obsServer = 0 => q = <<>>)
      BY DEF CommandInv, Senders
    <3>2. CASE obsServer = 0
      BY <3>1, <3>2, EmptySeq
    <3>3. CASE obsServer # 0
      <4>1. obsServer \in 1..MaxServers
        BY <3>3, ObsAssumption DEF ObsShape
      <4> DEFINE T == [from : ObsSessions \cup {NoSession}, command : ObsCommands, server : 1..MaxServers]
      <4>2. Current \subseteq T
        BY <4>1 DEF Current
      <4> HIDE DEF T
      <4>3. q \in [1..Len(q) -> Current] /\ Len(q) \in Nat
        BY <3>1, LenProperties
      <4>4. q \in [1..Len(q) -> T]
        BY <4>2, <4>3
      <4>5. q \in Seq(T)
        BY <4>3, <4>4, SeqDef
      <4> QED BY <4>5 DEF T
    <3> QED BY <3>2, <3>3
  <2>2. ASSUME NEW s \in ObsSessions
        PROVE  /\ obsSess[s].phase \in {"none", "identify", "idle", "waiting"}
               /\ obsSess[s].server \in 0..obsStarted
               /\ obsSess[s].reply.kind \in {"none", "failure", "success"}
               /\ obsSess[s].queue \in Seq([output : Outputs, value : {"on", "off"}])
    <3>1. obsSess[s] \in SessionType /\ obsSess[s].server <= obsStarted /\ obsStarted \in Nat
      BY ObsAssumption DEF ObsShape
    <3>2. obsSess[s].reply.kind \in {"none", "failure", "success"}
      BY <3>1 DEF SessionType, Replies, NoReply, Failed
    <3> QED BY <3>1, <3>2 DEF SessionType, Events, OnOff
  <2> QED BY <2>1, <2>2 DEF ObsShape, StuckInv, ObsTypeOK, OnOff
<1> QED BY <1>1, AlwaysObs, PTL

\* Once everything sent has arrived, a client that believes of an output what
\* is not so was left out in one of the three known ways, for any number of
\* clients, commands, edits and restarts of the server.
THEOREM ClientsLearnTheTruth == ObsSpec => []ClientsInSync
<1>1. ASSUME ObsInv PROVE ClientsInSync
  <2> SUFFICES ASSUME Quiet, NEW s \in ObsSessions, NEW f \in Outputs,
                      ~ObsDown(s), obsWhy[f] = "told"
               PROVE  obsView[s][f] \in {"unknown", obsUi[f]}
    BY DEF ClientsInSync, Knows
  <2>1. obsBase = {obsUi} /\ obsSess[s].queue = <<>> /\ \A t \in ObsSessions : ~Answering(t, f)
    BY DEF Quiet, Answering
  <2>2. Heard(s, f, obsUi[f])
    BY <1>1, <2>1 DEF ObsInv, SyncInv
  <2>3. ~SaysLast(<<>>, f, obsUi[f])
    BY EmptySeq DEF SaysLast
  <2> QED BY <2>1, <2>2, <2>3 DEF Heard, Tells
<1> QED BY <1>1, AlwaysObs, PTL
=============================================================================
