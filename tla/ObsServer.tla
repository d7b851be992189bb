------------------------------ MODULE ObsServer ------------------------------
(***************************************************************************)
(* The OBS WebSocket server (rivulet-obs-websocket/src/server.rs and       *)
(* backend.rs) and the part of the GUI's frame that serves it              *)
(* (rivulet-gui/src/app.rs, reconcile_obs_websocket).  Every connection    *)
(* has a thread of its own.  A command goes through a channel to the UI    *)
(* thread and its result comes back; the connection's thread then          *)
(* broadcasts the events of the result.  Changes made in the window are    *)
(* broadcast by the UI thread, which compares with a baseline.             *)
(*                                                                         *)
(* Two outputs stand for all: recording, with its three commands, and the  *)
(* microphone, which only toggles.  A client's view is what it was told.   *)
(***************************************************************************)
EXTENDS Naturals, Sequences, FiniteSets

CONSTANTS ObsSessions,   \* connections
          ObsCommands,   \* the commands they send
          NoSession,     \* the owner of a command nobody waits for any more
          MaxRequests,   \* bound: commands sent by clients
          MaxEdits,      \* bound: changes made in the window
          MaxServers,    \* bound: servers started
          ObsFaults      \* "slow": the UI thread may take thirty seconds;
                         \* "deaf": a client may stop reading

ASSUME ObsAssumption ==
  /\ NoSession \notin ObsSessions
  /\ ObsCommands \subseteq {"start", "stop", "toggle", "mute"}
  /\ MaxRequests \in Nat /\ MaxEdits \in Nat /\ MaxServers \in Nat
  /\ ObsFaults \subseteq {"slow", "deaf"}

VARIABLES
  obsUi,       \* what the GUI does: any_recording_active, is_muted
  obsBase,     \* obs_ws_last_public_state: the empty set is None
  obsServer,   \* the running server's number, 0: none
  obsStarted,  \* servers started so far
  obsCmds,     \* the channel of ObsCommands to the UI thread
  obsBatch,    \* the commands the current frame still has to execute
  obsPc,       \* where the UI thread is: "frame" or "execute"
  obsSess,     \* the connections' threads
  obsView,     \* what each client believes of each output
  obsStuck,    \* the threads inside a write that their client does not take
  obsWhy,      \* history: why the last change of an output was not told
  obsRequests, obsEdits  \* how much of the bounds is used

obsUiVars == <<obsUi, obsBase, obsServer, obsStarted, obsCmds, obsBatch, obsPc>>
obsVars   == <<obsUiVars, obsSess, obsView, obsStuck, obsWhy, obsRequests, obsEdits>>

Outputs  == {"recording", "muted"}
Flip(v)  == IF v = "on" THEN "off" ELSE "on"
NoReply  == [kind |-> "none"]
Failed   == [kind |-> "failure"]
Closed   == [phase |-> "none", server |-> 0, reply |-> NoReply, queue |-> <<>>]

ObsInit ==
  /\ obsUi = [f \in Outputs |-> "off"]
  /\ obsBase = {}
  /\ obsServer = 0 /\ obsStarted = 0
  /\ obsCmds = <<>> /\ obsBatch = <<>> /\ obsPc = "frame"
  /\ obsSess = [s \in ObsSessions |-> Closed]
  /\ obsView = [s \in ObsSessions |-> [f \in Outputs |-> "unknown"]]
  /\ obsStuck = {}
  /\ obsWhy = [f \in Outputs |-> "told"]
  /\ obsRequests = 0 /\ obsEdits = 0

\* Sessions in state.sessions of a server.
Registered(s) == obsSess[s].phase \in {"idle", "waiting"}

\* A session whose server was told to shut down.
ObsDown(s) == obsSess[s].server # obsServer

ToEach(server, events) ==
  [s \in ObsSessions |-> IF Registered(s) /\ obsSess[s].server = server
                         THEN [obsSess[s] EXCEPT !.queue = @ \o events] ELSE obsSess[s]]

\* Why a client will not know output f after an event says it is v.
WhyAfter(f, v) == IF \E b \in obsBase : b[f] = v THEN "told" ELSE "overtaken"

-----------------------------------------------------------------------------
(* The UI thread.                                                          *)

\* The user acts in the window, between two calls of reconcile_obs_websocket.
ObsEdit(f) ==
  /\ obsPc = "frame" /\ obsEdits < MaxEdits
  /\ obsUi' = [obsUi EXCEPT ![f] = Flip(@)]
  /\ obsEdits' = obsEdits + 1
  /\ UNCHANGED <<obsBase, obsServer, obsStarted, obsCmds, obsBatch, obsPc, obsSess,
                 obsView, obsStuck, obsWhy, obsRequests>>

\* A command whose receiver is dropped fails in the thread that waits for it.
DropCommands ==
  [s \in ObsSessions |-> IF \E i \in DOMAIN obsCmds : obsCmds[i].from = s
                         THEN [obsSess[s] EXCEPT !.reply = Failed] ELSE obsSess[s]]

\* Mutant: the receiver of the commands survives its server.
FrameKeepsCommands(wanted) ==
  /\ obsPc = "frame"
  /\ \/ wanted = "same" /\ UNCHANGED <<obsServer, obsStarted>>
     \/ wanted = "off" /\ obsServer # 0 /\ obsServer' = 0 /\ UNCHANGED obsStarted
     \/ /\ wanted = "new" /\ obsStarted < MaxServers
        /\ obsServer' = obsStarted + 1 /\ obsStarted' = obsStarted + 1
  /\ obsBatch' = obsCmds /\ obsCmds' = <<>>
  /\ obsPc' = "execute"
  /\ UNCHANGED <<obsUi, obsBase, obsSess, obsView, obsStuck, obsWhy, obsRequests, obsEdits>>

\* The first half of reconcile_obs_websocket: start, restart or stop the server
\* as the settings ask, and take the commands that wait.
\* Stopping joins the accept loop only; each session sees the flag later.
ObsFrame(wanted) ==
  /\ obsPc = "frame"
  /\ \/ /\ wanted = "same"
        /\ obsBatch' = obsCmds
        /\ UNCHANGED <<obsServer, obsStarted, obsSess>>
     \/ /\ wanted = "off" /\ obsServer # 0
        /\ obsServer' = 0 /\ obsBatch' = <<>>
        /\ obsSess' = DropCommands /\ UNCHANGED obsStarted
     \/ /\ wanted = "new" /\ obsStarted < MaxServers
        /\ obsServer' = obsStarted + 1 /\ obsStarted' = obsStarted + 1
        /\ obsBatch' = <<>> /\ obsSess' = DropCommands
  /\ obsCmds' = <<>> /\ obsPc' = "execute"
  /\ UNCHANGED <<obsUi, obsBase, obsView, obsStuck, obsWhy, obsRequests, obsEdits>>

\* What a command does to the output it is about: a success changes it and
\* carries the event, a failure that got as far as trying refreshes the
\* baseline too.  Starting fails when no capture source is configured.
Switch(f, v) == [ok |-> TRUE, tried |-> TRUE, output |-> f, value |-> v]
Refusal      == [ok |-> FALSE, tried |-> FALSE, output |-> "recording", value |-> "off"]
Attempt      == [Refusal EXCEPT !.tried = TRUE]

Outcomes(c) ==
  IF c = "mute" THEN {Switch("muted", Flip(obsUi["muted"]))}
  ELSE IF obsUi["recording"] = "on"
       THEN IF c = "start" THEN {Refusal} ELSE {Switch("recording", "off")}
       ELSE IF c = "stop" THEN {Refusal} ELSE {Switch("recording", "on"), Attempt}

\* What was changed since the baseline.
Unsaid == {f \in Outputs : \E b \in obsBase : b[f] # obsUi[f]}

\* The changes made in the window that this frame will now not broadcast, for
\* the command refreshes the baseline as a whole.
Absorbed(o) == {f \in Unsaid : ~o.ok \/ f # o.output}

\* execute_obs_command and the reply; nobody may be listening any more.
ObsExecute ==
  /\ obsPc = "execute" /\ obsBatch # <<>>
  /\ LET from == Head(obsBatch).from
     IN \E o \in Outcomes(Head(obsBatch).command) :
          /\ obsUi' = IF o.ok THEN [obsUi EXCEPT ![o.output] = o.value] ELSE obsUi
          /\ obsBase' = IF o.tried THEN {obsUi'} ELSE obsBase
          /\ obsSess' = IF from = NoSession THEN obsSess
                        ELSE [obsSess EXCEPT ![from].reply =
                                IF o.ok THEN [kind |-> "success", output |-> o.output, value |-> o.value]
                                ELSE Failed]
          /\ obsWhy' = [f \in Outputs |->
               IF o.tried /\ f \in Absorbed(o) THEN "absorbed"
               ELSE IF o.ok /\ f = o.output /\ from = NoSession THEN "late" ELSE obsWhy[f]]
  /\ obsBatch' = Tail(obsBatch)
  /\ UNCHANGED <<obsServer, obsStarted, obsCmds, obsPc, obsView, obsStuck, obsRequests, obsEdits>>

\* Mutant: only a started or stopped recording is compared with the baseline.
BroadcastRecordingOnly ==
  /\ obsPc = "execute" /\ obsBatch = <<>>
  /\ LET changed == IF obsServer = 0 THEN {} ELSE Unsaid \cap {"recording"}
         events  == IF changed = {} THEN <<>> ELSE <<[output |-> "recording", value |-> obsUi["recording"]]>>
     IN /\ obsSess' = ToEach(obsServer, events)
        /\ obsWhy' = [f \in Outputs |-> IF f \in changed THEN "told" ELSE obsWhy[f]]
  /\ obsBase' = IF obsServer = 0 THEN {} ELSE {obsUi}
  /\ obsPc' = "frame"
  /\ UNCHANGED <<obsUi, obsServer, obsStarted, obsCmds, obsBatch, obsView, obsStuck, obsRequests, obsEdits>>

\* The second half of reconcile_obs_websocket: broadcast what differs from the
\* baseline, then move the baseline.
ObsBroadcast ==
  /\ obsPc = "execute" /\ obsBatch = <<>>
  /\ LET changed == IF obsServer = 0 THEN {} ELSE Unsaid
         event(f) == IF f \in changed THEN <<[output |-> f, value |-> obsUi[f]]>> ELSE <<>>
     IN /\ obsSess' = ToEach(obsServer, event("recording") \o event("muted"))
        /\ obsWhy' = [f \in Outputs |-> IF f \in changed THEN "told" ELSE obsWhy[f]]
  /\ obsBase' = IF obsServer = 0 THEN {} ELSE {obsUi}
  /\ obsPc' = "frame"
  /\ UNCHANGED <<obsUi, obsServer, obsStarted, obsCmds, obsBatch, obsView, obsStuck, obsRequests, obsEdits>>

-----------------------------------------------------------------------------
(* A connection's thread.                                                  *)

Set(s, r) == obsSess' = [obsSess EXCEPT ![s] = r]

\* The thread is over, and with it the client's connection.
Gone(s) ==
  /\ Set(s, Closed)
  /\ obsView' = [obsView EXCEPT ![s] = [f \in Outputs |-> "unknown"]]
  /\ obsStuck' = obsStuck \ {s}
  /\ UNCHANGED <<obsUiVars, obsWhy, obsRequests, obsEdits>>

\* The accept loop takes a connection and starts its thread; the upgrade and
\* Hello have succeeded.
ObsAccept(s) ==
  /\ obsSess[s].phase = "none" /\ obsServer # 0
  /\ Set(s, [Closed EXCEPT !.phase = "identify", !.server = obsServer])
  /\ UNCHANGED <<obsUiVars, obsView, obsStuck, obsWhy, obsRequests, obsEdits>>

\* Identify is accepted: the session is registered for broadcasts.
ObsIdentify(s) ==
  /\ obsSess[s].phase = "identify"
  /\ Set(s, [obsSess[s] EXCEPT !.phase = "idle"])
  /\ UNCHANGED <<obsUiVars, obsView, obsStuck, obsWhy, obsRequests, obsEdits>>

\* Identify is rejected, or does not come within IDENTIFY_TIMEOUT.
ObsReject(s) ==
  /\ obsSess[s].phase = "identify"
  /\ Gone(s)

\* A command of the client: it is queued for the UI thread, or fails at once
\* when the receiver is gone.
ObsRequest(s, c) ==
  /\ obsSess[s].phase = "idle" /\ obsRequests < MaxRequests
  /\ obsRequests' = obsRequests + 1
  /\ IF ObsDown(s)
     THEN UNCHANGED <<obsCmds, obsSess>>
     ELSE /\ obsCmds' = Append(obsCmds, [from |-> s, command |-> c, server |-> obsSess[s].server])
          /\ Set(s, [obsSess[s] EXCEPT !.phase = "waiting", !.reply = NoReply])
  /\ UNCHANGED <<obsUi, obsBase, obsServer, obsStarted, obsBatch, obsPc, obsView, obsStuck, obsWhy, obsEdits>>

\* The result is there: its event goes to every session of this server, this
\* one included, and the client is answered.
ObsAnswer(s) ==
  /\ obsSess[s].phase = "waiting" /\ obsSess[s].reply # NoReply
  /\ LET r  == obsSess[s].reply
         ev == IF r.kind = "success" THEN <<[output |-> r.output, value |-> r.value]>> ELSE <<>>
         told == ToEach(obsSess[s].server, ev)
     IN /\ obsSess' = [told EXCEPT ![s].phase = "idle", ![s].reply = NoReply]
        /\ obsWhy' = IF r.kind = "success" /\ ~ObsDown(s)
                     THEN [obsWhy EXCEPT ![r.output] = WhyAfter(r.output, r.value)] ELSE obsWhy
  /\ UNCHANGED <<obsUiVars, obsView, obsStuck, obsRequests, obsEdits>>

Orphaned(q, s) == [i \in DOMAIN q |-> IF q[i].from = s THEN [q[i] EXCEPT !.from = NoSession] ELSE q[i]]

\* Thirty seconds without a result: the client is told of a failure, and the
\* command stays in the channel.
ObsGiveUp(s) ==
  /\ "slow" \in ObsFaults
  /\ obsSess[s].phase = "waiting" /\ obsSess[s].reply = NoReply
  /\ obsCmds' = Orphaned(obsCmds, s) /\ obsBatch' = Orphaned(obsBatch, s)
  /\ Set(s, [obsSess[s] EXCEPT !.phase = "idle"])
  /\ UNCHANGED <<obsUi, obsBase, obsServer, obsStarted, obsPc, obsView, obsStuck, obsWhy, obsRequests, obsEdits>>

\* drain_events: every queued event reaches the client, in order.
ObsDeliver(s) ==
  /\ obsSess[s].phase = "idle" /\ obsSess[s].queue # <<>>
  /\ LET q    == obsSess[s].queue
         last(f) == {i \in DOMAIN q : q[i].output = f /\ \A k \in DOMAIN q : k > i => q[k].output # f}
     IN obsView' = [obsView EXCEPT ![s] =
                      [f \in Outputs |-> IF last(f) = {} THEN @[f] ELSE q[CHOOSE i \in last(f) : TRUE].value]]
  /\ Set(s, [obsSess[s] EXCEPT !.queue = <<>>])
  /\ UNCHANGED <<obsUiVars, obsStuck, obsWhy, obsRequests, obsEdits>>

\* Mutant: only the Shutdown message ends a session, and it is sent to those
\* that are registered when the server stops.
EndRegistered(s) ==
  /\ obsSess[s].phase = "idle" /\ ObsDown(s) /\ obsSess[s].queue # <<>>
  /\ Gone(s)

\* loop_forever sees the shutdown flag or the Shutdown message; what is still
\* queued is lost.
ObsEnd(s) ==
  /\ obsSess[s].phase = "idle" /\ ObsDown(s)
  /\ Gone(s)

\* The client closes, in any phase in which its thread reads or writes.
ObsDisconnect(s) ==
  /\ obsSess[s].phase \in {"identify", "idle"}
  /\ Gone(s)

\* ws.send has no limit: while the client reads nothing and the buffers are
\* full, its thread stays in the write of a response, an event or a Pong.
ObsStall(s) ==
  /\ "deaf" \in ObsFaults
  /\ obsSess[s].phase \in {"identify", "idle"} /\ s \notin obsStuck
  /\ obsStuck' = obsStuck \cup {s}
  /\ UNCHANGED <<obsUiVars, obsSess, obsView, obsWhy, obsRequests, obsEdits>>

ObsResume(s) ==
  /\ s \in obsStuck
  /\ obsStuck' = obsStuck \ {s}
  /\ UNCHANGED <<obsUiVars, obsSess, obsView, obsWhy, obsRequests, obsEdits>>

ObsUiNext == ObsExecute \/ ObsBroadcast

\* What the thread of a session does without its client, except in a write.
ObsSessionGoesOn(s) ==
  s \notin obsStuck /\ (ObsReject(s) \/ ObsAnswer(s) \/ ObsGiveUp(s) \/ ObsEnd(s))

ObsSession(s) ==
  \/ ObsAccept(s) \/ ObsDisconnect(s) \/ ObsStall(s) \/ ObsResume(s)
  \/ ObsSessionGoesOn(s)
  \/ /\ s \notin obsStuck
     /\ ObsIdentify(s) \/ ObsDeliver(s) \/ \E c \in ObsCommands : ObsRequest(s, c)

ObsNext ==
  \/ \E f \in Outputs : ObsEdit(f)
  \/ \E w \in {"same", "off", "new"} : ObsFrame(w)
  \/ ObsUiNext
  \/ \E s \in ObsSessions : ObsSession(s)

\* Threads go on, and waits for a message or a result end, for they have a
\* limit; a write has none.  Neither the user nor a client has to do anything.
ObsFairness ==
  /\ WF_obsVars(ObsUiNext)
  /\ \A s \in ObsSessions : WF_obsVars(ObsSessionGoesOn(s))

ObsSpec     == ObsInit /\ [][ObsNext]_obsVars
ObsFairSpec == ObsSpec /\ ObsFairness
-----------------------------------------------------------------------------
Quiet ==
  /\ obsPc = "frame" /\ obsServer # 0 /\ obsBase = {obsUi}
  /\ obsCmds = <<>>
  /\ \A s \in ObsSessions : obsSess[s].phase # "waiting" /\ obsSess[s].queue = <<>>

Knows(s, f) == obsView[s][f] \in {"unknown", obsUi[f]} \/ ObsDown(s)

ObsTypeOK ==
  /\ obsUi \in [Outputs -> {"on", "off"}] /\ obsBase \subseteq [Outputs -> {"on", "off"}]
  /\ obsServer \in {0, obsStarted} /\ obsStarted \in 0..MaxServers
  /\ \A q \in {obsCmds, obsBatch} :
       q \in Seq([from : ObsSessions \cup {NoSession}, command : ObsCommands, server : 1..MaxServers])
  /\ obsPc \in {"frame", "execute"}
  /\ \A s \in ObsSessions :
       /\ obsSess[s].phase \in {"none", "identify", "idle", "waiting"}
       /\ obsSess[s].server \in 0..obsStarted
       /\ obsSess[s].reply.kind \in {"none", "failure", "success"}
       /\ obsSess[s].queue \in Seq([output : Outputs, value : {"on", "off"}])
  /\ obsView \in [ObsSessions -> [Outputs -> {"on", "off", "unknown"}]]
  /\ obsStuck \subseteq ObsSessions
  /\ obsWhy \in [Outputs -> {"told", "absorbed", "late", "overtaken"}]
  /\ obsRequests \in 0..MaxRequests /\ obsEdits \in 0..MaxEdits

\* What the comment on the broadcasts of reconcile_obs_websocket promises: once
\* everything sent has arrived, no client believes of an output what is not so.
\* It fails in three ways only: the change was made in the window and a command
\* refreshed the baseline before it was compared; its command had been given up;
\* or a thread broadcast an older result after it.
ClientsInSync ==
  Quiet => \A s \in ObsSessions, f \in Outputs : Knows(s, f) \/ obsWhy[f] # "told"

\* No command outlives its server: what waits for the UI thread was sent to the
\* server that runs, whatever was restarted in between.
NoStaleCommand ==
  \A q \in {obsCmds, obsBatch} : \A i \in DOMAIN q : q[i].server = obsServer

\* After a shutdown every connection that has its upgrade ends, whether it was
\* registered when the Shutdown messages were sent, or is waiting for the UI
\* thread, or has still to identify.  The exception is a client that never
\* takes what is written to it: its thread does not see the shutdown.
Reads(s) == <>[](s \notin obsStuck)

SessionsEnd ==
  \A s \in ObsSessions :
    Reads(s) => (obsSess[s].phase \in {"identify", "idle", "waiting"} /\ ObsDown(s)
                   ~> obsSess[s].phase = "none")
=============================================================================
