------------------------------ MODULE AlertFeed ------------------------------
(***************************************************************************)
(* Alerts on their way to the docks: the loopback webhook receiver         *)
(* (alerts_webhook.rs), the outbound EventSub worker (alerts_eventsub.rs), *)
(* the queue with its budget per source (alerts_ingest.rs) and the part of *)
(* the GUI's frame that starts and stops both and drains them (app.rs).    *)
(* An alert is only counted; a notice stands for those over the budget.    *)
(* The chat workers' alert channels, drained in the same way, and the      *)
(* preview button are left out.                                            *)
(***************************************************************************)
EXTENDS Naturals, Sequences

CONSTANTS AlertBudget,     \* ALERT_SOURCE_WINDOW_CAPACITY
          AlertChannel,    \* EVENT_CHANNEL_CAPACITY
          AlertPosts,      \* threads of webhook connections
          MaxAlerts,       \* bound: alerts that arrive
          MaxWindows,      \* bound: times the ten seconds of a window pass
          MaxAlertEdits    \* bound: changes of the settings

ASSUME AlertAssumption ==
  /\ AlertBudget \in Nat \ {0} /\ AlertChannel \in Nat \ {0}
  /\ MaxAlerts \in Nat /\ MaxWindows \in Nat /\ MaxAlertEdits \in Nat

Sources == {"hook", "eventsub"}

VARIABLES
  alertPc,       \* the UI thread, within a frame
  alertWanted,   \* the settings of each transport; 0: off
  alertApplied,  \* what each transport was started with; 0: not running
  alertChan,     \* alerts in each transport's channel
  alertPost,     \* threads of handle_connection
  alertWorker,   \* the EventSub worker
  alertOn,       \* AlertIngest.enabled
  alertQueue,    \* entries: the number of accepted alerts
  alertNotices,  \* notices
  alertWindow,   \* source_windows and suppressed_pending (0: no key)
  alertHidden,   \* history: alerts suppressed in the window of each source
  alertTold,     \* history: the notice of that window has been shown
  alertUsed      \* how much of the bounds is used

alertIngest    == <<alertQueue, alertNotices, alertWindow, alertHidden, alertTold>>
alertTransport == <<alertWanted, alertApplied, alertChan, alertPost, alertWorker>>
alertVars      == <<alertPc, alertTransport, alertOn, alertIngest, alertUsed>>

NoPost == [phase |-> "none", server |-> 0]

AlertInit ==
  /\ alertPc = "frame"
  /\ alertWanted = [s \in Sources |-> 0] /\ alertApplied = alertWanted /\ alertChan = alertWanted
  /\ alertPost = [p \in AlertPosts |-> NoPost]
  /\ alertWorker = [phase |-> "done", stop |-> FALSE]
  /\ alertOn = TRUE
  /\ alertQueue = 0 /\ alertNotices = <<>>
  /\ alertWindow = [s \in Sources |-> [old |-> TRUE, used |-> 0, pending |-> 0]]
  /\ alertHidden = [s \in Sources |-> 0] /\ alertTold = [s \in Sources |-> FALSE]
  /\ alertUsed = [alerts |-> 0, windows |-> 0, edits |-> 0]

Spend(b) == alertUsed' = [alertUsed EXCEPT ![b] = @ + 1]

\* Ten seconds pass: push_from will find every window stale.
AlertTime ==
  /\ alertUsed.windows < MaxWindows /\ Spend("windows")
  /\ alertWindow' = [s \in Sources |-> [alertWindow[s] EXCEPT !.old = TRUE]]
  /\ UNCHANGED <<alertPc, alertTransport, alertOn, alertQueue, alertNotices, alertHidden, alertTold>>

-----------------------------------------------------------------------------
(* AlertIngest.                                                            *)

\* The newest notice of a source.
NoticesOf(s) == {i \in DOMAIN alertNotices : alertNotices[i].source = s}
Newest(s)    == {i \in NoticesOf(s) : \A k \in NoticesOf(s) : k <= i}

\* Mutant: the pending count survives its window.
PushKeepingPending(s) ==
  LET w == IF alertWindow[s].old THEN [alertWindow[s] EXCEPT !.old = FALSE, !.used = 0] ELSE alertWindow[s]
      hidden == IF alertWindow[s].old THEN 0 ELSE alertHidden[s]
      over   == w.used >= AlertBudget
  IN /\ alertWindow' = [alertWindow EXCEPT ![s] =
          IF over THEN [w EXCEPT !.pending = @ + 1] ELSE [w EXCEPT !.used = @ + 1]]
     /\ alertQueue' = IF over THEN alertQueue ELSE alertQueue + 1
     /\ alertNotices' =
          IF ~over THEN alertNotices
          ELSE IF w.pending = 0 THEN Append(alertNotices, [source |-> s, suppressed |-> 1])
          ELSE [i \in DOMAIN alertNotices |->
                  IF i \in Newest(s) THEN [alertNotices[i] EXCEPT !.suppressed = w.pending + 1] ELSE alertNotices[i]]
     /\ alertHidden' = [alertHidden EXCEPT ![s] = IF over THEN hidden + 1 ELSE hidden]
     /\ alertTold' = [alertTold EXCEPT ![s] = ~alertWindow[s].old /\ @]

\* push_from: a stale window starts over; an alert over the budget is counted
\* in the notice of its burst, which the first such alert queues.
PushFrom(s) ==
  LET w == IF alertWindow[s].old THEN [old |-> FALSE, used |-> 0, pending |-> 0] ELSE alertWindow[s]
      hidden == IF alertWindow[s].old THEN 0 ELSE alertHidden[s]
      over   == w.used >= AlertBudget
  IN /\ alertWindow' = [alertWindow EXCEPT ![s] =
          IF over THEN [w EXCEPT !.pending = @ + 1] ELSE [w EXCEPT !.used = @ + 1]]
     /\ alertQueue' = IF over THEN alertQueue ELSE alertQueue + 1
     /\ alertNotices' =
          IF ~over THEN alertNotices
          ELSE IF w.pending = 0 THEN Append(alertNotices, [source |-> s, suppressed |-> 1])
          ELSE [i \in DOMAIN alertNotices |->
                  IF i \in Newest(s) THEN [alertNotices[i] EXCEPT !.suppressed = w.pending + 1] ELSE alertNotices[i]]
     /\ alertHidden' = [alertHidden EXCEPT ![s] = IF over THEN hidden + 1 ELSE hidden]
     /\ alertTold' = [alertTold EXCEPT ![s] = ~alertWindow[s].old /\ @]

-----------------------------------------------------------------------------
(* The GUI's frame.                                                        *)

\* The user changes a transport's settings, or turns it on or off.
AlertSettings(s) ==
  /\ alertPc = "frame" /\ alertUsed.edits < MaxAlertEdits /\ Spend("edits")
  /\ \E w \in {0, alertUsed.edits + 1} : alertWanted' = [alertWanted EXCEPT ![s] = w]
  /\ UNCHANGED <<alertPc, alertApplied, alertChan, alertPost, alertWorker, alertOn, alertIngest>>

\* apply_alerts_policy: turning ingestion off discards the entries.
AlertPolicy ==
  /\ alertPc = "frame" /\ alertUsed.edits < MaxAlertEdits /\ Spend("edits")
  /\ alertOn' = ~alertOn
  /\ alertQueue' = IF alertOn THEN 0 ELSE alertQueue
  /\ UNCHANGED <<alertPc, alertTransport, alertNotices, alertWindow, alertHidden, alertTold>>

\* apply_alerts_receiver.  The accept loop sees the flag within its sleep, so
\* its join is part of the step; the channel goes with the old receiver.  A
\* port that cannot be bound is tried again with the next frame.
AlertApplyHook ==
  /\ alertPc = "frame" /\ alertPc' = "hook"
  /\ IF alertApplied["hook"] = alertWanted["hook"]
     THEN UNCHANGED <<alertApplied, alertChan>>
     ELSE /\ \E a \in {0, alertWanted["hook"]} : alertApplied' = [alertApplied EXCEPT !["hook"] = a]
          /\ alertChan' = [alertChan EXCEPT !["hook"] = 0]
  /\ UNCHANGED <<alertWanted, alertPost, alertWorker, alertOn, alertIngest, alertUsed>>

\* A channel is drained with try_recv until it is empty, while its transport
\* goes on sending.
AlertTake(s) ==
  /\ alertPc = s /\ alertChan[s] > 0
  /\ alertChan' = [alertChan EXCEPT ![s] = @ - 1]
  /\ IF alertOn THEN PushFrom(s) ELSE UNCHANGED alertIngest
  /\ UNCHANGED <<alertPc, alertWanted, alertApplied, alertPost, alertWorker, alertOn, alertUsed>>

AlertTaken(s) ==
  /\ alertPc = s /\ alertChan[s] = 0
  /\ alertPc' = IF s = "hook" THEN "apply" ELSE "show"
  /\ UNCHANGED <<alertTransport, alertOn, alertIngest, alertUsed>>

StartEventsub ==
  /\ alertApplied' = [alertApplied EXCEPT !["eventsub"] = alertWanted["eventsub"]]
  /\ alertWorker' = [phase |-> IF alertWanted["eventsub"] = 0 THEN "done" ELSE "dial", stop |-> FALSE]
  /\ alertChan' = [alertChan EXCEPT !["eventsub"] = 0]

\* apply_alerts_eventsub up to the join of EventsubReceiver::shutdown.
AlertApplyEventsub ==
  /\ alertPc = "apply"
  /\ IF alertApplied["eventsub"] = alertWanted["eventsub"]
     THEN alertPc' = "eventsub" /\ UNCHANGED <<alertApplied, alertWorker, alertChan>>
     ELSE IF alertApplied["eventsub"] = 0
     THEN alertPc' = "eventsub" /\ StartEventsub
     ELSE /\ alertPc' = "join" /\ alertWorker' = [alertWorker EXCEPT !.stop = TRUE]
          /\ UNCHANGED <<alertApplied, alertChan>>
  /\ UNCHANGED <<alertWanted, alertPost, alertOn, alertIngest, alertUsed>>

\* The worker has ended: its receiver is dropped and a new one may be started.
AlertJoined ==
  /\ alertPc = "join" /\ alertWorker.phase = "done"
  /\ alertPc' = "eventsub"
  /\ StartEventsub
  /\ UNCHANGED <<alertWanted, alertPost, alertOn, alertIngest, alertUsed>>

\* drain_with_sources, into the chat dock and the alerts dock.
AlertShow ==
  /\ alertPc = "show" /\ alertPc' = "frame"
  /\ alertQueue' = 0 /\ alertNotices' = <<>>
  /\ alertTold' = [s \in Sources |-> alertTold[s] \/ alertHidden[s] > 0]
  /\ UNCHANGED <<alertTransport, alertOn, alertWindow, alertHidden, alertUsed>>

-----------------------------------------------------------------------------
(* The EventSub worker.                                                    *)

Worker(from, to) == alertWorker.phase = from /\ alertWorker' = [alertWorker EXCEPT !.phase = to]

\* The head of the loop of worker_loop.
AlertDial ==
  /\ Worker("dial", IF alertWorker.stop THEN "done" ELSE "connect")
  /\ UNCHANGED <<alertPc, alertWanted, alertApplied, alertChan, alertPost, alertOn, alertIngest, alertUsed>>

\* tungstenite::connect comes back; its socket gets a read timeout only now.
AlertConnected ==
  /\ \E to \in {"greet", "sleep"} : Worker("connect", to)
  /\ UNCHANGED <<alertPc, alertWanted, alertApplied, alertChan, alertPost, alertOn, alertIngest, alertUsed>>

\* The server's one welcome is read, and the subscriptions are posted.
AlertWelcomed ==
  /\ Worker("greet", "post")
  /\ UNCHANGED <<alertPc, alertWanted, alertApplied, alertChan, alertPost, alertOn, alertIngest, alertUsed>>

\* The last of those requests is answered or fails.
AlertSubscribed ==
  /\ Worker("post", "read")
  /\ UNCHANGED <<alertPc, alertWanted, alertApplied, alertChan, alertPost, alertOn, alertIngest, alertUsed>>

\* The phases in which ws.read may be called.
Reading == {"greet", "read"}

\* Mutant: the flag is looked at after a message only, not after each timeout.
StoppedByMessage ==
  /\ alertWorker.stop /\ alertUsed.alerts < MaxAlerts /\ Spend("alerts")
  /\ \E from \in Reading : Worker(from, "done")
  /\ UNCHANGED <<alertPc, alertWanted, alertApplied, alertChan, alertPost, alertOn, alertIngest>>

\* run_session sees the flag, with every message and every read timeout.
AlertStopped ==
  /\ alertWorker.stop /\ \E from \in Reading : Worker(from, "done")
  /\ UNCHANGED <<alertPc, alertWanted, alertApplied, alertChan, alertPost, alertOn, alertIngest, alertUsed>>

\* A session ends: the server closes or asks to reconnect, the keepalive fails.
\* After a clean close the flag is looked at before the sleep.
AlertSessionEnds ==
  /\ \E from \in Reading :
       \/ Worker(from, "sleep")
       \/ alertWorker.stop /\ Worker(from, "done")
  /\ UNCHANGED <<alertPc, alertWanted, alertApplied, alertChan, alertPost, alertOn, alertIngest, alertUsed>>

\* The sleep before the next attempt, which nothing interrupts.
AlertSlept ==
  /\ Worker("sleep", "dial")
  /\ UNCHANGED <<alertPc, alertWanted, alertApplied, alertChan, alertPost, alertOn, alertIngest, alertUsed>>

\* A notification is read; the worker then waits for a place in the channel.
AlertNotified ==
  /\ alertUsed.alerts < MaxAlerts /\ Spend("alerts")
  /\ Worker("read", "send")
  /\ UNCHANGED <<alertPc, alertWanted, alertApplied, alertChan, alertPost, alertOn, alertIngest>>

AlertSent ==
  /\ alertChan["eventsub"] < AlertChannel
  /\ Worker("send", "read")
  /\ alertChan' = [alertChan EXCEPT !["eventsub"] = @ + 1]
  /\ UNCHANGED <<alertPc, alertWanted, alertApplied, alertPost, alertOn, alertIngest, alertUsed>>

-----------------------------------------------------------------------------
(* Webhook deliveries.                                                     *)

SetPost(p, r) ==
  /\ alertPost' = [alertPost EXCEPT ![p] = r]
  /\ UNCHANGED <<alertPc, alertWanted, alertApplied, alertWorker, alertOn, alertIngest>>

\* accept_loop starts a thread for a connection.
AlertPosted(p) ==
  /\ alertPost[p].phase = "none" /\ alertApplied["hook"] # 0
  /\ alertUsed.alerts < MaxAlerts /\ Spend("alerts")
  /\ SetPost(p, [phase |-> "read", server |-> alertApplied["hook"]])
  /\ UNCHANGED alertChan

\* handle_webhook accepts the request, or it is refused or times out.
AlertHandled(p) ==
  /\ alertPost[p].phase = "read"
  /\ \/ SetPost(p, [alertPost[p] EXCEPT !.phase = "send"])
     \/ SetPost(p, NoPost)
  /\ UNCHANGED <<alertChan, alertUsed>>

\* The blocking send: a place in the channel, or its receiver is gone.  The
\* sender is answered 200 either way.
AlertDelivered(p) ==
  /\ alertPost[p].phase = "send"
  /\ \/ /\ alertPost[p].server = alertApplied["hook"] /\ alertChan["hook"] < AlertChannel
        /\ alertChan' = [alertChan EXCEPT !["hook"] = @ + 1]
     \/ alertPost[p].server # alertApplied["hook"] /\ UNCHANGED alertChan
  /\ SetPost(p, NoPost)
  /\ UNCHANGED alertUsed

AlertFrame ==
  \/ AlertApplyHook \/ AlertApplyEventsub \/ AlertJoined \/ AlertShow
  \/ \E s \in Sources : AlertTake(s) \/ AlertTaken(s)

AlertWorker == AlertDial \/ AlertStopped \/ AlertSlept \/ AlertSent

\* The two waits of the worker that have no limit: tungstenite::connect has no
\* timeout, and neither has ureq::post.
AlertAnswered == AlertConnected \/ AlertSubscribed

AlertPost(p) == AlertHandled(p) \/ AlertDelivered(p)

AlertNext ==
  \/ AlertTime \/ AlertPolicy \/ AlertFrame
  \/ AlertWorker \/ AlertAnswered \/ AlertWelcomed \/ AlertSessionEnds \/ AlertNotified
  \/ \E s \in Sources : AlertSettings(s)
  \/ \E p \in AlertPosts : AlertPosted(p) \/ AlertPost(p)

\* Frames are drawn, threads run and the waits that have a limit end; nobody
\* has to answer, to send an alert or to close a connection.
AlertFairness ==
  /\ WF_alertVars(AlertFrame) /\ WF_alertVars(AlertWorker)
  /\ \A p \in AlertPosts : WF_alertVars(AlertPost(p))

AlertSpec     == AlertInit /\ [][AlertNext]_alertVars
AlertFairSpec == AlertSpec /\ AlertFairness
-----------------------------------------------------------------------------
AlertTypeOK ==
  /\ alertPc \in {"frame", "hook", "apply", "join", "eventsub", "show"}
  /\ alertWanted \in [Sources -> 0..MaxAlertEdits] /\ alertApplied \in [Sources -> 0..MaxAlertEdits]
  /\ alertChan \in [Sources -> 0..AlertChannel]
  /\ alertPost \in [AlertPosts -> [phase : {"none", "read", "send"}, server : 0..MaxAlertEdits]]
  /\ alertWorker \in [phase : {"dial", "connect", "greet", "post", "read", "send", "sleep", "done"}, stop : BOOLEAN]
  /\ alertOn \in BOOLEAN /\ alertQueue \in Nat
  /\ alertNotices \in Seq([source : Sources, suppressed : Nat \ {0}])
  /\ alertWindow \in [Sources -> [old : BOOLEAN, used : 0..AlertBudget, pending : Nat]]
  /\ alertHidden \in [Sources -> Nat] /\ alertTold \in [Sources -> BOOLEAN]
  /\ alertUsed.alerts \in 0..MaxAlerts

\* A burst has one line in the dock: as long as the notice of a window waits,
\* it counts every alert that the window suppressed so far; once it was shown,
\* there is no second one.  What the same window suppresses after that is
\* counted in suppressed_pending only, and the dock never hears of it.
OneNoticePerBurst ==
  \A s \in Sources : alertHidden[s] > 0 =>
    /\ alertWindow[s].pending = alertHidden[s]
    /\ IF alertTold[s] THEN NoticesOf(s) = {}
       ELSE \E i \in Newest(s) : alertNotices[i].suppressed = alertHidden[s]

\* The worker waits for a place in a channel that only the thread that joins
\* it could empty.
AlertFrozen ==
  alertPc = "join" /\ alertWorker.phase = "send" /\ alertChan["eventsub"] = AlertChannel

\* The handshake and the subscription requests come back.
NetworkAnswers == []<>(alertWorker.phase \notin {"connect", "post"})

\* EventsubReceiver::shutdown comes back whatever the worker was doing, and no
\* delivery waits for ever for a place, with two exceptions: the network never
\* answers the worker, or the two threads wait for each other.
AlertThreadsEnd ==
  NetworkAnswers =>
    /\ alertPc = "join" ~> alertPc # "join" \/ AlertFrozen
    /\ \A p \in AlertPosts : alertPost[p].phase = "send" ~> alertPost[p].phase = "none" \/ AlertFrozen

\* What the comment of shutdown claims, that the read timeout keeps the join
\* prompt, in its weakest form: when the network answers, the join comes back.
JoinEnds == NetworkAnswers => (alertPc = "join" ~> alertPc # "join")
=============================================================================
