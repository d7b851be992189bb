------------------------------- MODULE ChatSend -------------------------------
(***************************************************************************)
(* Outbound chat: the handle the GUI sends through (Chat in                *)
(* rivulet-core/src/chat.rs) with its token bucket (rate_limit.rs), and    *)
(* the worker thread behind it, which connects, drains the handle's queue  *)
(* between two reads and starts over after a delay (twitch_chat.rs,        *)
(* kick_chat.rs, youtube_chat.rs with its daily quota).  The user may      *)
(* connect again at any time; the old worker is told to stop and ends on   *)
(* its own.  One account is modelled, on a platform chosen at the start.   *)
(*                                                                         *)
(* The bucket's fractional tokens are counted in parts of a token, one for *)
(* each second of the window, so that all its arithmetic is exact.         *)
(***************************************************************************)
EXTENDS Integers, Sequences

CONSTANTS ChatPlatforms,  \* a subset of {"Twitch", "Kick", "YouTube"}
          ChatCapacity,   \* RateLimitConfig.capacity
          ChatWindow,     \* RateLimitConfig.window_secs
          ChatQuota,      \* whole inserts in a day's YouTube quota
          MaxChatTime,    \* bound: seconds
          MaxChats,       \* bound: handles made
          MaxChatSends    \* bound: messages sent by the user

ASSUME ChatAssumption ==
  /\ ChatPlatforms \subseteq {"Twitch", "Kick", "YouTube"}
  /\ ChatCapacity \in Nat /\ ChatWindow \in Nat \ {0} /\ ChatQuota \in Nat
  /\ MaxChatTime \in Nat /\ MaxChats \in Nat /\ MaxChatSends \in Nat

Handles == 1..MaxChats

VARIABLES
  chatPlatform,
  chatHandle,   \* the number of the current handle, 0: none
  chatMade,     \* handles made so far
  chatTokens,   \* the current limiter's tokens, in parts
  chatLast,     \* when they were counted
  chatNow,      \* monotonic_secs
  chatQueue,    \* the channel of each worker
  chatStop,     \* the flag of each worker
  chatWorker,   \* where each worker is
  chatLeft,     \* inserts left in each worker's YouTubeQuota
  chatSends,    \* how much of the bound is used
  chatMark      \* history: sends let through since some moment

chatLimiter == <<chatTokens, chatLast>>
chatThreads == <<chatQueue, chatStop, chatWorker, chatLeft>>
chatVars    == <<chatPlatform, chatHandle, chatMade, chatLimiter, chatNow, chatThreads,
                 chatSends, chatMark>>

ChatFull == ChatCapacity * ChatWindow

ChatInit ==
  /\ chatPlatform \in ChatPlatforms
  /\ chatHandle = 0 /\ chatMade = 0
  /\ chatTokens = ChatFull /\ chatLast = 0 /\ chatNow = 0
  /\ chatQueue = [h \in Handles |-> <<>>] /\ chatStop = [h \in Handles |-> FALSE]
  /\ chatWorker = [h \in Handles |-> "none"] /\ chatLeft = [h \in Handles |-> ChatQuota]
  /\ chatSends = 0 /\ chatMark = [at |-> 0, sends |-> 0]

ChatTick ==
  /\ chatNow < MaxChatTime /\ chatNow' = chatNow + 1
  /\ UNCHANGED <<chatPlatform, chatHandle, chatMade, chatLimiter, chatThreads, chatSends, chatMark>>

\* Any moment may be the one from which sends are counted.
ChatMark ==
  /\ chatMark # [at |-> chatNow, sends |-> 0]
  /\ chatMark' = [at |-> chatNow, sends |-> 0]
  /\ UNCHANGED <<chatPlatform, chatHandle, chatMade, chatLimiter, chatNow, chatThreads, chatSends>>

-----------------------------------------------------------------------------
(* The GUI: ChatAction in reconcile_chat.                                  *)

\* disconnect_all of the handle there is: the flag and the message.
Stopped == [h \in Handles |-> chatStop[h] \/ h = chatHandle]
Farewell == [h \in Handles |-> IF h = chatHandle THEN Append(chatQueue[h], "disconnect") ELSE chatQueue[h]]

ChatConnect ==
  /\ chatMade < MaxChats
  /\ chatMade' = chatMade + 1 /\ chatHandle' = chatMade + 1
  /\ chatStop' = Stopped /\ chatQueue' = Farewell
  /\ chatWorker' = [chatWorker EXCEPT ![chatMade + 1] = "start"]
  /\ chatTokens' = ChatFull /\ chatLast' = chatNow
  /\ chatMark' = [at |-> chatNow, sends |-> 0]
  /\ UNCHANGED <<chatPlatform, chatNow, chatLeft, chatSends>>

ChatDisconnect ==
  /\ chatHandle # 0 /\ chatHandle' = 0
  /\ chatStop' = Stopped /\ chatQueue' = Farewell
  /\ UNCHANGED <<chatPlatform, chatMade, chatLimiter, chatNow, chatWorker, chatLeft, chatSends, chatMark>>

\* Mutant: idle time is saved up beyond the capacity.
RefilledUncapped == chatTokens + (chatNow - chatLast) * ChatCapacity

\* The tokens there are now, capped at the capacity.
Refilled ==
  LET filled == chatTokens + (chatNow - chatLast) * ChatCapacity
  IN IF filled < ChatFull THEN filled ELSE ChatFull

\* Mutant: a send takes its token whether or not there is one.
TakeRegardless == chatLast' = chatNow /\ chatTokens' = Refilled - ChatWindow

\* try_acquire: the refill is kept whether or not a whole token is there.
TryAcquire ==
  /\ chatLast' = chatNow
  /\ chatTokens' = IF Refilled >= ChatWindow THEN Refilled - ChatWindow ELSE Refilled

\* Chat::send_message and send_reply: what the limiter lets through is queued.
\* Plain messages wait for the quota's mutex and are refused without quota
\* (can_send), replies are not, so that a send is possible at any time.
ChatSendMessage ==
  /\ chatHandle # 0 /\ chatSends < MaxChatSends
  /\ chatSends' = chatSends + 1
  /\ TryAcquire
  /\ IF Refilled >= ChatWindow
     THEN /\ chatQueue' = [chatQueue EXCEPT ![chatHandle] = Append(@, "message")]
          /\ chatMark' = [chatMark EXCEPT !.sends = @ + 1]
     ELSE UNCHANGED <<chatQueue, chatMark>>
  /\ UNCHANGED <<chatPlatform, chatHandle, chatMade, chatNow, chatStop, chatWorker, chatLeft>>

-----------------------------------------------------------------------------
(* The worker.                                                             *)

At(h, from, to) ==
  /\ chatWorker[h] = from /\ chatWorker' = [chatWorker EXCEPT ![h] = to]
  /\ UNCHANGED <<chatPlatform, chatHandle, chatMade, chatLimiter, chatNow, chatStop, chatSends, chatMark>>

\* Mutant: the flag is looked at after a session only.
StartRegardless(h) ==
  /\ At(h, "start", "connect")
  /\ UNCHANGED <<chatQueue, chatLeft>>

\* The head of worker_loop.
ChatStart(h) ==
  /\ At(h, "start", IF chatStop[h] THEN "done" ELSE "connect")
  /\ UNCHANGED <<chatQueue, chatLeft>>

\* run_session up to its loop: Twitch's registration, Kick's lookup of the
\* chatroom and its handshake, YouTube's live-chat page.
ChatConnected(h) ==
  /\ \E to \in {"drain", "sleep"} : At(h, "connect", to)
  /\ UNCHANGED <<chatQueue, chatLeft>>

\* After a clean end the flag is looked at before the sleep.
SessionEnd(h) == IF chatStop[h] THEN "done" ELSE "sleep"

\* The queue is drained up to a disconnect; a message is written to Twitch or
\* posted to Kick or YouTube, where one beyond the day's quota is dropped.
ChatDrain(h) ==
  /\ chatQueue[h] # <<>>
  /\ chatQueue' = [chatQueue EXCEPT ![h] = Tail(@)]
  /\ IF Head(chatQueue[h]) = "disconnect" THEN At(h, "drain", SessionEnd(h)) /\ UNCHANGED chatLeft
     ELSE IF chatPlatform # "YouTube" THEN At(h, "drain", "post") /\ UNCHANGED chatLeft
     ELSE IF chatLeft[h] = 0 THEN At(h, "drain", "drain") /\ UNCHANGED chatLeft
     ELSE At(h, "drain", "post") /\ chatLeft' = [chatLeft EXCEPT ![h] = @ - 1]

\* A write to a broken Twitch connection ends the session and loses its
\* message; Kick and YouTube go on, where the API may say that the day's quota
\* is used up.
ChatPosted(h) ==
  /\ \/ At(h, "post", "drain") /\ UNCHANGED chatLeft
     \/ chatPlatform = "Twitch" /\ At(h, "post", "sleep") /\ UNCHANGED chatLeft
     \/ chatPlatform = "YouTube" /\ At(h, "post", "drain") /\ chatLeft' = [chatLeft EXCEPT ![h] = 0]
  /\ UNCHANGED chatQueue

\* Twitch and Kick are read for half a second at most; YouTube is asked for
\* the next messages.
ChatDrained(h) ==
  /\ chatQueue[h] = <<>>
  /\ At(h, "drain", IF chatPlatform = "YouTube" THEN "poll" ELSE "read")
  /\ UNCHANGED <<chatQueue, chatLeft>>

\* Something to read or nothing; a Ping, whose Pong is written; the server
\* closes, or the read fails.
ChatRead(h) ==
  /\ \E to \in {"drain", "poll", SessionEnd(h), "sleep"} : At(h, "read", to)
  /\ UNCHANGED <<chatQueue, chatLeft>>

\* The answer to a poll, which may be the stream's last, or the Pong is
\* written.
ChatPolled(h) ==
  /\ \E to \in {"drain", "sleep"} \cup (IF chatPlatform = "YouTube" THEN {SessionEnd(h)} ELSE {}) :
       At(h, "poll", to)
  /\ UNCHANGED <<chatQueue, chatLeft>>

ChatSlept(h) ==
  /\ At(h, "sleep", "start")
  /\ UNCHANGED <<chatQueue, chatLeft>>

\* What a worker does without the platform, and what it waits for.  Nothing
\* limits that wait: ureq's requests and the writes have no timeout.
ChatWorker(h)   == ChatStart(h) \/ ChatDrain(h) \/ ChatDrained(h) \/ ChatRead(h) \/ ChatSlept(h)
ChatAnswered(h) == ChatConnected(h) \/ ChatPosted(h) \/ ChatPolled(h)

ChatNext ==
  \/ ChatTick \/ ChatMark \/ ChatConnect \/ ChatDisconnect \/ ChatSendMessage
  \/ \E h \in Handles : ChatWorker(h) \/ ChatAnswered(h)

\* Threads run, and reads of a socket with a timeout end; the platform has to
\* do nothing.
ChatFairness == \A h \in Handles : WF_chatVars(ChatWorker(h))

ChatSpec     == ChatInit /\ [][ChatNext]_chatVars
ChatFairSpec == ChatSpec /\ ChatFairness
-----------------------------------------------------------------------------
ChatTypeOK ==
  /\ chatPlatform \in ChatPlatforms
  /\ chatMade \in 0..MaxChats /\ chatHandle \in {0, chatMade}
  /\ chatTokens \in 0..ChatFull /\ chatNow \in 0..MaxChatTime /\ chatLast \in 0..chatNow
  /\ chatQueue \in [Handles -> Seq({"message", "disconnect"})] /\ chatStop \in [Handles -> BOOLEAN]
  /\ chatWorker \in [Handles -> {"none", "start", "connect", "drain", "post", "read", "poll", "sleep", "done"}]
  /\ chatLeft \in [Handles -> 0..ChatQuota]
  /\ chatSends \in 0..MaxChatSends /\ chatMark \in [at : 0..chatNow, sends : 0..MaxChatSends]

\* However sends and pauses alternate, a handle lets through at most its
\* capacity at once and its rate from any moment on.
ChatBurstBounded ==
  chatMark.sends * ChatWindow <= ChatFull + (chatNow - chatMark.at) * ChatCapacity

\* A worker that was told to stop ends, whether it connects, reads, sleeps or
\* still has messages to send, and although every attempt to connect fails.
\* The exception is a connection, a request or a write that never comes back:
\* nobody joins the worker, and it stays.
PlatformAnswers(h) == []<>(chatWorker[h] \notin {"connect", "post", "poll"})

ChatWorkersEnd ==
  \A h \in Handles : PlatformAnswers(h) => (chatStop[h] ~> chatWorker[h] = "done")
=============================================================================
