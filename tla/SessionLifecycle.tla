--------------------------- MODULE SessionLifecycle ---------------------------
(***************************************************************************)
(* What the engine promises an embedder about its sessions, without how:   *)
(* one session at a time is active; each opens at most one output; a       *)
(* session that ends is finalized, which closes the output it opened, and  *)
(* only then is the session finished.  EngineSession implements it.        *)
(***************************************************************************)
EXTENDS Naturals

CONSTANT MaxSessions    \* bound: sessions started in a behaviour

VARIABLES stage,    \* of each session
          output    \* the container or ingest connection of each session

lifeVars == <<stage, output>>

SessionIds == 1..MaxSessions

Stages  == {"unused", "active", "finalizing", "finished", "failed"}
Outputs == {"absent", "open", "closed"}

LifeInit == /\ stage  = [s \in SessionIds |-> "unused"]
            /\ output = [s \in SessionIds |-> "absent"]

\* Sessions begin in order, and only while none is active.
Begin(s) ==
  /\ stage[s] = "unused"
  /\ \A t \in SessionIds : /\ stage[t] # "active"
                           /\ t < s => stage[t] # "unused"
  /\ stage' = [stage EXCEPT ![s] = "active"]
  /\ UNCHANGED output

\* The output opens with the first frame; the frame itself may end the session.
Open(s) ==
  /\ stage[s] = "active" /\ output[s] = "absent"
  /\ output' = [output EXCEPT ![s] = "open"]
  /\ \E next \in {"active", "finalizing"} : stage' = [stage EXCEPT ![s] = next]

\* The output cannot be opened: there is nothing to finalize.
Fail(s) ==
  /\ stage[s] = "active" /\ output[s] = "absent"
  /\ stage' = [stage EXCEPT ![s] = "failed"]
  /\ UNCHANGED output

Stop(s) ==
  /\ stage[s] = "active"
  /\ stage' = [stage EXCEPT ![s] = "finalizing"]
  /\ UNCHANGED output

Close(s) ==
  /\ stage[s] = "finalizing" /\ output[s] = "open"
  /\ output' = [output EXCEPT ![s] = "closed"]
  /\ UNCHANGED stage

Finish(s) ==
  /\ stage[s] = "finalizing" /\ output[s] # "open"
  /\ stage' = [stage EXCEPT ![s] = "finished"]
  /\ UNCHANGED output

Finalize(s) == Close(s) \/ Finish(s)

LifeNext == \E s \in SessionIds :
              Begin(s) \/ Open(s) \/ Fail(s) \/ Stop(s) \/ Finalize(s)

LifeSpec == LifeInit /\ [][LifeNext]_lifeVars

\* What is stopped gets finalized.
LifeFairSpec == LifeSpec /\ \A s \in SessionIds : WF_lifeVars(Finalize(s))

=============================================================================
