---------------------------- MODULE MCStreamRetries ----------------------------
(* A history of StreamReconnect: how often a target was rebuilt in a row.    *)
EXTENDS MCStreamReconnect

VARIABLE tries  \* rebuilds of a target since it was last live for a while

Rebuilt(i) == /\ streamPc = "rebuild" /\ streamPc' = "idle" /\ streamPipeline'
              /\ i \in Subject /\ i \in sinks

\* A target has recovered when a unit of time passes while it is live.
TriesInit == StreamInit /\ tries = [i \in Idx |-> 0]
TriesNext ==
  /\ StreamNext
  /\ tries' = [i \in Idx |-> CASE ~active'                    -> 0
                               [] Tick /\ states[i] = "live"  -> 0
                               [] Rebuilt(i)                  -> tries[i] + 1
                               [] OTHER                       -> tries[i]]
TriesSpec == TriesInit /\ [][TriesNext]_<<streamVars, tries>>

\* A target that fails again at once after each rebuild (a bad URL, a revoked
\* key) is rebuilt no more often than the policy allows: "retry limits", and the
\* test retry_stops_after_limit.
RetryLimit == \A i \in Idx : tries[i] <= MaxAttempts
=============================================================================
