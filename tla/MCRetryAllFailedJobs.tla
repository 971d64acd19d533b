------------------------- MODULE MCRetryAllFailedJobs -------------------------
(***************************************************************************)
(* Finite instances of RetryAllFailedJobs for TLC.  Two or three jobs have *)
(* failed, one or two UUIDs are left for their retries.                    *)
(***************************************************************************)
EXTENDS RetryAllFailedJobs, TLC

CONSTANT Asked    \* jobs the users retry

MCInit == Init /\ \E n \in 2 .. 3 : status = [j \in Jobs |-> IF j <= n THEN "failed" ELSE "none"]

\* Bounds: users retry no other jobs than Asked, and none when a retry has met
\* a mishap; a record is removed only while nothing has gone wrong.
MCNext ==
    /\ Next
    /\ \A u \in Users : target'[u] \in Asked \cup {NoJob} /\ (mishaps' > 0 => stage'[u] = "idle")
    /\ \A j \in Jobs : status'[j] = "removed" => interruptions' + mishaps' = 0

MCSpec == MCInit /\ [][MCNext]_vars

\* Workers and operation IDs are interchangeable.
Symmetry == Permutations(Workers) \cup Permutations(Operations)
=============================================================================
