----------------------------- MODULE JobLifecycle -----------------------------
(***************************************************************************)
(* What the queue promises about a job, without payloads, records, round   *)
(* trips or locks: it waits, a worker takes it, gives it back or ends it,  *)
(* and only a waiting one is cancelled or cleared, at one instant and for  *)
(* good.  Moving a waiting job to the front is no event of its life.       *)
(***************************************************************************)
CONSTANTS Jobs, UniqueJobs,
          ReleasedTwice    \* unique jobs whose cancellation may free the lock of another

VARIABLES
    waiting,    \* jobs in the queue, delayed or not
    taken,      \* jobs with a worker
    cancelled,  \* jobs a user took back
    over        \* jobs that ran to their end, or were cleared

vars == <<waiting, taken, cancelled, over>>

Init == waiting = {} /\ taken = {} /\ cancelled = {} /\ over = {}

\* A job comes once; a unique one only while no other is waiting or taken, as
\* long as no job of ReleasedTwice has been cancelled.
Enter(j) ==
    /\ j \notin waiting \cup taken \cup cancelled \cup over
    /\ j \in UniqueJobs /\ cancelled \cap ReleasedTwice = {} => UniqueJobs \cap (waiting \cup taken) = {}
    /\ waiting' = waiting \cup {j}
    /\ UNCHANGED <<taken, cancelled, over>>

Take(j) ==
    /\ j \in waiting
    /\ waiting' = waiting \ {j}
    /\ taken' = taken \cup {j}
    /\ UNCHANGED <<cancelled, over>>

GiveBack(j) ==
    /\ j \in taken
    /\ taken' = taken \ {j}
    /\ waiting' = waiting \cup {j}
    /\ UNCHANGED <<cancelled, over>>

End(j) ==
    /\ j \in taken
    /\ taken' = taken \ {j}
    /\ over' = over \cup {j}
    /\ UNCHANGED <<waiting, cancelled>>

\* Who is told that a job was cancelled has taken it from the queue himself.
Cancel(j) ==
    /\ j \in waiting
    /\ waiting' = waiting \ {j}
    /\ cancelled' = cancelled \cup {j}
    /\ UNCHANGED <<taken, over>>

\* Clearing ends everything that waits, and nothing else.
Clear ==
    /\ waiting' = {}
    /\ over' = over \cup waiting
    /\ UNCHANGED <<taken, cancelled>>

Next ==
    \/ \E j \in Jobs : Enter(j) \/ Take(j) \/ GiveBack(j) \/ End(j) \/ Cancel(j)
    \/ Clear

Spec == Init /\ [][Next]_vars
===============================================================================
