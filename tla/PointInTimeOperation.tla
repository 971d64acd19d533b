------------------------- MODULE PointInTimeOperation -------------------------
(***************************************************************************)
(* What a bulk operation promises, without snapshots, chunks, workers or   *)
(* queue: it fixes its targets at one instant, affects nothing else, drops *)
(* a target only once its job is gone, and completes only when none is     *)
(* left.  Abandoned operations stop half way but never report completion.  *)
(***************************************************************************)
EXTENDS FiniteSets

CONSTANTS JobIds, Operations

VARIABLES
    retained,    \* the jobs the source retains
    leaving,     \* retained jobs whose removal has begun
    retired,     \* jobs that were retained once
    status,      \* operation -> "none", "open", "complete" or "abandoned"
    remaining    \* operation -> targets it still has to settle

vars == <<retained, leaving, retired, status, remaining>>

Init ==
    /\ retained \in SUBSET JobIds
    /\ leaving = {}
    /\ retired = {}
    /\ status = [o \in Operations |-> "none"]
    /\ remaining = [o \in Operations |-> {}]

\* A job starts being retained; a job that is gone stays gone.
Retain(id) ==
    /\ id \notin retained \cup retired
    /\ retained' = retained \cup {id}
    /\ UNCHANGED <<leaving, retired, status, remaining>>

\* The operation's targets are exactly the jobs retained now, save for those
\* that are leaving already.
Open(o) ==
    /\ status[o] = "none"
    /\ status' = [status EXCEPT ![o] = "open"]
    /\ remaining' = [remaining EXCEPT ![o] = retained \ leaving]
    /\ UNCHANGED <<retained, leaving, retired>>

Targeted(id) == \E o \in Operations : status[o] = "open" /\ id \in remaining[o]

\* Removing a target of an open operation begins ...
Leave(id) ==
    /\ Targeted(id)
    /\ id \in retained \ leaving
    /\ leaving' = leaving \cup {id}
    /\ UNCHANGED <<retained, retired, status, remaining>>

\* ... and ends.
Remove(id) ==
    /\ Targeted(id)
    /\ id \in leaving
    /\ retained' = retained \ {id}
    /\ leaving' = leaving \ {id}
    /\ retired' = retired \cup {id}
    /\ UNCHANGED <<status, remaining>>

\* A target that is gone is settled.
Settle(o, id) ==
    /\ status[o] = "open"
    /\ id \in remaining[o] \ retained
    /\ remaining' = [remaining EXCEPT ![o] = @ \ {id}]
    /\ UNCHANGED <<retained, leaving, retired, status>>

Complete(o) ==
    /\ status[o] = "open"
    /\ remaining[o] = {}
    /\ status' = [status EXCEPT ![o] = "complete"]
    /\ UNCHANGED <<retained, leaving, retired, remaining>>

Abandon(o) ==
    /\ status[o] = "open"
    /\ status' = [status EXCEPT ![o] = "abandoned"]
    /\ remaining' = [remaining EXCEPT ![o] = {}]
    /\ UNCHANGED <<retained, leaving, retired>>

Next ==
    \/ \E id \in JobIds : Retain(id) \/ Leave(id) \/ Remove(id)
    \/ \E o \in Operations :
        \/ Open(o)
        \/ Complete(o)
        \/ Abandon(o)
        \/ \E id \in JobIds : Settle(o, id)

Spec == Init /\ [][Next]_vars
=============================================================================
