---------------------------- MODULE MCPendingJobs ----------------------------
(***************************************************************************)
(* Finite instances of PendingJobs for TLC.                                *)
(***************************************************************************)
EXTENDS PendingJobs, TLC

\* Job 1 may be moved and taken, job 2 either moved or taken, job 3, of a batch, neither.
Forms == [j \in Jobs |-> CASE j = 1 -> 2 [] j = 2 -> 1 [] OTHER -> 0]

\* Callers are interchangeable.
Symmetry == Permutations(Callers)
=============================================================================
