-------------------------- MODULE MCRetainedJobIndex --------------------------
(***************************************************************************)
(* Finite instances of RetainedJobIndex for TLC.                           *)
(***************************************************************************)
EXTENDS RetainedJobIndex, TLC

CONSTANTS p1, p2

\* A maintenance command next to whatever a request may do, and two commands.
OneCommand == [p \in Processes |->
                  IF p = p1 THEN {"warm"} ELSE {"synchronize", "live", "published"}]
Commands == [p \in Processes |-> {"warm"}]
=============================================================================
