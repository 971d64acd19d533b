------------------------- MODULE MCProcessTransitions -------------------------
(***************************************************************************)
(* Finite instances of ProcessTransitions for TLC.                         *)
(***************************************************************************)
EXTENDS ProcessTransitions, TLC

\* One instance with both supervisors.
OneMaster == [s \in Supervisors |-> CHOOSE i \in Instances : TRUE]
=============================================================================
