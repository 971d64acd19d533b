--------------------------- MODULE MCFailedJobRetry ---------------------------
(***************************************************************************)
(* Finite instances of FailedJobRetry for TLC.  Jobs are a finite pool of  *)
(* UUIDs: a retry is pushed only while one is left.                        *)
(***************************************************************************)
EXTENDS FailedJobRetry, TLC

\* Requests and workers are interchangeable.
Symmetry == Permutations(Processes)
=============================================================================
