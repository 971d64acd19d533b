-------------------------- MODULE MCClearFailedJobs --------------------------
(***************************************************************************)
(* Finite instances of ClearFailedJobs for TLC.                            *)
(***************************************************************************)
EXTENDS ClearFailedJobs, TLC

\* The bounds leave every coordinator an operation ID to draw.
ASSUME MaxRequests + MaxRetries <= Cardinality(Operations)
=============================================================================
