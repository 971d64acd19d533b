------------------------ MODULE ClearFailedJobs_proofs ------------------------
(***************************************************************************)
(* Proofs about ClearFailedJobs, for any sets of jobs, operations and      *)
(* workers and any chunk size: the inductive invariant and what follows    *)
(* from it, the totals of completion records, and that the protocol        *)
(* implements PointInTimeOperation.                                        *)
(***************************************************************************)
EXTENDS ClearFailedJobs, FiniteSetTheorems, WellFoundedInduction, TLAPS

\* A page of a sorted set holds members of the set: ZRANGE invents none.
LEMMA FirstOfSubset == \A S, n : FirstOf(S, n) \subseteq S
  BY DEF FirstOf

\* A fresh Redis, with whatever failed jobs both stores retain, is consistent.
LEMMA ClearInit == Init => ClearInvariant
  BY BulkAssumption DEF Init, BulkInit, ClearInvariant, TypeOK, BulkTypeOK, StoreInv,
     OperationInv, WorkerInv, Retained, Payloads, PCs

\* What the invariant gives a worker that is running a job: a known operation.
LEMMA Drawn ==
    ASSUME ClearInvariant
    PROVE  \A w \in Workers : pc[w] \notin {"idle", "capture"} => operation[w] \in Operations
  BY DEF ClearInvariant, WorkerInv, TypeOK, BulkTypeOK

\* Every step keeps the state's types.
LEMMA ClearTypeStep ==
    ASSUME TypeOK, \A w \in Workers : pc[w] \notin {"idle", "capture"} => operation[w] \in Operations, [Next]_vars
    PROVE  TypeOK'
<1> USE DEF TypeOK, BulkTypeOK, Payloads, PCs, Goto, Renew, Current,
        snapshotVars, historyVars, queueVars, workerVars, bulkVars, storeVars
<1>1. ASSUME NEW w \in Workers, Reserve(w)
      PROVE  TypeOK'
  BY <1>1 DEF Reserve, ReserveJob
<1>2. ASSUME NEW w \in Workers, CaptureFailedJobs(w)
      PROVE  TypeOK'
  <2>1. PICK o \in Operations : /\ issued' = issued \cup {o}
                                /\ operation' = [operation EXCEPT ![w] = o]
                                /\ targets' = [targets EXCEPT ![o] = horizonFailed]
                                /\ boundary' = [boundary EXCEPT ![o] = horizonFailed]
    BY <1>2 DEF CaptureFailedJobs, CaptureTargets
  <2>2. pc' = [pc EXCEPT ![w] = "initialize"]
    BY <1>2 DEF CaptureFailedJobs, CaptureTargets
  <2>3. UNCHANGED <<meta, affected, idleTtl, expired, completed, overlapped, reported,
                    bulkQueue, bulkFailed, requests, retries, interruptions,
                    payload, chunk, total, horizonFailed, providerFailed, everFailed>>
    BY <1>2 DEF CaptureFailedJobs, CaptureTargets
  <2> QED
    BY <2>1, <2>2, <2>3
<1>3. ASSUME NEW w \in Workers, DeleteFailed(w)
      PROVE  TypeOK'
  BY <1>3 DEF DeleteFailed
<1>4. ASSUME NEW w \in Workers, Forget(w)
      PROVE  TypeOK'
  BY <1>4 DEF Forget
<1>5. ASSUME NEW w \in Workers, MissingState(w), UNCHANGED storeVars
      PROVE  TypeOK'
  BY <1>5 DEF MissingState, JobFails
<1>6. ASSUME NEW w \in Workers, InitializeMeta(w), UNCHANGED storeVars
      PROVE  TypeOK'
  BY <1>6 DEF InitializeMeta
<1>7. ASSUME NEW w \in Workers, NextChunk(w), UNCHANGED storeVars
      PROVE  TypeOK'
  BY <1>7, FirstOfSubset DEF NextChunk
<1>8. ASSUME NEW w \in Workers, CheckAffected(w), UNCHANGED storeVars
      PROVE  TypeOK'
  BY <1>8 DEF CheckAffected
<1>9. ASSUME NEW w \in Workers, AddAffected(w), UNCHANGED storeVars
      PROVE  TypeOK'
  <2>1. operation[w] \in Operations
    BY <1>9 DEF AddAffected
  <2> QED
    BY <1>9, <2>1 DEF AddAffected
<1>10. ASSUME NEW w \in Workers, Acknowledge(w), UNCHANGED storeVars
      PROVE  TypeOK'
  BY <1>10 DEF Acknowledge
<1>11. ASSUME NEW w \in Workers, HasMore(w), UNCHANGED storeVars
      PROVE  TypeOK'
  BY <1>11 DEF HasMore
<1>12. ASSUME NEW w \in Workers, ReadTotal(w), UNCHANGED storeVars
      PROVE  TypeOK'
  BY <1>12 DEF ReadTotal
<1>13. ASSUME NEW w \in Workers, Cleanup(w), UNCHANGED storeVars
      PROVE  TypeOK'
  BY <1>13 DEF Cleanup
<1>14. ASSUME NEW w \in Workers, ReportCompletion(w), UNCHANGED storeVars
      PROVE  TypeOK'
  <2>1. operation[w] \in Operations
    BY <1>14 DEF ReportCompletion
  <2> QED
    BY <1>14, <2>1 DEF ReportCompletion
<1>15. ASSUME NEW w \in Workers, DispatchContinuation(w), UNCHANGED storeVars
      PROVE  TypeOK'
  BY <1>15 DEF DispatchContinuation
<1>16. ASSUME NEW w \in Workers, DeleteJob(w), UNCHANGED storeVars
      PROVE  TypeOK'
  BY <1>16 DEF DeleteJob
<1>17. ASSUME NEW w \in Workers, Interrupt(w), UNCHANGED storeVars
      PROVE  TypeOK'
  BY <1>17 DEF Interrupt, JobFails
<1>18. ASSUME NEW p \in Payloads, RetryBulkJob(p), UNCHANGED storeVars
      PROVE  TypeOK'
  BY <1>18 DEF RetryBulkJob
<1>19. ASSUME NEW o \in Operations, ExpireSnapshot(o), UNCHANGED storeVars
      PROVE  TypeOK'
  BY <1>19 DEF ExpireSnapshot, Holds
<1>20. ASSUME NEW id \in JobIds, NewFailure(id)
      PROVE  TypeOK'
  BY <1>20 DEF NewFailure
<1>21. CASE DispatchOperation /\ UNCHANGED storeVars
  BY <1>21 DEF DispatchOperation
<1>22. CASE UNCHANGED vars
  BY <1>22 DEF vars
<1> QED
  BY <1>1, <1>2, <1>3, <1>4, <1>5, <1>6, <1>7, <1>8, <1>9, <1>10, <1>11,
     <1>12, <1>13, <1>14, <1>15, <1>16, <1>17, <1>18, <1>19, <1>20, <1>21,
     <1>22
     DEF Next, ProcessChunk, JobStep, BulkEnvironment

\* Every step keeps each operation's keys and history consistent.
LEMMA ClearOperationStep ==
    ASSUME ClearInvariant, [Next]_vars
    PROVE  \A o \in Operations : OperationInv(o)'
<1> USE FirstOfSubset
    DEF ClearInvariant, TypeOK, BulkTypeOK, StoreInv, OperationInv, WorkerInv,
        Retained, Payloads, PCs, Goto, Renew, Current,
        snapshotVars, historyVars, queueVars, workerVars, bulkVars, storeVars
<1>1. ASSUME NEW w \in Workers, Reserve(w)
      PROVE  \A o \in Operations : OperationInv(o)'
  BY <1>1 DEF Reserve, ReserveJob
<1>2. ASSUME NEW w \in Workers, CaptureFailedJobs(w)
      PROVE  \A o \in Operations : OperationInv(o)'
  BY <1>2 DEF CaptureFailedJobs, CaptureTargets
<1>3. ASSUME NEW w \in Workers, DeleteFailed(w)
      PROVE  \A o \in Operations : OperationInv(o)'
  BY <1>3 DEF DeleteFailed
<1>4. ASSUME NEW w \in Workers, Forget(w)
      PROVE  \A o \in Operations : OperationInv(o)'
  BY <1>4 DEF Forget
<1>5. ASSUME NEW w \in Workers, MissingState(w), UNCHANGED storeVars
      PROVE  \A o \in Operations : OperationInv(o)'
  <2> SUFFICES ASSUME NEW o \in Operations
               PROVE  OperationInv(o)'
    OBVIOUS
  <2>1. o \notin issued => bulkQueue'[o] = 0 /\ bulkFailed'[o] = 0
    BY <1>5, BulkAssumption DEF MissingState, JobFails
  <2>2. issued' = issued /\ reported' = reported
    BY <1>5 DEF MissingState, JobFails
  <2> QED
    BY <1>5, <2>1, <2>2 DEF MissingState, JobFails
<1>6. ASSUME NEW w \in Workers, InitializeMeta(w), UNCHANGED storeVars
      PROVE  \A o \in Operations : OperationInv(o)'
  <2> SUFFICES ASSUME NEW o \in Operations
               PROVE  OperationInv(o)'
    OBVIOUS
  <2>1. operation[w] \in issued /\ operation[w] \notin expired
    BY <1>6 DEF InitializeMeta
  <2>2. CASE o = operation[w]
    BY <1>6, <2>1, <2>2 DEF InitializeMeta
  <2>3. CASE o # operation[w]
    BY <1>6, <2>1, <2>3 DEF InitializeMeta
  <2> QED
    BY <2>2, <2>3
<1>7. ASSUME NEW w \in Workers, NextChunk(w), UNCHANGED storeVars
      PROVE  \A o \in Operations : OperationInv(o)'
  BY <1>7 DEF NextChunk
<1>8. ASSUME NEW w \in Workers, CheckAffected(w), UNCHANGED storeVars
      PROVE  \A o \in Operations : OperationInv(o)'
  BY <1>8 DEF CheckAffected
<1>9. ASSUME NEW w \in Workers, AddAffected(w), UNCHANGED storeVars
      PROVE  \A o \in Operations : OperationInv(o)'
  <2> SUFFICES ASSUME NEW o \in Operations
               PROVE  OperationInv(o)'
    OBVIOUS
  <2>1. operation[w] \in issued /\ operation[w] \notin expired
    BY <1>9 DEF AddAffected
  <2>2. CASE o = operation[w]
    BY <1>9, <2>1, <2>2 DEF AddAffected
  <2>3. CASE o # operation[w]
    BY <1>9, <2>1, <2>3 DEF AddAffected
  <2> QED
    BY <2>2, <2>3
<1>10. ASSUME NEW w \in Workers, Acknowledge(w), UNCHANGED storeVars
      PROVE  \A o \in Operations : OperationInv(o)'
  BY <1>10 DEF Acknowledge
<1>11. ASSUME NEW w \in Workers, HasMore(w), UNCHANGED storeVars
      PROVE  \A o \in Operations : OperationInv(o)'
  BY <1>11 DEF HasMore
<1>12. ASSUME NEW w \in Workers, ReadTotal(w), UNCHANGED storeVars
      PROVE  \A o \in Operations : OperationInv(o)'
  BY <1>12 DEF ReadTotal
<1>13. ASSUME NEW w \in Workers, Cleanup(w), UNCHANGED storeVars
      PROVE  \A o \in Operations : OperationInv(o)'
  BY <1>13 DEF Cleanup
<1>14. ASSUME NEW w \in Workers, ReportCompletion(w), UNCHANGED storeVars
      PROVE  \A o \in Operations : OperationInv(o)'
  <2> SUFFICES ASSUME NEW o \in Operations
               PROVE  OperationInv(o)'
    OBVIOUS
  <2>1. operation[w] \in issued /\ operation[w] \notin expired
    BY <1>14 DEF ReportCompletion
  <2>2. CASE o = operation[w]
    BY <1>14, <2>1, <2>2 DEF ReportCompletion
  <2>3. CASE o # operation[w]
    BY <1>14, <2>1, <2>3 DEF ReportCompletion
  <2> QED
    BY <2>2, <2>3
<1>15. ASSUME NEW w \in Workers, DispatchContinuation(w), UNCHANGED storeVars
      PROVE  \A o \in Operations : OperationInv(o)'
  <2> SUFFICES ASSUME NEW o \in Operations
               PROVE  OperationInv(o)'
    OBVIOUS
  <2>0. operation[w] \in issued
    BY <1>15 DEF DispatchContinuation
  <2>1. o \notin issued => bulkQueue'[o] = 0 /\ bulkFailed'[o] = 0
    BY <1>15, <2>0 DEF DispatchContinuation
  <2>2. issued' = issued /\ reported' = reported
    BY <1>15 DEF DispatchContinuation
  <2> QED
    BY <1>15, <2>0, <2>1, <2>2 DEF DispatchContinuation
<1>16. ASSUME NEW w \in Workers, DeleteJob(w), UNCHANGED storeVars
      PROVE  \A o \in Operations : OperationInv(o)'
  BY <1>16 DEF DeleteJob
<1>17. ASSUME NEW w \in Workers, Interrupt(w), UNCHANGED storeVars
      PROVE  \A o \in Operations : OperationInv(o)'
  <2> SUFFICES ASSUME NEW o \in Operations
               PROVE  OperationInv(o)'
    OBVIOUS
  <2>1. o \notin issued => bulkQueue'[o] = 0 /\ bulkFailed'[o] = 0
    BY <1>17, BulkAssumption DEF Interrupt, JobFails
  <2>2. issued' = issued /\ reported' = reported
    BY <1>17 DEF Interrupt, JobFails
  <2> QED
    BY <1>17, <2>1, <2>2 DEF Interrupt, JobFails
<1>18. ASSUME NEW p \in Payloads, RetryBulkJob(p), UNCHANGED storeVars
      PROVE  \A o \in Operations : OperationInv(o)'
  BY <1>18 DEF RetryBulkJob
<1>19. ASSUME NEW o \in Operations, ExpireSnapshot(o), UNCHANGED storeVars
      PROVE  \A u \in Operations : OperationInv(u)'
  BY <1>19 DEF ExpireSnapshot, Holds
<1>20. ASSUME NEW id \in JobIds, NewFailure(id)
      PROVE  \A o \in Operations : OperationInv(o)'
  BY <1>20 DEF NewFailure
<1>21. CASE DispatchOperation /\ UNCHANGED storeVars
  <2> SUFFICES ASSUME NEW o \in Operations
               PROVE  OperationInv(o)'
    OBVIOUS
  <2>1. o \notin issued => bulkQueue'[o] = 0 /\ bulkFailed'[o] = 0
    BY <1>21, BulkAssumption DEF DispatchOperation
  <2>2. issued' = issued /\ reported' = reported
    BY <1>21 DEF DispatchOperation
  <2> QED
    BY <1>21, <2>1, <2>2 DEF DispatchOperation
<1>22. CASE UNCHANGED vars
  BY <1>22 DEF vars
<1> QED
  BY <1>1, <1>2, <1>3, <1>4, <1>5, <1>6, <1>7, <1>8, <1>9, <1>10, <1>11,
     <1>12, <1>13, <1>14, <1>15, <1>16, <1>17, <1>18, <1>19, <1>20, <1>21,
     <1>22
     DEF Next, ProcessChunk, JobStep, BulkEnvironment

\* Every step keeps the workers where the invariant says they are.
LEMMA ClearWorkerStep ==
    ASSUME ClearInvariant, [Next]_vars
    PROVE  \A w \in Workers : WorkerInv(w)'
<1> USE FirstOfSubset
    DEF ClearInvariant, TypeOK, BulkTypeOK, StoreInv, OperationInv, WorkerInv,
        Retained, Payloads, PCs, Goto, Renew, Current,
        snapshotVars, historyVars, queueVars, workerVars, bulkVars, storeVars
<1>1. ASSUME NEW w \in Workers, Reserve(w)
      PROVE  \A v \in Workers : WorkerInv(v)'
  BY <1>1 DEF Reserve, ReserveJob
<1>2. ASSUME NEW w \in Workers, CaptureFailedJobs(w)
      PROVE  \A v \in Workers : WorkerInv(v)'
  BY <1>2 DEF CaptureFailedJobs, CaptureTargets
<1>3. ASSUME NEW w \in Workers, DeleteFailed(w)
      PROVE  \A v \in Workers : WorkerInv(v)'
  BY <1>3 DEF DeleteFailed
<1>4. ASSUME NEW w \in Workers, Forget(w)
      PROVE  \A v \in Workers : WorkerInv(v)'
  BY <1>4 DEF Forget
<1>5. ASSUME NEW w \in Workers, MissingState(w), UNCHANGED storeVars
      PROVE  \A v \in Workers : WorkerInv(v)'
  BY <1>5 DEF MissingState, JobFails
<1>6. ASSUME NEW w \in Workers, InitializeMeta(w), UNCHANGED storeVars
      PROVE  \A v \in Workers : WorkerInv(v)'
  BY <1>6 DEF InitializeMeta
<1>7. ASSUME NEW w \in Workers, NextChunk(w), UNCHANGED storeVars
      PROVE  \A v \in Workers : WorkerInv(v)'
  BY <1>7 DEF NextChunk
<1>8. ASSUME NEW w \in Workers, CheckAffected(w), UNCHANGED storeVars
      PROVE  \A v \in Workers : WorkerInv(v)'
  BY <1>8 DEF CheckAffected
<1>9. ASSUME NEW w \in Workers, AddAffected(w), UNCHANGED storeVars
      PROVE  \A v \in Workers : WorkerInv(v)'
  BY <1>9 DEF AddAffected
<1>10. ASSUME NEW w \in Workers, Acknowledge(w), UNCHANGED storeVars
      PROVE  \A v \in Workers : WorkerInv(v)'
  BY <1>10 DEF Acknowledge
<1>11. ASSUME NEW w \in Workers, HasMore(w), UNCHANGED storeVars
      PROVE  \A v \in Workers : WorkerInv(v)'
  BY <1>11 DEF HasMore
<1>12. ASSUME NEW w \in Workers, ReadTotal(w), UNCHANGED storeVars
      PROVE  \A v \in Workers : WorkerInv(v)'
  BY <1>12 DEF ReadTotal
<1>13. ASSUME NEW w \in Workers, Cleanup(w), UNCHANGED storeVars
      PROVE  \A v \in Workers : WorkerInv(v)'
  BY <1>13 DEF Cleanup
<1>14. ASSUME NEW w \in Workers, ReportCompletion(w), UNCHANGED storeVars
      PROVE  \A v \in Workers : WorkerInv(v)'
  BY <1>14 DEF ReportCompletion
<1>15. ASSUME NEW w \in Workers, DispatchContinuation(w), UNCHANGED storeVars
      PROVE  \A v \in Workers : WorkerInv(v)'
  BY <1>15 DEF DispatchContinuation
<1>16. ASSUME NEW w \in Workers, DeleteJob(w), UNCHANGED storeVars
      PROVE  \A v \in Workers : WorkerInv(v)'
  BY <1>16 DEF DeleteJob
<1>17. ASSUME NEW w \in Workers, Interrupt(w), UNCHANGED storeVars
      PROVE  \A v \in Workers : WorkerInv(v)'
  BY <1>17 DEF Interrupt, JobFails
<1>18. ASSUME NEW p \in Payloads, RetryBulkJob(p), UNCHANGED storeVars
      PROVE  \A v \in Workers : WorkerInv(v)'
  BY <1>18 DEF RetryBulkJob
<1>19. ASSUME NEW o \in Operations, ExpireSnapshot(o), UNCHANGED storeVars
      PROVE  \A v \in Workers : WorkerInv(v)'
  BY <1>19 DEF ExpireSnapshot, Holds
<1>20. ASSUME NEW id \in JobIds, NewFailure(id)
      PROVE  \A v \in Workers : WorkerInv(v)'
  BY <1>20 DEF NewFailure
<1>21. CASE DispatchOperation /\ UNCHANGED storeVars
  BY <1>21 DEF DispatchOperation
<1>22. CASE UNCHANGED vars
  BY <1>22 DEF vars
<1> QED
  BY <1>1, <1>2, <1>3, <1>4, <1>5, <1>6, <1>7, <1>8, <1>9, <1>10, <1>11,
     <1>12, <1>13, <1>14, <1>15, <1>16, <1>17, <1>18, <1>19, <1>20, <1>21,
     <1>22
     DEF Next, ProcessChunk, JobStep, BulkEnvironment

\* Only failures and the two removals touch the stores.
LEMMA ClearStoreStep ==
    ASSUME ClearInvariant, [Next]_vars
    PROVE  StoreInv'
<1> USE DEF ClearInvariant, StoreInv, snapshotVars, historyVars, queueVars, workerVars,
        bulkVars, storeVars, vars
<1>1. ASSUME NEW id \in JobIds, NewFailure(id)
      PROVE  StoreInv'
  BY <1>1 DEF NewFailure
<1>2. ASSUME NEW w \in Workers, DeleteFailed(w)
      PROVE  StoreInv'
  BY <1>2 DEF DeleteFailed
<1>3. ASSUME NEW w \in Workers, Forget(w)
      PROVE  StoreInv'
  <2>1. Current(w) \cap horizonFailed = {}
    BY <1>3 DEF WorkerInv, Forget
  <2> QED
    BY <1>3, <2>1 DEF Forget
<1>4. CASE UNCHANGED storeVars
  BY <1>4
<1> QED
  BY <1>1, <1>2, <1>3, <1>4 DEF Next, Reserve, ProcessChunk, CaptureFailedJobs

\* ClearInvariant is inductive.
LEMMA ClearStep ==
    ASSUME ClearInvariant, [Next]_vars
    PROVE  ClearInvariant'
<1>1. TypeOK'
  BY Drawn, ClearTypeStep DEF ClearInvariant
<1>2. StoreInv'
  BY ClearStoreStep
<1>3. \A o \in Operations : OperationInv(o)'
  BY ClearOperationStep
<1>4. \A w \in Workers : WorkerInv(w)'
  BY ClearWorkerStep
<1> QED
  BY <1>1, <1>2, <1>3, <1>4 DEF ClearInvariant

-----------------------------------------------------------------------------
\* Every reachable state satisfies the inductive invariant.
THEOREM ClearInvariantHolds == Spec => []ClearInvariant
<1>1. Init => ClearInvariant
  BY ClearInit
<1>2. ClearInvariant /\ [Next]_vars => ClearInvariant'
  BY ClearStep
<1> QED
  BY <1>1, <1>2, PTL DEF Spec

\* The state of a clear operation keeps the types the code gives it.
THEOREM TypesHold == Spec => []TypeOK
<1>1. ClearInvariant => TypeOK
  BY DEF ClearInvariant
<1> QED
  BY <1>1, ClearInvariantHolds, PTL

\* processChunk acknowledges a target only after both stores dropped it:
\* nothing that leaves a live snapshot is still retained.
THEOREM AcknowledgedOnlyWhenCleared == Spec => []SettledTargetsAreCleared
<1>1. ClearInvariant => SettledTargetsAreCleared
  BY DEF ClearInvariant, OperationInv, SettledTargetsAreCleared
<1> QED
  BY <1>1, ClearInvariantHolds, PTL

\* A completion record implies that no captured job was skipped.
THEOREM CompletionIsHonest == Spec => []CompletionMeansCleared
<1>1. ClearInvariant => CompletionMeansCleared
  BY DEF ClearInvariant, OperationInv, CompletionMeansCleared
<1> QED
  BY <1>1, ClearInvariantHolds, PTL

\* The operation boundary: bulk workers make only current targets disappear.
THEOREM BoundaryHolds == Spec => OnlyTargetsAreCleared
<1>1. ASSUME ClearInvariant, [Next]_vars
      PROVE  [\A id \in Retained \ Retained' : \E o \in Operations : id \in targets[o]]_vars
  <2> USE <1>1 DEF ClearInvariant, StoreInv, Retained, snapshotVars, historyVars, queueVars,
          workerVars, bulkVars, storeVars, vars
  <2>1. ASSUME NEW w \in Workers, Forget(w)
        PROVE  \A id \in Retained \ Retained' : \E o \in Operations : id \in targets[o]
    <3>1. /\ operation[w] \in Operations \ expired
          /\ Current(w) \subseteq boundary[operation[w]]
      BY <2>1, Drawn, FirstOfSubset DEF Forget, WorkerInv, Current
    <3>2. (boundary[operation[w]] \ targets[operation[w]]) \cap Retained = {}
      BY <3>1 DEF OperationInv
    <3> QED
      BY <2>1, <3>1, <3>2 DEF Forget
  <2>2. ASSUME NEW w \in Workers, DeleteFailed(w)
        PROVE  Retained' = Retained
    BY <2>2 DEF DeleteFailed
  <2>3. ASSUME NEW id \in JobIds, NewFailure(id)
        PROVE  Retained \subseteq Retained'
    BY <2>3 DEF NewFailure
  <2>4. CASE UNCHANGED storeVars
    BY <2>4
  <2> QED
    BY <2>1, <2>2, <2>3, <2>4 DEF Next, Reserve, ProcessChunk, CaptureFailedJobs
<1> QED
  BY <1>1, ClearInvariantHolds, PTL DEF Spec, OnlyTargetsAreCleared

-----------------------------------------------------------------------------
(* Pages of a sorted set.                                                   *)

\* The strict order of scores, as a relation.
Below == {ss \in Nat \X Nat : ss[1] < ss[2]}

\* A nonempty set of scores has a lowest one.
LEMMA LowestExists ==
    ASSUME NEW S \in SUBSET Nat, S # {}
    PROVE  \E x \in S : \A y \in S : x <= y
<1>1. OpToRel(<, Nat) = Below
  BY Zenon DEF OpToRel, Below
<1>2. IsWellFoundedOn(Below, Nat)
  BY <1>1, NatLessThanWellFounded, Zenon
<1>3. PICK x \in S : \A y \in S : ~ (<<y, x>> \in Below)
  BY <1>2, WFMin, Zenon
<1>4. \A y \in S : x <= y
  <2> TAKE y \in S
  <2>1. <<y, x>> \notin Below
    BY <1>3
  <2>2. x \in Nat /\ y \in Nat
    OBVIOUS
  <2> QED
    BY <2>1, <2>2, SMT DEF Below
<1> QED
  BY <1>4

\* What ZRANGE key 0 n-1 returns.
LEMMA FirstOfMember ==
    ASSUME NEW S, NEW n, NEW x
    PROVE  x \in FirstOf(S, n) <=> x \in S /\ Cardinality({y \in S : y < x}) < n
  BY Zenon DEF FirstOf

\* A page of a nonempty sorted set is not empty.
LEMMA FirstOfNonEmpty ==
    ASSUME NEW S \in SUBSET Nat, S # {}, NEW n \in Nat \ {0}
    PROVE  FirstOf(S, n) # {}
<1>1. PICK x \in S : \A y \in S : x <= y
  BY LowestExists, Zenon
<1>2. {y \in S : y < x} = {}
  <2>1. \A y \in S : y \in Nat
    BY Zenon
  <2>2. \A y \in S : ~ (y < x)
    BY <1>1, <2>1
  <2> QED
    BY <2>2, Zenon
<1>3. Cardinality({y \in S : y < x}) = 0
  BY <1>2, FS_EmptySet, Zenon
<1>4. Cardinality({y \in S : y < x}) < n
  BY <1>3
<1>5. x \in FirstOf(S, n)
  BY <1>4, FirstOfMember, Zenon
<1> QED
  BY <1>5, Zenon

\* The head of a sorted set is its lowest member ...
LEMMA FirstOfOne ==
    ASSUME NEW S \in SUBSET Nat, NEW x \in FirstOf(S, 1)
    PROVE  x \in S /\ \A y \in S : x <= y
<1> DEFINE lower == {y \in S : y < x}
<1>1. x \in S /\ Cardinality(lower) < 1
  BY FirstOfMember, Zenon
<1>2. lower \in SUBSET (0 .. x)
  <2>1. \A y \in S : y \in Nat
    BY Zenon
  <2>2. \A y \in S : y < x => y \in 0 .. x
    BY <1>1, <2>1
  <2> QED
    BY <2>2, Zenon
<1>3. IsFiniteSet(lower)
  <2>1. IsFiniteSet(0 .. x)
    BY <1>1, FS_Interval
  <2> QED
    BY <1>2, <2>1, FS_Subset, Zenon
<1>4. Cardinality(lower) \in Nat
  BY <1>3, FS_CardinalityType, Zenon
<1>5. Cardinality(lower) = 0
  <2> HIDE DEF lower
  <2> QED
    BY <1>1, <1>4
<1>6. lower = {}
  BY <1>3, <1>5, FS_EmptySet, Zenon
<1>7. \A y \in S : y \in Nat /\ ~ (y < x)
  BY <1>6, Zenon
<1> QED
  BY <1>1, <1>7

\* ... and no other.
LEMMA FirstOfSingle ==
    ASSUME NEW S \in SUBSET Nat, S # {}
    PROVE  \E x \in S : FirstOf(S, 1) = {x}
<1>1. PICK x : x \in FirstOf(S, 1)
  BY FirstOfNonEmpty
<1>2. \A y \in FirstOf(S, 1) : y = x
  <2> TAKE y \in FirstOf(S, 1)
  <2>1. y \in S /\ x \in S /\ x <= y /\ y <= x
    BY <1>1, FirstOfOne
  <2> QED
    BY <2>1
<1>3. x \in S
  BY <1>1, FirstOfOne
<1> QED
  BY <1>1, <1>2, <1>3, Zenon

\* A worker is at one target at a time.
LEMMA CurrentIsOne ==
    ASSUME TypeOK, NEW w \in Workers, NEW id \in Current(w)
    PROVE  Current(w) = {id}
<1>1. chunk[w] \in SUBSET Nat
  BY BulkAssumption DEF TypeOK, BulkTypeOK
<1>2. chunk[w] # {}
  BY FirstOfSubset DEF Current
<1>3. PICK x \in chunk[w] : Current(w) = {x}
  BY <1>1, <1>2, FirstOfSingle DEF Current
<1> QED
  BY <1>3

-----------------------------------------------------------------------------
(* The refinement of PointInTimeOperation.                                 *)

\* Only capturing, settling, completing and expiring touch what statuses are about.
LEMMA StatusStep ==
    ASSUME ClearInvariant, StatusesHold, [Next]_vars
    PROVE  StatusesHold'
<1> USE DEF ClearInvariant, TypeOK, BulkTypeOK, StatusesHold, StatusInv, Goto, Renew,
        snapshotVars, historyVars, queueVars, workerVars, bulkVars, storeVars, vars
<1>1. ASSUME NEW w \in Workers, CaptureFailedJobs(w)
      PROVE  StatusesHold'
  <2>1. PICK o \in Operations \ issued :
            issued' = issued \cup {o} /\ targets' = [targets EXCEPT ![o] = horizonFailed]
    BY <1>1 DEF CaptureFailedJobs, CaptureTargets
  <2>2. o \notin expired /\ o \notin completed
    BY <2>1 DEF OperationInv
  <2>3. UNCHANGED <<expired, completed>>
    BY <1>1 DEF CaptureFailedJobs, CaptureTargets
  <2> SUFFICES ASSUME NEW u \in Operations
               PROVE  StatusInv(u)'
    OBVIOUS
  <2>4. CASE u = o
    BY <2>1, <2>2, <2>3, <2>4
  <2>5. CASE u # o
    <3>1. targets'[u] = targets[u] /\ (u \in issued' <=> u \in issued)
      BY <2>1, <2>5
    <3> QED
      BY <2>3, <3>1
  <2> QED
    BY <2>4, <2>5
<1>2. ASSUME NEW w \in Workers, Acknowledge(w)
      PROVE  StatusesHold'
  BY <1>2 DEF Acknowledge
<1>3. ASSUME NEW w \in Workers, Cleanup(w)
      PROVE  StatusesHold'
  <2>1. operation[w] \in issued
    BY <1>3 DEF Cleanup, WorkerInv
  <2> QED
    BY <1>3, <2>1 DEF Cleanup
<1>4. ASSUME NEW o \in Operations, ExpireSnapshot(o)
      PROVE  StatusesHold'
  BY <1>4 DEF ExpireSnapshot
<1>5. CASE UNCHANGED <<targets, issued, expired, completed>>
  BY <1>5
<1> QED
  BY <1>1, <1>2, <1>3, <1>4, <1>5
     DEF Next, Reserve, ReserveJob, ProcessChunk, DeleteFailed, Forget, JobStep, BulkEnvironment,
         MissingState, Interrupt, JobFails, InitializeMeta, NextChunk, CheckAffected, AddAffected,
         HasMore, ReadTotal, ReportCompletion, DispatchContinuation, DeleteJob, DispatchOperation,
         RetryBulkJob, NewFailure

\* A step that leaves the stores, the targets and the histories is invisible.
LEMMA PromiseStutter ==
    ASSUME UNCHANGED <<storeVars, targets, issued, expired, completed>>
    PROVE  UNCHANGED Promise!vars
  BY DEF Promise!vars, storeVars, Retained, Status

\* A fresh Redis promises nothing yet.
LEMMA PromiseInit == Init => Promise!Init
  BY DEF Init, BulkInit, Promise!Init, Retained, Status

\* Every step of the protocol is one of the promise's, or none.
LEMMA PromiseStep ==
    ASSUME ClearInvariant, StatusesHold, [Next]_vars
    PROVE  [Promise!Next]_Promise!vars
<1> USE DEF ClearInvariant, TypeOK, BulkTypeOK, StoreInv, StatusesHold, Goto, Renew,
        snapshotVars, historyVars, queueVars, workerVars, bulkVars, storeVars, vars
<1>1. ASSUME NEW w \in Workers, CaptureFailedJobs(w)
      PROVE  \E o \in Operations : Promise!Open(o)
  <2>1. PICK o \in Operations \ issued :
            issued' = issued \cup {o} /\ targets' = [targets EXCEPT ![o] = horizonFailed]
    BY <1>1 DEF CaptureFailedJobs, CaptureTargets
  <2>2. UNCHANGED <<storeVars, expired, completed>>
    BY <1>1 DEF CaptureFailedJobs, CaptureTargets
  <2>3. o \notin expired /\ o \notin completed
    BY <2>1 DEF OperationInv, StatusInv
  <2>4. Retained \ (providerFailed \ horizonFailed) = horizonFailed
    BY DEF Retained
  <2>5. [u \in Operations |-> Status(u)'] = [[u \in Operations |-> Status(u)] EXCEPT ![o] = "open"]
    BY <2>1, <2>2, <2>3 DEF Status
  <2>6. Status(o) = "none"
    BY <2>1, <2>3 DEF Status
  <2> QED
    BY <2>1, <2>2, <2>4, <2>5, <2>6 DEF Promise!Open, Retained
<1>2. ASSUME NEW w \in Workers, DeleteFailed(w)
      PROVE  Promise!Next \/ UNCHANGED Promise!vars
  <2>1. UNCHANGED <<providerFailed, everFailed, targets, issued, expired, completed>>
    BY <1>2 DEF DeleteFailed
  <2>2. CASE Current(w) \cap horizonFailed = {}
    <3>1. horizonFailed' = horizonFailed
      BY <1>2, <2>2 DEF DeleteFailed
    <3> QED
      BY <2>1, <3>1, PromiseStutter
  <2>3. CASE Current(w) \cap horizonFailed # {}
    <3>1. PICK id \in JobIds : id \in Current(w) /\ id \in horizonFailed
      BY <2>3
    <3>2. horizonFailed' = horizonFailed \ {id}
      BY <1>2, <3>1, CurrentIsOne DEF DeleteFailed
    <3>3. Promise!Targeted(id)
      <4>1. operation[w] \in Operations /\ operation[w] \in issued /\ operation[w] \notin expired
        BY <1>2, Drawn DEF DeleteFailed, WorkerInv
      <4>2. id \in boundary[operation[w]]
        BY <1>2, <3>1, FirstOfSubset DEF DeleteFailed, WorkerInv, Current
      <4>3. id \in targets[operation[w]]
        BY <3>1, <4>1, <4>2 DEF OperationInv, Retained
      <4>4. operation[w] \notin completed
        BY <4>1, <4>3 DEF StatusInv
      <4> QED
        BY <4>1, <4>3, <4>4 DEF Promise!Targeted, Status
    <3>4. Promise!Leave(id)
      BY <2>1, <3>1, <3>2, <3>3 DEF Promise!Leave, Retained, Status
    <3> QED
      BY <3>4 DEF Promise!Next
  <2> QED
    BY <2>2, <2>3
<1>3. ASSUME NEW w \in Workers, Forget(w)
      PROVE  Promise!Next \/ UNCHANGED Promise!vars
  <2>1. UNCHANGED <<horizonFailed, everFailed, targets, issued, expired, completed>>
    BY <1>3 DEF Forget
  <2>2. CASE Current(w) \cap providerFailed = {}
    <3>1. providerFailed' = providerFailed
      BY <1>3, <2>2 DEF Forget
    <3> QED
      BY <2>1, <3>1, PromiseStutter
  <2>3. CASE Current(w) \cap providerFailed # {}
    <3>1. PICK id \in JobIds : id \in Current(w) /\ id \in providerFailed
      BY <2>3
    <3>2. id \notin horizonFailed
      BY <1>3, <3>1 DEF Forget, WorkerInv
    <3>3. providerFailed' = providerFailed \ {id}
      BY <1>3, <3>1, CurrentIsOne DEF Forget
    <3>4. Promise!Targeted(id)
      <4>1. operation[w] \in Operations /\ operation[w] \in issued /\ operation[w] \notin expired
        BY <1>3, Drawn DEF Forget, WorkerInv
      <4>2. id \in boundary[operation[w]]
        BY <1>3, <3>1, FirstOfSubset DEF Forget, WorkerInv, Current
      <4>3. id \in targets[operation[w]]
        BY <3>1, <4>1, <4>2 DEF OperationInv, Retained
      <4>4. operation[w] \notin completed
        BY <4>1, <4>3 DEF StatusInv
      <4> QED
        BY <4>1, <4>3, <4>4 DEF Promise!Targeted, Status
    <3>5. Promise!Remove(id)
      BY <2>1, <3>1, <3>2, <3>3, <3>4 DEF Promise!Remove, Retained, Status
    <3> QED
      BY <3>5 DEF Promise!Next
  <2> QED
    BY <2>2, <2>3
<1>4. ASSUME NEW w \in Workers, Acknowledge(w), UNCHANGED storeVars
      PROVE  Promise!Next \/ UNCHANGED Promise!vars
  <2> DEFINE o == operation[w]
  <2>1. UNCHANGED <<storeVars, issued, expired, completed>>
    BY <1>4 DEF Acknowledge
  <2>2. o \in Operations /\ o \in issued /\ o \notin expired
    BY <1>4, Drawn DEF Acknowledge, WorkerInv
  <2>3. CASE Current(w) \cap targets[o] = {}
    <3>1. targets' = targets
      BY <1>4, <2>2, <2>3 DEF Acknowledge
    <3> QED
      BY <2>1, <3>1, PromiseStutter
  <2>4. CASE Current(w) \cap targets[o] # {}
    <3>1. PICK id \in JobIds : id \in Current(w) /\ id \in targets[o]
      BY <2>2, <2>4
    <3>2. targets' = [targets EXCEPT ![o] = @ \ {id}]
      BY <1>4, <3>1, CurrentIsOne DEF Acknowledge
    <3>3. id \notin Retained
      BY <1>4, <3>1 DEF Acknowledge, WorkerInv
    <3>4. Status(o) = "open"
      BY <2>2, <3>1 DEF StatusInv, Status
    <3>5. Promise!Settle(o, id)
      BY <2>1, <2>2, <3>1, <3>2, <3>3, <3>4 DEF Promise!Settle, Retained, Status
    <3> QED
      BY <2>2, <3>5 DEF Promise!Next
  <2> QED
    BY <2>3, <2>4
<1>5. ASSUME NEW w \in Workers, Cleanup(w), UNCHANGED storeVars
      PROVE  Promise!Next \/ UNCHANGED Promise!vars
  <2> DEFINE o == operation[w]
  <2>1. UNCHANGED <<storeVars, issued, expired>> /\ completed' = completed \cup {o}
    BY <1>5 DEF Cleanup
  <2>2. o \in Operations /\ o \in issued /\ o \notin expired /\ targets[o] = {}
    BY <1>5, Drawn DEF Cleanup, WorkerInv
  <2>3. targets' = targets
    BY <1>5, <2>2 DEF Cleanup
  <2>4. CASE o \in completed
    <3>1. completed' = completed
      BY <2>1, <2>4
    <3> QED
      BY <2>1, <2>3, <3>1, PromiseStutter
  <2>5. CASE o \notin completed
    <3>1. [u \in Operations |-> Status(u)'] = [[u \in Operations |-> Status(u)] EXCEPT ![o] = "complete"]
      BY <2>1, <2>2 DEF Status
    <3>2. Status(o) = "open"
      BY <2>2, <2>5 DEF Status
    <3>3. Promise!Complete(o)
      BY <2>1, <2>2, <2>3, <3>1, <3>2 DEF Promise!Complete, Retained
    <3> QED
      BY <2>2, <3>3 DEF Promise!Next
  <2> QED
    BY <2>4, <2>5
<1>6. ASSUME NEW o \in Operations, ExpireSnapshot(o), UNCHANGED storeVars
      PROVE  Promise!Next \/ UNCHANGED Promise!vars
  <2>1. /\ UNCHANGED <<storeVars, issued, completed>>
        /\ expired' = expired \cup {o}
        /\ targets' = [targets EXCEPT ![o] = {}]
    BY <1>6 DEF ExpireSnapshot
  <2>2. o \in issued
    BY <1>6 DEF ExpireSnapshot, OperationInv
  <2>3. CASE o \in completed \cup expired
    <3>1. targets' = targets
      BY <2>1, <2>3 DEF StatusInv
    <3>2. \A u \in Operations : Status(u)' = Status(u)
      BY <2>1, <2>3 DEF Status
    <3> QED
      BY <2>1, <3>1, <3>2 DEF Promise!vars, Retained
  <2>4. CASE o \notin completed \cup expired
    <3>1. [u \in Operations |-> Status(u)'] = [[u \in Operations |-> Status(u)] EXCEPT ![o] = "abandoned"]
      BY <2>1, <2>2, <2>4 DEF Status
    <3>2. Status(o) = "open"
      BY <2>2, <2>4 DEF Status
    <3>3. Promise!Abandon(o)
      BY <2>1, <3>1, <3>2 DEF Promise!Abandon, Retained
    <3> QED
      BY <3>3 DEF Promise!Next
  <2> QED
    BY <2>3, <2>4
<1>7. ASSUME NEW id \in JobIds, NewFailure(id)
      PROVE  Promise!Retain(id)
  <2>1. UNCHANGED <<targets, issued, expired, completed>> /\ id \notin everFailed
    BY <1>7 DEF NewFailure
  <2> QED
    BY <1>7, <2>1 DEF NewFailure, Promise!Retain, Retained, Status
<1>8. CASE UNCHANGED <<storeVars, targets, issued, expired, completed>>
  BY <1>8, PromiseStutter
<1> QED
  BY <1>1, <1>2, <1>3, <1>4, <1>5, <1>6, <1>7, <1>8
     DEF Next, Reserve, ReserveJob, ProcessChunk, JobStep, BulkEnvironment, Promise!Next,
         MissingState, Interrupt, JobFails, InitializeMeta, NextChunk, CheckAffected, AddAffected,
         HasMore, ReadTotal, ReportCompletion, DispatchContinuation, DeleteJob, DispatchOperation,
         RetryBulkJob

\* createFromSortedSet fixes an operation's targets at one instant; whatever the
\* chunks, continuations, crashes, retries and overlapping jobs then do, the
\* stores, the snapshots and the completions change as PointInTimeOperation says.
THEOREM ImplementsPromise == Spec => ImplementsPointInTimeOperation
<1>1. Init => ClearInvariant /\ StatusesHold /\ Promise!Init
  BY ClearInit, PromiseInit DEF Init, BulkInit, StatusesHold, StatusInv
<1>2. ClearInvariant /\ StatusesHold /\ [Next]_vars => StatusesHold' /\ [Promise!Next]_Promise!vars
  BY StatusStep, PromiseStep
<1> QED
  BY <1>1, <1>2, ClearInvariantHolds, PTL DEF Spec, ImplementsPointInTimeOperation, Promise!Spec

-----------------------------------------------------------------------------
(* Totals.                                                                 *)

\* Subsets of a finite source can be counted.
LEMMA SourceCounts ==
    \A S \in SUBSET JobIds : IsFiniteSet(S) /\ Cardinality(S) \in Nat
  BY FiniteJobIds, FS_Subset, FS_CardinalityType

\* How the counter moves with the targets.
LEMMA CountArithmetic ==
    ASSUME NEW a \in Nat, NEW t \in Nat, NEW b \in Nat, NEW n \in Nat
    PROVE  /\ a + t - (b + 0) \in 0 .. n => (a + 1) + t - (b + 1) \in 0 .. n
           /\ a + t - (b + 1) \in 0 .. n => a + (t - 1) - (b + 0) \in 0 .. n
           /\ a + t - (b + 0) \in 0 .. n /\ t = 0 => a - b \in 0 .. n
           /\ a + t - (b + 1) \in 0 .. n => a + t - (b + 0) \in 0 .. (n + 1)
           /\ a + t - (b + 0) \in 0 .. n => a + t - (b + 0) \in 0 .. (n + 1)
           /\ 0 + b - (b + 0) \in 0 .. n
  OBVIOUS

\* What a step leaves of an operation's record ...
SameRecord(o) ==
    /\ meta'[o] = meta[o] /\ affected'[o] = affected[o] /\ targets'[o] = targets[o]
    /\ boundary'[o] = boundary[o] /\ reported'[o] = reported[o]
    /\ interruptions \in Nat /\ interruptions' \in Nat /\ interruptions <= interruptions'

\* ... and of the workers other than the one that takes it.
OthersStay(v) ==
    \A w \in Workers \ {v} : /\ pc'[w] = pc[w] /\ operation'[w] = operation[w]
                             /\ chunk'[w] = chunk[w] /\ total'[w] = total[w]

\* A worker's step moves that worker only ...
LEMMA OneWorkerMoves ==
    ASSUME TypeOK, NEW v \in Workers, Reserve(v) \/ ProcessChunk(v) \/ Interrupt(v)
    PROVE  OthersStay(v)
<1> USE DEF OthersStay, TypeOK, BulkTypeOK, Goto, Renew,
        snapshotVars, historyVars, queueVars, workerVars, bulkVars, storeVars
<1>1. CASE Reserve(v)
  BY <1>1 DEF Reserve, ReserveJob
<1>2. CASE Interrupt(v) \/ MissingState(v)
  BY <1>2 DEF Interrupt, MissingState, JobFails
<1>3. CASE CaptureFailedJobs(v) \/ DeleteFailed(v) \/ Forget(v) \/ DeleteJob(v)
  BY <1>3 DEF CaptureFailedJobs, CaptureTargets, DeleteFailed, Forget, DeleteJob
<1>4. CASE InitializeMeta(v) \/ NextChunk(v) \/ CheckAffected(v) \/ AddAffected(v) \/ Acknowledge(v)
  BY <1>4 DEF InitializeMeta, NextChunk, CheckAffected, AddAffected, Acknowledge
<1>5. CASE HasMore(v) \/ ReadTotal(v) \/ Cleanup(v) \/ ReportCompletion(v) \/ DispatchContinuation(v)
  BY <1>5 DEF HasMore, ReadTotal, Cleanup, ReportCompletion, DispatchContinuation
<1> QED
  BY <1>1, <1>2, <1>3, <1>4, <1>5 DEF ProcessChunk, JobStep

\* ... and, the capture apart, no operation but the one it runs.
LEMMA OneOperationMoves ==
    ASSUME TypeOK, NEW v \in Workers, NEW o \in Operations, operation[v] # o,
           ProcessChunk(v) \/ Interrupt(v), ~ CaptureFailedJobs(v)
    PROVE  SameRecord(o) /\ (operation'[v] # o \/ pc'[v] = "idle")
<1> USE DEF TypeOK, BulkTypeOK, Goto, Renew,
        snapshotVars, historyVars, queueVars, workerVars, bulkVars, storeVars
<1>0. interruptions \in Nat /\ interruptions + 1 \in Nat /\ interruptions <= interruptions + 1
      /\ interruptions <= interruptions
  OBVIOUS
<1>1. CASE Interrupt(v)
  <2>1. UNCHANGED <<meta, affected, targets, boundary, reported>> /\ interruptions' = interruptions + 1 /\ pc'[v] = "idle"
    BY <1>1 DEF Interrupt, JobFails
  <2> QED
    BY <1>0, <2>1 DEF SameRecord
<1>2. CASE MissingState(v) \/ DeleteJob(v)
  <2>1. UNCHANGED <<meta, affected, targets, boundary, reported, interruptions>> /\ pc'[v] = "idle"
    BY <1>2 DEF MissingState, JobFails, DeleteJob
  <2> QED
    BY <1>0, <2>1 DEF SameRecord
<1>3. CASE DeleteFailed(v) \/ Forget(v) \/ NextChunk(v) \/ CheckAffected(v) \/ HasMore(v) \/ ReadTotal(v)
           \/ DispatchContinuation(v)
  <2>1. UNCHANGED <<meta, affected, targets, boundary, reported, interruptions, operation>>
    BY <1>3 DEF DeleteFailed, Forget, NextChunk, CheckAffected, HasMore, ReadTotal, DispatchContinuation
  <2> QED
    BY <1>0, <2>1 DEF SameRecord
<1>4. CASE InitializeMeta(v) \/ AddAffected(v) \/ Acknowledge(v) \/ Cleanup(v) \/ ReportCompletion(v)
  <2>1. UNCHANGED <<boundary, interruptions, operation>>
    BY <1>4 DEF InitializeMeta, AddAffected, Acknowledge, Cleanup, ReportCompletion
  <2>2. meta'[o] = meta[o] /\ affected'[o] = affected[o]
    BY <1>4 DEF InitializeMeta, AddAffected, Acknowledge, Cleanup, ReportCompletion
  <2>3. targets'[o] = targets[o] /\ reported'[o] = reported[o]
    BY <1>4 DEF InitializeMeta, AddAffected, Acknowledge, Cleanup, ReportCompletion
  <2> QED
    BY <1>0, <2>1, <2>2, <2>3 DEF SameRecord
<1> QED
  BY <1>1, <1>2, <1>3, <1>4 DEF ProcessChunk, JobStep

\* A step that leaves an operation's record and its jobs alone, or at most
\* ends a job outside the acknowledgement, keeps its totals.
LEMMA TotalsFrame ==
    ASSUME NEW o \in Operations, TotalsInv(o),
           meta'[o] = meta[o], affected'[o] = affected[o], targets'[o] = targets[o],
           boundary'[o] = boundary[o], reported'[o] = reported[o],
           interruptions \in Nat, interruptions' \in Nat, interruptions <= interruptions',
           \A w \in Workers : Processing(w, o)' =>
               Processing(w, o) /\ pc'[w] = pc[w] /\ chunk'[w] = chunk[w] /\ total'[w] = total[w],
           \A w \in Workers : Processing(w, o) /\ pc[w] = "acknowledge" => Processing(w, o)'
    PROVE  TotalsInv(o)'
<1>1. \A n : n \in 0 .. interruptions => n \in 0 .. interruptions'
  OBVIOUS
<1>2. Counted(o)' = Counted(o)
  BY DEF Counted, Processing, Holds
<1>3. CountInv(o)'
  BY <1>1, <1>2 DEF TotalsInv, CountInv
<1>4. RecordInv(o)'
  BY <1>1 DEF TotalsInv, RecordInv
<1>5. ASSUME NEW w \in Workers, Processing(w, o)'
      PROVE  SoleJobInv(w, o)'
  BY <1>1, <1>5 DEF TotalsInv, SoleJobInv
<1> QED
  BY <1>3, <1>4, <1>5 DEF TotalsInv

\* Another operation's job leaves the totals of o true.
LEMMA StepOfAnother ==
    ASSUME TypeOK, TypeOK', NEW o \in Operations, TotalsInv(o), SameRecord(o),
           NEW v \in Workers, OthersStay(v), ~ Processing(v, o), ~ Processing(v, o)'
    PROVE  TotalsInv(o)'
<1>1. \A w \in Workers : Processing(w, o)' =>
         Processing(w, o) /\ pc'[w] = pc[w] /\ chunk'[w] = chunk[w] /\ total'[w] = total[w]
  BY DEF OthersStay, Processing, Holds
<1>2. \A w \in Workers : Processing(w, o) /\ pc[w] = "acknowledge" => Processing(w, o)'
  BY DEF OthersStay, Processing, Holds
<1> QED
  BY <1>1, <1>2, TotalsFrame DEF SameRecord

\* A step that moves no worker leaves them true.
LEMMA StepOfNobody ==
    ASSUME TypeOK, TypeOK', NEW o \in Operations, TotalsInv(o), SameRecord(o), UNCHANGED workerVars
    PROVE  TotalsInv(o)'
<1>1. \A w \in Workers : Processing(w, o)' =>
         Processing(w, o) /\ pc'[w] = pc[w] /\ chunk'[w] = chunk[w] /\ total'[w] = total[w]
  BY DEF workerVars, Processing, Holds
<1>2. \A w \in Workers : Processing(w, o) /\ pc[w] = "acknowledge" => Processing(w, o)'
  BY DEF workerVars, Processing, Holds
<1> QED
  BY <1>1, <1>2, TotalsFrame DEF SameRecord

\* A job that runs its operation alone still does after its own step, and its
\* place alone tells whether a target is counted and not yet acknowledged.
LEMMA SoleStep ==
    ASSUME NEW o, NEW v \in Workers, Processing(v, o), TotalsInv(o), OthersStay(v),
           operation'[v] = o \/ pc'[v] = "idle"
    PROVE  /\ SoleJobInv(v, o)
           /\ \A w \in Workers : Processing(w, o)' => w = v
           /\ Counted(o) = IF pc[v] = "acknowledge" THEN 1 ELSE 0
           /\ Counted(o)' = IF pc'[v] = "acknowledge" THEN 1 ELSE 0
<1>1. SoleJobInv(v, o) /\ \A w \in Workers : Processing(w, o) => w = v
  BY DEF TotalsInv, SoleJobInv
<1>2. \A w \in Workers : Processing(w, o)' => w = v
  BY <1>1 DEF Processing, Holds, OthersStay
<1>3. \A w \in Workers : Holds(w, o) /\ pc[w] = "acknowledge" => w = v
  BY <1>1 DEF Processing
<1>4. \A w \in Workers : (Holds(w, o) /\ pc[w] = "acknowledge")' => w = v
  BY <1>2 DEF Processing
<1>5. Counted(o) = IF pc[v] = "acknowledge" THEN 1 ELSE 0
  BY <1>3 DEF Counted, Processing
<1>6. Counted(o)' = IF pc'[v] = "acknowledge" THEN 1 ELSE 0
  BY <1>4 DEF Counted, Holds
<1> QED
  BY <1>1, <1>2, <1>5, <1>6

\* An operation whose jobs have run one after another so far is in the invariant.
LEMMA TotalsSoFar ==
    ASSUME ClearInvariant, TotalsInvariant, [Next]_vars, NEW o \in Operations \ overlapped'
    PROVE  /\ TypeOK /\ OperationInv(o) /\ TotalsInv(o)
           /\ interruptions \in Nat /\ affected[o] \in Nat
           /\ Cardinality(targets[o]) \in Nat /\ Cardinality(boundary[o]) \in Nat
<1>1. overlapped \subseteq overlapped'
  BY DEF Next, Reserve, ReserveJob, ProcessChunk, CaptureFailedJobs, CaptureTargets, DeleteFailed,
         Forget, JobStep, MissingState, Interrupt, JobFails, InitializeMeta, NextChunk, CheckAffected,
         AddAffected, Acknowledge, Cleanup, HasMore, ReadTotal, ReportCompletion,
         DispatchContinuation, DeleteJob, BulkEnvironment, DispatchOperation, ExpireSnapshot, RetryBulkJob,
         NewFailure, historyVars, bulkVars, vars
<1> QED
  BY <1>1, SourceCounts DEF TotalsInvariant, ClearInvariant, TypeOK, BulkTypeOK

\* The job that runs an operation alone keeps its totals right.
LEMMA TotalsOwnStep ==
    ASSUME ClearInvariant, TotalsInvariant, [Next]_vars, TypeOK', NEW o \in Operations \ overlapped',
           NEW v \in Workers, operation[v] = o, pc[v] \notin {"capture", "idle", "delete"},
           ProcessChunk(v) \/ Interrupt(v)
    PROVE  TotalsInv(o)'
<1>a. /\ TypeOK /\ OperationInv(o) /\ TotalsInv(o)
      /\ interruptions \in Nat /\ affected[o] \in Nat
      /\ Cardinality(targets[o]) \in Nat /\ Cardinality(boundary[o]) \in Nat
  BY TotalsSoFar
<1> USE <1>a DEF TypeOK, BulkTypeOK, Goto, Renew,
        snapshotVars, historyVars, queueVars, workerVars, bulkVars, storeVars
<1>0. Processing(v, o) /\ OthersStay(v)
  BY OneWorkerMoves DEF Processing, Holds
<1>s. ASSUME operation'[v] = o \/ pc'[v] = "idle"
      PROVE  /\ SoleJobInv(v, o)
             /\ \A w \in Workers : Processing(w, o)' => w = v
             /\ Counted(o) = IF pc[v] = "acknowledge" THEN 1 ELSE 0
             /\ Counted(o)' = IF pc'[v] = "acknowledge" THEN 1 ELSE 0
  BY <1>0, <1>s, SoleStep
<1>1. CASE DeleteFailed(v)
  <2>1. /\ pc[v] = "mutate" /\ pc'[v] = "forget"
        /\ UNCHANGED <<meta, affected, targets, boundary, reported, interruptions, chunk, operation>>
    BY <1>1 DEF DeleteFailed
  <2>2. /\ SoleJobInv(v, o)
        /\ \A w \in Workers : Processing(w, o)' => w = v
        /\ Counted(o) = IF pc[v] = "acknowledge" THEN 1 ELSE 0
        /\ Counted(o)' = IF pc'[v] = "acknowledge" THEN 1 ELSE 0
    BY <2>1, <1>s
  <2>3. CountInv(o)'
    BY <2>1, <2>2 DEF TotalsInv, CountInv, SoleJobInv, InChunk
  <2>4. RecordInv(o)'
    BY <2>1, <2>2 DEF TotalsInv, RecordInv, SoleJobInv
  <2>5. Processing(v, o)' => SoleJobInv(v, o)'
    BY <2>1, <2>2 DEF TotalsInv, RecordInv, SoleJobInv, InChunk, Processing, Holds
  <2> QED
    BY <2>2, <2>3, <2>4, <2>5 DEF TotalsInv
<1>2. CASE Forget(v)
  <2>1. /\ pc[v] = "forget" /\ pc'[v] = "count"
        /\ UNCHANGED <<meta, affected, targets, boundary, reported, interruptions, chunk, operation>>
    BY <1>2 DEF Forget
  <2>2. /\ SoleJobInv(v, o)
        /\ \A w \in Workers : Processing(w, o)' => w = v
        /\ Counted(o) = IF pc[v] = "acknowledge" THEN 1 ELSE 0
        /\ Counted(o)' = IF pc'[v] = "acknowledge" THEN 1 ELSE 0
    BY <2>1, <1>s
  <2>3. CountInv(o)'
    BY <2>1, <2>2 DEF TotalsInv, CountInv, SoleJobInv, InChunk
  <2>4. RecordInv(o)'
    BY <2>1, <2>2 DEF TotalsInv, RecordInv, SoleJobInv
  <2>5. Processing(v, o)' => SoleJobInv(v, o)'
    BY <2>1, <2>2 DEF TotalsInv, RecordInv, SoleJobInv, InChunk, Processing, Holds
  <2> QED
    BY <2>2, <2>3, <2>4, <2>5 DEF TotalsInv
<1>3. CASE MissingState(v)
  <2>1. /\ pc'[v] = "idle" /\ ~ meta'[o]
        /\ UNCHANGED <<meta, affected, targets, boundary, reported, interruptions>>
    BY <1>3 DEF MissingState, JobFails
  <2>2. /\ SoleJobInv(v, o)
        /\ \A w \in Workers : Processing(w, o)' => w = v
        /\ Counted(o) = IF pc[v] = "acknowledge" THEN 1 ELSE 0
        /\ Counted(o)' = IF pc'[v] = "acknowledge" THEN 1 ELSE 0
    BY <2>1, <1>s
  <2>3. RecordInv(o)'
    BY <2>1 DEF TotalsInv, RecordInv
  <2>4. ~ Processing(v, o)' /\ CountInv(o)'
    BY <2>1 DEF Processing, Holds, CountInv
  <2> QED
    BY <2>2, <2>3, <2>4 DEF TotalsInv
<1>4. CASE InitializeMeta(v)
  <2>1. /\ pc[v] = "initialize" /\ pc'[v] = "peek"
        /\ meta'[o] /\ affected'[o] = 0
        /\ UNCHANGED <<targets, boundary, reported, interruptions, operation>>
    BY <1>4 DEF InitializeMeta
  <2>2. /\ SoleJobInv(v, o)
        /\ \A w \in Workers : Processing(w, o)' => w = v
        /\ Counted(o) = IF pc[v] = "acknowledge" THEN 1 ELSE 0
        /\ Counted(o)' = IF pc'[v] = "acknowledge" THEN 1 ELSE 0
    BY <2>1, <1>s
  <2>3. CountInv(o)'
    <3>1. targets'[o] = boundary[o] /\ boundary'[o] = boundary[o]
      BY <2>1, <2>2 DEF SoleJobInv
    <3>2. Counted(o)' = 0
      BY <2>1, <2>2
    <3>3. 0 + Cardinality(boundary[o]) - (Cardinality(boundary[o]) + 0) \in 0 .. interruptions
      BY CountArithmetic
    <3> QED
      BY <2>1, <3>1, <3>2, <3>3 DEF CountInv
  <2>4. RecordInv(o)'
    BY <2>1, <2>2 DEF TotalsInv, RecordInv, SoleJobInv
  <2>5. Processing(v, o)' => SoleJobInv(v, o)'
    BY <2>1, <2>2 DEF TotalsInv, RecordInv, SoleJobInv, InChunk, Processing, Holds
  <2> QED
    BY <2>2, <2>3, <2>4, <2>5 DEF TotalsInv
<1>5. CASE NextChunk(v)
  <2>1. /\ pc[v] = "peek" /\ meta[o] /\ pc'[v] = IF targets[o] = {} THEN "total" ELSE "mutate"
        /\ chunk'[v] = FirstOf(targets[o], ChunkSize)
        /\ UNCHANGED <<meta, affected, targets, boundary, reported, interruptions, operation>>
    BY <1>5 DEF NextChunk
  <2>2. /\ SoleJobInv(v, o)
        /\ \A w \in Workers : Processing(w, o)' => w = v
        /\ Counted(o) = IF pc[v] = "acknowledge" THEN 1 ELSE 0
        /\ Counted(o)' = IF pc'[v] = "acknowledge" THEN 1 ELSE 0
    BY <2>1, <1>s
  <2>3. CountInv(o)' /\ RecordInv(o)'
    BY <2>1, <2>2 DEF TotalsInv, CountInv, RecordInv
  <2>4. chunk'[v] \subseteq targets[o] /\ (targets[o] # {} => chunk'[v] # {})
    <3>1. targets[o] \in SUBSET Nat
      BY BulkAssumption
    <3>2. targets[o] # {} => FirstOf(targets[o], ChunkSize) # {}
      BY <3>1, BulkAssumption, FirstOfNonEmpty
    <3>3. FirstOf(targets[o], ChunkSize) \subseteq targets[o]
      BY FirstOfSubset
    <3> QED
      BY <2>1, <3>2, <3>3
  <2>5. SoleJobInv(v, o)'
    BY <2>1, <2>2, <2>4 DEF SoleJobInv, InChunk
  <2> QED
    BY <2>2, <2>3, <2>5 DEF TotalsInv
<1>6. CASE CheckAffected(v)
  <2>1. /\ pc[v] = "count" /\ pc'[v] = "increment"
        /\ UNCHANGED <<meta, affected, targets, boundary, reported, interruptions, chunk, operation>>
    BY <1>6 DEF CheckAffected
  <2>2. /\ SoleJobInv(v, o)
        /\ \A w \in Workers : Processing(w, o)' => w = v
        /\ Counted(o) = IF pc[v] = "acknowledge" THEN 1 ELSE 0
        /\ Counted(o)' = IF pc'[v] = "acknowledge" THEN 1 ELSE 0
    BY <2>1, <1>s
  <2>3. CountInv(o)'
    BY <2>1, <2>2 DEF TotalsInv, CountInv, SoleJobInv, InChunk
  <2>4. RecordInv(o)'
    BY <2>1, <2>2 DEF TotalsInv, RecordInv, SoleJobInv
  <2>5. Processing(v, o)' => SoleJobInv(v, o)'
    BY <2>1, <2>2 DEF TotalsInv, RecordInv, SoleJobInv, InChunk, Processing, Holds
  <2> QED
    BY <2>2, <2>3, <2>4, <2>5 DEF TotalsInv
<1>7. CASE AddAffected(v)
  <2>1. /\ pc[v] = "increment" /\ pc'[v] = "acknowledge"
        /\ meta'[o] /\ affected'[o] = affected[o] + 1
        /\ UNCHANGED <<targets, boundary, reported, interruptions, chunk, operation>>
    BY <1>7 DEF AddAffected
  <2>2. /\ SoleJobInv(v, o)
        /\ \A w \in Workers : Processing(w, o)' => w = v
        /\ Counted(o) = IF pc[v] = "acknowledge" THEN 1 ELSE 0
        /\ Counted(o)' = IF pc'[v] = "acknowledge" THEN 1 ELSE 0
    BY <2>1, <1>s
  <2>3. meta[o]
    BY <2>1, <2>2 DEF SoleJobInv, InChunk
  <2>4. CountInv(o)'
    <3>1. affected[o] + Cardinality(targets[o]) - (Cardinality(boundary[o]) + 0) \in 0 .. interruptions
      BY <2>1, <2>2, <2>3 DEF TotalsInv, CountInv
    <3>2. (affected[o] + 1) + Cardinality(targets[o]) - (Cardinality(boundary[o]) + 1) \in 0 .. interruptions
      BY <3>1, CountArithmetic
    <3> QED
      BY <2>1, <2>2, <3>2 DEF CountInv
  <2>5. RecordInv(o)'
    BY <2>1, <2>3 DEF TotalsInv, RecordInv
  <2>6. SoleJobInv(v, o)'
    BY <2>1, <2>2 DEF SoleJobInv, InChunk
  <2> QED
    BY <2>2, <2>4, <2>5, <2>6 DEF TotalsInv
<1>8. CASE Acknowledge(v)
  <2>1. /\ pc[v] = "acknowledge" /\ pc'[v] = IF chunk'[v] = {} THEN "decide" ELSE "mutate"
        /\ meta[o] /\ UNCHANGED <<meta, affected, boundary, reported, interruptions, operation>>
        /\ targets'[o] = targets[o] \ Current(v)
        /\ chunk'[v] = chunk[v] \ Current(v)
    BY <1>8 DEF Acknowledge
  <2>2. /\ SoleJobInv(v, o)
        /\ \A w \in Workers : Processing(w, o)' => w = v
        /\ Counted(o) = IF pc[v] = "acknowledge" THEN 1 ELSE 0
        /\ Counted(o)' = IF pc'[v] = "acknowledge" THEN 1 ELSE 0
    BY <2>1, <1>s
  <2>3. chunk[v] # {} /\ chunk[v] \subseteq targets[o]
    BY <2>1, <2>2 DEF SoleJobInv, InChunk
  <2>4. PICK id \in targets[o] : Current(v) = {id}
    <3>1. chunk[v] \in SUBSET Nat
      BY BulkAssumption
    <3>2. \E x \in chunk[v] : FirstOf(chunk[v], 1) = {x}
      BY <2>3, <3>1, FirstOfSingle
    <3> QED
      BY <2>3, <3>2 DEF Current
  <2>5. Cardinality(targets'[o]) = Cardinality(targets[o]) - 1
    <3>1. IsFiniteSet(targets[o]) /\ targets'[o] = targets[o] \ {id} /\ id \in targets[o]
      BY <2>1, <2>4, SourceCounts
    <3>2. Cardinality(targets[o] \ {id}) = Cardinality(targets[o]) - 1
      BY <3>1, FS_RemoveElement
    <3> QED
      BY <3>1, <3>2
  <2>6. CountInv(o)'
    <3>1. affected[o] + Cardinality(targets[o]) - (Cardinality(boundary[o]) + 1) \in 0 .. interruptions
      BY <2>1, <2>2 DEF TotalsInv, CountInv
    <3>2. affected[o] + (Cardinality(targets[o]) - 1) - (Cardinality(boundary[o]) + 0) \in 0 .. interruptions
      BY <3>1, CountArithmetic
    <3>3. Counted(o)' = 0
      BY <2>1, <2>2
    <3> QED
      BY <2>1, <2>5, <3>2, <3>3 DEF CountInv
  <2>7. RecordInv(o)'
    BY <2>1 DEF TotalsInv, RecordInv
  <2>8. SoleJobInv(v, o)'
    BY <2>1, <2>2, <2>3 DEF SoleJobInv, InChunk
  <2> QED
    BY <2>2, <2>6, <2>7, <2>8 DEF TotalsInv
<1>9. CASE HasMore(v)
  <2>1. /\ pc[v] = "decide" /\ pc'[v] \in {"continue", "total"}
        /\ UNCHANGED <<meta, affected, targets, boundary, reported, interruptions, chunk, operation>>
    BY <1>9 DEF HasMore
  <2>2. /\ SoleJobInv(v, o)
        /\ \A w \in Workers : Processing(w, o)' => w = v
        /\ Counted(o) = IF pc[v] = "acknowledge" THEN 1 ELSE 0
        /\ Counted(o)' = IF pc'[v] = "acknowledge" THEN 1 ELSE 0
    BY <2>1, <1>s
  <2>3. CountInv(o)'
    BY <2>1, <2>2 DEF TotalsInv, CountInv, SoleJobInv, InChunk
  <2>4. RecordInv(o)'
    BY <2>1, <2>2 DEF TotalsInv, RecordInv, SoleJobInv
  <2>5. Processing(v, o)' => SoleJobInv(v, o)'
    BY <2>1, <2>2 DEF TotalsInv, RecordInv, SoleJobInv, InChunk, Processing, Holds
  <2> QED
    BY <2>2, <2>3, <2>4, <2>5 DEF TotalsInv
<1>10. CASE ReadTotal(v)
  <2>1. /\ pc[v] = "total" /\ pc'[v] = "cleanup"
        /\ meta[o] /\ total'[v] = affected[o]
        /\ UNCHANGED <<meta, affected, targets, boundary, reported, interruptions, chunk, operation>>
    BY <1>10 DEF ReadTotal
  <2>2. /\ SoleJobInv(v, o)
        /\ \A w \in Workers : Processing(w, o)' => w = v
        /\ Counted(o) = IF pc[v] = "acknowledge" THEN 1 ELSE 0
        /\ Counted(o)' = IF pc'[v] = "acknowledge" THEN 1 ELSE 0
    BY <2>1, <1>s
  <2>3. targets[o] = {}
    BY <2>1 DEF ClearInvariant, WorkerInv
  <2>4. total'[v] - Cardinality(boundary[o]) \in 0 .. interruptions
    <3>1. affected[o] + Cardinality(targets[o]) - (Cardinality(boundary[o]) + 0) \in 0 .. interruptions
      BY <2>1, <2>2 DEF TotalsInv, CountInv
    <3>2. Cardinality(targets[o]) = 0
      BY <2>3, FS_EmptySet
    <3>3. affected[o] - Cardinality(boundary[o]) \in 0 .. interruptions
      BY <3>1, <3>2, CountArithmetic
    <3> QED
      BY <2>1, <3>3
  <2>5. CountInv(o)' /\ RecordInv(o)'
    BY <2>1, <2>2 DEF TotalsInv, CountInv, RecordInv
  <2>6. SoleJobInv(v, o)'
    BY <2>1, <2>2, <2>4 DEF TotalsInv, RecordInv, SoleJobInv, InChunk
  <2> QED
    BY <2>2, <2>5, <2>6 DEF TotalsInv
<1>11. CASE Cleanup(v)
  <2>1. /\ pc[v] = "cleanup" /\ pc'[v] = "report"
        /\ ~ meta'[o]
        /\ UNCHANGED <<boundary, reported, interruptions, total, operation>>
    BY <1>11 DEF Cleanup
  <2>2. /\ SoleJobInv(v, o)
        /\ \A w \in Workers : Processing(w, o)' => w = v
        /\ Counted(o) = IF pc[v] = "acknowledge" THEN 1 ELSE 0
        /\ Counted(o)' = IF pc'[v] = "acknowledge" THEN 1 ELSE 0
    BY <2>1, <1>s
  <2>3. CountInv(o)'
    BY <2>1, <2>2 DEF TotalsInv, CountInv, SoleJobInv, InChunk
  <2>4. RecordInv(o)'
    BY <2>1, <2>2 DEF TotalsInv, RecordInv, SoleJobInv
  <2>5. Processing(v, o)' => SoleJobInv(v, o)'
    BY <2>1, <2>2 DEF TotalsInv, RecordInv, SoleJobInv, InChunk, Processing, Holds
  <2> QED
    BY <2>2, <2>3, <2>4, <2>5 DEF TotalsInv
<1>12. CASE ReportCompletion(v)
  <2>1. /\ pc[v] = "report" /\ pc'[v] = "delete"
        /\ reported'[o] = Append(reported[o], total[v])
        /\ UNCHANGED <<meta, affected, targets, boundary, interruptions, operation>>
    BY <1>12 DEF ReportCompletion
  <2>2. /\ SoleJobInv(v, o)
        /\ \A w \in Workers : Processing(w, o)' => w = v
        /\ Counted(o) = IF pc[v] = "acknowledge" THEN 1 ELSE 0
        /\ Counted(o)' = IF pc'[v] = "acknowledge" THEN 1 ELSE 0
    BY <2>1, <1>s
  <2>3. reported[o] = <<>> /\ total[v] - Cardinality(boundary[o]) \in 0 .. interruptions
    BY <2>1, <2>2 DEF SoleJobInv
  <2>4. reported'[o] = <<total[v]>>
    BY <2>1, <2>3
  <2>5. ~ meta[o]
    BY <2>1, <2>2 DEF SoleJobInv
  <2>6. CountInv(o)'
    BY <2>1, <2>5 DEF CountInv
  <2>7. RecordInv(o)'
    <3>1. Len(<<total[v]>>) = 1 /\ DOMAIN <<total[v]>> = {1} /\ <<total[v]>>[1] = total[v]
      OBVIOUS
    <3>2. Len(reported'[o]) <= 1 /\ ~ meta'[o]
      BY <2>1, <2>4, <2>5, <3>1
    <3>3. UNCHANGED <<boundary, interruptions>>
      BY <2>1
    <3>4. \A i \in DOMAIN reported'[o] : i = 1
      BY <2>4, <3>1
    <3>5. reported'[o][1] - Cardinality(boundary[o]) \in 0 .. interruptions
      BY <2>3, <2>4, <3>1
    <3> QED
      BY <3>2, <3>3, <3>4, <3>5 DEF RecordInv
  <2>8. ~ Processing(v, o)'
    BY <2>1 DEF Processing
  <2> QED
    BY <2>2, <2>6, <2>7, <2>8 DEF TotalsInv
<1>13. CASE DispatchContinuation(v)
  <2>1. /\ pc[v] = "continue" /\ pc'[v] = "delete"
        /\ UNCHANGED <<meta, affected, targets, boundary, reported, interruptions, chunk, operation>>
    BY <1>13 DEF DispatchContinuation
  <2>2. /\ SoleJobInv(v, o)
        /\ \A w \in Workers : Processing(w, o)' => w = v
        /\ Counted(o) = IF pc[v] = "acknowledge" THEN 1 ELSE 0
        /\ Counted(o)' = IF pc'[v] = "acknowledge" THEN 1 ELSE 0
    BY <2>1, <1>s
  <2>3. CountInv(o)'
    BY <2>1, <2>2 DEF TotalsInv, CountInv, SoleJobInv, InChunk
  <2>4. RecordInv(o)'
    BY <2>1, <2>2 DEF TotalsInv, RecordInv, SoleJobInv
  <2>5. Processing(v, o)' => SoleJobInv(v, o)'
    BY <2>1, <2>2 DEF TotalsInv, RecordInv, SoleJobInv, InChunk, Processing, Holds
  <2> QED
    BY <2>2, <2>3, <2>4, <2>5 DEF TotalsInv
<1>14. CASE Interrupt(v)
  <2>1. /\ pc'[v] = "idle" /\ interruptions' = interruptions + 1
        /\ UNCHANGED <<meta, affected, targets, boundary, reported>>
    BY <1>14 DEF Interrupt, JobFails
  <2>2. /\ SoleJobInv(v, o)
        /\ \A w \in Workers : Processing(w, o)' => w = v
        /\ Counted(o) = IF pc[v] = "acknowledge" THEN 1 ELSE 0
        /\ Counted(o)' = IF pc'[v] = "acknowledge" THEN 1 ELSE 0
    BY <2>1, <1>s
  <2>3. CountInv(o)'
    <3>1. meta[o] => affected[o] + Cardinality(targets[o]) - (Cardinality(boundary[o]) + Counted(o)) \in 0 .. interruptions
      BY DEF TotalsInv, CountInv
    <3>2. Counted(o)' = 0 /\ Counted(o) \in {0, 1}
      BY <2>1, <2>2
    <3>3. meta[o] => affected[o] + Cardinality(targets[o]) - (Cardinality(boundary[o]) + 0) \in 0 .. (interruptions + 1)
      BY <3>1, <3>2, CountArithmetic
    <3> QED
      BY <2>1, <3>2, <3>3 DEF CountInv
  <2>4. RecordInv(o)'
    <3>1. \A n : n \in 0 .. interruptions => n \in 0 .. (interruptions + 1)
      OBVIOUS
    <3> QED
      BY <2>1, <3>1 DEF TotalsInv, RecordInv
  <2>5. ~ Processing(v, o)'
    BY <2>1 DEF Processing, Holds
  <2> QED
    BY <2>2, <2>3, <2>4, <2>5 DEF TotalsInv
<1> QED
  BY <1>1, <1>2, <1>3, <1>4, <1>5, <1>6, <1>7, <1>8, <1>9, <1>10, <1>11, <1>12, <1>13, <1>14 DEF ProcessChunk, JobStep, CaptureFailedJobs, CaptureTargets, DeleteJob

\* Every step keeps the totals of an operation whose jobs run one after another.
LEMMA TotalsStep ==
    ASSUME ClearInvariant, TotalsInvariant, [Next]_vars, TypeOK', NEW o \in Operations \ overlapped'
    PROVE  TotalsInv(o)'
<1>a. /\ TypeOK /\ OperationInv(o) /\ TotalsInv(o)
      /\ interruptions \in Nat /\ affected[o] \in Nat
      /\ Cardinality(targets[o]) \in Nat /\ Cardinality(boundary[o]) \in Nat
  BY TotalsSoFar
<1> USE <1>a DEF TypeOK, BulkTypeOK, Goto, Renew,
        snapshotVars, historyVars, queueVars, workerVars, bulkVars, storeVars
<1>1. ASSUME NEW v \in Workers, Reserve(v)
      PROVE  TotalsInv(o)'
  <2>1. SameRecord(o) /\ OthersStay(v)
    <3>1. UNCHANGED <<meta, affected, targets, boundary, reported, interruptions>>
      BY <1>1 DEF Reserve, ReserveJob
    <3>2. SameRecord(o)
      BY <3>1 DEF SameRecord
    <3> QED
      BY <1>1, <3>2, OneWorkerMoves
  <2>2. pc[v] = "idle" /\ ~ Processing(v, o)
    BY <1>1 DEF Reserve, ReserveJob, Processing, Holds
  <2>3. CASE operation'[v] # o
    BY <2>1, <2>2, <2>3, StepOfAnother DEF Processing, Holds
  <2>4. CASE operation'[v] = o
    <3>1. (\A w \in Workers : ~ Processing(w, o)) /\ pc'[v] = "peek"
      BY <1>1, <2>4, BulkAssumption DEF Reserve, ReserveJob
    <3>2. \A w \in Workers : Processing(w, o)' => w = v
      BY <2>1, <3>1 DEF OthersStay, Processing, Holds
    <3>3. Counted(o) = 0 /\ Counted(o)' = 0
      BY <3>1, <3>2 DEF Counted, Processing, Holds
    <3>4. UNCHANGED <<meta, affected, targets, boundary, reported, interruptions>>
      BY <1>1 DEF Reserve, ReserveJob
    <3>5. CountInv(o)'
      BY <3>3, <3>4 DEF TotalsInv, CountInv
    <3>6. RecordInv(o)'
      BY <3>4 DEF TotalsInv, RecordInv
    <3>7. SoleJobInv(v, o)'
      BY <3>1, <3>2 DEF SoleJobInv, InChunk
    <3> QED
      BY <3>2, <3>5, <3>6, <3>7 DEF TotalsInv
  <2> QED
    BY <2>3, <2>4
<1>2. ASSUME NEW v \in Workers, CaptureFailedJobs(v)
      PROVE  TotalsInv(o)'
  <2>1. PICK u \in Operations \ issued :
          /\ operation' = [operation EXCEPT ![v] = u]
          /\ targets' = [targets EXCEPT ![u] = horizonFailed]
          /\ boundary' = [boundary EXCEPT ![u] = horizonFailed]
    BY <1>2 DEF CaptureFailedJobs, CaptureTargets
  <2>2. /\ pc[v] = "capture" /\ operation[v] = NoOperation
        /\ pc'[v] = "initialize" /\ operation'[v] = u
        /\ UNCHANGED <<meta, affected, reported, interruptions>>
        /\ OthersStay(v)
    <3>1. pc[v] = "capture" /\ pc' = [pc EXCEPT ![v] = "initialize"]
      BY <1>2 DEF CaptureFailedJobs, CaptureTargets
    <3>2. UNCHANGED <<meta, affected, reported, interruptions>>
      BY <1>2 DEF CaptureFailedJobs, CaptureTargets
    <3>3. operation[v] = NoOperation
      BY <3>1 DEF TotalsInvariant
    <3>4. OthersStay(v)
      BY <1>2, OneWorkerMoves DEF ProcessChunk
    <3> QED
      BY <2>1, <3>1, <3>2, <3>3, <3>4
  <2>3. CASE u # o
    <3>1. SameRecord(o)
      BY <2>1, <2>2, <2>3 DEF SameRecord
    <3>2. ~ Processing(v, o) /\ ~ Processing(v, o)'
      BY <2>2, <2>3, BulkAssumption DEF Processing, Holds
    <3> QED
      BY <2>2, <3>1, <3>2, StepOfAnother
  <2>4. CASE u = o
    <3>1. \A w \in Workers : ~ Processing(w, o)
      BY <2>4, BulkAssumption DEF TotalsInvariant, ClearInvariant, WorkerInv, Processing, Holds
    <3>2. \A w \in Workers : Processing(w, o)' => w = v
      BY <2>2, <3>1 DEF OthersStay, Processing, Holds
    <3>3. ~ meta[o] /\ reported[o] = <<>>
      BY <2>4 DEF OperationInv
    <3>4. CountInv(o)' /\ RecordInv(o)'
      BY <2>2, <3>3 DEF CountInv, RecordInv
    <3>5. SoleJobInv(v, o)'
      BY <2>1, <2>2, <2>4, <3>2, <3>3 DEF SoleJobInv, InChunk
    <3> QED
      BY <3>2, <3>4, <3>5 DEF TotalsInv
  <2> QED
    BY <2>3, <2>4
<1>3. ASSUME NEW v \in Workers, ProcessChunk(v) \/ Interrupt(v), ~ CaptureFailedJobs(v)
      PROVE  TotalsInv(o)'
  <2>1. OthersStay(v)
    BY <1>3, OneWorkerMoves
  <2>2. CASE operation[v] # o
    <3>1. SameRecord(o) /\ (operation'[v] # o \/ pc'[v] = "idle")
      BY <1>3, <2>2, OneOperationMoves
    <3>2. ~ Processing(v, o) /\ ~ Processing(v, o)'
      BY <2>2, <3>1 DEF Processing, Holds
    <3> QED
      BY <2>1, <3>1, <3>2, StepOfAnother
  <2>3. CASE operation[v] = o /\ pc[v] = "delete"
    <3>1. SameRecord(o) /\ pc'[v] = "idle"
      BY <1>3, <2>3 DEF ProcessChunk, DeleteFailed, Forget, JobStep, MissingState, Interrupt, JobFails,
         InitializeMeta, NextChunk, CheckAffected, AddAffected, Acknowledge, Cleanup, HasMore,
         ReadTotal, ReportCompletion, DispatchContinuation, DeleteJob, SameRecord
    <3>2. ~ Processing(v, o) /\ ~ Processing(v, o)'
      BY <2>3, <3>1 DEF Processing, Holds
    <3> QED
      BY <2>1, <3>1, <3>2, StepOfAnother
  <2>4. CASE operation[v] = o /\ pc[v] # "delete"
    <3>1. pc[v] # "capture"
      BY <2>4, BulkAssumption DEF TotalsInvariant
    <3>2. pc[v] # "idle"
      BY <1>3 DEF ProcessChunk, DeleteFailed, Forget, JobStep, MissingState, Interrupt,
         InitializeMeta, NextChunk, CheckAffected, AddAffected, Acknowledge, Cleanup, HasMore,
         ReadTotal, ReportCompletion, DispatchContinuation, DeleteJob
    <3> QED
      BY <1>3, <2>4, <3>1, <3>2, TotalsOwnStep
  <2> QED
    BY <2>2, <2>3, <2>4
<1>4. ASSUME NEW u \in Operations, ExpireSnapshot(u)
      PROVE  TotalsInv(o)'
  <2>1. CASE u # o
    <3>1. UNCHANGED <<boundary, reported, interruptions, workerVars>>
      BY <1>4 DEF ExpireSnapshot
    <3>2. meta'[o] = meta[o] /\ affected'[o] = affected[o] /\ targets'[o] = targets[o]
      BY <1>4, <2>1 DEF ExpireSnapshot
    <3>3. SameRecord(o)
      BY <3>1, <3>2 DEF SameRecord
    <3> QED
      BY <3>1, <3>3, StepOfNobody
  <2>2. CASE u = o
    <3>1. \A w \in Workers : ~ Processing(w, o)'
      BY <1>4, <2>2 DEF ExpireSnapshot, Processing, Holds
    <3>2. ~ meta'[o] /\ UNCHANGED <<boundary, reported, interruptions>>
      BY <1>4, <2>2 DEF ExpireSnapshot
    <3>3. RecordInv(o)'
      BY <3>2 DEF TotalsInv, RecordInv
    <3> QED
      BY <3>1, <3>2, <3>3 DEF TotalsInv, CountInv
  <2> QED
    BY <2>1, <2>2
<1>5. CASE UNCHANGED <<snapshotVars, historyVars, workerVars, interruptions>>
  <2>1. SameRecord(o) /\ UNCHANGED workerVars
    BY <1>5 DEF SameRecord
  <2> QED
    BY <2>1, StepOfNobody
<1>6. \/ \E v \in Workers : \/ Reserve(v)
                            \/ CaptureFailedJobs(v)
                            \/ (ProcessChunk(v) \/ Interrupt(v)) /\ ~ CaptureFailedJobs(v)
      \/ \E u \in Operations : ExpireSnapshot(u)
      \/ UNCHANGED <<snapshotVars, historyVars, workerVars, interruptions>>
  BY DEF Next, BulkEnvironment, DispatchOperation, RetryBulkJob, NewFailure, vars
<1> QED
  BY <1>1, <1>2, <1>3, <1>4, <1>5, <1>6

\* A coordinator has no operation before it captures one.
LEMMA CaptureStep ==
    ASSUME TypeOK, \A w \in Workers : pc[w] = "capture" => operation[w] = NoOperation, [Next]_vars
    PROVE  \A w \in Workers : pc'[w] = "capture" => operation'[w] = NoOperation
<1> USE DEF TypeOK, BulkTypeOK, Goto, Renew,
        snapshotVars, historyVars, queueVars, workerVars, bulkVars, storeVars, vars
<1>1. ASSUME NEW v \in Workers, Reserve(v) \/ ProcessChunk(v) \/ Interrupt(v)
      PROVE  \A w \in Workers : pc'[w] = "capture" => operation'[w] = NoOperation
  <2>1. OthersStay(v)
    BY <1>1, OneWorkerMoves
  <2>2. pc'[v] = "capture" => operation'[v] = NoOperation
    BY <1>1 DEF Reserve, ReserveJob, ProcessChunk, CaptureFailedJobs, CaptureTargets, DeleteFailed,
         Forget, JobStep, MissingState, Interrupt, JobFails, InitializeMeta, NextChunk, CheckAffected,
         AddAffected, Acknowledge, Cleanup, HasMore, ReadTotal, ReportCompletion,
         DispatchContinuation, DeleteJob
  <2> QED
    BY <2>1, <2>2 DEF OthersStay
<1>2. CASE UNCHANGED workerVars
  BY <1>2
<1> QED
  BY <1>1, <1>2 DEF Next, BulkEnvironment, DispatchOperation, RetryBulkJob, ExpireSnapshot, NewFailure

\* The total of a completion record is the number of captured jobs, but for
\* targets counted again after an interruption.
THEOREM TotalsHold == Spec => []TotalsAreTrue
<1>1. Init => TotalsInvariant
  BY DEF Init, BulkInit, TotalsInvariant, TotalsInv, CountInv, RecordInv, SoleJobInv, Processing, Holds
<1>2. ClearInvariant /\ ClearInvariant' /\ TotalsInvariant /\ [Next]_vars => TotalsInvariant'
  BY TotalsStep, CaptureStep DEF ClearInvariant, TotalsInvariant
<1>3. TotalsInvariant => TotalsAreTrue
  BY DEF TotalsInvariant, TotalsInv, RecordInv, TotalsAreTrue
<1> QED
  BY <1>1, <1>2, <1>3, ClearInvariantHolds, PTL DEF Spec
=============================================================================
