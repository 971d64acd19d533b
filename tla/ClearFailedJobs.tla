--------------------------- MODULE ClearFailedJobs ---------------------------
(***************************************************************************)
(* Clearing every retained failed job: the bulk protocol of BulkOperation  *)
(* over the failed_jobs sorted set.  A failed job lives in two stores,     *)
(* Horizon's Redis record and Laravel's failed-job provider, and jobs go   *)
(* on failing while the operation runs.                                    *)
(***************************************************************************)
EXTENDS BulkOperation

VARIABLES
    horizonFailed,   \* members of Horizon's failed_jobs (and their hashes)
    providerFailed,  \* records of the FailedJobProviderInterface
    everFailed       \* history: jobs that have failed so far

storeVars == <<horizonFailed, providerFailed, everFailed>>
vars == <<bulkVars, storeVars>>

Init ==
    /\ BulkInit
    /\ horizonFailed \in SUBSET JobIds
    /\ providerFailed = horizonFailed
    /\ everFailed = horizonFailed

-----------------------------------------------------------------------------
\* A job fails: a new record in both stores.  IDs are never reused.
NewFailure(id) ==
    /\ id \notin everFailed
    /\ horizonFailed' = horizonFailed \cup {id}
    /\ providerFailed' = providerFailed \cup {id}
    /\ everFailed' = everFailed \cup {id}
    /\ UNCHANGED bulkVars

\* Mutant of CaptureFailedJobs: the snapshot is taken of the other store.
CaptureProviderJobs(w) ==
    /\ CaptureTargets(w, providerFailed)
    /\ UNCHANGED storeVars

\* $operationId ??= createFromSortedSet('failed_jobs')
CaptureFailedJobs(w) ==
    /\ CaptureTargets(w, horizonFailed)
    /\ UNCHANGED storeVars

\* Mutant of DeleteFailed: the chunk is paged from the live source instead of the
\* snapshot.
DeleteFirstRetained(w) ==
    /\ pc[w] = "mutate"
    /\ horizonFailed' = horizonFailed \ FirstOf(horizonFailed, 1)
    /\ Goto(w, "forget")
    /\ UNCHANGED <<snapshotVars, historyVars, queueVars, payload, operation,
                   chunk, total, providerFailed, everFailed>>

\* JobRepository::deleteFailed($id)
DeleteFailed(w) ==
    /\ pc[w] = "mutate"
    /\ horizonFailed' = horizonFailed \ Current(w)
    /\ Goto(w, "forget")
    /\ UNCHANGED <<snapshotVars, historyVars, queueVars, payload, operation,
                   chunk, total, providerFailed, everFailed>>

\* FailedJobProviderInterface::forget($id)
Forget(w) ==
    /\ pc[w] = "forget"
    /\ providerFailed' = providerFailed \ Current(w)
    /\ Goto(w, "count")
    /\ UNCHANGED <<snapshotVars, historyVars, queueVars, payload, operation,
                   chunk, total, horizonFailed, everFailed>>

ProcessChunk(w) ==
    \/ CaptureFailedJobs(w)
    \/ DeleteFailed(w)
    \/ Forget(w)
    \/ JobStep(w) /\ UNCHANGED storeVars

Reserve(w) == ReserveJob(w) /\ UNCHANGED storeVars

Next ==
    \/ \E w \in Workers : Reserve(w)
    \/ \E w \in Workers : ProcessChunk(w)
    \/ \E w \in Workers : Interrupt(w) /\ UNCHANGED storeVars
    \/ BulkEnvironment /\ UNCHANGED storeVars
    \/ \E id \in JobIds : NewFailure(id)

\* Supervised workers keep taking queued jobs and keep running them; nothing
\* obliges a user to retry, a job to fail or a process to crash.
Fairness ==
    \A w \in Workers : WF_vars(Reserve(w)) /\ WF_vars(ProcessChunk(w))

Spec == Init /\ [][Next]_vars
FairSpec == Spec /\ Fairness

-----------------------------------------------------------------------------
(* Properties.                                                             *)

\* The state has the types the code gives it.
TypeOK ==
    /\ BulkTypeOK
    /\ horizonFailed \subseteq JobIds
    /\ providerFailed \subseteq JobIds
    /\ everFailed \subseteq JobIds

\* A job is cleared once neither store retains it.
Retained == horizonFailed \cup providerFailed

\* Members leave the snapshot only after a terminal outcome: as long as the
\* snapshot has not been abandoned, every captured job that is no longer a
\* target has been deleted from both stores, whatever crashed, was retried or
\* ran concurrently on the same operation.
SettledTargetsAreCleared ==
    \A o \in Operations \ expired : (boundary[o] \ targets[o]) \cap Retained = {}

\* An operation logs its completion only when every job of its snapshot is
\* gone: no interrupted or overtaken chunk makes it skip one silently.
CompletionMeansCleared ==
    \A o \in Operations : reported[o] # <<>> => boundary[o] \cap Retained = {}

\* New failures are outside the operation boundary: a job disappears from the
\* stores only while a snapshot that captured it still lists it as a target.
OnlyTargetsAreCleared ==
    [][\A id \in Retained \ Retained' : \E o \in Operations : id \in targets[o]]_vars

\* The completion record tells the truth: unless two jobs ran the operation at
\* once there is one record, its total counts every captured job, and exceeds
\* their number only by targets counted again after an interruption.
TotalsAreTrue ==
    \A o \in Operations \ overlapped :
        /\ Len(reported[o]) <= 1
        /\ \A i \in DOMAIN reported[o] :
            reported[o][i] - Cardinality(boundary[o]) \in 0 .. interruptions

\* An operation that was started is carried to its completion record unless
\* something interrupts it or it is left idle for the whole TTL; interrupted,
\* every continuation the queue accepts still ends in a completed or expired
\* operation or in a failed bulk job a user can retry.
OperationsEnd ==
    \A o \in Operations :
        /\ meta[o] ~> reported[o] # <<>> \/ o \in expired \/ interruptions > 0
        /\ bulkQueue[o] > 0 ~> o \in completed \cup expired \/ bulkFailed[o] > 0

-----------------------------------------------------------------------------
(* Why they hold: the inductive invariant.                                 *)

\* The provider's record outlives Horizon's, and IDs do not come back.
StoreInv == horizonFailed \subseteq providerFailed /\ providerFailed \subseteq everFailed

\* An operation's keys, its history and the jobs it concerns agree; an
\* operation nobody has drawn has left no trace.
OperationInv(o) ==
    /\ targets[o] \subseteq boundary[o]
    /\ boundary[o] \subseteq everFailed
    /\ o \in expired => ~ meta[o]
    /\ o \notin expired => (boundary[o] \ targets[o]) \cap Retained = {}
    /\ reported[o] # <<>> => boundary[o] \cap Retained = {}
    /\ o \notin issued => /\ ~ meta[o] /\ ~ idleTtl[o]
                         /\ o \notin expired /\ reported[o] = <<>>
                         /\ bulkQueue[o] = 0 /\ bulkFailed[o] = 0

\* Where a worker stands determines what it has already done to its target.
WorkerInv(w) ==
    /\ payload[w] \in issued \cup {NoOperation}
    /\ pc[w] \notin {"idle", "capture"} => operation[w] \in issued
    /\ pc[w] \notin {"idle", "capture", "peek"} => operation[w] \notin expired
    /\ pc[w] \in {"mutate", "forget", "count", "increment", "acknowledge"}
          => chunk[w] \subseteq boundary[operation[w]]
    /\ pc[w] = "forget" => Current(w) \cap horizonFailed = {}
    /\ pc[w] \in {"count", "increment", "acknowledge"} => Current(w) \cap Retained = {}
    /\ pc[w] \in {"total", "cleanup", "report"} => targets[operation[w]] = {}

\* The clear protocol's inductive invariant: stores, operations and workers
\* stay consistent through every crash, retry, expiry and overlap.
ClearInvariant ==
    /\ TypeOK
    /\ StoreInv
    /\ \A o \in Operations : OperationInv(o)
    /\ \A w \in Workers : WorkerInv(w)

\* An operation is over, or has not begun, exactly when no target of it is left
\* to settle: what the promise's statuses need.
StatusInv(o) ==
    /\ o \in completed => o \in issued
    /\ o \in completed \cup expired => targets[o] = {}
    /\ o \notin issued => targets[o] = {}

StatusesHold == \A o \in Operations : StatusInv(o)

\* Places at which a job has an unfinished chunk of its operation.
InChunk == {"mutate", "forget", "count", "increment", "acknowledge"}

\* A captured job has been counted and is not yet acknowledged.
Counted(o) ==
    IF \E w \in Workers : Holds(w, o) /\ pc[w] = "acknowledge" THEN 1 ELSE 0

\* The counter of a live operation: every target settled, the one between its
\* count and its acknowledgement, and at most one more for every interruption.
CountInv(o) ==
    meta[o] => affected[o] + Cardinality(targets[o])
                 - (Cardinality(boundary[o]) + Counted(o)) \in 0 .. interruptions

\* A completion record is written once, after the keys are gone, and is true.
RecordInv(o) ==
    /\ reported[o] # <<>> => ~ meta[o]
    /\ Len(reported[o]) <= 1
    /\ \A i \in DOMAIN reported[o] :
        reported[o][i] - Cardinality(boundary[o]) \in 0 .. interruptions

\* A job that has its operation to itself finds the snapshot as it left it.
SoleJobInv(w, o) ==
    /\ \A v \in Workers : Processing(v, o) => v = w
    /\ pc[w] = "initialize" => targets[o] = boundary[o]
    /\ pc[w] \in InChunk => meta[o] /\ chunk[w] # {} /\ chunk[w] \subseteq targets[o]
    /\ pc[w] \in {"initialize", "cleanup", "report"} => reported[o] = <<>>
    /\ pc[w] = "report" => ~ meta[o]
    /\ pc[w] \in {"cleanup", "report"}
          => total[w] - Cardinality(boundary[o]) \in 0 .. interruptions

TotalsInv(o) ==
    /\ CountInv(o)
    /\ RecordInv(o)
    /\ \A w \in Workers : Processing(w, o) => SoleJobInv(w, o)

\* Totals count right as long as jobs of an operation run one after another.
TotalsInvariant ==
    /\ \A w \in Workers : pc[w] = "capture" => operation[w] = NoOperation
    /\ \A o \in Operations \ overlapped : TotalsInv(o)

-----------------------------------------------------------------------------
(* The promise this implements.                                            *)

Status(o) ==
    IF o \in completed THEN "complete"
    ELSE IF o \in expired THEN "abandoned"
    ELSE IF o \in issued THEN "open" ELSE "none"

Promise == INSTANCE PointInTimeOperation WITH
    retained  <- Retained,
    leaving   <- providerFailed \ horizonFailed,
    retired   <- everFailed \ Retained,
    status    <- [o \in Operations |-> Status(o)],
    remaining <- targets

\* Chunks, continuations, crashes, retries and overlapping jobs are invisible:
\* the operation behaves like one that fixed its targets at one instant.
ImplementsPointInTimeOperation == Promise!Spec
=============================================================================
