-------------------------- MODULE RetryAllFailedJobs --------------------------
(***************************************************************************)
(* Retrying every retained failed job: the bulk protocol of BulkOperation  *)
(* whose targets are each retried under the lock of FailedJobRetry, while  *)
(* users retry and remove single jobs and retried jobs end.                *)
(***************************************************************************)
EXTENDS BulkOperation, FailedJobRetry

CONSTANT OtherQueue    \* jobs of another connection or queue than the one asked for

ASSUME RetryAllAssumption ==
    /\ JobIds = Jobs
    /\ Workers \subseteq Processes
    /\ OtherQueue \subseteq Jobs

VARIABLES
    hydrated,     \* worker -> $hydrated, the jobs of its chunk that still exist
    contended     \* history: jobs a chunk found locked by somebody else

vars == <<bulkVars, retryVars, hydrated, contended>>

Users == Processes \ Workers

Init ==
    /\ BulkInit
    /\ RetryInit
    /\ hydrated = [w \in Workers |-> {}]
    /\ contended = {}

-----------------------------------------------------------------------------
\* $operationId ??= createFromSortedSet('failed_jobs')
CaptureFailedJobs(w) ==
    /\ CaptureTargets(w, {j \in Jobs : status[j] = "failed"})
    /\ UNCHANGED <<retryVars, hydrated, contended>>

\* The steps every operation shares; nextChunk is followed by getJobs.
SharedStep(w) ==
    /\ JobStep(w)
    /\ hydrated' = [hydrated EXCEPT ![w] =
            IF pc[w] = "peek" THEN {j \in chunk'[w] : status[j] # "removed"}
            ELSE IF pc'[w] = "idle" THEN {} ELSE @]
    /\ UNCHANGED <<retryVars, contended>>

\* A target that is gone or of another queue is acknowledged unseen.
Skip(w) ==
    /\ pc[w] = "mutate"
    /\ Current(w) \cap (hydrated[w] \ OtherQueue) = {}
    /\ Goto(w, "acknowledge")
    /\ UNCHANGED <<snapshotVars, historyVars, queueVars, payload, operation, chunk, total,
                   retryVars, hydrated, contended>>

\* handleBulk($id, $job) is called ...
HandleBulk(w) ==
    /\ pc[w] = "mutate"
    /\ \E j \in Current(w) \cap (hydrated[w] \ OtherQueue) : Call(w, j, TRUE)
    /\ UNCHANGED <<bulkVars, hydrated, contended>>

\* ... runs ...
RunBulk(w) ==
    /\ pc[w] = "mutate"
    /\ RetryStep(w)
    /\ contended' = IF LockIsBusy(w) THEN contended \cup {target[w]} ELSE contended
    /\ UNCHANGED <<bulkVars, hydrated>>

\* Mutant of Handled: retries that were refused count as affected.
HandledWhatever(w) ==
    /\ pc[w] = "mutate"
    /\ Return(w)
    /\ Goto(w, "count")
    /\ UNCHANGED <<snapshotVars, historyVars, queueVars, payload, operation, chunk, total,
                   hydrated, contended>>

\* ... and returns whether the target was affected.
Handled(w) ==
    /\ pc[w] = "mutate"
    /\ Return(w)
    /\ Goto(w, IF outcome[w] THEN "count" ELSE "acknowledge")
    /\ UNCHANGED <<snapshotVars, historyVars, queueVars, payload, operation, chunk, total,
                   hydrated, contended>>

ProcessChunk(w) ==
    \/ CaptureFailedJobs(w)
    \/ SharedStep(w)
    \/ Skip(w)
    \/ HandleBulk(w)
    \/ RunBulk(w)
    \/ Handled(w)

Reserve(w) == ReserveJob(w) /\ UNCHANGED <<retryVars, hydrated, contended>>

\* A worker dies or its job times out, also in the middle of a retry; or a
\* call throws, which leaves the retry through its finally block.
InterruptChunk(w) ==
    /\ Interrupt(w)
    /\ IF stage[w] = "idle" THEN UNCHANGED retryVars ELSE Abort(w)
    /\ hydrated' = [hydrated EXCEPT ![w] = {}]
    /\ UNCHANGED contended

\* A user retries one failed job.
UserRetries(u) ==
    /\ (\E j \in Jobs : Call(u, j, FALSE)) \/ RetryStep(u) \/ Return(u) \/ Abort(u)
    /\ UNCHANGED <<bulkVars, hydrated, contended>>

Next ==
    \/ \E w \in Workers : Reserve(w)
    \/ \E w \in Workers : ProcessChunk(w)
    \/ \E w \in Workers : InterruptChunk(w)
    \/ BulkEnvironment /\ UNCHANGED <<retryVars, hydrated, contended>>
    \/ \E u \in Users : UserRetries(u)
    \/ RetryEnvironment /\ UNCHANGED <<bulkVars, hydrated, contended>>

Spec == Init /\ [][Next]_vars

-----------------------------------------------------------------------------
(* Properties.                                                             *)

\* The state has the types the code gives it.
TypeOK ==
    /\ BulkTypeOK
    /\ RetryTypeOK
    /\ hydrated \in [Workers -> SUBSET Jobs]
    /\ contended \subseteq Jobs

\* Jobs of an operation that it, or another bulk retry, has scheduled, or that
\* disappeared while it was about to.
Scheduled(o) == {j \in boundary[o] : Children(j) \cap byBulk # {} \/ status[j] = "removed"}

\* No chunk that is replayed or overtaken schedules a job again, and none is
\* counted twice: the counter and the completion records never exceed the
\* jobs that were really scheduled.
AffectedWereScheduled ==
    \A o \in Operations : boundary[o] \cap lapsed = {} =>
        /\ affected[o] <= Cardinality(Scheduled(o))
        /\ \A i \in DOMAIN reported[o] : reported[o][i] <= Cardinality(Scheduled(o))

\* An operation completes only when each job of its snapshot has been retried,
\* by it or by somebody else, has gone, was locked when its turn came, or has a
\* payload or a retried_by that does not decode and that no retry accepts.
CompletionMeansRetried ==
    \A o \in Operations : reported[o] # <<>> =>
        \A j \in boundary[o] \ (OtherQueue \cup Malformed \cup contended) :
            Children(j) # {} \/ status[j] = "removed"

-----------------------------------------------------------------------------
(* Why they hold: the inductive invariant.                                 *)

\* A captured job needs no more retrying.
Dealt(j) ==
    j \in OtherQueue \cup Malformed \cup contended \/ Children(j) # {} \/ status[j] = "removed"

\* Captured jobs have failed; one that is no target any more, as long as the
\* snapshot lives, has been dealt with; an operation nobody has drawn has left
\* no trace.
OperationInv(o) ==
    /\ targets[o] \subseteq boundary[o]
    /\ \A j \in boundary[o] : status[j] \in Over
    /\ o \in expired => ~ meta[o]
    /\ o \notin expired => \A j \in boundary[o] \ targets[o] : Dealt(j)
    /\ reported[o] # <<>> => \A j \in boundary[o] : Dealt(j)
    /\ o \notin issued => /\ ~ meta[o] /\ ~ idleTtl[o] /\ affected[o] = 0
                         /\ o \notin expired /\ reported[o] = <<>>
                         /\ bulkQueue[o] = 0 /\ bulkFailed[o] = 0

\* Where a worker stands in its chunk.
WorkerInv(w) ==
    /\ payload[w] \in issued \cup {NoOperation}
    /\ pc[w] \notin {"idle", "capture"} => operation[w] \in issued
    /\ pc[w] \notin {"idle", "capture", "peek"} => operation[w] \notin expired
    /\ pc[w] \in {"mutate", "count", "increment", "acknowledge"}
          => /\ chunk[w] \subseteq boundary[operation[w]]
             /\ \A j \in chunk[w] \ hydrated[w] : status[j] = "removed"
    /\ pc[w] \in {"count", "increment"} => Current(w) # {}
    /\ pc[w] \in {"count", "increment", "acknowledge"} => \A j \in Current(w) : Dealt(j)
    /\ pc[w] \in {"total", "cleanup", "report"} => targets[operation[w]] = {}

\* Where a worker stands in the retry of its current target.
RetryingInv(w) ==
    /\ stage[w] # "idle" => /\ pc[w] = "mutate" /\ bulk[w]
                            /\ target[w] \in Current(w) \cap (hydrated[w] \ OtherQueue)
    /\ stage[w] \in {"reference", "release", "returned"} => Dealt(target[w])

\* Operations, workers and retries agree on what has been dealt with.
ProgressInvariant ==
    /\ TypeOK
    /\ RetryInvariant
    /\ \A o \in Operations : OperationInv(o)
    /\ \A w \in Workers : WorkerInv(w) /\ RetryingInv(w)

\* A bulk retry has scheduled a job, or it disappeared.
IsScheduled(j) == Children(j) \cap byBulk # {} \/ status[j] = "removed"

\* A worker may still schedule job j.
InFlight(j) == \E w \in Workers : target[w] = j /\ stage[w] \in {"find", "push"}

\* A worker has affected its current target and has not counted it yet.
Owes(w) ==
    \/ pc[w] \in {"count", "increment"}
    \/ pc[w] = "mutate" /\ \/ stage[w] = "reference"
                           \/ stage[w] \in {"release", "returned"} /\ outcome[w]

OwesFor(w, o, j) == Owes(w) /\ operation[w] = o /\ j \in Current(w)

\* What a worker owes was scheduled by it alone.
OwesInv(w) ==
    \A j \in Current(w) \ lapsed : Owes(w) =>
        /\ IsScheduled(j)
        /\ ~ InFlight(j)
        /\ \A v \in Workers : Owes(v) /\ j \in Current(v) => v = w

\* The jobs an operation's counter may stand for.
Credited(o) ==
    {j \in Scheduled(o) : ~ InFlight(j) /\ \A w \in Workers : ~ OwesFor(w, o, j)}

CreditInv(o) ==
    boundary[o] \cap lapsed = {} =>
        /\ affected[o] <= Cardinality(Credited(o))
        /\ \A i \in DOMAIN reported[o] : reported[o][i] <= Cardinality(Scheduled(o))
        /\ \A w \in Workers : pc[w] \in {"cleanup", "report"} /\ operation[w] = o =>
            total[w] <= Cardinality(Scheduled(o))

\* The counters stand for jobs that were scheduled.
CreditInvariant ==
    /\ \A o \in Operations : CreditInv(o)
    /\ \A w \in Workers : OwesInv(w)

\* The bulk retry's inductive invariant: what operations, workers and retries
\* have dealt with stays consistent through every crash, replay, overlap and
\* single retry, and so do the counters.
RetryAllInvariant == ProgressInvariant /\ CreditInvariant
=============================================================================
