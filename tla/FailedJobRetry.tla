---------------------------- MODULE FailedJobRetry ----------------------------
(***************************************************************************)
(* Retrying one retained failed job: RetryFailedJob under the distributed  *)
(* FailedJobRetryLock, the eligibility policies of single and bulk         *)
(* retries, and what Horizon does with the retry.  Horizon's RetryFailedJob *)
(* is not queued: dispatching it pushes a new job and then, in a second    *)
(* round trip, records that job in the "retried_by" field of the failed    *)
(* one.  Any number of web requests and queue workers retry at a time;     *)
(* each may die anywhere, and the lock expires under slow holders.         *)
(***************************************************************************)
EXTENDS Naturals, FiniteSets

CONSTANTS Jobs,        \* job UUIDs, numbered in the order they are drawn
          NoJob,
          Processes,   \* web requests and queue workers
          NoOne,       \* the lock key does not exist
          Malformed,   \* failed jobs whose payload or retried_by does not decode
          Removable,   \* bound: jobs whose records may be removed
          MaxMishaps   \* bound: aborts, failed releases, locks lost by holders

ASSUME RetryAssumption ==
    /\ Jobs \subseteq Nat
    /\ NoJob \notin Jobs
    /\ NoOne \notin Processes
    /\ Malformed \subseteq Jobs
    /\ Removable \subseteq Jobs
    /\ MaxMishaps \in Nat

VARIABLES
    status,       \* job -> "none", "queued", "completed", "failed" or "removed"
    parent,       \* history: job -> the failed job it retries
    byBulk,       \* history: jobs pushed by a bulk retry
    retriedBy,    \* job -> its retried_by field: retry -> recorded status or "absent"
    lock,         \* job -> the process whose token is in the lock key
    lapsed,       \* history: jobs whose lock ran out under a running holder,
                  \* or whose retry was pushed and never recorded
    stage,        \* process -> its place in RetryFailedJob::handle()
    target,       \* process -> $id
    bulk,         \* process -> $bulk
    child,        \* process -> the UUID of the retry it pushed
    outcome,      \* process -> what handle() is about to return
    mishaps       \* aborts, failed releases and lost locks so far

jobVars     == <<status, parent, byBulk, retriedBy>>
processVars == <<stage, target, bulk, child, outcome>>
retryVars   == <<jobVars, lock, lapsed, processVars, mishaps>>

Statuses == {"none", "queued", "completed", "failed", "removed"}
Recorded == {"absent", "pending", "completed", "failed"}
Stages   == {"idle", "acquire", "read", "find", "push", "reference", "release", "returned"}

\* A process that runs the locked part of handle() on job j.
Inside(p, j) == target[p] = j /\ stage[p] \in {"read", "find", "push", "reference"}

Children(j) == {c \in Jobs : parent[c] = j}

NoRetries == [c \in Jobs |-> "absent"]

-----------------------------------------------------------------------------
RetryInit ==
    /\ \E n \in Jobs \cup {0} : status = [j \in Jobs |-> IF j <= n THEN "failed" ELSE "none"]
    /\ parent = [j \in Jobs |-> NoJob]
    /\ byBulk = {}
    /\ retriedBy = [j \in Jobs |-> NoRetries]
    /\ lock = [j \in Jobs |-> NoOne]
    /\ lapsed = {}
    /\ stage = [p \in Processes |-> "idle"]
    /\ target = [p \in Processes |-> NoJob]
    /\ bulk = [p \in Processes |-> FALSE]
    /\ child = [p \in Processes |-> NoJob]
    /\ outcome = [p \in Processes |-> FALSE]
    /\ mishaps = 0

-----------------------------------------------------------------------------
(* RetryFailedJob::handle and handleBulk.                                  *)

\* One of a bounded number of things that go wrong.
Mishap == mishaps < MaxMishaps /\ mishaps' = mishaps + 1

Advance(p, next) == stage' = [stage EXCEPT ![p] = next]

\* handle($id) or handleBulk($id) is called with an ID some job has had.
Call(p, j, isBulk) ==
    /\ stage[p] = "idle"
    /\ status[j] # "none"
    /\ Advance(p, "acquire")
    /\ target' = [target EXCEPT ![p] = j]
    /\ bulk' = [bulk EXCEPT ![p] = isBulk]
    /\ UNCHANGED <<jobVars, lock, lapsed, child, outcome, mishaps>>

\* FailedJobRetryLock::run, SET NX EX with a fresh token.
Acquire(p) ==
    /\ stage[p] = "acquire"
    /\ lock[target[p]] = NoOne
    /\ lock' = [lock EXCEPT ![target[p]] = p]
    /\ Advance(p, "read")
    /\ UNCHANGED <<jobVars, lapsed, target, bulk, child, outcome, mishaps>>

\* Somebody's token is in the key: fail closed.
LockIsBusy(p) ==
    /\ stage[p] = "acquire"
    /\ lock[target[p]] # NoOne
    /\ outcome' = [outcome EXCEPT ![p] = FALSE]
    /\ Advance(p, "returned")
    /\ UNCHANGED <<jobVars, lock, lapsed, target, bulk, child, mishaps>>

\* FailedJobRetryEligibility: the two policies.
Allows(j) == \A c \in Jobs : retriedBy[j][c] \in {"absent", "failed"}
AllowsBulk(j) == \A c \in Jobs : retriedBy[j][c] = "absent"

\* Mutant of Eligible: only a completed retry stands in the way of another.
NoRetryCompleted(j, isBulk) ==
    /\ status[j] = "failed"
    /\ j \notin Malformed
    /\ IF isBulk THEN AllowsBulk(j) ELSE \A c \in Jobs : retriedBy[j][c] # "completed"

\* Mutant of Eligible: bulk retries follow the policy of single ones.
OnePolicy(j, isBulk) == status[j] = "failed" /\ j \notin Malformed /\ Allows(j)

\* retry(): findFailed returns the job, and the policy allows it.  Both policies
\* refuse a payload that is no array, and a retried_by that is no list of retries.
Eligible(j, isBulk) ==
    /\ status[j] = "failed"
    /\ j \notin Malformed
    /\ IF isBulk THEN AllowsBulk(j) ELSE Allows(j)

ReadEligibility(p) ==
    /\ stage[p] = "read"
    /\ IF Eligible(target[p], bulk[p])
       THEN Advance(p, "find") /\ UNCHANGED outcome
       ELSE Advance(p, "release") /\ outcome' = [outcome EXCEPT ![p] = FALSE]
    /\ UNCHANGED <<jobVars, lock, lapsed, target, bulk, child, mishaps>>

\* Horizon's RetryFailedJob looks the job up again; a job removed meanwhile
\* is silently not retried.
FindFailed(p) ==
    /\ stage[p] = "find"
    /\ IF status[target[p]] = "failed"
       THEN Advance(p, "push") /\ UNCHANGED outcome
       ELSE Advance(p, "release") /\ outcome' = [outcome EXCEPT ![p] = TRUE]
    /\ UNCHANGED <<jobVars, lock, lapsed, target, bulk, child, mishaps>>

\* pushRaw under a new UUID, of a payload that decodes.
PushRetry(p) ==
    /\ stage[p] = "push"
    /\ \E c \in Jobs :
        /\ status[c] = "none" /\ c \notin Malformed
        /\ \A d \in Jobs \ Malformed : status[d] = "none" => c <= d
        /\ status' = [status EXCEPT ![c] = "queued"]
        /\ parent' = [parent EXCEPT ![c] = target[p]]
        /\ byBulk' = IF bulk[p] THEN byBulk \cup {c} ELSE byBulk
        /\ child' = [child EXCEPT ![p] = c]
    /\ Advance(p, "reference")
    /\ UNCHANGED <<retriedBy, lock, lapsed, target, bulk, outcome, mishaps>>

\* storeRetryReference appends the retry as pending, whatever it is by now.
RecordRetry(j, c) ==
    retriedBy' = [retriedBy EXCEPT ![j][c] = "pending"]

StoreRetryReference(p) ==
    /\ stage[p] = "reference"
    /\ RecordRetry(target[p], child[p])
    /\ outcome' = [outcome EXCEPT ![p] = TRUE]
    /\ child' = [child EXCEPT ![p] = NoJob]
    /\ Advance(p, "release")
    /\ UNCHANGED <<status, parent, byBulk, lock, lapsed, target, bulk, mishaps>>

\* Mutant of ReleaseOwnToken: DEL whoever holds the key.
ReleaseAnyToken(p) == lock' = [lock EXCEPT ![target[p]] = NoOne]

\* RELEASE_SCRIPT: the key is deleted only if it still holds the own token.
ReleaseOwnToken(p) ==
    lock' = [lock EXCEPT ![target[p]] = IF @ = p THEN NoOne ELSE @]

\* The finally block; an error of the script is swallowed.
Release(p) ==
    /\ stage[p] = "release"
    /\ \/ ReleaseOwnToken(p) /\ UNCHANGED mishaps
       \/ UNCHANGED lock /\ Mishap
    /\ Advance(p, "returned")
    /\ UNCHANGED <<jobVars, lapsed, target, bulk, child, outcome>>

\* The process leaves handle().
Reset(p) ==
    /\ stage' = [stage EXCEPT ![p] = "idle"]
    /\ target' = [target EXCEPT ![p] = NoJob]
    /\ bulk' = [bulk EXCEPT ![p] = FALSE]
    /\ child' = [child EXCEPT ![p] = NoJob]
    /\ outcome' = [outcome EXCEPT ![p] = FALSE]

Return(p) ==
    /\ stage[p] = "returned"
    /\ Reset(p)
    /\ UNCHANGED <<jobVars, lock, lapsed, mishaps>>

\* The process dies, or a call of the step throws: then the finally block
\* runs, and its own error is swallowed, which leaves the key as death does.
Abort(p) ==
    /\ stage[p] # "idle"
    /\ Mishap
    /\ Reset(p)
    /\ lapsed' = IF stage[p] = "reference" THEN lapsed \cup {target[p]} ELSE lapsed
    /\ \/ UNCHANGED lock
       \/ stage[p] \notin {"acquire", "returned"} /\ ReleaseOwnToken(p)
    /\ UNCHANGED jobVars

RetryStep(p) ==
    \/ Acquire(p)
    \/ LockIsBusy(p)
    \/ ReadEligibility(p)
    \/ FindFailed(p)
    \/ PushRetry(p)
    \/ StoreRetryReference(p)
    \/ Release(p)

-----------------------------------------------------------------------------
(* Redis and Horizon.                                                      *)

\* LOCK_SECONDS pass.
ExpireLock(j) ==
    /\ lock[j] # NoOne
    /\ lock' = [lock EXCEPT ![j] = NoOne]
    /\ IF Inside(lock[j], j)
       THEN Mishap /\ lapsed' = lapsed \cup {j}
       ELSE UNCHANGED <<lapsed, mishaps>>
    /\ UNCHANGED <<jobVars, processVars>>

\* A pushed retry ends.  Horizon updates its entry on the parent, if it is
\* already there.
EndRetry(c, result) ==
    /\ status[c] = "queued"
    /\ status' = [status EXCEPT ![c] = result]
    /\ retriedBy' = [retriedBy EXCEPT ![parent[c]][c] =
            IF @ = "absent" THEN @ ELSE result]
    /\ UNCHANGED <<parent, byBulk, lock, lapsed, processVars, mishaps>>

\* RemoveFailedJob, ClearFailedJobs or trimming deletes the record.
RemoveFailed(j) ==
    /\ j \in Removable
    /\ status[j] = "failed"
    /\ status' = [status EXCEPT ![j] = "removed"]
    /\ retriedBy' = [retriedBy EXCEPT ![j] = NoRetries]
    /\ UNCHANGED <<parent, byBulk, lock, lapsed, processVars, mishaps>>

RetryEnvironment ==
    \E j \in Jobs :
        \/ ExpireLock(j)
        \/ EndRetry(j, "completed")
        \/ EndRetry(j, "failed")
        \/ RemoveFailed(j)

-----------------------------------------------------------------------------
RetryNext ==
    \/ \E p \in Processes, j \in Jobs, isBulk \in BOOLEAN : Call(p, j, isBulk)
    \/ \E p \in Processes : RetryStep(p) \/ Return(p) \/ Abort(p)
    \/ RetryEnvironment

RetrySpec == RetryInit /\ [][RetryNext]_retryVars

-----------------------------------------------------------------------------
(* Properties.                                                             *)

\* The state has the types the code gives it.
RetryTypeOK ==
    /\ status \in [Jobs -> Statuses]
    /\ parent \in [Jobs -> Jobs \cup {NoJob}]
    /\ byBulk \subseteq Jobs
    /\ retriedBy \in [Jobs -> [Jobs -> Recorded]]
    /\ lock \in [Jobs -> Processes \cup {NoOne}]
    /\ lapsed \subseteq Jobs
    /\ stage \in [Processes -> Stages]
    /\ target \in [Processes -> Jobs \cup {NoJob}]
    /\ bulk \in [Processes -> BOOLEAN]
    /\ child \in [Processes -> Jobs \cup {NoJob}]
    /\ outcome \in [Processes -> BOOLEAN]
    /\ mishaps \in Nat

Over == {"failed", "removed"}

\* Overlapping retries of one failed job are serialized: as long as the lock
\* did not run out under its holder and no pushed retry went unrecorded, a
\* failed job has at most one retry that is active or succeeded, whoever
\* asked for them, in bulk or singly, and whichever requests died.
RetriesAreSequential ==
    \A j \in Jobs \ lapsed : \A c, d \in Children(j) :
        c = d \/ status[c] \in Over \/ status[d] \in Over

\* A bulk retry takes the failed leaf and never branches again from a job
\* that has been retried, even when that retry is not recorded yet.
BulkRetriesOnlyLeaves ==
    [][\A c \in byBulk' \ byBulk :
        parent'[c] \in lapsed \/ Children(parent'[c]) = {}]_retryVars

\* A holder that lost its lock does not take it from the next one: the key is
\* deleted by expiry, or by the process whose token it holds leaving handle().
LockIsReleasedByItsHolder ==
    [][\A j \in Jobs : lock[j] # NoOne /\ lock'[j] = NoOne =>
        \/ UNCHANGED stage
        \/ target[lock[j]] = j /\ stage'[lock[j]] \in {"returned", "idle"}]_retryVars

-----------------------------------------------------------------------------
(* Why they hold: the inductive invariant.                                 *)

\* A process inside its run knows its job, and holds the lock unless it lapsed.
HolderInv(p) ==
    /\ stage[p] # "idle" => target[p] \in Jobs
    /\ stage[p] \in {"find", "push", "reference"} => status[target[p]] \in Over
    /\ \A j \in Jobs \ lapsed : Inside(p, j) => lock[j] = p
    /\ stage[p] = "reference" => child[p] \in Jobs /\ parent[child[p]] = target[p]

\* What a process that may still push has established about earlier retries.
PushInv(p) ==
    stage[p] \in {"find", "push"} /\ target[p] \notin lapsed =>
        /\ \A c \in Children(target[p]) : status[c] \in Over
        /\ bulk[p] => Children(target[p]) = {}

\* Retries are recorded, save one that a process is just recording, and a
\* retry recorded as failed has failed.
RecordInv(j) ==
    /\ status[j] = "none" => parent[j] = NoJob
    /\ status[j] \notin Over => Children(j) = {}
    /\ status[j] \in {"queued", "completed"} => parent[j] \in Jobs
    /\ \A c \in Jobs : retriedBy[j][c] # "absent" =>
        parent[c] = j /\ (retriedBy[j][c] = "failed" => status[c] \in Over)
    /\ status[j] = "failed" /\ j \notin lapsed =>
        \A c \in Children(j) :
            \/ retriedBy[j][c] # "absent"
            \/ \E p \in Processes : stage[p] = "reference" /\ target[p] = j /\ child[p] = c

\* The retry protocol's inductive invariant: jobs, locks and the processes
\* inside a run stay consistent.
RetryInvariant ==
    /\ RetryTypeOK
    /\ \A p \in Processes : HolderInv(p) /\ PushInv(p)
    /\ \A j \in Jobs : RecordInv(j)
    /\ RetriesAreSequential
=============================================================================
