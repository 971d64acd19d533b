----------------------------- MODULE PendingJobs -----------------------------
(***************************************************************************)
(* The actions on the pending jobs of one queue: CancelPendingJob,         *)
(* ReleaseDelayedJobNow and ClearQueue, next to Horizon's workers.  The    *)
(* queue (a ready list, a delayed and a reserved set of payloads) and      *)
(* Horizon's records of the jobs are changed in separate round trips, so   *)
(* every call meets a job that may have moved since the call read it.      *)
(*                                                                         *)
(* A payload is the job and a number, its form, that changes whenever the  *)
(* payload does: with each attempt, and with the madeAvailableAt mark.     *)
(* Unique jobs share one unique-job lock that lasts until it is released.  *)
(***************************************************************************)
EXTENDS Naturals

CONSTANTS Jobs,         \* job UUIDs, numbered in the order they are pushed
          NoJob,
          Callers,      \* web requests and queue workers
          Batched,      \* jobs that belong to a batch
          UniqueJobs,   \* jobs that are pushed under the unique-job lock
          Named,        \* those whose payload names the lock in its context
          Decoded,      \* those of a class job_payload_allowed_classes lists
          MaxForms,     \* bound: times the payload of each job changes
          MaxFailures   \* bound: callers that die, calls that throw

ASSUME PendingAssumption ==
    /\ Jobs \subseteq Nat
    /\ NoJob \notin Jobs
    /\ Batched \subseteq Jobs
    /\ UniqueJobs \subseteq Jobs
    /\ Named \subseteq UniqueJobs
    /\ Decoded \subseteq UniqueJobs
    /\ MaxForms \in [Jobs -> Nat]
    /\ MaxFailures \in Nat

VARIABLES
    ready,       \* payloads in the ready list
    delayed,     \* payloads in the delayed set
    running,     \* payloads workers are running
    unmarked,    \* those of them Horizon has not recorded as reserved yet
    record,      \* job -> status and payload form in its Horizon hash
    listed,      \* members of Horizon's pending_jobs
    uniqueLock,  \* the unique job the lock is held for
    everPushed,  \* history: jobs pushed so far
    everRun,     \* history: jobs a worker has taken
    cancelled,   \* history: jobs a cancellation has removed
    orphaned,    \* history: jobs ClearQueue has removed while they held the lock
    robbed,      \* history: jobs whose lock was released on account of another
    call,        \* caller -> the call it is running
    failures     \* deaths and errors so far

workerVars   == <<running, unmarked>>
queueJobVars == <<ready, delayed, workerVars>>
recordVars   == <<record, listed>>
lockVars     == <<uniqueLock, robbed>>
pendingHistory == <<everPushed, everRun, cancelled, orphaned>>
pendingVars  == <<queueJobVars, recordVars, lockVars, pendingHistory, call, failures>>

Payloads == Jobs \X Nat
Statuses == {"none", "pending", "reserved", "done"}
Records == [status : Statuses, form : Nat]
NoRecord == [status |-> "none", form |-> 0]

Scopes == {"ready", "delayed", "pending"}   \* PendingJobCancellationScope
Places == {"idle", "remove", "locks", "command", "forget", "move", "migrate", "rollback", "purge"}

Calls == [place : Places,
          job : Jobs \cup {NoJob},
          form : Nat,             \* the payload the call read
          scope : Scopes,
          dropped : SUBSET Jobs,  \* what its driver clear removed
          rest : SUBSET Jobs]     \* members its scan has still to return

Idle == [place |-> "idle", job |-> NoJob, form |-> 0, scope |-> "pending",
         dropped |-> {}, rest |-> {}]

-----------------------------------------------------------------------------
(* Helpers.                                                                *)

JobsOf(payloads) == {x[1] : x \in payloads}

\* The payload a call read, and the one it would put in its place.
Read(c) == <<call[c].job, call[c].form>>
Replacement(c) == <<call[c].job, call[c].form + 1>>

GoOn(c, place) == call' = [call EXCEPT ![c].place = place]

Finish(c) == call' = [call EXCEPT ![c] = Idle]

\* Something that goes wrong.
Failure == failures < MaxFailures /\ failures' = failures + 1

Remember(j, status, form) == record' = [record EXCEPT ![j] = [status |-> status, form |-> form]]

-----------------------------------------------------------------------------
PendingInit ==
    /\ ready = {} /\ delayed = {} /\ running = {} /\ unmarked = {}
    /\ record = [j \in Jobs |-> NoRecord]
    /\ listed = {}
    /\ uniqueLock = NoJob
    /\ everPushed = {} /\ everRun = {} /\ cancelled = {} /\ orphaned = {} /\ robbed = {}
    /\ call = [c \in Callers |-> Idle]
    /\ failures = 0

-----------------------------------------------------------------------------
(* CancelPendingJob.                                                       *)

\* getJobs.  A job that is not pending, or is in a batch, is refused: the call
\* returns and has changed nothing.
ReadPending(c, j, scope) ==
    /\ call[c].place = "idle"
    /\ record[j].status = "pending"
    /\ j \notin Batched
    /\ call' = [call EXCEPT ![c] = [Idle EXCEPT !.place = "remove", !.job = j,
                                        !.form = record[j].form, !.scope = scope]]
    /\ UNCHANGED <<queueJobVars, recordVars, lockVars, pendingHistory, failures>>

\* cleanUp is given the job, and neither the scope nor the queue.
CleanUp(c) == call' = [call EXCEPT ![c] = [Idle EXCEPT !.place = "locks", !.job = call[c].job]]

\* Mutant of RemoveFromQueue: what the script removed is not looked at.
RemoveAnyway(c) ==
    /\ call[c].place = "remove"
    /\ ready' = IF call[c].scope # "delayed" THEN ready \ {Read(c)} ELSE ready
    /\ delayed' = IF call[c].scope # "ready" THEN delayed \ {Read(c)} ELSE delayed
    /\ cancelled' = cancelled \cup {call[c].job}
    /\ CleanUp(c)
    /\ UNCHANGED <<workerVars, recordVars, lockVars, everPushed, everRun, orphaned, failures>>

\* removeFromQueue: LREM and ZREM of the payload it read, in one script.
RemoveFromQueue(c) ==
    /\ call[c].place = "remove"
    /\ ready' = IF call[c].scope # "delayed" THEN ready \ {Read(c)} ELSE ready
    /\ delayed' = IF call[c].scope # "ready" THEN delayed \ {Read(c)} ELSE delayed
    /\ IF <<ready', delayed'>> # <<ready, delayed>>
       THEN cancelled' = cancelled \cup {call[c].job} /\ CleanUp(c)
       ELSE UNCHANGED cancelled /\ Finish(c)
    /\ UNCHANGED <<workerVars, recordVars, lockVars, everPushed, everRun, orphaned, failures>>

\* forceRelease: the lock is free, whoever had it.
ForceRelease(j) ==
    /\ uniqueLock' = NoJob
    /\ robbed' = robbed \cup ({uniqueLock} \ {j, NoJob})

\* Mutant of ReleaseContextLock: the lock named in the payload's context is kept.
ReleaseNoLock(c) ==
    /\ call[c].place = "locks"
    /\ GoOn(c, "command")
    /\ UNCHANGED <<queueJobVars, recordVars, lockVars, pendingHistory, failures>>

\* ReleaseCancelledJobLocks releases the lock the payload's context names ...
ReleaseContextLock(c) ==
    /\ call[c].place = "locks"
    /\ \/ call[c].job \in Named /\ ForceRelease(call[c].job) /\ GoOn(c, "command") /\ UNCHANGED failures
       \/ call[c].job \notin Named /\ GoOn(c, "command") /\ UNCHANGED <<lockVars, failures>>
       \/ call[c].job \in Named /\ Failure /\ GoOn(c, "forget") /\ UNCHANGED lockVars
    /\ UNCHANGED <<queueJobVars, recordVars, pendingHistory>>

\* ... and then, whatever that did, that of the command, if its class may be
\* decoded.  An error of either is reported and swallowed.
ReleaseCommandLock(c) ==
    /\ call[c].place = "command"
    /\ \/ call[c].job \in Decoded /\ ForceRelease(call[c].job) /\ UNCHANGED failures
       \/ call[c].job \notin Decoded /\ UNCHANGED <<lockVars, failures>>
       \/ call[c].job \in Decoded /\ Failure /\ UNCHANGED lockVars
    /\ GoOn(c, "forget")
    /\ UNCHANGED <<queueJobVars, recordVars, pendingHistory>>

\* forgetPending deletes a record that is still pending; errors likewise.
ForgetPending(c) ==
    LET j == call[c].job
    IN /\ call[c].place = "forget"
       /\ \/ /\ record[j].status = "pending"
             /\ record' = [record EXCEPT ![j] = NoRecord]
             /\ listed' = listed \ {j}
             /\ UNCHANGED failures
          \/ record[j].status # "pending" /\ UNCHANGED <<recordVars, failures>>
          \/ Failure /\ UNCHANGED recordVars
       /\ Finish(c)
       /\ UNCHANGED <<queueJobVars, lockVars, pendingHistory>>

CancelStep(c) ==
    RemoveFromQueue(c) \/ ReleaseContextLock(c) \/ ReleaseCommandLock(c) \/ ForgetPending(c)

-----------------------------------------------------------------------------
(* ReleaseDelayedJobNow.                                                   *)

\* getJobs, and the replacement with its madeAvailableAt mark; refusals as above.
ReadDelayed(c, j) ==
    /\ call[c].place = "idle"
    /\ record[j].status = "pending"
    /\ record[j].form < MaxForms[j]
    /\ call' = [call EXCEPT ![c] = [Idle EXCEPT !.place = "move", !.job = j,
                                                !.form = record[j].form]]
    /\ UNCHANGED <<queueJobVars, recordVars, lockVars, pendingHistory, failures>>

\* Mutant of MoveToReady: the replacement is pushed whether or not the job
\* was still delayed.
MoveAnyway(c) ==
    /\ call[c].place = "move"
    /\ delayed' = delayed \ {Read(c)}
    /\ ready' = ready \cup {Replacement(c)}
    /\ GoOn(c, "migrate")
    /\ UNCHANGED <<workerVars, recordVars, lockVars, pendingHistory, failures>>

\* The script that moves the job to the ready list under its replacement.
MoveToReady(c) ==
    /\ call[c].place = "move"
    /\ IF Read(c) \in delayed
       THEN /\ delayed' = delayed \ {Read(c)}
            /\ ready' = ready \cup {Replacement(c)}
            /\ GoOn(c, "migrate")
       ELSE UNCHANGED <<ready, delayed>> /\ Finish(c)
    /\ UNCHANGED <<workerVars, recordVars, lockVars, pendingHistory, failures>>

\* Mutant of Migrated: Horizon's record keeps the payload it had.
MigrateNothing(c) ==
    /\ call[c].place = "migrate"
    /\ Finish(c)
    /\ UNCHANGED <<queueJobVars, recordVars, lockVars, pendingHistory, failures>>

\* JobRepository::migrated writes the payload into the job's hash, or throws,
\* before the hash is written or after.
Migrated(c) ==
    /\ call[c].place = "migrate"
    /\ \/ /\ Remember(call[c].job, "pending", call[c].form + 1)
          /\ Finish(c)
          /\ UNCHANGED failures
       \/ /\ Failure
          /\ GoOn(c, "rollback")
          /\ UNCHANGED record \/ Remember(call[c].job, "pending", call[c].form + 1)
    /\ UNCHANGED <<queueJobVars, listed, lockVars, pendingHistory>>

\* Mutant of Rollback: the job goes back without a look at the ready list.
RollbackAnyway(c) ==
    /\ call[c].place = "rollback"
    /\ ready' = ready \ {Replacement(c)}
    /\ delayed' = delayed \cup {Read(c)}
    /\ Finish(c)
    /\ UNCHANGED <<workerVars, recordVars, lockVars, pendingHistory, failures>>

\* The script that puts it back, unless a worker has taken it; its own errors
\* are swallowed.  The exception of migrated() goes on.
Rollback(c) ==
    /\ call[c].place = "rollback"
    /\ \/ /\ Replacement(c) \in ready
          /\ ready' = ready \ {Replacement(c)}
          /\ delayed' = delayed \cup {Read(c)}
          /\ UNCHANGED failures
       \/ Replacement(c) \notin ready /\ UNCHANGED <<ready, delayed, failures>>
       \/ Failure /\ UNCHANGED <<ready, delayed>>
    /\ Finish(c)
    /\ UNCHANGED <<workerVars, recordVars, lockVars, pendingHistory>>

ReleaseStep(c) == MoveToReady(c) \/ Migrated(c) \/ Rollback(c)

-----------------------------------------------------------------------------
(* ClearQueue.                                                             *)

\* The driver's clear empties the queue at once; the scan of pending_jobs
\* that follows will return every member that stays in it.
ClearDriver(c) ==
    LET dropped == JobsOf(ready \cup delayed)
    IN /\ call[c].place = "idle"
       /\ ready' = {} /\ delayed' = {}
       /\ orphaned' = orphaned \cup (dropped \cap {uniqueLock})
       /\ call' = [call EXCEPT ![c] = [Idle EXCEPT !.place = "purge", !.dropped = dropped,
                                                   !.rest = listed]]
       /\ UNCHANGED <<workerVars, recordVars, lockVars, everPushed, everRun, cancelled, failures>>

\* Records that are pending or reserved go with their members.
Purge(page) ==
    LET gone == {j \in page : record[j].status \in {"pending", "reserved"}}
    IN /\ record' = [j \in Jobs |-> IF j \in gone THEN NoRecord ELSE record[j]]
       /\ listed' = listed \ gone

\* Mutant of PurgePage: the scan is over after its first page.
PurgeOnePage(c) ==
    /\ call[c].place = "purge"
    /\ \E page \in SUBSET listed : Purge(page)
    /\ call' = [call EXCEPT ![c].rest = {}]
    /\ UNCHANGED <<queueJobVars, lockVars, pendingHistory, failures>>

\* One page of the scan: any members, those added meanwhile included.
PurgePage(c) ==
    /\ call[c].place = "purge"
    /\ \E page \in SUBSET listed :
        /\ page # {}
        /\ Purge(page)
        /\ call' = [call EXCEPT ![c].rest = @ \ page]
    /\ UNCHANGED <<queueJobVars, lockVars, pendingHistory, failures>>

\* The cursor is back at zero: what stayed in the set has been returned.
Purged(c) ==
    /\ call[c].place = "purge"
    /\ call[c].rest \cap listed = {}
    /\ Finish(c)
    /\ UNCHANGED <<queueJobVars, recordVars, lockVars, pendingHistory, failures>>

ClearStep(c) == PurgePage(c) \/ Purged(c)

\* The process dies, or a call it does not guard throws.  A death before the
\* call has changed anything is a call that was not made.
Die(c) ==
    /\ call[c].place \in {"locks", "command", "forget", "migrate", "rollback", "purge"}
    /\ Failure
    /\ Finish(c)
    /\ UNCHANGED <<queueJobVars, recordVars, lockVars, pendingHistory>>

-----------------------------------------------------------------------------
(* The application and Horizon's workers.                                  *)

\* A job is pushed and recorded; a unique one only if its lock is free.
Push(j) ==
    /\ j \notin everPushed
    /\ \A i \in Jobs \ everPushed : j <= i
    /\ everPushed' = everPushed \cup {j}
    /\ j \in UniqueJobs => uniqueLock = NoJob
    /\ uniqueLock' = IF j \in UniqueJobs THEN j ELSE uniqueLock
    /\ \/ ready' = ready \cup {<<j, 0>>} /\ UNCHANGED delayed
       \/ delayed' = delayed \cup {<<j, 0>>} /\ UNCHANGED ready
    /\ Remember(j, "pending", 0)
    /\ listed' = listed \cup {j}
    /\ UNCHANGED <<workerVars, robbed, everRun, cancelled, orphaned, call, failures>>

\* A delayed job is due: migrateExpiredJobs.
MigrateDue(j) ==
    /\ \E x \in delayed :
        /\ x[1] = j
        /\ delayed' = delayed \ {x}
        /\ ready' = ready \cup {x}
    /\ UNCHANGED <<workerVars, recordVars, lockVars, pendingHistory, call, failures>>

\* A worker pops a payload, which counts the attempt ...
Pop(j) ==
    /\ \E x \in ready :
        /\ x[1] = j
        /\ x[2] < MaxForms[j]
        /\ ready' = ready \ {x}
        /\ running' = running \cup {<<j, x[2] + 1>>}
        /\ unmarked' = unmarked \cup {<<j, x[2] + 1>>}
    /\ everRun' = everRun \cup {j}
    /\ UNCHANGED <<delayed, recordVars, lockVars, everPushed, cancelled, orphaned, call, failures>>

\* ... and Horizon records that.
MarkReserved(j) ==
    /\ \E x \in unmarked :
        /\ x[1] = j
        /\ unmarked' = unmarked \ {x}
        /\ Remember(j, "reserved", x[2])
    /\ UNCHANGED <<ready, delayed, running, listed, lockVars, pendingHistory, call, failures>>

\* The job ends, and with it its record's time in pending_jobs and its lock.
EndJob(j) ==
    /\ \E x \in running \ unmarked : x[1] = j /\ running' = running \ {x}
    /\ Remember(j, "done", 0)
    /\ listed' = listed \ {j}
    /\ IF j \in UniqueJobs THEN ForceRelease(j) ELSE UNCHANGED lockVars
    /\ UNCHANGED <<ready, delayed, unmarked, pendingHistory, call, failures>>

\* The job is released back for another attempt.
ReleaseBack(j) ==
    /\ \E x \in running \ unmarked :
        /\ x[1] = j
        /\ running' = running \ {x}
        /\ delayed' = delayed \cup {x}
        /\ Remember(j, "pending", x[2])
    /\ UNCHANGED <<ready, unmarked, listed, lockVars, pendingHistory, call, failures>>

WorkerStep ==
    \E j \in Jobs :
        \/ Push(j)
        \/ MigrateDue(j)
        \/ Pop(j)
        \/ MarkReserved(j)
        \/ EndJob(j)
        \/ ReleaseBack(j)

-----------------------------------------------------------------------------
CallerStep(c) == CancelStep(c) \/ ReleaseStep(c) \/ ClearStep(c) \/ Die(c)

PendingNext ==
    \/ \E c \in Callers, j \in Jobs, scope \in Scopes : ReadPending(c, j, scope)
    \/ \E c \in Callers, j \in Jobs : ReadDelayed(c, j)
    \/ \E c \in Callers : ClearDriver(c) \/ CallerStep(c)
    \/ WorkerStep

PendingSpec == PendingInit /\ [][PendingNext]_pendingVars

-----------------------------------------------------------------------------
(* Properties.                                                             *)

\* The state has the types the code gives it, and a call that is over has
\* left nothing behind in its process.
PendingTypeOK ==
    /\ ready \subseteq Payloads
    /\ delayed \subseteq Payloads
    /\ running \subseteq Payloads
    /\ unmarked \subseteq running
    /\ record \in [Jobs -> Records]
    /\ listed \subseteq Jobs
    /\ uniqueLock \in UniqueJobs \cup {NoJob}
    /\ everPushed \subseteq Jobs
    /\ everRun \subseteq Jobs
    /\ cancelled \subseteq Jobs
    /\ orphaned \subseteq Jobs
    /\ robbed \subseteq UniqueJobs
    /\ call \in [Callers -> Calls]
    /\ \A c \in Callers : call[c].place = "idle" => call[c] = Idle
    /\ failures \in Nat

\* Payloads the queue or a worker has, and their jobs.
Live == ready \cup delayed \cup running
Active == JobsOf(Live)

\* Whatever is released, put back, cancelled or cleared while workers take
\* jobs, no job is ever in the queue or with a worker twice.
NoJobIsDuplicated ==
    /\ ready \cap delayed = {} /\ ready \cap running = {} /\ delayed \cap running = {}
    /\ \A x, y \in Live : x[1] = y[1] => x = y

\* A job that was reported as cancelled is gone: no release in flight, no
\* rollback and no worker brings it back or runs it.
CancelledJobsStayCancelled == cancelled \cap Active = {}

\* Jobs whose cancellation releases the lock twice.
ReleasedTwice == Named \cap Decoded

\* Two unique jobs are active at once only if the lock of one of them has been
\* released on account of another job, and that takes a cancellation that has
\* released it twice: a lock released from the context, or from the command,
\* alone is always the cancelled job's own ...
UniqueJobsStayUnique ==
    /\ \A i, j \in (UniqueJobs \cap Active) \ robbed : i = j
    /\ robbed # {} => cancelled \cap ReleasedTwice # {}

\* A caller is about to release the lock of job j.
ReleasesLock(c, j) ==
    /\ call[c].job = j
    /\ call[c].place = "locks" \/ (call[c].place = "command" /\ j \in Decoded)

\* ... and as long as nothing fails, the lock does not outlive its job: an
\* active job holds it, or a cancellation is about to release it.  The jobs of
\* a cleared queue are the exception, nobody releases their locks, and so are
\* cancelled ones whose lock neither their context nor their command tells.
LocksAreNotStranded ==
    uniqueLock # NoJob /\ failures = 0 =>
        \/ uniqueLock \in Active \cup orphaned
        \/ uniqueLock \notin Named \cup Decoded
        \/ \E c \in Callers : ReleasesLock(c, uniqueLock)

\* Horizon's record and the queue agree on the payload of a job no worker has
\* taken yet, so that it can be cancelled or released: unless something failed,
\* a release is under way, or clearing the queue took the record away.
QueuedJobsCanBeCancelled ==
    \A x \in ready \cup delayed :
        \/ failures > 0
        \/ x[1] \in everRun
        \/ record[x[1]] \in {NoRecord, [status |-> "pending", form |-> x[2]]}
        \/ \E c \in Callers : call[c].place = "migrate" /\ call[c].job = x[1]

\* Clearing a queue leaves no job it removed among the pending jobs, although
\* the set changes under the scan.
ClearedJobsAreUnlisted ==
    [][\A c \in Callers : call[c].place = "purge" /\ Finish(c) /\ UNCHANGED failures =>
        call[c].dropped \cap listed = {}]_pendingVars

-----------------------------------------------------------------------------
(* Why they hold: the inductive invariant.                                 *)

\* What a call has established about its job: whoever is about to release a
\* lock has cancelled its job, alone, and as long as no lock has been released
\* twice, the lock is still that job's.
CallInv(c) ==
    /\ call[c].place \notin {"idle", "purge"} => call[c].job \in Jobs
    /\ call[c].place \in {"locks", "command"} =>
        /\ call[c].job \in cancelled
        /\ \A d \in Callers :
            call[d].place \in {"locks", "command"} /\ call[d].job = call[c].job => d = c
    /\ ReleasesLock(c, call[c].job) /\ call[c].job \in UniqueJobs
       /\ cancelled \cap ReleasedTwice = {} => uniqueLock = call[c].job

\* A unique job that is active holds the lock, unless it was robbed of it.
LockInv == \A j \in (UniqueJobs \cap Active) \ robbed : uniqueLock = j

\* The inductive invariant of the queue: every job is in one place, cancelled
\* ones in none, and the unique-job lock belongs to an active job or to one
\* whose cancellation is releasing it, but for what a second release does.
PendingInvariant ==
    /\ PendingTypeOK
    /\ NoJobIsDuplicated
    /\ CancelledJobsStayCancelled
    /\ Active \cup cancelled \subseteq everPushed
    /\ LockInv
    /\ robbed # {} => cancelled \cap ReleasedTwice # {}
    /\ LocksAreNotStranded
    /\ \A c \in Callers : CallInv(c)

\* What a call has established about Horizon's records.  A release under way
\* has moved a job from the delayed set, and only a failure makes it roll back;
\* a clearing scan has still to return the members its driver clear removed.
RecordCallInv(c) ==
    /\ call[c].place = "rollback" => failures > 0
    /\ call[c].place = "migrate" => call[c].job \in everPushed
    /\ call[c].place = "purge" =>
        /\ call[c].dropped \subseteq everPushed
        /\ call[c].dropped \cap listed \subseteq call[c].rest

\* The payload of a job no worker has taken changes once, when the release of
\* a delayed job moves it to the ready list: a delayed one is as it was pushed,
\* and while the release is under way the ready one is the replacement.
FormInv ==
    failures = 0 =>
        /\ \A x \in delayed : x[1] \notin everRun => x[2] = 0
        /\ \A c \in Callers : call[c].place = "migrate" /\ call[c].job \notin everRun =>
            /\ call[c].form = 0
            /\ \A x \in delayed : x[1] # call[c].job
            /\ \A x \in ready : x[1] = call[c].job => x[2] = 1

\* The inductive invariant of the records, on top of that of the queue.
RecordInvariant ==
    /\ \A x \in running : x[1] \in everRun
    /\ \A j \in listed : record[j].status \in {"pending", "reserved"}
    /\ \A c \in Callers : RecordCallInv(c)
    /\ FormInv
    /\ QueuedJobsCanBeCancelled

-----------------------------------------------------------------------------
(* The promise this implements.                                            *)

\* The jobs that wait in the queue, and those with a worker.
Waiting == JobsOf(ready \cup delayed)
Taken == JobsOf(running)

Lifecycle == INSTANCE JobLifecycle WITH
    waiting <- Waiting,
    taken   <- Taken,
    over    <- everPushed \ (Waiting \cup Taken \cup cancelled)

\* Cancelling, releasing and clearing take several round trips each, and meet
\* jobs that have moved meanwhile: whatever they do, a job's life has the events
\* and the order of JobLifecycle.  None is cancelled or cleared while a worker
\* has it, cancelled for one caller and run for another, or there twice, and
\* unique ones come one at a time until a cancellation has released a lock twice.
ImplementsJobLifecycle == Lifecycle!Spec
=============================================================================
