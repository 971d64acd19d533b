-------------------------- MODULE PendingJobs_proofs --------------------------
(***************************************************************************)
(* PendingInvariant is inductive, and what follows from it: whatever is    *)
(* released, put back, cancelled or cleared while workers take jobs, jobs  *)
(* are not duplicated, cancelled jobs stay away, and the unique-job lock   *)
(* does what it is for.  RecordInvariant is inductive on top of it: the    *)
(* record of a queued job names its payload, so that the job can be        *)
(* cancelled, and a clear leaves nothing it removed among the pending.     *)
(***************************************************************************)
EXTENDS PendingJobs, TLAPS

\* The step of a call or of the rest of the system, one action at a time.
CallerAction(c) ==
    \/ \E j \in Jobs, scope \in Scopes : ReadPending(c, j, scope)
    \/ \E j \in Jobs : ReadDelayed(c, j)
    \/ ClearDriver(c)
    \/ CallerStep(c)

\* The initial state: nothing has been pushed and nobody does anything.
LEMMA PendingInitInvariant == PendingInit => PendingInvariant
  <1> SUFFICES ASSUME PendingInit PROVE PendingInvariant
    OBVIOUS
  <1> USE PendingAssumption DEF PendingInit
  <1>1. PendingTypeOK
    BY DEF PendingTypeOK, Payloads, Records, NoRecord, Statuses, Calls, Idle,
           Places, Scopes
  <1>2. NoJobIsDuplicated /\ CancelledJobsStayCancelled /\ LocksAreNotStranded
    BY DEF NoJobIsDuplicated, CancelledJobsStayCancelled, LocksAreNotStranded, Active, Live,
           JobsOf
  <1>3. LockInv /\ robbed = {} /\ Active \cup cancelled \subseteq everPushed
    BY DEF LockInv, Active, Live, JobsOf
  <1>4. \A c \in Callers : CallInv(c)
    BY DEF CallInv, ReleasesLock, Idle
  <1> QED BY <1>1, <1>2, <1>3, <1>4 DEF PendingInvariant

\* A payload is a job and a form.
LEMMA PayloadsAre ==
  ASSUME PendingTypeOK
  PROVE  /\ \A x \in Live : x = <<x[1], x[2]>> /\ x[1] \in Jobs /\ x[2] \in Nat
         /\ Active \subseteq Jobs
  BY DEF PendingTypeOK, Payloads, Active, Live, JobsOf

\* The part of the types that is about calls.
CallsOK ==
    /\ call \in [Callers -> Calls]
    /\ \A c \in Callers : call[c].place = "idle" => call[c] = Idle

\* A call that becomes a call, and is idle only when it is over.
LEMMA CallBecomes ==
  ASSUME CallsOK, NEW c \in Callers, NEW r \in Calls, r.place = "idle" => r = Idle,
         call' = [call EXCEPT ![c] = r]
  PROVE  CallsOK' /\ call'[c] = r /\ \A d \in Callers \ {c} : call'[d] = call[d]
  BY DEF CallsOK

\* A call ends.
LEMMA FinishTypes ==
  ASSUME CallsOK, NEW c \in Callers, Finish(c)
  PROVE  CallsOK' /\ call'[c] = Idle /\ \A d \in Callers \ {c} : call'[d] = call[d]
  <1>1. Idle \in Calls
    BY PendingAssumption DEF Idle, Calls, Places, Scopes
  <1> QED BY <1>1, CallBecomes DEF Finish

\* A call goes on, with the job it is about.
LEMMA GoOnTypes ==
  ASSUME CallsOK, NEW c \in Callers, NEW place \in Places \ {"idle"}, GoOn(c, place)
  PROVE  /\ CallsOK' /\ call'[c].place = place /\ call'[c].job = call[c].job
         /\ \A d \in Callers \ {c} : call'[d] = call[d]
  <1> DEFINE r == [call[c] EXCEPT !.place = place]
  <1>1. r \in Calls /\ r.place = place /\ r.job = call[c].job
    BY DEF CallsOK, Calls
  <1>2. call' = [call EXCEPT ![c] = r]
    BY DEF GoOn
  <1> HIDE DEF r
  <1> QED BY <1>1, <1>2, CallBecomes

\* A cancellation starts its clean-up.
LEMMA CleanUpTypes ==
  ASSUME CallsOK, NEW c \in Callers, call[c].job \in Jobs, CleanUp(c)
  PROVE  /\ CallsOK' /\ call'[c].place = "locks" /\ call'[c].job = call[c].job
         /\ \A d \in Callers \ {c} : call'[d] = call[d]
  <1> DEFINE r == [Idle EXCEPT !.place = "locks", !.job = call[c].job]
  <1>1. r \in Calls /\ r.place = "locks" /\ r.job = call[c].job
    BY DEF Idle, Calls, Places, Scopes
  <1>2. call' = [call EXCEPT ![c] = r]
    BY DEF CleanUp
  <1> HIDE DEF r
  <1> QED BY <1>1, <1>2, CallBecomes

-----------------------------------------------------------------------------
(* Types.                                                                  *)

\* The types, seen as those of the calls and the rest.
LEMMA TypesSplit ==
  ASSUME PendingTypeOK
  PROVE  /\ CallsOK
         /\ \A c \in Callers : call[c].form \in Nat /\ call[c].job \in Jobs \cup {NoJob}
         /\ \A j \in Jobs : record[j] \in Records /\ record[j].form \in Nat
  BY DEF PendingTypeOK, CallsOK, Calls, Records

\* What a cancellation does keeps the types.
LEMMA CancelTypeStep ==
  ASSUME PendingInvariant, NEW c \in Callers, CancelStep(c)
  PROVE  PendingTypeOK'
  <1> USE PendingAssumption DEF queueJobVars, workerVars, recordVars, lockVars, pendingHistory
  <1>0. PendingTypeOK /\ CallInv(c)
    BY DEF PendingInvariant
  <1>1. CASE RemoveFromQueue(c)
    <2>1. call[c].job \in Jobs
      BY <1>0, <1>1 DEF RemoveFromQueue, CallInv
    <2>2. CallsOK'
      <3>1. CASE CleanUp(c)
        BY <3>1, <2>1, <1>0, TypesSplit, CleanUpTypes
      <3>2. CASE Finish(c)
        BY <3>2, <1>0, TypesSplit, FinishTypes
      <3> QED BY <3>1, <3>2, <1>1 DEF RemoveFromQueue
    <2>3. ready' \subseteq ready /\ delayed' \subseteq delayed /\ cancelled' \subseteq Jobs
      BY <1>0, <1>1, <2>1 DEF RemoveFromQueue, PendingTypeOK
    <2> QED BY <1>0, <1>1, <2>2, <2>3 DEF RemoveFromQueue, PendingTypeOK, CallsOK
  <1>2. CASE ReleaseContextLock(c) \/ ReleaseCommandLock(c)
    <2>1. CallsOK'
      BY <1>0, <1>2, TypesSplit, GoOnTypes DEF ReleaseContextLock, ReleaseCommandLock, Places
    <2>2. uniqueLock' \in UniqueJobs \cup {NoJob} /\ robbed' \subseteq UniqueJobs
      <3>1. UNCHANGED lockVars \/ ForceRelease(call[c].job)
        BY <1>2 DEF ReleaseContextLock, ReleaseCommandLock
      <3> QED BY <1>0, <3>1 DEF ForceRelease, PendingTypeOK
    <2>3. failures' \in Nat
      BY <1>0, <1>2 DEF ReleaseContextLock, ReleaseCommandLock, Failure, PendingTypeOK
    <2>4. UNCHANGED <<ready, delayed, running, unmarked, record, listed, everPushed, everRun,
                      cancelled, orphaned>>
      BY <1>2 DEF ReleaseContextLock, ReleaseCommandLock
    <2> QED BY <1>0, <2>1, <2>2, <2>3, <2>4 DEF PendingTypeOK, CallsOK
  <1>3. CASE ForgetPending(c)
    <2>1. CallsOK'
      BY <1>0, <1>3, TypesSplit, FinishTypes DEF ForgetPending
    <2>2. NoRecord \in Records
      BY DEF NoRecord, Records, Statuses
    <2>3. /\ record' = record \/ record' = [record EXCEPT ![call[c].job] = NoRecord]
          /\ listed' \subseteq listed
      BY <1>3 DEF ForgetPending
    <2>4. failures' \in Nat
      BY <1>0, <1>3 DEF ForgetPending, Failure, PendingTypeOK
    <2>5. record' \in [Jobs -> Records] /\ listed' \subseteq Jobs
      BY <1>0, <2>2, <2>3 DEF PendingTypeOK
    <2> QED BY <1>0, <1>3, <2>1, <2>4, <2>5 DEF ForgetPending, PendingTypeOK, CallsOK
  <1> QED BY <1>1, <1>2, <1>3 DEF CancelStep

\* What the release of a delayed job does keeps the types.
LEMMA ReleaseTypeStep ==
  ASSUME PendingInvariant, NEW c \in Callers, ReleaseStep(c)
  PROVE  PendingTypeOK'
  <1> USE PendingAssumption DEF queueJobVars, workerVars, recordVars, lockVars, pendingHistory
  <1>0. PendingTypeOK /\ CallInv(c)
    BY DEF PendingInvariant
  <1>1. call[c].place \in {"move", "migrate", "rollback"}
    BY DEF ReleaseStep, MoveToReady, Migrated, Rollback
  <1>2. Read(c) \in Payloads /\ Replacement(c) \in Payloads
    BY <1>0, <1>1, TypesSplit DEF CallInv, Read, Replacement, Payloads
  <1>3. CASE MoveToReady(c)
    <2>1. CallsOK'
      BY <1>0, <1>3, TypesSplit, GoOnTypes, FinishTypes DEF MoveToReady, Places
    <2>2. ready' \subseteq Payloads /\ delayed' \subseteq Payloads
      BY <1>0, <1>2, <1>3 DEF MoveToReady, PendingTypeOK
    <2> QED BY <1>0, <1>3, <2>1, <2>2 DEF MoveToReady, PendingTypeOK, CallsOK
  <1>4. CASE Migrated(c)
    <2>1. CallsOK'
      BY <1>0, <1>4, TypesSplit, GoOnTypes, FinishTypes DEF Migrated, Places
    <2>2. [status |-> "pending", form |-> call[c].form + 1] \in Records
      BY <1>0, TypesSplit DEF Records, Statuses
    <2>3. record' \in [Jobs -> Records] /\ failures' \in Nat
      BY <1>0, <1>4, <2>2 DEF Migrated, Remember, Failure, PendingTypeOK
    <2> QED BY <1>0, <1>4, <2>1, <2>3 DEF Migrated, PendingTypeOK, CallsOK
  <1>5. CASE Rollback(c)
    <2>1. CallsOK'
      BY <1>0, <1>5, TypesSplit, FinishTypes DEF Rollback
    <2>2. ready' \subseteq Payloads /\ delayed' \subseteq Payloads /\ failures' \in Nat
      BY <1>0, <1>2, <1>5 DEF Rollback, Failure, PendingTypeOK
    <2> QED BY <1>0, <1>5, <2>1, <2>2 DEF Rollback, PendingTypeOK, CallsOK
  <1> QED BY <1>3, <1>4, <1>5 DEF ReleaseStep
\* The start of a call, clearing a queue, and deaths keep the types.
LEMMA OtherCallTypeStep ==
  ASSUME PendingInvariant, NEW c \in Callers,
         \/ \E j \in Jobs, scope \in Scopes : ReadPending(c, j, scope)
         \/ \E j \in Jobs : ReadDelayed(c, j)
         \/ ClearDriver(c) \/ ClearStep(c) \/ Die(c)
  PROVE  PendingTypeOK'
  <1> USE PendingAssumption DEF queueJobVars, workerVars, recordVars, lockVars, pendingHistory
  <1>0. PendingTypeOK /\ CallsOK
    BY TypesSplit DEF PendingInvariant
  <1>1. ASSUME NEW j \in Jobs, NEW scope \in Scopes, ReadPending(c, j, scope) PROVE PendingTypeOK'
    <2> DEFINE r == [Idle EXCEPT !.place = "remove", !.job = j, !.form = record[j].form,
                                 !.scope = scope]
    <2>1. r \in Calls /\ r.place = "remove"
      BY <1>0, TypesSplit DEF Idle, Calls, Places, Scopes
    <2>2. call' = [call EXCEPT ![c] = r]
      BY <1>1 DEF ReadPending
    <2> HIDE DEF r
    <2>3. CallsOK'
      BY <1>0, <2>1, <2>2, CallBecomes
    <2> QED BY <1>0, <1>1, <2>3 DEF ReadPending, PendingTypeOK, CallsOK
  <1>2. ASSUME NEW j \in Jobs, ReadDelayed(c, j) PROVE PendingTypeOK'
    <2> DEFINE r == [Idle EXCEPT !.place = "move", !.job = j, !.form = record[j].form]
    <2>1. r \in Calls /\ r.place = "move"
      BY <1>0, TypesSplit DEF Idle, Calls, Places, Scopes
    <2>2. call' = [call EXCEPT ![c] = r]
      BY <1>2 DEF ReadDelayed
    <2> HIDE DEF r
    <2>3. CallsOK'
      BY <1>0, <2>1, <2>2, CallBecomes
    <2> QED BY <1>0, <1>2, <2>3 DEF ReadDelayed, PendingTypeOK, CallsOK
  <1>3. CASE ClearDriver(c)
    <2> DEFINE dropped == JobsOf(ready \cup delayed)
               r == [Idle EXCEPT !.place = "purge", !.dropped = dropped, !.rest = listed]
    <2>1. dropped \subseteq Jobs
      BY <1>0 DEF JobsOf, PendingTypeOK, Payloads
    <2>2. call' = [call EXCEPT ![c] = r] /\ orphaned' = orphaned \cup (dropped \cap {uniqueLock})
      BY <1>3 DEF ClearDriver
    <2>3. orphaned' \subseteq Jobs
      BY <1>0, <2>1, <2>2 DEF PendingTypeOK
    <2> HIDE DEF dropped
    <2>4. r \in Calls /\ r.place = "purge"
      BY <1>0, <2>1 DEF Idle, Calls, Places, Scopes, PendingTypeOK
    <2> HIDE DEF r
    <2>5. CallsOK'
      BY <1>0, <2>2, <2>4, CallBecomes
    <2> QED BY <1>0, <1>3, <2>3, <2>5 DEF ClearDriver, PendingTypeOK, CallsOK
  <1>4. CASE PurgePage(c)
    <2>1. PICK page \in SUBSET listed : Purge(page) /\ call' = [call EXCEPT ![c].rest = @ \ page]
      BY <1>4 DEF PurgePage
    <2> DEFINE r == [call[c] EXCEPT !.rest = @ \ page]
    <2>2. r \in Calls /\ r.place = "purge"
      BY <1>0, <1>4 DEF CallsOK, Calls, PurgePage
    <2>3. call' = [call EXCEPT ![c] = r]
      BY <2>1
    <2> HIDE DEF r
    <2>4. CallsOK'
      BY <1>0, <2>2, <2>3, CallBecomes
    <2>5. NoRecord \in Records
      BY DEF NoRecord, Records, Statuses
    <2>6. record' \in [Jobs -> Records] /\ listed' \subseteq Jobs
      BY <1>0, <2>1, <2>5 DEF Purge, PendingTypeOK
    <2> QED BY <1>0, <1>4, <2>4, <2>6 DEF PurgePage, PendingTypeOK, CallsOK
  <1>5. CASE Purged(c)
    <2>1. CallsOK'
      BY <1>0, <1>5, FinishTypes DEF Purged
    <2> QED BY <1>0, <1>5, <2>1 DEF Purged, PendingTypeOK, CallsOK
  <1>6. CASE Die(c)
    <2>1. CallsOK'
      BY <1>0, <1>6, FinishTypes DEF Die
    <2> QED BY <1>0, <1>6, <2>1 DEF Die, Failure, PendingTypeOK, CallsOK
  <1> QED BY <1>1, <1>2, <1>3, <1>4, <1>5, <1>6 DEF ClearStep

\* What the application and the workers do keeps the types.
LEMMA WorkerTypeStep ==
  ASSUME PendingInvariant, NEW j \in Jobs,
         Push(j) \/ MigrateDue(j) \/ Pop(j) \/ MarkReserved(j) \/ EndJob(j) \/ ReleaseBack(j)
  PROVE  PendingTypeOK'
  <1> USE PendingAssumption DEF queueJobVars, workerVars, recordVars, lockVars, pendingHistory
  <1>0. PendingTypeOK
    BY DEF PendingInvariant
  <1>1. \A status \in Statuses, form \in Nat :
            Remember(j, status, form) => record' \in [Jobs -> Records]
    BY <1>0 DEF Remember, Records, PendingTypeOK
  <1>2. CASE Push(j)
    <2>1. <<j, 0>> \in Payloads
      BY DEF Payloads
    <2>2. record' \in [Jobs -> Records]
      BY <1>1, <1>2 DEF Push, Statuses
    <2> QED BY <1>0, <1>2, <2>1, <2>2 DEF Push, PendingTypeOK
  <1>3. CASE MigrateDue(j)
    BY <1>0, <1>3 DEF MigrateDue, PendingTypeOK
  <1>4. CASE Pop(j)
    <2>1. PICK x \in ready : /\ ready' = ready \ {x}
                             /\ running' = running \cup {<<j, x[2] + 1>>}
                             /\ unmarked' = unmarked \cup {<<j, x[2] + 1>>}
      BY <1>4 DEF Pop
    <2>2. <<j, x[2] + 1>> \in Payloads
      BY <1>0 DEF PendingTypeOK, Payloads
    <2> QED BY <1>0, <1>4, <2>1, <2>2 DEF Pop, PendingTypeOK
  <1>5. CASE MarkReserved(j)
    <2>1. PICK x \in unmarked : unmarked' = unmarked \ {x} /\ Remember(j, "reserved", x[2])
      BY <1>5 DEF MarkReserved
    <2>2. x[2] \in Nat
      BY <1>0 DEF PendingTypeOK, Payloads
    <2>3. record' \in [Jobs -> Records]
      BY <1>1, <2>1, <2>2 DEF Statuses
    <2> QED BY <1>0, <1>5, <2>1, <2>3 DEF MarkReserved, PendingTypeOK
  <1>6. CASE EndJob(j)
    <2>1. record' \in [Jobs -> Records]
      BY <1>1, <1>6 DEF EndJob, Statuses
    <2>2. uniqueLock' \in UniqueJobs \cup {NoJob} /\ robbed' \subseteq UniqueJobs
      BY <1>0, <1>6 DEF EndJob, ForceRelease, PendingTypeOK
    <2> QED BY <1>0, <1>6, <2>1, <2>2 DEF EndJob, PendingTypeOK
  <1>7. CASE ReleaseBack(j)
    <2>1. PICK x \in running \ unmarked : /\ running' = running \ {x}
                                         /\ delayed' = delayed \cup {x}
                                         /\ Remember(j, "pending", x[2])
      BY <1>7 DEF ReleaseBack
    <2>2. x \in Payloads /\ x[2] \in Nat
      BY <1>0 DEF PendingTypeOK, Payloads
    <2>3. record' \in [Jobs -> Records]
      BY <1>1, <2>1, <2>2 DEF Statuses
    <2> QED BY <1>0, <1>7, <2>1, <2>2, <2>3 DEF ReleaseBack, PendingTypeOK
  <1> QED BY <1>2, <1>3, <1>4, <1>5, <1>6, <1>7

-----------------------------------------------------------------------------
(* Places: every job is in at most one.                                    *)

\* The places of the jobs, in one formula.
PlacesInv ==
    /\ NoJobIsDuplicated
    /\ CancelledJobsStayCancelled
    /\ Active \cup cancelled \subseteq everPushed

\* A payload that takes the place of another of its job, wherever they are,
\* duplicates nothing.
LEMMA OneMoves ==
  ASSUME PendingTypeOK, PlacesInv, NEW x \in Live, NEW y \in Payloads, y[1] = x[1],
         UNCHANGED <<cancelled, everPushed>>,
         \/ /\ x \in ready
            /\ ready' = ready \ {x} /\ delayed' = delayed \cup {y} /\ running' = running
         \/ /\ x \in delayed
            /\ ready' = ready \cup {y} /\ delayed' = delayed \ {x} /\ running' = running
         \/ /\ x \in ready
            /\ ready' = ready \ {x} /\ delayed' = delayed /\ running' = running \cup {y}
         \/ /\ x \in running
            /\ ready' = ready /\ delayed' = delayed \cup {y} /\ running' = running \ {x}
  PROVE  PlacesInv' /\ Active' = Active
  <1>1. /\ ready \cap delayed = {} /\ ready \cap running = {} /\ delayed \cap running = {}
        /\ \A z \in Live \ {x} : z[1] # x[1]
    BY DEF PlacesInv, NoJobIsDuplicated
  <1>2. Live' = (Live \ {x}) \cup {y}
    BY <1>1 DEF Live
  <1>3. Active' = Active
    BY <1>2 DEF Active, JobsOf
  <1>4. y \notin Live \ {x}
    BY <1>1
  <1>5. /\ ready' \cap delayed' = {} /\ ready' \cap running' = {}
        /\ delayed' \cap running' = {}
    BY <1>1, <1>4 DEF Live
  <1>6. \A v, w \in Live' : v[1] = w[1] => v = w
    BY <1>1, <1>2 DEF PlacesInv, NoJobIsDuplicated
  <1>7. NoJobIsDuplicated'
    BY <1>5, <1>6 DEF NoJobIsDuplicated
  <1> QED BY <1>3, <1>7 DEF PlacesInv, CancelledJobsStayCancelled

\* Payloads that leave duplicate nothing.
LEMMA SomeLeave ==
  ASSUME PlacesInv, ready' \subseteq ready, delayed' \subseteq delayed, running' \subseteq running,
         UNCHANGED everPushed, cancelled' \subseteq everPushed, cancelled' \cap Active' = {}
  PROVE  PlacesInv' /\ Active' \subseteq Active
  <1>1. Live' \subseteq Live
    BY DEF Live
  <1>2. Active' \subseteq Active
    BY <1>1 DEF Active, JobsOf
  <1>3. NoJobIsDuplicated'
    BY <1>1 DEF NoJobIsDuplicated, PlacesInv
  <1> QED BY <1>2, <1>3 DEF PlacesInv, CancelledJobsStayCancelled

\* Jobs are moved, removed and taken without being duplicated or brought back.
\* A job that is active no more was cancelled, or cleared, which marks the
\* holder of the unique-job lock.
LEMMA CallerPlacesStep ==
  ASSUME PendingInvariant, NEW c \in Callers, CallerAction(c)
  PROVE  /\ PlacesInv' /\ Active' \subseteq Active
         /\ \A k \in Active \ Active' :
                \/ CleanUp(c) /\ call[c].place = "remove" /\ k = call[c].job
                \/ k = uniqueLock => k \in orphaned'
  <1> USE DEF queueJobVars, workerVars, recordVars, lockVars, pendingHistory
  <1>0. PendingTypeOK /\ CallInv(c) /\ PlacesInv
    BY DEF PendingInvariant, PlacesInv
  <1>1. CASE RemoveFromQueue(c)
    <2>1. Active \subseteq everPushed /\ cancelled \cap Active = {} /\ cancelled \subseteq everPushed
      BY <1>0 DEF PlacesInv, CancelledJobsStayCancelled
    <2>2. ready' \subseteq ready /\ delayed' \subseteq delayed /\ running' = running
      BY <1>1 DEF RemoveFromQueue
    <2>3. CASE cancelled' = cancelled /\ UNCHANGED <<ready, delayed>>
      BY <1>0, <2>2, <2>3, <1>1 DEF RemoveFromQueue, PlacesInv, NoJobIsDuplicated,
            CancelledJobsStayCancelled, Active, Live, JobsOf
    <2>4. CASE /\ cancelled' = cancelled \cup {call[c].job} /\ CleanUp(c)
              /\ <<ready', delayed'>> # <<ready, delayed>>
      <3>1. Read(c) \in Live /\ Read(c)[1] = call[c].job
        BY <1>1, <2>4 DEF RemoveFromQueue, Live, Read
      <3>2. Live' = Live \ {Read(c)}
        BY <1>0, <1>1, <2>4 DEF RemoveFromQueue, Live, PlacesInv, NoJobIsDuplicated
      <3>3. \A z \in Live' : z[1] # call[c].job
        BY <1>0, <3>1, <3>2 DEF PlacesInv, NoJobIsDuplicated
      <3>4. Active' = Active \ {call[c].job} /\ call[c].job \in Active
        BY <3>1, <3>2, <3>3 DEF Active, JobsOf
      <3>5. PlacesInv'
        BY <1>0, <1>1, <2>1, <2>2, <2>4, <3>4, SomeLeave DEF RemoveFromQueue
      <3> QED BY <1>1, <2>4, <3>4, <3>5 DEF RemoveFromQueue
    <2> QED BY <1>1, <2>3, <2>4 DEF RemoveFromQueue
  <1>2. CASE MoveToReady(c)
    <2>1. CASE Read(c) \in delayed
      <3>1. Replacement(c) \in Payloads /\ Replacement(c)[1] = Read(c)[1] /\ Read(c) \in Live
        BY <1>0, <1>2, <2>1, TypesSplit DEF MoveToReady, Replacement, Read, Payloads, CallInv, Live
      <3> QED BY <1>0, <1>2, <2>1, <3>1, OneMoves DEF MoveToReady
    <2>2. CASE Read(c) \notin delayed
      BY <1>0, <1>2, <2>2 DEF MoveToReady, PlacesInv, NoJobIsDuplicated, CancelledJobsStayCancelled,
            Active, Live, JobsOf
    <2> QED BY <2>1, <2>2
  <1>3. CASE Rollback(c)
    <2>1. CASE Replacement(c) \in ready /\ ready' = ready \ {Replacement(c)} /\ delayed' = delayed \cup {Read(c)}
      <3>1. Read(c) \in Payloads /\ Replacement(c)[1] = Read(c)[1] /\ Replacement(c) \in Live
        BY <1>0, <1>3, <2>1, TypesSplit DEF Rollback, Replacement, Read, Payloads, CallInv, Live
      <3> QED BY <1>0, <1>3, <2>1, <3>1, OneMoves DEF Rollback
    <2>2. CASE UNCHANGED <<ready, delayed>>
      BY <1>0, <1>3, <2>2 DEF Rollback, PlacesInv, NoJobIsDuplicated, CancelledJobsStayCancelled,
            Active, Live, JobsOf
    <2> QED BY <1>3, <2>1, <2>2 DEF Rollback
  <1>4. CASE ClearDriver(c)
    <2>1. ready' = {} /\ delayed' = {} /\ running' = running /\ UNCHANGED <<cancelled, everPushed>>
      BY <1>4 DEF ClearDriver
    <2>2. Active' \subseteq Active /\ Active \ Active' \subseteq JobsOf(ready \cup delayed)
      BY <2>1 DEF Active, Live, JobsOf
    <2>3. PlacesInv'
      BY <1>0, <2>1, <2>2, SomeLeave DEF PlacesInv, CancelledJobsStayCancelled
    <2>4. orphaned' = orphaned \cup (JobsOf(ready \cup delayed) \cap {uniqueLock})
      BY <1>4 DEF ClearDriver
    <2> QED BY <2>2, <2>3, <2>4
  <1>5. CASE UNCHANGED <<ready, delayed, running, cancelled, everPushed>>
    BY <1>0, <1>5 DEF PlacesInv, NoJobIsDuplicated, CancelledJobsStayCancelled, Active, Live, JobsOf
  <1>6. \/ RemoveFromQueue(c) \/ MoveToReady(c) \/ Rollback(c) \/ ClearDriver(c)
        \/ UNCHANGED <<ready, delayed, running, cancelled, everPushed>>
    BY DEF CallerAction, CallerStep, CancelStep, ReleaseStep, ClearStep, ReadPending, ReadDelayed,
           ReleaseContextLock, ReleaseCommandLock, ForgetPending, Migrated, PurgePage, Purged, Die
  <1> QED BY <1>1, <1>2, <1>3, <1>4, <1>5, <1>6

\* A job that was never pushed before takes its first place.
LEMMA PushPlacesStep ==
  ASSUME PendingInvariant, NEW j \in Jobs, Push(j)
  PROVE  PlacesInv' /\ Active' = Active \cup {j} /\ j \notin Active
  <1>0. PendingTypeOK /\ PlacesInv
    BY DEF PendingInvariant, PlacesInv
  <1>1. j \notin Active /\ j \notin cancelled /\ running' = running
    BY <1>0 DEF PlacesInv, Push, workerVars
  <1>2. \A z \in Live : z[1] # j
    BY <1>1 DEF Active, JobsOf
  <1>3. Live' = Live \cup {<<j, 0>>} /\ <<j, 0>> \notin Live
    BY <1>1, <1>2 DEF Push, Live
  <1>4. Active' = Active \cup {j}
    BY <1>3 DEF Active, JobsOf
  <1>5. /\ ready' \cap delayed' = {} /\ ready' \cap running' = {}
        /\ delayed' \cap running' = {}
    BY <1>0, <1>1, <1>3 DEF Push, PlacesInv, NoJobIsDuplicated, Live
  <1>6. \A v, w \in Live' : v[1] = w[1] => v = w
    BY <1>0, <1>2, <1>3 DEF PlacesInv, NoJobIsDuplicated
  <1>7. NoJobIsDuplicated'
    BY <1>5, <1>6 DEF NoJobIsDuplicated
  <1> QED BY <1>0, <1>1, <1>4, <1>7 DEF PlacesInv, Push, CancelledJobsStayCancelled

\* A job that ends leaves its only place.
LEMMA EndPlacesStep ==
  ASSUME PendingInvariant, NEW j \in Jobs, EndJob(j)
  PROVE  PlacesInv' /\ Active' = Active \ {j} /\ j \in Active
  <1>0. PendingTypeOK /\ PlacesInv
    BY DEF PendingInvariant, PlacesInv
  <1>1. PICK x \in running \ unmarked : x[1] = j /\ running' = running \ {x}
    BY DEF EndJob
  <1>2. UNCHANGED <<ready, delayed, cancelled, everPushed>>
    BY DEF EndJob, pendingHistory
  <1>3. Live' = Live \ {x} /\ x \in Live /\ \A z \in Live' : z[1] # j
    BY <1>0, <1>1, <1>2 DEF Live, PlacesInv, NoJobIsDuplicated
  <1>4. Active' = Active \ {j} /\ j \in Active
    BY <1>1, <1>3 DEF Active, JobsOf
  <1> QED BY <1>0, <1>1, <1>2, <1>4, SomeLeave DEF PlacesInv, CancelledJobsStayCancelled

\* Otherwise workers move jobs, one payload replacing another.
LEMMA WorkerPlacesStep ==
  ASSUME PendingInvariant, NEW j \in Jobs,
         MigrateDue(j) \/ Pop(j) \/ MarkReserved(j) \/ ReleaseBack(j)
  PROVE  PlacesInv' /\ Active' = Active
  <1> USE DEF queueJobVars, workerVars, recordVars, lockVars, pendingHistory
  <1>0. PendingTypeOK /\ PlacesInv
    BY DEF PendingInvariant, PlacesInv
  <1>1. \A x \in Live : x \in Payloads
    BY <1>0 DEF PendingTypeOK, Live
  <1>2. CASE MigrateDue(j)
    <2>1. PICK x \in delayed : delayed' = delayed \ {x} /\ ready' = ready \cup {x}
      BY <1>2 DEF MigrateDue
    <2>2. x \in Live
      BY DEF Live
    <2> QED BY <1>0, <1>1, <1>2, <2>1, <2>2, OneMoves DEF MigrateDue
  <1>3. CASE Pop(j)
    <2>1. PICK x \in ready : /\ x[1] = j /\ ready' = ready \ {x}
                             /\ running' = running \cup {<<j, x[2] + 1>>}
      BY <1>3 DEF Pop
    <2> DEFINE y == <<j, x[2] + 1>>
    <2>2. x \in Live /\ y \in Payloads /\ y[1] = x[1]
      BY <1>0, <2>1 DEF Live, PendingTypeOK, Payloads
    <2>3. running' = running \cup {y}
      BY <2>1
    <2> HIDE DEF y
    <2> QED BY <1>0, <1>3, <2>1, <2>2, <2>3, OneMoves DEF Pop
  <1>4. CASE MarkReserved(j)
    BY <1>0, <1>4 DEF MarkReserved, PlacesInv, NoJobIsDuplicated, CancelledJobsStayCancelled,
          Active, Live, JobsOf
  <1>5. CASE ReleaseBack(j)
    <2>1. PICK x \in running \ unmarked : running' = running \ {x} /\ delayed' = delayed \cup {x}
      BY <1>5 DEF ReleaseBack
    <2>2. x \in Live
      BY DEF Live
    <2> QED BY <1>0, <1>1, <1>5, <2>1, <2>2, OneMoves DEF ReleaseBack
  <1> QED BY <1>2, <1>3, <1>4, <1>5

-----------------------------------------------------------------------------
(* The unique-job lock.                                                    *)

\* No lock was released on account of another job, unless one was released twice.
RobInv == robbed # {} => cancelled \cap ReleasedTwice # {}

LocksInv == LockInv /\ RobInv /\ LocksAreNotStranded /\ \A c \in Callers : CallInv(c)

\* Two unique jobs are not active at once: both would hold the lock, unless one
\* of them was robbed of it.
LEMMA OneHolder == LockInv /\ RobInv => UniqueJobsStayUnique
  BY DEF LockInv, RobInv, UniqueJobsStayUnique

\* What a step of a call leaves of the calls and the locks: only a successful
\* removal leads to the release of a lock, and only that release gives it up.
LEMMA CallerFrame ==
  ASSUME PendingInvariant, NEW c \in Callers, CallerAction(c)
  PROVE  /\ \A d \in Callers \ {c} : call'[d] = call[d]
         /\ call'[c].place \notin {"idle", "purge"} => call'[c].job \in Jobs
         /\ call'[c].place = "locks" =>
                /\ call'[c].job = call[c].job /\ UNCHANGED lockVars
                /\ call[c].job \in Active /\ call[c].job \in cancelled'
         /\ call'[c].place = "command" =>
                /\ call[c].place = "locks" /\ call'[c].job = call[c].job
                /\ call[c].job \notin Named => UNCHANGED lockVars
         /\ CleanUp(c) /\ call[c].place = "remove" =>
                call'[c].place = "locks" /\ call'[c].job = call[c].job
         /\ \/ UNCHANGED lockVars
            \/ /\ ReleasesLock(c, call[c].job) /\ call[c].job \in UniqueJobs
               /\ ForceRelease(call[c].job)
         /\ failures' = 0 /\ ReleasesLock(c, call[c].job) =>
                \/ uniqueLock' = NoJob
                \/ call[c].job \notin Named \cup Decoded
                \/ ReleasesLock(c, call[c].job)'
         /\ cancelled \subseteq cancelled' /\ orphaned \subseteq orphaned'
         /\ failures' = 0 => failures = 0
  <1> USE PendingAssumption DEF queueJobVars, workerVars, recordVars, lockVars, pendingHistory
  <1>0. PendingTypeOK /\ CallsOK /\ CallInv(c) /\ failures \in Nat
    BY TypesSplit DEF PendingInvariant, PendingTypeOK
  <1>1. ASSUME NEW j \in Jobs, NEW scope \in Scopes, ReadPending(c, j, scope)
        PROVE  /\ \A d \in Callers \ {c} : call'[d] = call[d]
               /\ call'[c].place = "remove" /\ call'[c].job = j /\ call[c].place = "idle"
               /\ UNCHANGED <<lockVars, cancelled, orphaned, failures>>
    BY <1>0, <1>1 DEF ReadPending, CallsOK, Idle
  <1>2. ASSUME NEW j \in Jobs, ReadDelayed(c, j)
        PROVE  /\ \A d \in Callers \ {c} : call'[d] = call[d]
               /\ call'[c].place = "move" /\ call'[c].job = j /\ call[c].place = "idle"
               /\ UNCHANGED <<lockVars, cancelled, orphaned, failures>>
    BY <1>0, <1>2 DEF ReadDelayed, CallsOK, Idle
  <1>3. CASE ClearDriver(c)
    <2>1. /\ \A d \in Callers \ {c} : call'[d] = call[d]
          /\ call'[c].place = "purge" /\ call[c].place = "idle"
      BY <1>0, <1>3 DEF ClearDriver, CallsOK, Idle
    <2>2. UNCHANGED <<lockVars, cancelled, failures>> /\ orphaned \subseteq orphaned'
      BY <1>3 DEF ClearDriver
    <2> QED BY <2>1, <2>2 DEF ReleasesLock
  <1>4. CASE RemoveFromQueue(c)
    <2>1. /\ call[c].place = "remove" /\ call[c].job \in Jobs
          /\ UNCHANGED <<lockVars, orphaned, failures>>
      BY <1>0, <1>4 DEF RemoveFromQueue, CallInv
    <2>2. CASE /\ cancelled' = cancelled \cup {call[c].job} /\ CleanUp(c)
              /\ <<ready', delayed'>> # <<ready, delayed>>
      <3>1. Read(c) \in Live /\ Read(c)[1] = call[c].job
        BY <1>4, <2>2 DEF RemoveFromQueue, Live, Read
      <3>2. call[c].job \in Active
        BY <3>1 DEF Active, JobsOf
      <3>3. /\ call'[c].place = "locks" /\ call'[c].job = call[c].job
            /\ \A d \in Callers \ {c} : call'[d] = call[d]
        BY <1>0, <2>1, <2>2, CleanUpTypes
      <3> QED BY <2>1, <2>2, <3>2, <3>3 DEF ReleasesLock
    <2>3. CASE UNCHANGED <<ready, delayed, cancelled>> /\ Finish(c)
      <3>1. call'[c] = Idle /\ \A d \in Callers \ {c} : call'[d] = call[d]
        BY <1>0, <2>3, FinishTypes
      <3>2. ~ CleanUp(c)
        BY <1>0, <2>1, <3>1, CleanUpTypes DEF Idle
      <3> QED BY <2>1, <2>3, <3>1, <3>2 DEF Idle, ReleasesLock
    <2> QED BY <1>4, <2>2, <2>3 DEF RemoveFromQueue
  <1>5. CASE ReleaseContextLock(c)
    <2>1. /\ \A d \in Callers \ {c} : call'[d] = call[d]
          /\ call'[c].place \in {"command", "forget"} /\ call'[c].job = call[c].job
          /\ call[c].place = "locks" /\ call[c].job \in Jobs
      BY <1>0, <1>5, GoOnTypes DEF ReleaseContextLock, CallInv, Places
    <2>2. /\ call[c].job \in Named =>
                \/ ForceRelease(call[c].job) /\ uniqueLock' = NoJob
                \/ UNCHANGED lockVars /\ failures' # 0
          /\ call[c].job \notin Named => UNCHANGED lockVars /\ call'[c].place = "command"
          /\ UNCHANGED <<cancelled, orphaned>> /\ (failures' = 0 => failures = 0)
      <3>1. GoOn(c, "command") => call'[c].place = "command"
        BY <1>0, GoOnTypes DEF Places
      <3> QED BY <1>0, <1>5, <3>1 DEF ReleaseContextLock, ForceRelease, Failure
    <2> QED BY <2>1, <2>2 DEF ReleasesLock
  <1>c. CASE ReleaseCommandLock(c)
    <2>1. /\ \A d \in Callers \ {c} : call'[d] = call[d]
          /\ call'[c].place = "forget" /\ call'[c].job = call[c].job
          /\ call[c].place = "command" /\ call[c].job \in Jobs
      BY <1>0, <1>c, GoOnTypes DEF ReleaseCommandLock, CallInv, Places
    <2>2. /\ \/ call[c].job \in Decoded /\ ForceRelease(call[c].job) /\ uniqueLock' = NoJob
             \/ UNCHANGED lockVars /\ (call[c].job \in Decoded => failures' # 0)
          /\ UNCHANGED <<cancelled, orphaned>> /\ (failures' = 0 => failures = 0)
      BY <1>0, <1>c DEF ReleaseCommandLock, ForceRelease, Failure
    <2> QED BY <2>1, <2>2 DEF ReleasesLock
  <1>6. CASE ForgetPending(c)
    <2>1. call'[c] = Idle /\ \A d \in Callers \ {c} : call'[d] = call[d]
      BY <1>0, <1>6, FinishTypes DEF ForgetPending
    <2> QED BY <1>0, <1>6, <2>1 DEF ForgetPending, Failure, Idle, ReleasesLock
  <1>7. CASE MoveToReady(c)
    <2>1. /\ \A d \in Callers \ {c} : call'[d] = call[d]
          /\ (call'[c] = Idle \/ (call'[c].place = "migrate" /\ call'[c].job = call[c].job))
          /\ call[c].place = "move" /\ call[c].job \in Jobs
      BY <1>0, <1>7, GoOnTypes, FinishTypes DEF MoveToReady, CallInv, Places
    <2> QED BY <1>7, <2>1 DEF MoveToReady, Idle, ReleasesLock
  <1>8. CASE Migrated(c)
    <2>1. /\ \A d \in Callers \ {c} : call'[d] = call[d]
          /\ (call'[c] = Idle \/ (call'[c].place = "rollback" /\ call'[c].job = call[c].job))
          /\ call[c].place = "migrate" /\ call[c].job \in Jobs
      BY <1>0, <1>8, GoOnTypes, FinishTypes DEF Migrated, CallInv, Places
    <2> QED BY <1>0, <1>8, <2>1 DEF Migrated, Failure, Idle, ReleasesLock
  <1>9. CASE Rollback(c)
    <2>1. call'[c] = Idle /\ \A d \in Callers \ {c} : call'[d] = call[d]
      BY <1>0, <1>9, FinishTypes DEF Rollback
    <2> QED BY <1>0, <1>9, <2>1 DEF Rollback, Failure, Idle, ReleasesLock
  <1>10. CASE PurgePage(c)
    <2>1. PICK page : call' = [call EXCEPT ![c].rest = @ \ page]
      BY <1>10 DEF PurgePage
    <2>2. /\ \A d \in Callers \ {c} : call'[d] = call[d]
          /\ call'[c].place = call[c].place
      BY <1>0, <2>1 DEF CallsOK, Calls
    <2> QED BY <1>10, <2>2 DEF PurgePage, ReleasesLock
  <1>11. CASE Purged(c)
    <2>1. call'[c] = Idle /\ \A d \in Callers \ {c} : call'[d] = call[d]
      BY <1>0, <1>11, FinishTypes DEF Purged
    <2> QED BY <1>11, <2>1 DEF Purged, Idle, ReleasesLock
  <1>12. CASE Die(c)
    <2>1. call'[c] = Idle /\ \A d \in Callers \ {c} : call'[d] = call[d]
      BY <1>0, <1>12, FinishTypes DEF Die
    <2> QED BY <1>0, <1>12, <2>1 DEF Die, Failure, Idle
  <1> QED
    BY <1>1, <1>2, <1>3, <1>4, <1>5, <1>c, <1>6, <1>7, <1>8, <1>9, <1>10, <1>11, <1>12
    DEF CallerAction, CallerStep, CancelStep, ReleaseStep, ClearStep, CleanUp, ReleasesLock

\* The calls respect the lock of the unique jobs.
LEMMA CallerLocksStep ==
  ASSUME PendingInvariant, NEW c \in Callers, CallerAction(c)
  PROVE  LocksInv'
  <1>0. /\ PendingTypeOK /\ PlacesInv /\ LockInv /\ RobInv /\ LocksAreNotStranded
        /\ \A d \in Callers : CallInv(d)
    BY DEF PendingInvariant, PlacesInv, RobInv
  <1>1. /\ Active' \subseteq Active /\ Active \cap cancelled = {} /\ NoJob \notin UniqueJobs
        /\ Active' \cap cancelled' = {}
    BY <1>0, CallerPlacesStep, PendingAssumption DEF PlacesInv, CancelledJobsStayCancelled
  <1>h. cancelled' \cap ReleasedTwice = {} => cancelled \cap ReleasedTwice = {} /\ robbed = {}
    BY <1>0, CallerFrame DEF RobInv
  <1>r. ASSUME ReleasesLock(c, call[c].job), call[c].job \in UniqueJobs
        PROVE  /\ call[c].job \in cancelled
               /\ cancelled \cap ReleasedTwice = {} => uniqueLock = call[c].job
    BY <1>0, <1>r DEF CallInv, ReleasesLock
  <1>2. LockInv' /\ RobInv'
    <2>1. CASE UNCHANGED lockVars
      BY <1>0, <1>1, <1>h, <2>1 DEF LockInv, RobInv, lockVars
    <2>2. CASE ReleasesLock(c, call[c].job) /\ call[c].job \in UniqueJobs /\ ForceRelease(call[c].job)
      <3>1. \A i \in (UniqueJobs \cap Active) \ robbed : i \in robbed'
        BY <1>0, <1>1, <1>r, <2>2 DEF LockInv, ForceRelease
      <3>2. LockInv'
        BY <1>1, <2>2, <3>1 DEF LockInv, ForceRelease
      <3>3. RobInv'
        BY <1>h, <1>r, <2>2 DEF RobInv, ForceRelease
      <3> QED BY <3>2, <3>3
    <2> QED BY <2>1, <2>2, CallerFrame
  <1>3. ASSUME NEW d \in Callers PROVE CallInv(d)'
    <2>1. call'[d].place \notin {"idle", "purge"} => call'[d].job \in Jobs
      BY <1>0, CallerFrame DEF CallInv
    <2>2. ASSUME call'[d].place \in {"locks", "command"}
          PROVE  /\ call'[d].job \in cancelled'
                 /\ \A e \in Callers :
                        call'[e].place \in {"locks", "command"} /\ call'[e].job = call'[d].job => e = d
      <3>1. CASE d = c
        <4>1. CASE call'[c].place = "locks"
          <5>1. call'[c].job \in Active /\ call'[c].job \in cancelled'
            BY <4>1, CallerFrame
          <5>2. ASSUME NEW e \in Callers, e # c, call'[e].place \in {"locks", "command"}
                PROVE  call'[e].job \in cancelled
            BY <1>0, <5>2, CallerFrame DEF CallInv
          <5> QED BY <1>1, <3>1, <5>1, <5>2
        <4>2. CASE call'[c].place = "command"
          <5>1. call[c].place = "locks" /\ call'[c].job = call[c].job
            BY <4>2, CallerFrame
          <5> QED BY <1>0, <3>1, <5>1, CallerFrame DEF CallInv
        <4> QED BY <2>2, <3>1, <4>1, <4>2
      <3>2. CASE d # c
        <4>1. /\ call'[d] = call[d] /\ call[d].place \in {"locks", "command"}
              /\ call[d].job \in cancelled /\ call[d].job \in cancelled'
          BY <1>0, <2>2, <3>2, CallerFrame DEF CallInv
        <4>2. ASSUME NEW e \in Callers, call'[e].place \in {"locks", "command"},
                     call'[e].job = call'[d].job
              PROVE  e = d
          <5>1. CASE e = c /\ call'[c].place = "locks"
            <6>1. call[c].job \in Active /\ call'[c].job = call[c].job
              BY <5>1, CallerFrame
            <6> QED BY <1>1, <4>1, <4>2, <5>1, <6>1
          <5>2. CASE e = c /\ call'[c].place = "command"
            <6>1. call[c].place = "locks" /\ call'[c].job = call[c].job
              BY <5>2, CallerFrame
            <6> QED BY <1>0, <4>1, <4>2, <5>2, <6>1 DEF CallInv
          <5>3. CASE e # c
            <6>1. call'[e] = call[e]
              BY <5>3, CallerFrame
            <6> QED BY <1>0, <4>1, <4>2, <6>1 DEF CallInv
          <5> QED BY <4>2, <5>1, <5>2, <5>3
        <4> QED BY <4>1, <4>2
      <3> QED BY <3>1, <3>2
    <2>3. ASSUME ReleasesLock(d, call[d].job)', call'[d].job \in UniqueJobs,
                 cancelled' \cap ReleasedTwice = {}
          PROVE  uniqueLock' = call'[d].job
      <3>0. cancelled \cap ReleasedTwice = {} /\ robbed = {} /\ call'[d].place \in {"locks", "command"}
        BY <1>h, <2>3 DEF ReleasesLock
      <3>1. CASE d = c /\ call'[c].place = "locks"
        <4>1. /\ call'[c].job = call[c].job /\ uniqueLock' = uniqueLock /\ call[c].job \in Active
          BY <3>1, CallerFrame DEF lockVars
        <4> QED BY <1>0, <2>3, <3>0, <3>1, <4>1 DEF LockInv
      <3>2. CASE d = c /\ call'[c].place = "command"
        <4>1. /\ call[c].place = "locks" /\ call'[c].job = call[c].job
              /\ call[c].job \notin Named => uniqueLock' = uniqueLock
          BY <3>2, CallerFrame DEF lockVars
        <4>2. call[c].job \in Decoded /\ call[c].job \in cancelled'
          BY <2>2, <2>3, <3>0, <3>2, <4>1 DEF ReleasesLock
        <4>3. call[c].job \notin Named
          BY <2>3, <4>2 DEF ReleasedTwice
        <4> QED BY <1>0, <2>3, <3>0, <3>2, <4>1, <4>3 DEF CallInv, ReleasesLock
      <3>3. CASE d # c
        <4>1. call'[d] = call[d]
          BY <3>3, CallerFrame
        <4>2. ReleasesLock(d, call[d].job) /\ call[d].job \in UniqueJobs
          BY <2>3, <4>1 DEF ReleasesLock
        <4>3. uniqueLock = call[d].job
          BY <1>0, <3>0, <4>2 DEF CallInv
        <4>4. CASE UNCHANGED lockVars
          BY <4>1, <4>3, <4>4 DEF lockVars
        <4>5. CASE ReleasesLock(c, call[c].job) /\ call[c].job \in UniqueJobs
          <5>1. call[c].job = call[d].job
            BY <1>r, <3>0, <4>3, <4>5
          <5> QED BY <1>0, <3>3, <4>2, <4>5, <5>1 DEF CallInv, ReleasesLock
        <4> QED BY <4>4, <4>5, CallerFrame
      <3> QED BY <3>0, <3>1, <3>2, <3>3
    <2> QED BY <2>1, <2>2, <2>3 DEF CallInv
  <1>4. LocksAreNotStranded'
    <2> SUFFICES ASSUME uniqueLock' # NoJob, failures' = 0, uniqueLock' \in Named \cup Decoded
                 PROVE  \/ uniqueLock' \in Active' \cup orphaned'
                        \/ \E d \in Callers : ReleasesLock(d, uniqueLock)'
      BY DEF LocksAreNotStranded
    <2>1. uniqueLock' = uniqueLock /\ failures = 0 /\ uniqueLock \in UniqueJobs
      BY <1>0, CallerFrame DEF PendingTypeOK, lockVars, ForceRelease
    <2>2. CASE uniqueLock \in Active
      <3>1. CASE uniqueLock \in Active'
        BY <2>1, <3>1
      <3>2. CASE uniqueLock \in Active \ Active'
        BY <2>1, <3>2, CallerPlacesStep, CallerFrame DEF ReleasesLock
      <3> QED BY <2>2, <3>1, <3>2
    <2>3. CASE uniqueLock \in orphaned
      BY <2>1, <2>3, CallerFrame
    <2>4. ASSUME NEW d \in Callers, ReleasesLock(d, uniqueLock) PROVE ReleasesLock(d, uniqueLock)'
      <3>1. CASE d = c
        <4>1. call[c].job = uniqueLock
          BY <2>4, <3>1 DEF ReleasesLock
        <4>2. ReleasesLock(c, call[c].job)'
          BY <2>1, <2>4, <3>1, <4>1, CallerFrame
        <4>3. call'[c].job = uniqueLock
          BY <2>4, <3>1, <4>1, <4>2, CallerFrame DEF ReleasesLock
        <4> QED BY <2>1, <3>1, <4>2, <4>3 DEF ReleasesLock
      <3>2. CASE d # c
        BY <2>1, <2>4, <3>2, CallerFrame DEF ReleasesLock
      <3> QED BY <3>1, <3>2
    <2> QED BY <1>0, <2>1, <2>2, <2>3, <2>4 DEF LocksAreNotStranded
  <1> QED BY <1>2, <1>3, <1>4 DEF LocksInv

\* So do the application and the workers.
LEMMA WorkerLocksStep ==
  ASSUME PendingInvariant, NEW j \in Jobs,
         Push(j) \/ MigrateDue(j) \/ Pop(j) \/ MarkReserved(j) \/ EndJob(j) \/ ReleaseBack(j)
  PROVE  LocksInv'
  <1> USE DEF queueJobVars, workerVars, recordVars, lockVars, pendingHistory
  <1>0. /\ PendingTypeOK /\ PlacesInv /\ LockInv /\ RobInv /\ LocksAreNotStranded
        /\ \A d \in Callers : CallInv(d)
    BY DEF PendingInvariant, PlacesInv, RobInv
  <1>1. Active \cap cancelled = {} /\ NoJob \notin UniqueJobs
    BY <1>0, PendingAssumption DEF PlacesInv, CancelledJobsStayCancelled
  <1>2. UNCHANGED <<call, cancelled, orphaned, failures>>
    BY DEF Push, MigrateDue, Pop, MarkReserved, EndJob, ReleaseBack
  <1>3. \A d \in Callers : ReleasesLock(d, call[d].job) =>
            call[d].place \in {"locks", "command"} /\ call[d].job \in cancelled
    BY <1>0 DEF CallInv, ReleasesLock
  <1>4. CASE Push(j)
    <2>1. Active' = Active \cup {j} /\ j \notin Active /\ robbed' = robbed
      BY <1>4, PushPlacesStep DEF Push
    <2>2. CASE j \in UniqueJobs
      <3>1. uniqueLock = NoJob /\ uniqueLock' = j
        BY <1>4, <2>2 DEF Push
      <3>2. (UniqueJobs \cap Active) \ robbed = {}
        BY <1>0, <1>1, <3>1 DEF LockInv
      <3>3. LockInv' /\ RobInv'
        BY <1>0, <1>2, <2>1, <3>1, <3>2 DEF LockInv, RobInv
      <3>4. \A d \in Callers : CallInv(d)'
        BY <1>0, <1>1, <1>2, <3>1 DEF CallInv, ReleasesLock
      <3> QED BY <2>1, <3>1, <3>3, <3>4 DEF LocksInv, LocksAreNotStranded
    <2>3. CASE j \notin UniqueJobs
      <3>1. uniqueLock' = uniqueLock
        BY <1>4, <2>3 DEF Push
      <3> QED BY <1>0, <1>2, <2>1, <2>3, <3>1
              DEF LocksInv, LockInv, RobInv, LocksAreNotStranded, CallInv, ReleasesLock
    <2> QED BY <2>2, <2>3
  <1>5. CASE EndJob(j)
    <2>1. Active' = Active \ {j} /\ j \in Active
      BY <1>5, EndPlacesStep
    <2>2. CASE j \in UniqueJobs
      <3>1. ForceRelease(j)
        BY <1>5, <2>2 DEF EndJob
      <3>2. cancelled \cap ReleasedTwice = {} => robbed = {} /\ uniqueLock = j
        BY <1>0, <2>1, <2>2 DEF LockInv, RobInv
      <3>3. \A i \in (UniqueJobs \cap Active') \ robbed : i \in robbed'
        BY <1>0, <1>1, <2>1, <3>1 DEF LockInv, ForceRelease
      <3>4. LockInv' /\ RobInv'
        BY <1>2, <3>1, <3>2, <3>3 DEF LockInv, RobInv, ForceRelease
      <3>5. \A d \in Callers : CallInv(d)'
        <4>1. \A d \in Callers : ~ (/\ ReleasesLock(d, call[d].job) /\ call[d].job \in UniqueJobs
                                    /\ cancelled \cap ReleasedTwice = {})
          BY <1>0, <1>1, <1>3, <2>1, <3>2 DEF CallInv
        <4> QED BY <1>0, <1>2, <4>1 DEF CallInv, ReleasesLock
      <3> QED BY <3>1, <3>4, <3>5 DEF LocksInv, LocksAreNotStranded, ForceRelease
    <2>3. CASE j \notin UniqueJobs
      <3>1. UNCHANGED lockVars
        BY <1>5, <2>3 DEF EndJob
      <3>2. uniqueLock # NoJob => uniqueLock # j
        BY <1>0, <2>3 DEF PendingTypeOK
      <3> QED BY <1>0, <1>2, <2>1, <3>1, <3>2
              DEF LocksInv, LockInv, RobInv, LocksAreNotStranded, CallInv, ReleasesLock
    <2> QED BY <2>2, <2>3
  <1>6. CASE MigrateDue(j) \/ Pop(j) \/ MarkReserved(j) \/ ReleaseBack(j)
    <2>1. Active' = Active /\ UNCHANGED lockVars
      BY <1>6, WorkerPlacesStep DEF MigrateDue, Pop, MarkReserved, ReleaseBack
    <2> QED BY <1>0, <1>2, <2>1
            DEF LocksInv, LockInv, RobInv, LocksAreNotStranded, CallInv, ReleasesLock
  <1> QED BY <1>4, <1>5, <1>6

-----------------------------------------------------------------------------
\* Every step keeps the invariant.
LEMMA PendingInvariantStep == PendingInvariant /\ [PendingNext]_pendingVars => PendingInvariant'
  <1> SUFFICES ASSUME PendingInvariant, [PendingNext]_pendingVars PROVE PendingInvariant'
    OBVIOUS
  <1>0. PendingTypeOK' /\ PlacesInv' /\ LocksInv' => PendingInvariant'
    BY DEF PendingInvariant, PlacesInv, LocksInv, RobInv
  <1>1. ASSUME NEW c \in Callers, CallerAction(c) PROVE PendingInvariant'
    <2>1. PendingTypeOK'
      BY <1>1, CancelTypeStep, ReleaseTypeStep, OtherCallTypeStep DEF CallerAction, CallerStep
    <2> QED BY <1>0, <1>1, <2>1, CallerPlacesStep, CallerLocksStep
  <1>2. ASSUME NEW j \in Jobs,
               \/ Push(j) \/ MigrateDue(j) \/ Pop(j) \/ MarkReserved(j) \/ EndJob(j)
               \/ ReleaseBack(j)
        PROVE  PendingInvariant'
    BY <1>0, <1>2, WorkerTypeStep, PushPlacesStep, EndPlacesStep, WorkerPlacesStep, WorkerLocksStep
  <1>3. CASE UNCHANGED pendingVars
    BY <1>3 DEF pendingVars, queueJobVars, workerVars, recordVars, lockVars, pendingHistory,
          PendingInvariant, PendingTypeOK, NoJobIsDuplicated, CancelledJobsStayCancelled, LockInv,
          LocksAreNotStranded, CallInv, ReleasesLock, Active, Live, JobsOf
  <1> QED BY <1>1, <1>2, <1>3 DEF PendingNext, WorkerStep, CallerAction

\* The inductive invariant of the pending-job actions holds for any number of
\* jobs, callers, failures and changes of payloads.
THEOREM PendingInvariantHolds == PendingSpec => []PendingInvariant
  BY PendingInitInvariant, PendingInvariantStep, PTL DEF PendingSpec

\* No job is ever in the queue or with a worker twice: neither the move of a
\* delayed job nor its rollback (ReleaseDelayedJobNow) duplicates it.
THEOREM JobsAreNotDuplicated == PendingSpec => []NoJobIsDuplicated
  <1>1. PendingInvariant => NoJobIsDuplicated
    BY DEF PendingInvariant
  <1> QED BY PendingInvariantHolds, <1>1, PTL

\* A job reported as cancelled (CancelPendingJob) is nowhere, for good.
THEOREM CancellationIsFinal == PendingSpec => []CancelledJobsStayCancelled
  <1>1. PendingInvariant => CancelledJobsStayCancelled
    BY DEF PendingInvariant
  <1> QED BY PendingInvariantHolds, <1>1, PTL

\* Two unique jobs are active at once only if one was robbed of its lock, and no
\* job is, as long as no cancelled one had its lock released both from its
\* context and from its command (ReleaseCancelledJobLocks).
THEOREM UniquenessHolds == PendingSpec => []UniqueJobsStayUnique
  <1>1. PendingInvariant => UniqueJobsStayUnique
    BY OneHolder DEF PendingInvariant, RobInv
  <1> QED BY PendingInvariantHolds, <1>1, PTL

\* Nor is the lock left behind by a cancelled job, as long as nothing fails.
THEOREM LocksAreGivenUp == PendingSpec => []LocksAreNotStranded
  <1>1. PendingInvariant => LocksAreNotStranded
    BY DEF PendingInvariant
  <1> QED BY PendingInvariantHolds, <1>1, PTL

-----------------------------------------------------------------------------
(* Horizon's records.                                                      *)

\* Initially there is nothing to record.
LEMMA RecordInit == PendingInit => RecordInvariant
  BY DEF PendingInit, RecordInvariant, RecordCallInv, FormInv, QueuedJobsCanBeCancelled, Idle

\* A step of a call that moves no job and starts no release or clear keeps the
\* invariant: it may remove jobs from the queue, and forget records together
\* with their members.  A call that breaks off its release has failed.
LEMMA QuietCall ==
  ASSUME PendingTypeOK, RecordInvariant, NEW c \in Callers,
         \A d \in Callers \ {c} : call'[d] = call[d],
         call'[c].place \notin {"migrate", "rollback", "purge"},
         call[c].place = "migrate" => failures' > 0,
         ready' \subseteq ready, delayed' \subseteq delayed, running' = running,
         listed' \subseteq listed, everPushed' = everPushed, everRun' = everRun,
         failures' \in Nat, failures > 0 => failures' > 0,
         \A j \in Jobs : record'[j] = record[j] \/ (record'[j] = NoRecord /\ j \notin listed')
  PROVE  RecordInvariant'
  <1>1. \A x \in running' : x[1] \in everRun'
    BY DEF RecordInvariant
  <1>2. \A j \in listed' : record'[j].status \in {"pending", "reserved"}
    BY DEF RecordInvariant, PendingTypeOK
  <1>3. ASSUME NEW d \in Callers PROVE RecordCallInv(d)'
    <2>1. CASE d = c
      BY <2>1 DEF RecordCallInv
    <2>2. CASE d # c
      <3>1. call'[d] = call[d] /\ RecordCallInv(d)
        BY <2>2 DEF RecordInvariant
      <3> QED BY <3>1 DEF RecordCallInv
    <2> QED BY <2>1, <2>2
  <1>4. FormInv'
    <2> SUFFICES ASSUME failures' = 0 PROVE FormInv'
      BY DEF FormInv
    <2>1. failures = 0 /\ FormInv
      BY DEF PendingTypeOK, RecordInvariant
    <2>2. ASSUME NEW d \in Callers, call'[d].place = "migrate"
          PROVE  call[d].place = "migrate" /\ call'[d] = call[d]
      BY <2>2
    <2> QED BY <2>1, <2>2 DEF FormInv
  <1>5. QueuedJobsCanBeCancelled'
    <2> SUFFICES ASSUME NEW x \in (ready \cup delayed)', ~ (failures' > 0), x[1] \notin everRun',
                        record'[x[1]] \notin {NoRecord, [status |-> "pending", form |-> x[2]]}
                 PROVE  \E d \in Callers : call'[d].place = "migrate" /\ call'[d].job = x[1]
      BY Zenon DEF QueuedJobsCanBeCancelled
    <2>1. ~ (failures > 0) /\ x \in ready \cup delayed /\ x[1] \in Jobs
      BY DEF PendingTypeOK, Payloads
    <2>2. record[x[1]] \notin {NoRecord, [status |-> "pending", form |-> x[2]]}
      BY <2>1
    <2>3. PICK d \in Callers : call[d].place = "migrate" /\ call[d].job = x[1]
      BY <2>1, <2>2 DEF RecordInvariant, QueuedJobsCanBeCancelled
    <2>4. call'[d] = call[d]
      BY <2>3
    <2> QED BY <2>3, <2>4
  <1> QED BY <1>1, <1>2, <1>3, <1>4, <1>5 DEF RecordInvariant

\* Cancelling a job, and dying, are such steps.
LEMMA CancelRecordStep ==
  ASSUME PendingInvariant, RecordInvariant, NEW c \in Callers,
         \/ \E j \in Jobs, scope \in Scopes : ReadPending(c, j, scope)
         \/ \E j \in Jobs : ReadDelayed(c, j)
         \/ CancelStep(c) \/ Purged(c) \/ Die(c)
  PROVE  RecordInvariant'
  <1> USE DEF queueJobVars, workerVars, recordVars, lockVars, pendingHistory
  <1>0. PendingTypeOK /\ CallsOK /\ CallInv(c) /\ failures \in Nat /\ MaxFailures \in Nat
    BY TypesSplit, PendingAssumption DEF PendingInvariant, PendingTypeOK
  <1>1. ASSUME NEW j \in Jobs, NEW scope \in Scopes, ReadPending(c, j, scope)
        PROVE  RecordInvariant'
    <2>1. /\ \A d \in Callers \ {c} : call'[d] = call[d]
          /\ call'[c].place = "remove" /\ call[c].place = "idle"
      BY <1>0, <1>1 DEF ReadPending, CallsOK, Idle
    <2>2. UNCHANGED <<ready, delayed, running, record, listed, everPushed, everRun, failures>>
      BY <1>1 DEF ReadPending
    <2> QED BY <1>0, <2>1, <2>2, QuietCall
  <1>2. ASSUME NEW j \in Jobs, ReadDelayed(c, j) PROVE RecordInvariant'
    <2>1. /\ \A d \in Callers \ {c} : call'[d] = call[d]
          /\ call'[c].place = "move" /\ call[c].place = "idle"
      BY <1>0, <1>2 DEF ReadDelayed, CallsOK, Idle
    <2>2. UNCHANGED <<ready, delayed, running, record, listed, everPushed, everRun, failures>>
      BY <1>2 DEF ReadDelayed
    <2> QED BY <1>0, <2>1, <2>2, QuietCall
  <1>3. CASE RemoveFromQueue(c)
    <2>1. call[c].place = "remove" /\ call[c].job \in Jobs
      BY <1>0, <1>3 DEF RemoveFromQueue, CallInv
    <2>2. call'[c].place \in {"locks", "idle"} /\ \A d \in Callers \ {c} : call'[d] = call[d]
      <3>1. CASE CleanUp(c)
        BY <1>0, <2>1, <3>1, CleanUpTypes
      <3>2. CASE Finish(c)
        BY <1>0, <3>2, FinishTypes DEF Idle
      <3> QED BY <3>1, <3>2, <1>3 DEF RemoveFromQueue
    <2>3. /\ ready' \subseteq ready /\ delayed' \subseteq delayed
          /\ UNCHANGED <<running, record, listed, everPushed, everRun, failures>>
      BY <1>3 DEF RemoveFromQueue
    <2> QED BY <1>0, <2>1, <2>2, <2>3, QuietCall
  <1>4. CASE ReleaseContextLock(c) \/ ReleaseCommandLock(c)
    <2>1. /\ call[c].place \in {"locks", "command"} /\ call'[c].place \in {"command", "forget"}
          /\ \A d \in Callers \ {c} : call'[d] = call[d]
      BY <1>0, <1>4, GoOnTypes DEF ReleaseContextLock, ReleaseCommandLock, Places
    <2>2. UNCHANGED <<ready, delayed, running, record, listed, everPushed, everRun>>
      BY <1>4 DEF ReleaseContextLock, ReleaseCommandLock
    <2>3. failures' \in Nat /\ (failures > 0 => failures' > 0)
      BY <1>0, <1>4 DEF ReleaseContextLock, ReleaseCommandLock, Failure
    <2> QED BY <1>0, <2>1, <2>2, <2>3, QuietCall
  <1>5. CASE ForgetPending(c)
    <2>1. /\ call[c].place = "forget" /\ call'[c].place = "idle"
          /\ \A d \in Callers \ {c} : call'[d] = call[d]
      BY <1>0, <1>5, FinishTypes DEF ForgetPending, Idle
    <2>2. UNCHANGED <<ready, delayed, running, everPushed, everRun>>
      BY <1>5 DEF ForgetPending
    <2>3. failures' \in Nat /\ (failures > 0 => failures' > 0)
      BY <1>0, <1>5 DEF ForgetPending, Failure
    <2>4. \/ UNCHANGED <<record, listed>>
          \/ record' = [record EXCEPT ![call[c].job] = NoRecord] /\ listed' = listed \ {call[c].job}
      BY <1>5 DEF ForgetPending
    <2>5. /\ listed' \subseteq listed
          /\ \A j \in Jobs : record'[j] = record[j] \/ (record'[j] = NoRecord /\ j \notin listed')
      BY <1>0, <2>4 DEF PendingTypeOK
    <2> QED BY <1>0, <2>1, <2>2, <2>3, <2>5, QuietCall
  <1>6. CASE Purged(c)
    <2>1. /\ call[c].place = "purge" /\ call'[c].place = "idle"
          /\ \A d \in Callers \ {c} : call'[d] = call[d]
      BY <1>0, <1>6, FinishTypes DEF Purged, Idle
    <2>2. UNCHANGED <<ready, delayed, running, record, listed, everPushed, everRun, failures>>
      BY <1>6 DEF Purged
    <2> QED BY <1>0, <2>1, <2>2, QuietCall
  <1>7. CASE Die(c)
    <2>1. call'[c].place = "idle" /\ \A d \in Callers \ {c} : call'[d] = call[d]
      BY <1>0, <1>7, FinishTypes DEF Die, Idle
    <2>2. UNCHANGED <<ready, delayed, running, record, listed, everPushed, everRun>>
      BY <1>7 DEF Die
    <2>3. failures' \in Nat /\ failures' > 0
      BY <1>0, <1>7 DEF Die, Failure
    <2> QED BY <1>0, <2>1, <2>2, <2>3, QuietCall
  <1> QED BY <1>1, <1>2, <1>3, <1>4, <1>5, <1>6, <1>7 DEF CancelStep

\* The move of a delayed job: the only payload of the job is now the
\* replacement, and the release that will record it is under way.
LEMMA MoveRecordStep ==
  ASSUME PendingInvariant, RecordInvariant, NEW c \in Callers, MoveToReady(c)
  PROVE  RecordInvariant'
  <1> USE DEF queueJobVars, workerVars, recordVars, lockVars, pendingHistory
  <1>0. /\ PendingTypeOK /\ PlacesInv /\ CallsOK /\ CallInv(c) /\ failures \in Nat
        /\ call[c].form \in Nat
    BY TypesSplit DEF PendingInvariant, PlacesInv, PendingTypeOK
  <1>1. /\ call[c].place = "move" /\ call[c].job \in Jobs
        /\ UNCHANGED <<running, record, listed, everPushed, everRun, failures>>
    BY <1>0 DEF MoveToReady, CallInv
  <1>2. CASE Read(c) \notin delayed
    <2>1. /\ UNCHANGED <<ready, delayed>> /\ call'[c].place = "idle"
          /\ \A d \in Callers \ {c} : call'[d] = call[d]
      BY <1>0, <1>2, FinishTypes DEF MoveToReady, Idle
    <2> QED BY <1>0, <1>1, <2>1, QuietCall
  <1>3. CASE Read(c) \in delayed
    <2> DEFINE j == call[c].job
               f == call[c].form
    <2>1. /\ delayed' = delayed \ {<<j, f>>} /\ ready' = ready \cup {<<j, f + 1>>}
          /\ call'[c].place = "migrate" /\ call'[c].job = j
          /\ \A d \in Callers \ {c} : call'[d] = call[d]
      BY <1>0, <1>3, GoOnTypes DEF MoveToReady, Read, Replacement, Places
    <2>2. call'[c].form = f
      BY <1>0, <1>3 DEF MoveToReady, GoOn, CallsOK, Calls
    <2>3. <<j, f>> \in delayed /\ j \in everPushed
      BY <1>0, <1>3 DEF Read, PlacesInv, Active, Live, JobsOf
    <2>4. /\ \A x \in delayed' : x[1] # j
          /\ \A x \in ready : x[1] # j
      BY <1>0, <2>1, <2>3 DEF PlacesInv, NoJobIsDuplicated, Live
    <2> HIDE DEF j, f
    <2>5. ASSUME NEW d \in Callers PROVE RecordCallInv(d)'
      <3>1. CASE d = c
        BY <1>1, <2>1, <2>3, <3>1 DEF RecordCallInv
      <3>2. CASE d # c
        <4>1. call'[d] = call[d] /\ RecordCallInv(d)
          BY <2>1, <3>2 DEF RecordInvariant
        <4> QED BY <1>1, <4>1 DEF RecordCallInv
      <3> QED BY <3>1, <3>2
    <2>6. FormInv'
      <3> SUFFICES ASSUME failures = 0 PROVE FormInv'
        BY <1>1 DEF FormInv
      <3>1. FormInv
        BY DEF RecordInvariant
      <3>2. \A x \in delayed' : x[1] \notin everRun' => x[2] = 0
        BY <1>1, <2>1, <3>1 DEF FormInv
      <3>3. j \notin everRun => f = 0
        BY <2>3, <3>1 DEF FormInv
      <3>4. \A x \in ready' : x[1] = j => x[2] = f + 1
        BY <2>1, <2>4
      <3>5. ASSUME NEW d \in Callers, call'[d].place = "migrate", call'[d].job \notin everRun'
            PROVE  /\ call'[d].form = 0
                   /\ \A x \in delayed' : x[1] # call'[d].job
                   /\ \A x \in ready' : x[1] = call'[d].job => x[2] = 1
        <4>1. CASE d = c
          BY <1>1, <2>1, <2>2, <2>4, <3>3, <3>4, <3>5, <4>1
        <4>2. CASE d # c
          <5>1. call'[d] = call[d]
            BY <2>1, <4>2
          <5>2. /\ call[d].form = 0
                /\ \A x \in delayed : x[1] # call[d].job
                /\ \A x \in ready : x[1] = call[d].job => x[2] = 1
            BY <1>1, <3>1, <3>5, <5>1 DEF FormInv
          <5>3. call[d].job # j
            BY <2>3, <5>2
          <5> QED BY <2>1, <5>1, <5>2, <5>3
        <4> QED BY <4>1, <4>2
      <3> QED BY <3>2, <3>5 DEF FormInv
    <2>7. QueuedJobsCanBeCancelled'
      <3> SUFFICES ASSUME NEW x \in (ready \cup delayed)', ~ (failures > 0), x[1] \notin everRun,
                          record[x[1]] \notin {NoRecord, [status |-> "pending", form |-> x[2]]}
                   PROVE  \E d \in Callers : call'[d].place = "migrate" /\ call'[d].job = x[1]
        BY <1>1, Zenon DEF QueuedJobsCanBeCancelled
      <3>1. CASE x[1] = j
        BY <2>1, <3>1
      <3>2. CASE x[1] # j
        <4>1. x \in ready \cup delayed
          BY <2>1, <3>2
        <4>2. PICK d \in Callers : call[d].place = "migrate" /\ call[d].job = x[1]
          BY <4>1 DEF RecordInvariant, QueuedJobsCanBeCancelled
        <4>3. call'[d] = call[d]
          BY <1>1, <2>1, <4>2
        <4> QED BY <4>2, <4>3
      <3> QED BY <3>1, <3>2
    <2>8. \A x \in running' : x[1] \in everRun'
      BY <1>1 DEF RecordInvariant
    <2>9. \A k \in listed' : record'[k].status \in {"pending", "reserved"}
      BY <1>1 DEF RecordInvariant
    <2> QED BY <2>5, <2>6, <2>7, <2>8, <2>9 DEF RecordInvariant
  <1> QED BY <1>2, <1>3

\* migrated() makes the record what the ready list has, unless it fails: after
\* a failure the record and the queue may disagree, and only then does the
\* release roll back.
LEMMA MigratedRecordStep ==
  ASSUME PendingInvariant, RecordInvariant, NEW c \in Callers, Migrated(c) \/ Rollback(c)
  PROVE  RecordInvariant'
  <1> USE DEF queueJobVars, workerVars, recordVars, lockVars, pendingHistory
  <1>0. /\ PendingTypeOK /\ CallsOK /\ CallInv(c) /\ failures \in Nat
        /\ call[c].form \in Nat
    BY TypesSplit DEF PendingInvariant, PendingTypeOK
  <1>1. /\ call[c].place \in {"migrate", "rollback"} /\ call[c].job \in Jobs
        /\ UNCHANGED <<running, listed, everPushed, everRun>>
    BY <1>0 DEF Migrated, Rollback, CallInv
  <1>2. failures' \in Nat /\ (failures > 0 => failures' > 0)
    BY <1>0 DEF Migrated, Rollback, Failure
  <1>3. \/ UNCHANGED record
        \/ record' = [record EXCEPT ![call[c].job] =
                          [status |-> "pending", form |-> call[c].form + 1]]
    BY DEF Migrated, Rollback, Remember
  <1>4. /\ \A d \in Callers \ {c} : call'[d] = call[d]
        /\ call'[c].place \in {"idle", "rollback"}
        /\ call'[c].place = "rollback" => failures' > 0
    BY <1>0, GoOnTypes, FinishTypes DEF Migrated, Rollback, Failure, Places, Idle
  <1>5. \A x \in running' : x[1] \in everRun'
    BY <1>1 DEF RecordInvariant
  <1>6. \A k \in listed' : record'[k].status \in {"pending", "reserved"}
    BY <1>0, <1>1, <1>3 DEF RecordInvariant, PendingTypeOK
  <1>7. ASSUME NEW d \in Callers PROVE RecordCallInv(d)'
    <2>1. CASE d = c
      BY <1>4, <2>1 DEF RecordCallInv
    <2>2. CASE d # c
      <3>1. call'[d] = call[d] /\ RecordCallInv(d)
        BY <1>4, <2>2 DEF RecordInvariant
      <3> QED BY <1>1, <1>2, <3>1 DEF RecordCallInv
    <2> QED BY <2>1, <2>2
  <1>8. CASE failures' > 0
    BY <1>5, <1>6, <1>7, <1>8 DEF RecordInvariant, FormInv, QueuedJobsCanBeCancelled
  <1>9. CASE ~ (failures' > 0)
    <2>1. failures = 0 /\ call[c].place # "rollback"
      BY <1>0, <1>2, <1>9 DEF RecordInvariant, RecordCallInv
    <2>2. /\ Migrated(c) /\ UNCHANGED <<ready, delayed>> /\ call[c].place = "migrate"
      BY <2>1 DEF Migrated, Rollback
    <2>3. /\ record' = [record EXCEPT ![call[c].job] =
                            [status |-> "pending", form |-> call[c].form + 1]]
          /\ call'[c].place = "idle"
      BY <1>0, <1>9, <2>1, <2>2, FinishTypes DEF Migrated, Failure, Remember, Idle
    <2>4. FormInv
      BY DEF RecordInvariant
    <2>5. FormInv'
      <3>1. \A d \in Callers : call'[d].place = "migrate" => call'[d] = call[d]
        BY <1>4, <2>3
      <3> QED BY <1>1, <2>1, <2>2, <2>4, <3>1 DEF FormInv
    <2>6. QueuedJobsCanBeCancelled'
      <3> SUFFICES ASSUME NEW x \in ready \cup delayed, x[1] \notin everRun,
                          record'[x[1]] \notin {NoRecord, [status |-> "pending", form |-> x[2]]}
                   PROVE  \E d \in Callers : call'[d].place = "migrate" /\ call'[d].job = x[1]
        BY <1>1, <2>2, Zenon DEF QueuedJobsCanBeCancelled
      <3>1. x[1] \in Jobs
        BY <1>0 DEF PendingTypeOK, Payloads
      <3>2. CASE x[1] = call[c].job
        <4>1. call[c].form = 0 /\ x[2] = 1
          BY <1>1, <2>1, <2>2, <2>4, <3>2 DEF FormInv
        <4>2. record'[x[1]] = [status |-> "pending", form |-> 1]
          BY <1>0, <2>3, <3>1, <3>2, <4>1 DEF PendingTypeOK
        <4> QED BY <4>1, <4>2
      <3>3. CASE x[1] # call[c].job
        <4>1. record'[x[1]] = record[x[1]]
          BY <1>0, <2>3, <3>1, <3>3 DEF PendingTypeOK
        <4>2. PICK d \in Callers : call[d].place = "migrate" /\ call[d].job = x[1]
          BY <2>1, <4>1 DEF RecordInvariant, QueuedJobsCanBeCancelled
        <4>3. call'[d] = call[d]
          BY <1>4, <3>3, <4>2
        <4> QED BY <4>2, <4>3
      <3> QED BY <3>2, <3>3
    <2> QED BY <1>5, <1>6, <1>7, <2>5, <2>6 DEF RecordInvariant
  <1> QED BY <1>8, <1>9

\* The driver's clear takes the jobs away, and the scan starts out owing every
\* member; each page forgets the records of the members it returns, all of
\* which are pending or reserved.
LEMMA ClearRecordStep ==
  ASSUME PendingInvariant, RecordInvariant, NEW c \in Callers, ClearDriver(c) \/ PurgePage(c)
  PROVE  RecordInvariant'
  <1> USE DEF queueJobVars, workerVars, recordVars, lockVars, pendingHistory
  <1>0. PendingTypeOK /\ PlacesInv /\ CallsOK /\ failures \in Nat
    BY TypesSplit DEF PendingInvariant, PlacesInv, PendingTypeOK
  <1>1. UNCHANGED <<running, everPushed, everRun, failures>>
    BY DEF ClearDriver, PurgePage
  <1>2. /\ ready' \subseteq ready /\ delayed' \subseteq delayed /\ listed' \subseteq listed
        /\ \A j \in Jobs : record'[j] = record[j] \/ (record'[j] = NoRecord /\ j \notin listed')
        /\ call'[c].place = "purge" /\ \A d \in Callers \ {c} : call'[d] = call[d]
        /\ call'[c].dropped \subseteq everPushed
        /\ call'[c].dropped \cap listed' \subseteq call'[c].rest
        /\ call[c].place # "migrate"
    <2>1. CASE ClearDriver(c)
      <3> DEFINE dropped == JobsOf(ready \cup delayed)
                 r == [Idle EXCEPT !.place = "purge", !.dropped = dropped, !.rest = listed]
      <3>1. dropped \subseteq everPushed
        BY <1>0 DEF PlacesInv, Active, Live, JobsOf
      <3>2. /\ call' = [call EXCEPT ![c] = r] /\ ready' = {} /\ delayed' = {}
            /\ UNCHANGED <<record, listed>> /\ call[c].place = "idle"
        BY <2>1 DEF ClearDriver
      <3> HIDE DEF dropped
      <3>3. r.place = "purge" /\ r.dropped = dropped /\ r.rest = listed
        BY DEF Idle
      <3> HIDE DEF r
      <3>4. call'[c] = r /\ \A d \in Callers \ {c} : call'[d] = call[d]
        BY <1>0, <3>2 DEF CallsOK
      <3> QED BY <3>1, <3>2, <3>3, <3>4
    <2>2. CASE PurgePage(c)
      <3>1. PICK page \in SUBSET listed : Purge(page) /\ call' = [call EXCEPT ![c].rest = @ \ page]
        BY <2>2 DEF PurgePage
      <3>2. call[c].place = "purge" /\ UNCHANGED <<ready, delayed>>
        BY <2>2 DEF PurgePage
      <3>3. /\ call'[c].place = "purge" /\ call'[c].dropped = call[c].dropped
            /\ call'[c].rest = call[c].rest \ page
            /\ \A d \in Callers \ {c} : call'[d] = call[d]
        BY <1>0, <3>1, <3>2 DEF CallsOK, Calls
      <3>4. {j \in page : record[j].status \in {"pending", "reserved"}} = page
        BY DEF RecordInvariant
      <3>5. /\ record' = [j \in Jobs |-> IF j \in page THEN NoRecord ELSE record[j]]
            /\ listed' = listed \ page
        BY <3>1, <3>4 DEF Purge
      <3>6. call[c].dropped \subseteq everPushed /\ call[c].dropped \cap listed \subseteq call[c].rest
        BY <3>2 DEF RecordInvariant, RecordCallInv
      <3> QED BY <3>2, <3>3, <3>5, <3>6
    <2> QED BY <2>1, <2>2
  <1>3. \A x \in running' : x[1] \in everRun'
    BY <1>1 DEF RecordInvariant
  <1>4. \A j \in listed' : record'[j].status \in {"pending", "reserved"}
    BY <1>0, <1>2 DEF RecordInvariant, PendingTypeOK
  <1>5. ASSUME NEW d \in Callers PROVE RecordCallInv(d)'
    <2>1. CASE d = c
      BY <1>1, <1>2, <2>1 DEF RecordCallInv
    <2>2. CASE d # c
      <3>1. call'[d] = call[d] /\ RecordCallInv(d)
        BY <1>2, <2>2 DEF RecordInvariant
      <3> QED BY <1>1, <1>2, <3>1 DEF RecordCallInv
    <2> QED BY <2>1, <2>2
  <1>6. \A d \in Callers : call'[d].place = "migrate" => call'[d] = call[d]
    BY <1>2
  <1>7. FormInv'
    <2>1. FormInv
      BY DEF RecordInvariant
    <2> QED BY <1>1, <1>2, <1>6, <2>1 DEF FormInv
  <1>8. QueuedJobsCanBeCancelled'
    <2> SUFFICES ASSUME NEW x \in (ready \cup delayed)', ~ (failures > 0), x[1] \notin everRun,
                        record'[x[1]] \notin {NoRecord, [status |-> "pending", form |-> x[2]]}
                 PROVE  \E d \in Callers : call'[d].place = "migrate" /\ call'[d].job = x[1]
      BY <1>1, Zenon DEF QueuedJobsCanBeCancelled
    <2>1. x \in ready \cup delayed /\ x[1] \in Jobs
      BY <1>0, <1>2 DEF PendingTypeOK, Payloads
    <2>2. record[x[1]] \notin {NoRecord, [status |-> "pending", form |-> x[2]]}
      BY <1>2, <2>1
    <2>3. PICK d \in Callers : call[d].place = "migrate" /\ call[d].job = x[1]
      BY <2>1, <2>2 DEF RecordInvariant, QueuedJobsCanBeCancelled
    <2>4. call'[d] = call[d]
      BY <1>2, <2>3
    <2> QED BY <2>3, <2>4
  <1> QED BY <1>3, <1>4, <1>5, <1>7, <1>8 DEF RecordInvariant

\* A job is pushed under a number no call knows yet; otherwise workers touch
\* the records of the jobs they have taken only.
LEMMA WorkerRecordStep ==
  ASSUME PendingInvariant, RecordInvariant, NEW j \in Jobs,
         Push(j) \/ MigrateDue(j) \/ Pop(j) \/ MarkReserved(j) \/ EndJob(j) \/ ReleaseBack(j)
  PROVE  RecordInvariant'
  <1> USE DEF queueJobVars, workerVars, recordVars, lockVars, pendingHistory
  <1>0. PendingTypeOK /\ PlacesInv /\ CallsOK /\ failures \in Nat
    BY TypesSplit DEF PendingInvariant, PlacesInv, PendingTypeOK
  <1>1. /\ UNCHANGED <<call, failures>> /\ everPushed \subseteq everPushed'
        /\ everRun \subseteq everRun'
    BY DEF Push, MigrateDue, Pop, MarkReserved, EndJob, ReleaseBack
  <1>2. \A x \in running : x[1] \in everRun
    BY DEF RecordInvariant
  <1>3. /\ FormInv /\ QueuedJobsCanBeCancelled
        /\ \A d \in Callers : RecordCallInv(d)
        /\ \A k \in listed : record[k].status \in {"pending", "reserved"}
    BY DEF RecordInvariant
  \* What each action does to the jobs that no worker has taken afterwards.
  <1>4. CASE Push(j)
    <2>1. /\ j \notin everPushed /\ everPushed' = everPushed \cup {j} /\ listed' = listed \cup {j}
          /\ record' = [record EXCEPT ![j] = [status |-> "pending", form |-> 0]]
          /\ UNCHANGED <<running, everRun>>
      BY <1>4 DEF Push, Remember
    <2>2. /\ (ready \cup delayed)' = ready \cup delayed \cup {<<j, 0>>}
          /\ delayed' \subseteq delayed \cup {<<j, 0>>} /\ ready' \subseteq ready \cup {<<j, 0>>}
      BY <1>4 DEF Push
    <2>3. \A k \in listed' : record'[k].status \in {"pending", "reserved"}
      BY <1>0, <1>3, <2>1 DEF PendingTypeOK
    <2>4. \A d \in Callers : RecordCallInv(d)'
      BY <1>1, <1>3, <2>1 DEF RecordCallInv
    <2>5. FormInv'
      <3>1. \A d \in Callers : call[d].place = "migrate" => call[d].job # j
        BY <1>3, <2>1 DEF RecordCallInv
      <3> QED BY <1>1, <1>3, <2>1, <2>2, <3>1 DEF FormInv
    <2>6. QueuedJobsCanBeCancelled'
      <3> SUFFICES ASSUME NEW x \in (ready \cup delayed)', ~ (failures > 0), x[1] \notin everRun,
                          record'[x[1]] \notin {NoRecord, [status |-> "pending", form |-> x[2]]}
                   PROVE  \E d \in Callers : call[d].place = "migrate" /\ call[d].job = x[1]
        BY <1>1, <2>1, Zenon DEF QueuedJobsCanBeCancelled
      <3>1. CASE x = <<j, 0>>
        BY <1>0, <2>1, <3>1 DEF PendingTypeOK
      <3>2. CASE x \in ready \cup delayed
        <4>1. x[1] # j /\ x[1] \in Jobs
          BY <1>0, <2>1, <3>2 DEF PlacesInv, Active, Live, JobsOf, PendingTypeOK, Payloads
        <4>2. record'[x[1]] = record[x[1]]
          BY <1>0, <2>1, <4>1 DEF PendingTypeOK
        <4> QED BY <1>3, <3>2, <4>2 DEF QueuedJobsCanBeCancelled
      <3> QED BY <2>2, <3>1, <3>2
    <2>7. \A x \in running' : x[1] \in everRun'
      BY <1>2, <2>1
    <2> QED BY <2>3, <2>4, <2>5, <2>6, <2>7 DEF RecordInvariant
  <1>5. CASE MigrateDue(j)
    <2>1. PICK x \in delayed : delayed' = delayed \ {x} /\ ready' = ready \cup {x}
      BY <1>5 DEF MigrateDue
    <2>2. UNCHANGED <<running, record, listed, everPushed, everRun>>
      BY <1>5 DEF MigrateDue
    <2>3. FormInv'
      BY <1>1, <1>3, <2>1, <2>2 DEF FormInv
    <2>4. QueuedJobsCanBeCancelled'
      <3>1. (ready \cup delayed)' = ready \cup delayed
        BY <2>1
      <3> QED BY <1>1, <1>3, <2>2, <3>1 DEF QueuedJobsCanBeCancelled
    <2> QED BY <1>1, <1>2, <1>3, <2>2, <2>3, <2>4 DEF RecordInvariant, RecordCallInv
  <1>6. CASE Pop(j)
    <2>1. PICK x \in ready : /\ x[1] = j /\ ready' = ready \ {x}
                             /\ running' = running \cup {<<j, x[2] + 1>>}
      BY <1>6 DEF Pop
    <2>2. UNCHANGED <<delayed, record, listed, everPushed>> /\ everRun' = everRun \cup {j}
      BY <1>6 DEF Pop
    <2>3. \A y \in running' : y[1] \in everRun'
      BY <1>2, <2>1, <2>2
    <2>4. FormInv'
      BY <1>1, <1>3, <2>1, <2>2 DEF FormInv
    <2>5. QueuedJobsCanBeCancelled'
      BY <1>1, <1>3, <2>1, <2>2 DEF QueuedJobsCanBeCancelled
    <2> QED BY <1>1, <1>3, <2>2, <2>3, <2>4, <2>5 DEF RecordInvariant, RecordCallInv
  <1>7. CASE MarkReserved(j) \/ EndJob(j) \/ ReleaseBack(j)
    <2>1. /\ j \in everRun /\ running' \subseteq running /\ listed' \subseteq listed
          /\ UNCHANGED <<ready, everPushed, everRun>>
          /\ \A x \in delayed' \ delayed : x[1] = j
      BY <1>0, <1>2, <1>7 DEF MarkReserved, EndJob, ReleaseBack, PendingTypeOK
    <2>2. \E status \in Statuses, form \in Nat :
             /\ record' = [record EXCEPT ![j] = [status |-> status, form |-> form]]
             /\ status \in {"pending", "reserved"} \/ j \notin listed'
      <3>1. \A x \in running : x[2] \in Nat
        BY <1>0 DEF PendingTypeOK, Payloads
      <3>2. CASE MarkReserved(j)
        BY <1>0, <3>1, <3>2 DEF MarkReserved, Remember, Statuses, PendingTypeOK
      <3>3. CASE EndJob(j)
        BY <3>3 DEF EndJob, Remember, Statuses
      <3>4. CASE ReleaseBack(j)
        BY <3>1, <3>4 DEF ReleaseBack, Remember, Statuses
      <3> QED BY <1>7, <3>2, <3>3, <3>4
    <2>3. /\ \A k \in listed' : record'[k].status \in {"pending", "reserved"}
          /\ \A k \in Jobs \ {j} : record'[k] = record[k]
      BY <1>0, <1>3, <2>1, <2>2 DEF PendingTypeOK
    <2>4. \A d \in Callers : RecordCallInv(d)'
      BY <1>1, <1>3, <2>1 DEF RecordCallInv
    <2>5. FormInv'
      BY <1>1, <1>3, <2>1 DEF FormInv
    <2>6. QueuedJobsCanBeCancelled'
      <3> SUFFICES ASSUME NEW x \in (ready \cup delayed)', ~ (failures > 0), x[1] \notin everRun,
                          record'[x[1]] \notin {NoRecord, [status |-> "pending", form |-> x[2]]}
                   PROVE  \E d \in Callers : call[d].place = "migrate" /\ call[d].job = x[1]
        BY <1>1, <2>1, Zenon DEF QueuedJobsCanBeCancelled
      <3>1. x \in ready \cup delayed /\ x[1] # j
        BY <2>1
      <3>2. record'[x[1]] = record[x[1]]
        BY <1>0, <2>3, <3>1 DEF PendingTypeOK, Payloads
      <3> QED BY <1>3, <3>1, <3>2 DEF QueuedJobsCanBeCancelled
    <2>7. \A x \in running' : x[1] \in everRun'
      BY <1>2, <2>1
    <2> QED BY <2>3, <2>4, <2>5, <2>6, <2>7 DEF RecordInvariant
  <1> QED BY <1>4, <1>5, <1>6, <1>7

\* Every step keeps the invariant of the records.
LEMMA RecordInvariantStep ==
  PendingInvariant /\ RecordInvariant /\ [PendingNext]_pendingVars => RecordInvariant'
  <1> SUFFICES ASSUME PendingInvariant, RecordInvariant, [PendingNext]_pendingVars
               PROVE  RecordInvariant'
    OBVIOUS
  <1>1. ASSUME NEW c \in Callers, CallerAction(c) PROVE RecordInvariant'
    BY <1>1, CancelRecordStep, MoveRecordStep, MigratedRecordStep, ClearRecordStep
    DEF CallerAction, CallerStep, ReleaseStep, ClearStep
  <1>2. CASE UNCHANGED pendingVars
    BY <1>2 DEF pendingVars, queueJobVars, workerVars, recordVars, pendingHistory,
          RecordInvariant, RecordCallInv, FormInv, QueuedJobsCanBeCancelled
  <1> QED BY <1>1, <1>2, WorkerRecordStep DEF PendingNext, WorkerStep, CallerAction

\* Horizon's records follow the queue, whatever the number of jobs and calls.
THEOREM RecordInvariantHolds == PendingSpec => []RecordInvariant
  BY PendingInvariantHolds, RecordInit, RecordInvariantStep, PTL DEF PendingSpec

\* A job that waits in the queue can be cancelled and released (CancelPendingJob,
\* ReleaseDelayedJobNow): the payload in its record is the one in the queue.
THEOREM QueuedJobsStayCancellable == PendingSpec => []QueuedJobsCanBeCancelled
  <1>1. RecordInvariant => QueuedJobsCanBeCancelled
    BY DEF RecordInvariant
  <1> QED BY RecordInvariantHolds, <1>1, PTL

\* When a clear has ended without failing, no job it took from the queue is
\* left in pending_jobs (ClearQueue), whatever the scan met on its way.
THEOREM ClearLeavesNoMember == PendingSpec => ClearedJobsAreUnlisted
  <1> USE DEF queueJobVars, workerVars, recordVars, lockVars, pendingHistory
  <1>1. ASSUME PendingInvariant, RecordInvariant, [PendingNext]_pendingVars,
               NEW c \in Callers, call[c].place = "purge", Finish(c), UNCHANGED failures
        PROVE  call[c].dropped \cap listed = {}
    <2>1. PendingTypeOK /\ CallsOK /\ failures \in Nat
      BY <1>1, TypesSplit DEF PendingInvariant, PendingTypeOK
    <2>2. call'[c].place = "idle"
      BY <1>1, <2>1, FinishTypes DEF Idle
    <2>3. PICK d \in Callers : CallerAction(d)
      <3>1. ~ UNCHANGED call
        BY <1>1, <2>2
      <3>2. \A j \in Jobs : ~ (Push(j) \/ MigrateDue(j) \/ Pop(j) \/ MarkReserved(j) \/ EndJob(j)
                               \/ ReleaseBack(j))
        BY <3>1 DEF Push, MigrateDue, Pop, MarkReserved, EndJob, ReleaseBack
      <3> QED BY <1>1, <3>1, <3>2 DEF PendingNext, WorkerStep, CallerAction, pendingVars
    <2>4. d = c
      BY <1>1, <2>2, <2>3, CallerFrame
    <2>5. Purged(c)
      <3>1. ~ PurgePage(c)
        <4>1. ASSUME NEW page, call' = [call EXCEPT ![c].rest = @ \ page] PROVE FALSE
          BY <1>1, <2>1, <2>2, <4>1 DEF CallsOK, Calls
        <4> QED BY <4>1 DEF PurgePage
      <3>2. ~ Die(c)
        BY <1>1, <2>1 DEF Die, Failure
      <3> QED BY <1>1, <2>3, <2>4, <3>1, <3>2 DEF CallerAction, CallerStep, CancelStep, ReleaseStep,
              ClearStep, ReadPending, ReadDelayed, ClearDriver, RemoveFromQueue,
              ReleaseContextLock, ReleaseCommandLock,
              ForgetPending, MoveToReady, Migrated, Rollback
    <2>6. call[c].rest \cap listed = {} /\ RecordCallInv(c)
      BY <1>1, <2>5 DEF Purged, RecordInvariant
    <2> QED BY <1>1, <2>6 DEF RecordCallInv
  <1>2. PendingInvariant /\ RecordInvariant /\ [PendingNext]_pendingVars =>
            [\A c \in Callers : call[c].place = "purge" /\ Finish(c) /\ UNCHANGED failures =>
                call[c].dropped \cap listed = {}]_pendingVars
    BY <1>1
  <1> QED BY PendingInvariantHolds, RecordInvariantHolds, <1>2, PTL
          DEF PendingSpec, ClearedJobsAreUnlisted

-----------------------------------------------------------------------------
(* The life of a job.                                                      *)

Over == everPushed \ (Waiting \cup Taken \cup cancelled)

\* A job waits or is taken, and was neither cancelled nor is it over.
LEMMA Standing ==
  ASSUME PendingInvariant
  PROVE  /\ Active = Waiting \cup Taken /\ Waiting \cap Taken = {}
         /\ (Waiting \cup Taken) \cap cancelled = {}
         /\ Waiting \cup Taken \cup cancelled \subseteq everPushed
         /\ Waiting \subseteq Jobs /\ Taken \subseteq Jobs
  <1>0. PendingTypeOK /\ PlacesInv
    BY DEF PendingInvariant, PlacesInv
  <1>1. Active = Waiting \cup Taken
    BY DEF Active, Live, Waiting, Taken, JobsOf
  <1>2. ASSUME NEW k \in Waiting, k \in Taken PROVE FALSE
    <2>1. PICK x \in ready \cup delayed : x[1] = k
      BY DEF Waiting, JobsOf
    <2>2. PICK y \in running : y[1] = k
      BY <1>2 DEF Taken, JobsOf
    <2> QED BY <1>0, <2>1, <2>2 DEF PlacesInv, NoJobIsDuplicated, Live
  <1>3. Active \subseteq Jobs
    BY <1>0, PayloadsAre
  <1> QED BY <1>0, <1>1, <1>2, <1>3 DEF PlacesInv, CancelledJobsStayCancelled

\* A payload adds its job.
LEMMA OnePayloadMore == \A S, x : JobsOf(S \cup {x}) = JobsOf(S) \cup {x[1]}
  BY DEF JobsOf

\* One payload of the queue in place of another of its job: the job still waits.
LEMMA StillWaiting ==
  ASSUME NEW x \in ready \cup delayed, NEW y, y[1] = x[1],
         ready' \cup delayed' = ((ready \cup delayed) \ {x}) \cup {y},
         UNCHANGED <<running, cancelled, everPushed>>
  PROVE  UNCHANGED <<Waiting, Taken, cancelled, Over>>
  <1>1. Waiting' = Waiting
    BY DEF Waiting, JobsOf
  <1>2. Taken' = Taken
    BY DEF Taken, JobsOf
  <1> QED BY <1>1, <1>2 DEF Over

\* The only payload of a job leaves the queue: every other job still waits.
LEMMA LeavesQueue ==
  ASSUME PendingInvariant, NEW x \in ready \cup delayed,
         ready' \cup delayed' = (ready \cup delayed) \ {x}
  PROVE  Waiting' = Waiting \ {x[1]} /\ x[1] \in Waiting
  <1>1. \A z \in (ready \cup delayed) \ {x} : z[1] # x[1]
    BY DEF PendingInvariant, NoJobIsDuplicated, Live
  <1> QED BY <1>1 DEF Waiting, JobsOf

\* The only payload of a job leaves its worker.
LEMMA LeavesWorker ==
  ASSUME PendingInvariant, NEW x \in running, running' = running \ {x}
  PROVE  Taken' = Taken \ {x[1]} /\ x[1] \in Taken
  <1>1. \A z \in running \ {x} : z[1] # x[1]
    BY DEF PendingInvariant, NoJobIsDuplicated, Live
  <1> QED BY <1>1 DEF Taken, JobsOf

\* A cancellation that finds the job in the queue cancels it; one that does not,
\* a release and a rollback are no event, whatever they find.
LEMMA CallerLifeStep ==
  ASSUME PendingInvariant, NEW c \in Callers, CallerAction(c)
  PROVE  \/ \E j \in Jobs : Lifecycle!Cancel(j)
         \/ Lifecycle!Clear
         \/ UNCHANGED Lifecycle!vars
  <1> USE DEF queueJobVars, workerVars, recordVars, lockVars, pendingHistory
  <1>0. PendingTypeOK /\ CallInv(c) /\ PlacesInv
    BY DEF PendingInvariant, PlacesInv
  <1>s. UNCHANGED <<Waiting, Taken, cancelled, Over>> => UNCHANGED Lifecycle!vars
    BY DEF Lifecycle!vars, Over
  <1>1. CASE RemoveFromQueue(c)
    <2>1. running' = running /\ everPushed' = everPushed
      BY <1>1 DEF RemoveFromQueue
    <2>2. CASE cancelled' = cancelled /\ UNCHANGED <<ready, delayed>>
      BY <1>s, <2>1, <2>2 DEF Waiting, Taken, Over
    <2>3. CASE /\ cancelled' = cancelled \cup {call[c].job}
              /\ <<ready', delayed'>> # <<ready, delayed>>
      <3>1. Read(c) \in ready \cup delayed /\ Read(c)[1] = call[c].job
        BY <1>1, <2>3 DEF RemoveFromQueue, Read
      <3>2. ready' \cup delayed' = (ready \cup delayed) \ {Read(c)}
        BY <1>0, <1>1, <2>3 DEF RemoveFromQueue, PlacesInv, NoJobIsDuplicated
      <3>3. Waiting' = Waiting \ {call[c].job} /\ call[c].job \in Waiting
        BY <3>1, <3>2, LeavesQueue
      <3>4. Taken' = Taken
        BY <2>1 DEF Taken, JobsOf
      <3>5. Over' = Over
        BY <2>1, <2>3, <3>3, <3>4, Standing DEF Over
      <3>6. Lifecycle!Cancel(call[c].job)
        BY <2>3, <3>3, <3>4, <3>5 DEF Lifecycle!Cancel, Over
      <3> QED BY <3>3, <3>6, Standing
    <2> QED BY <1>1, <2>2, <2>3 DEF RemoveFromQueue
  <1>2. CASE MoveToReady(c)
    <2>1. CASE Read(c) \in delayed
      <3>1. ready' \cup delayed' = ((ready \cup delayed) \ {Read(c)}) \cup {Replacement(c)}
        BY <1>0, <1>2, <2>1 DEF MoveToReady, PlacesInv, NoJobIsDuplicated
      <3>2. Replacement(c)[1] = Read(c)[1]
        BY DEF Replacement, Read
      <3> QED BY <1>s, <1>2, <2>1, <3>1, <3>2, StillWaiting DEF MoveToReady
    <2>2. CASE UNCHANGED <<ready, delayed>>
      BY <1>s, <1>2, <2>2 DEF MoveToReady, Waiting, Taken, Over
    <2> QED BY <1>2, <2>1, <2>2 DEF MoveToReady
  <1>3. CASE Rollback(c)
    <2>1. CASE Replacement(c) \in ready /\ ready' = ready \ {Replacement(c)} /\ delayed' = delayed \cup {Read(c)}
      <3>1. ready' \cup delayed' = ((ready \cup delayed) \ {Replacement(c)}) \cup {Read(c)}
        BY <1>0, <2>1 DEF PlacesInv, NoJobIsDuplicated
      <3>2. Replacement(c)[1] = Read(c)[1]
        BY DEF Replacement, Read
      <3> QED BY <1>s, <1>3, <2>1, <3>1, <3>2, StillWaiting DEF Rollback
    <2>2. CASE UNCHANGED <<ready, delayed>>
      BY <1>s, <1>3, <2>2 DEF Rollback, Waiting, Taken, Over
    <2> QED BY <1>3, <2>1, <2>2 DEF Rollback
  <1>4. CASE ClearDriver(c)
    <2>1. ready' = {} /\ delayed' = {} /\ UNCHANGED <<running, cancelled, everPushed>>
      BY <1>4 DEF ClearDriver
    <2>2. Waiting' = {} /\ Taken' = Taken
      BY <2>1 DEF Waiting, Taken, JobsOf
    <2>3. Over' = Over \cup Waiting
      BY <2>1, <2>2, Standing DEF Over
    <2>4. Lifecycle!Clear
      BY <2>1, <2>2, <2>3 DEF Lifecycle!Clear, Over
    <2> QED BY <2>4
  <1>5. CASE UNCHANGED <<ready, delayed, running, cancelled, everPushed>>
    BY <1>s, <1>5 DEF Waiting, Taken, Over
  <1>6. \/ RemoveFromQueue(c) \/ MoveToReady(c) \/ Rollback(c) \/ ClearDriver(c)
        \/ UNCHANGED <<ready, delayed, running, cancelled, everPushed>>
    BY DEF CallerAction, CallerStep, CancelStep, ReleaseStep, ClearStep, ReadPending, ReadDelayed,
           ReleaseContextLock, ReleaseCommandLock, ForgetPending, Migrated, PurgePage, Purged, Die
  <1> QED BY <1>1, <1>2, <1>3, <1>4, <1>5, <1>6

\* What workers and the application do to a job is an event of its life, but for
\* a delayed job that falls due.
LEMMA WorkerLifeStep ==
  ASSUME PendingInvariant, NEW j \in Jobs,
         Push(j) \/ MigrateDue(j) \/ Pop(j) \/ MarkReserved(j) \/ EndJob(j) \/ ReleaseBack(j)
  PROVE  \/ Lifecycle!Enter(j) \/ Lifecycle!Take(j) \/ Lifecycle!GiveBack(j) \/ Lifecycle!End(j)
         \/ UNCHANGED Lifecycle!vars
  <1> USE DEF queueJobVars, workerVars, recordVars, lockVars, pendingHistory
  <1>0. PendingTypeOK /\ PlacesInv
    BY DEF PendingInvariant, PlacesInv
  <1>s. UNCHANGED <<Waiting, Taken, cancelled, Over>> => UNCHANGED Lifecycle!vars
    BY DEF Lifecycle!vars, Over
  <1>1. CASE Push(j)
    <2>1. /\ j \notin everPushed /\ everPushed' = everPushed \cup {j}
          /\ UNCHANGED <<running, cancelled>>
      BY <1>1 DEF Push
    <2>2. ready' \cup delayed' = (ready \cup delayed) \cup {<<j, 0>>}
      BY <1>1 DEF Push
    <2>3. Waiting' = Waiting \cup {j} /\ Taken' = Taken
      <3>1. <<j, 0>>[1] = j
        OBVIOUS
      <3>2. JobsOf((ready \cup delayed) \cup {<<j, 0>>}) = JobsOf(ready \cup delayed) \cup {j}
        BY <3>1, OnePayloadMore
      <3>3. Waiting' = Waiting \cup {j}
        BY <2>2, <3>2 DEF Waiting
      <3>4. Taken' = Taken
        BY <2>1 DEF Taken
      <3> QED BY <3>3, <3>4
    <2>4. Over' = Over
      BY <2>1, <2>3, Standing DEF Over
    <2>5. j \in UniqueJobs /\ cancelled \cap ReleasedTwice = {} =>
            UniqueJobs \cap (Waiting \cup Taken) = {}
      <3>1. j \in UniqueJobs => uniqueLock = NoJob
        BY <1>1 DEF Push
      <3>2. cancelled \cap ReleasedTwice = {} => \A i \in UniqueJobs \cap Active : uniqueLock = i
        BY DEF PendingInvariant, LockInv
      <3> QED BY <3>1, <3>2, Standing, PendingAssumption
    <2>6. j \notin Waiting \cup Taken \cup cancelled \cup Over
      BY <2>1, Standing DEF Over
    <2> QED BY <2>1, <2>3, <2>4, <2>5, <2>6 DEF Lifecycle!Enter, Over
  <1>2. CASE MigrateDue(j)
    <2>1. PICK x \in delayed : delayed' = delayed \ {x} /\ ready' = ready \cup {x}
      BY <1>2 DEF MigrateDue
    <2>2. ready' \cup delayed' = ((ready \cup delayed) \ {x}) \cup {x}
      BY <2>1
    <2> QED BY <1>s, <1>2, <2>1, <2>2, StillWaiting DEF MigrateDue
  <1>3. CASE Pop(j)
    <2>1. PICK x \in ready : /\ x[1] = j /\ ready' = ready \ {x}
                             /\ running' = running \cup {<<j, x[2] + 1>>}
      BY <1>3 DEF Pop
    <2>2. UNCHANGED <<delayed, cancelled, everPushed>>
      BY <1>3 DEF Pop
    <2>3. ready' \cup delayed' = (ready \cup delayed) \ {x}
      BY <1>0, <2>1, <2>2 DEF PlacesInv, NoJobIsDuplicated
    <2>4. Waiting' = Waiting \ {j} /\ j \in Waiting
      BY <2>1, <2>3, LeavesQueue
    <2>5. Taken' = Taken \cup {j}
      <3>1. <<j, x[2] + 1>>[1] = j
        OBVIOUS
      <3> QED BY <2>1, <3>1, OnePayloadMore DEF Taken
    <2>6. Over' = Over
      BY <2>2, <2>4, <2>5 DEF Over
    <2> QED BY <2>2, <2>4, <2>5, <2>6 DEF Lifecycle!Take, Over
  <1>4. CASE MarkReserved(j)
    BY <1>s, <1>4 DEF MarkReserved, Waiting, Taken, Over
  <1>5. CASE EndJob(j)
    <2>1. PICK x \in running : x[1] = j /\ running' = running \ {x}
      BY <1>5 DEF EndJob
    <2>2. UNCHANGED <<ready, delayed, cancelled, everPushed>>
      BY <1>5 DEF EndJob
    <2>3. Taken' = Taken \ {j} /\ j \in Taken
      BY <2>1, LeavesWorker
    <2>4. Waiting' = Waiting
      BY <2>2 DEF Waiting, JobsOf
    <2>5. Over' = Over \cup {j}
      BY <2>2, <2>3, <2>4, Standing DEF Over
    <2> QED BY <2>2, <2>3, <2>4, <2>5 DEF Lifecycle!End, Over
  <1>6. CASE ReleaseBack(j)
    <2>1. PICK x \in running : x[1] = j /\ running' = running \ {x} /\ delayed' = delayed \cup {x}
      BY <1>6 DEF ReleaseBack
    <2>2. UNCHANGED <<ready, cancelled, everPushed>>
      BY <1>6 DEF ReleaseBack
    <2>3. Taken' = Taken \ {j} /\ j \in Taken
      BY <2>1, LeavesWorker
    <2>4. Waiting' = Waiting \cup {j}
      BY <2>1, <2>2 DEF Waiting, JobsOf
    <2>5. Over' = Over
      BY <2>2, <2>3, <2>4 DEF Over
    <2> QED BY <2>2, <2>3, <2>4, <2>5 DEF Lifecycle!GiveBack, Over
  <1> QED BY <1>1, <1>2, <1>3, <1>4, <1>5, <1>6

\* For any jobs, callers, failures and changes of payloads: cancelling, releasing
\* and clearing, each of several round trips, give a job the life JobLifecycle
\* describes, in which a cancellation happens at one instant to a job that waits,
\* and unique jobs come one at a time until a lock has been released twice.
THEOREM JobsLiveOnce == PendingSpec => ImplementsJobLifecycle
  <1>1. PendingInit => Lifecycle!Init
    BY DEF PendingInit, Lifecycle!Init, Waiting, Taken, JobsOf
  <1>2. PendingInvariant /\ [PendingNext]_pendingVars => [Lifecycle!Next]_Lifecycle!vars
    <2> SUFFICES ASSUME PendingInvariant, [PendingNext]_pendingVars
                 PROVE  [Lifecycle!Next]_Lifecycle!vars
      OBVIOUS
    <2>1. ASSUME NEW c \in Callers, CallerAction(c) PROVE [Lifecycle!Next]_Lifecycle!vars
      BY <2>1, CallerLifeStep DEF Lifecycle!Next
    <2>2. ASSUME NEW j \in Jobs,
                 Push(j) \/ MigrateDue(j) \/ Pop(j) \/ MarkReserved(j) \/ EndJob(j) \/ ReleaseBack(j)
          PROVE  [Lifecycle!Next]_Lifecycle!vars
      BY <2>2, WorkerLifeStep DEF Lifecycle!Next
    <2>3. CASE UNCHANGED pendingVars
      BY <2>3 DEF pendingVars, queueJobVars, workerVars, lockVars, pendingHistory, Lifecycle!vars, Waiting, Taken
    <2> QED BY <2>1, <2>2, <2>3 DEF PendingNext, CallerAction, WorkerStep
  <1> QED
    BY <1>1, <1>2, PendingInvariantHolds, PTL DEF PendingSpec, ImplementsJobLifecycle, Lifecycle!Spec
=============================================================================
