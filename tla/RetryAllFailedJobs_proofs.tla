---------------------- MODULE RetryAllFailedJobs_proofs ----------------------
(***************************************************************************)
(* Proofs about retrying failed jobs, for any jobs, operations, workers,   *)
(* chunk size, deaths and expired locks.  The first part is about single   *)
(* retries, any number of them at a time (FailedJobRetry); the second      *)
(* shows that retrying in bulk keeps to that protocol; the third is about  *)
(* what a bulk retry completes and counts (RetryAllFailedJobs).            *)
(***************************************************************************)
EXTENDS RetryAllFailedJobs, FiniteSetTheorems, WellFoundedInduction, TLAPS

\* With no retry pushed and no process running, the records are consistent.
LEMMA RetryInitInvariant == RetryInit => RetryInvariant
  BY RetryAssumption DEF RetryInit, RetryInvariant, RetryTypeOK, HolderInv, PushInv, RecordInv,
     RetriesAreSequential, Children, Inside, NoRetries, Statuses, Recorded, Stages, Over

\* What the invariant says of two processes inside a run on the same job: there
\* are none, unless its lock lapsed.
LEMMA OneInside ==
    ASSUME RetryInvariant, NEW p \in Processes, NEW q \in Processes,
           NEW j \in Jobs \ lapsed, Inside(p, j), Inside(q, j)
    PROVE  p = q
  BY DEF RetryInvariant, HolderInv

\* Every step keeps the types.
LEMMA RetryTypeStep ==
    ASSUME RetryInvariant, [RetryNext]_retryVars
    PROVE  RetryTypeOK'
<1> USE RetryAssumption DEF RetryTypeOK, Statuses, Recorded, Stages, Advance, Mishap,
        jobVars, processVars, retryVars
<1>0. RetryTypeOK
  BY DEF RetryInvariant
<1>1. ASSUME NEW p \in Processes, NEW j \in Jobs, NEW b \in BOOLEAN, Call(p, j, b)
      PROVE  RetryTypeOK'
  BY <1>0, <1>1 DEF Call
<1>2. ASSUME NEW p \in Processes, Acquire(p)
      PROVE  RetryTypeOK'
  BY <1>0, <1>2 DEF Acquire
<1>3. ASSUME NEW p \in Processes, LockIsBusy(p)
      PROVE  RetryTypeOK'
  BY <1>0, <1>3 DEF LockIsBusy
<1>4. ASSUME NEW p \in Processes, ReadEligibility(p)
      PROVE  RetryTypeOK'
  <2>1. stage' \in [Processes -> Stages] /\ outcome' \in [Processes -> BOOLEAN]
    BY <1>0, <1>4 DEF ReadEligibility
  <2>2. UNCHANGED <<jobVars, lock, lapsed, target, bulk, child, mishaps>>
    BY <1>4 DEF ReadEligibility
  <2> QED
    BY <1>0, <2>1, <2>2
<1>5. ASSUME NEW p \in Processes, FindFailed(p)
      PROVE  RetryTypeOK'
  BY <1>0, <1>5 DEF FindFailed
<1>6. ASSUME NEW p \in Processes, PushRetry(p)
      PROVE  RetryTypeOK'
  BY <1>0, <1>6 DEF PushRetry
<1>7. ASSUME NEW p \in Processes, StoreRetryReference(p)
      PROVE  RetryTypeOK'
  <2>1. target[p] \in Jobs /\ child[p] \in Jobs
    BY <1>7 DEF RetryInvariant, HolderInv, StoreRetryReference
  <2> QED
    BY <1>0, <1>7, <2>1 DEF StoreRetryReference, RecordRetry
<1>8. ASSUME NEW p \in Processes, Release(p)
      PROVE  RetryTypeOK'
  BY <1>0, <1>8 DEF Release, ReleaseOwnToken
<1>9. ASSUME NEW p \in Processes, Return(p)
      PROVE  RetryTypeOK'
  BY <1>0, <1>9 DEF Return, Reset
<1>10. ASSUME NEW p \in Processes, Abort(p)
      PROVE  RetryTypeOK'
  <2>1. target[p] \in Jobs
    BY <1>10 DEF RetryInvariant, HolderInv, Abort
  <2>2. lapsed' \subseteq Jobs
    BY <1>0, <1>10, <2>1 DEF Abort
  <2>3. lock' \in [Jobs -> Processes \cup {NoOne}]
    BY <1>0, <1>10, <2>1 DEF Abort, ReleaseOwnToken
  <2>4. /\ UNCHANGED jobVars /\ mishaps' = mishaps + 1
        /\ stage' = [stage EXCEPT ![p] = "idle"]
        /\ target' = [target EXCEPT ![p] = NoJob]
        /\ bulk' = [bulk EXCEPT ![p] = FALSE]
        /\ child' = [child EXCEPT ![p] = NoJob]
        /\ outcome' = [outcome EXCEPT ![p] = FALSE]
    BY <1>10 DEF Abort, Reset
  <2> QED
    BY <1>0, <2>2, <2>3, <2>4
<1>11. ASSUME NEW j \in Jobs, ExpireLock(j)
      PROVE  RetryTypeOK'
  <2>1. lock' \in [Jobs -> Processes \cup {NoOne}]
    BY <1>0, <1>11 DEF ExpireLock
  <2>2. lapsed' \in {lapsed, lapsed \cup {j}} /\ mishaps' \in {mishaps, mishaps + 1}
    BY <1>11, Zenon DEF ExpireLock
  <2>3. UNCHANGED <<jobVars, processVars>>
    BY <1>11 DEF ExpireLock
  <2> QED
    BY <1>0, <2>1, <2>2, <2>3
<1>12. ASSUME NEW j \in Jobs, EndRetry(j, "completed") \/ EndRetry(j, "failed")
      PROVE  RetryTypeOK'
  <2>1. parent[j] \in Jobs
    BY <1>12 DEF RetryInvariant, RecordInv, EndRetry
  <2>2. retriedBy' \in [Jobs -> [Jobs -> Recorded]]
    BY <1>0, <1>12, <2>1 DEF EndRetry
  <2>3. status' \in [Jobs -> Statuses]
    BY <1>0, <1>12 DEF EndRetry
  <2>4. UNCHANGED <<parent, byBulk, lock, lapsed, processVars, mishaps>>
    BY <1>12 DEF EndRetry
  <2> QED
    BY <1>0, <2>2, <2>3, <2>4
<1>13. ASSUME NEW j \in Jobs, RemoveFailed(j)
      PROVE  RetryTypeOK'
  BY <1>0, <1>13 DEF RemoveFailed, NoRetries
<1>14. ASSUME UNCHANGED retryVars
      PROVE  RetryTypeOK'
  BY <1>0, <1>14
<1> QED
  BY <1>1, <1>2, <1>3, <1>4, <1>5, <1>6, <1>7, <1>8, <1>9, <1>10, <1>11, <1>12, <1>13, <1>14
  DEF RetryNext, RetryStep, RetryEnvironment
\* Every step keeps what a holder knows of its job, its lock and its retry.
LEMMA RetryHolderStep ==
    ASSUME RetryInvariant, [RetryNext]_retryVars, NEW q \in Processes
    PROVE  HolderInv(q)'
<1> USE RetryAssumption DEF RetryTypeOK, HolderInv, Inside,
        Statuses, Recorded, Stages, Over, Advance, Mishap, jobVars, processVars, retryVars
<1>0. RetryTypeOK /\ (\A p \in Processes : HolderInv(p) /\ PushInv(p)) /\ (\A j \in Jobs : RecordInv(j))
      /\ RetriesAreSequential
  BY DEF RetryInvariant
<1>1. ASSUME NEW p \in Processes, NEW j \in Jobs, NEW b \in BOOLEAN, Call(p, j, b)
      PROVE  HolderInv(q)'
  BY <1>0, <1>1 DEF Call
<1>2. ASSUME NEW p \in Processes, Acquire(p)
      PROVE  HolderInv(q)'
  BY <1>0, <1>2 DEF Acquire
<1>3. ASSUME NEW p \in Processes, LockIsBusy(p)
      PROVE  HolderInv(q)'
  BY <1>0, <1>3 DEF LockIsBusy
<1>4. ASSUME NEW p \in Processes, ReadEligibility(p)
      PROVE  HolderInv(q)'
  BY <1>0, <1>4 DEF ReadEligibility, Eligible, Allows, AllowsBulk
<1>5. ASSUME NEW p \in Processes, FindFailed(p)
      PROVE  HolderInv(q)'
  BY <1>0, <1>5 DEF FindFailed
<1>6. ASSUME NEW p \in Processes, PushRetry(p)
      PROVE  HolderInv(q)'
  <2>1. PICK c \in Jobs :
          /\ status[c] = "none"
          /\ status' = [status EXCEPT ![c] = "queued"]
          /\ parent' = [parent EXCEPT ![c] = target[p]]
          /\ child' = [child EXCEPT ![p] = c]
    BY <1>6 DEF PushRetry
  <2>2. /\ stage[p] = "push" /\ stage' = [stage EXCEPT ![p] = "reference"]
        /\ UNCHANGED <<retriedBy, lock, lapsed, target, bulk>>
    BY <1>6 DEF PushRetry
  <2>3. /\ target[p] \in Jobs /\ status[target[p]] \in Over /\ target[p] # c
    BY <1>0, <2>1, <2>2 DEF HolderInv
  <2>4. parent[c] = NoJob /\ Children(c) = {}
    BY <1>0, <2>1 DEF RecordInv
  <2>5. /\ parent'[c] = target[p] /\ \A d \in Jobs \ {c} : parent'[d] = parent[d]
        /\ status'[c] = "queued" /\ \A d \in Jobs \ {c} : status'[d] = status[d]
    BY <1>0, <2>1, <2>3
  <2>6. CASE q = p
    BY <1>0, <2>1, <2>2, <2>3, <2>5, <2>6
  <2>7. CASE q # p
    <3>1. stage[q] = "reference" => child[q] # c
      BY <1>0, <2>3, <2>4
    <3> QED
      BY <1>0, <2>1, <2>2, <2>3, <2>5, <2>7, <3>1
  <2> QED
    BY <2>6, <2>7
<1>7. ASSUME NEW p \in Processes, StoreRetryReference(p)
      PROVE  HolderInv(q)'
  BY <1>0, <1>7 DEF StoreRetryReference, RecordRetry
<1>8. ASSUME NEW p \in Processes, Release(p)
      PROVE  HolderInv(q)'
  BY <1>0, <1>8 DEF Release, ReleaseOwnToken
<1>9. ASSUME NEW p \in Processes, Return(p)
      PROVE  HolderInv(q)'
  BY <1>0, <1>9 DEF Return, Reset
<1>10. ASSUME NEW p \in Processes, Abort(p)
      PROVE  HolderInv(q)'
  BY <1>0, <1>10 DEF Abort, Reset, ReleaseOwnToken
<1>11. ASSUME NEW j \in Jobs, ExpireLock(j)
      PROVE  HolderInv(q)'
  BY <1>0, <1>11 DEF ExpireLock
<1>12. ASSUME NEW j \in Jobs, NEW r \in {"completed", "failed"}, EndRetry(j, r)
      PROVE  HolderInv(q)'
  BY <1>0, <1>12 DEF EndRetry
<1>13. ASSUME NEW j \in Jobs, RemoveFailed(j)
      PROVE  HolderInv(q)'
  BY <1>0, <1>13 DEF RemoveFailed, NoRetries
<1>14. ASSUME UNCHANGED retryVars
      PROVE  HolderInv(q)'
  BY <1>0, <1>14
<1> QED
  BY <1>1, <1>2, <1>3, <1>4, <1>5, <1>6, <1>7, <1>8, <1>9, <1>10, <1>11, <1>12, <1>13, <1>14
  DEF RetryNext, RetryStep, RetryEnvironment

\* Every step keeps what a process established before pushing.
LEMMA RetryPushStep ==
    ASSUME RetryInvariant, [RetryNext]_retryVars, NEW q \in Processes
    PROVE  PushInv(q)'
<1> USE RetryAssumption DEF RetryTypeOK, PushInv, Inside, Children,
        Statuses, Recorded, Stages, Over, Advance, Mishap, jobVars, processVars, retryVars
<1>0. RetryTypeOK /\ (\A p \in Processes : HolderInv(p) /\ PushInv(p)) /\ (\A j \in Jobs : RecordInv(j))
      /\ RetriesAreSequential
  BY DEF RetryInvariant
<1>1. ASSUME NEW p \in Processes, NEW j \in Jobs, NEW b \in BOOLEAN, Call(p, j, b)
      PROVE  PushInv(q)'
  BY <1>0, <1>1 DEF Call
<1>2. ASSUME NEW p \in Processes, Acquire(p)
      PROVE  PushInv(q)'
  BY <1>0, <1>2 DEF Acquire
<1>3. ASSUME NEW p \in Processes, LockIsBusy(p)
      PROVE  PushInv(q)'
  BY <1>0, <1>3 DEF LockIsBusy
<1>4. ASSUME NEW p \in Processes, ReadEligibility(p)
      PROVE  PushInv(q)'
  <2>1. CASE q # p
    BY <1>0, <1>4, <2>1 DEF ReadEligibility
  <2>2. CASE q = p
    <3>1. SUFFICES ASSUME Eligible(target[p], bulk[p]), target[p] \notin lapsed
          PROVE  /\ \A c \in Children(target[p]) : status[c] \in Over
                 /\ bulk[p] => Children(target[p]) = {}
      BY <1>0, <1>4, <2>2 DEF ReadEligibility
    <3>2. target[p] \in Jobs /\ stage[p] = "read"
      BY <1>0, <1>4 DEF HolderInv, ReadEligibility
    <3>3. \A r \in Processes : stage[r] = "reference" => target[r] # target[p]
      BY <3>1, <3>2, OneInside
    <3>4. RecordInv(target[p]) /\ status[target[p]] = "failed"
      BY <1>0, <3>1, <3>2 DEF Eligible
    <3>7. \A c \in Children(target[p]) : retriedBy[target[p]][c] # "absent"
      BY <3>1, <3>3, <3>4 DEF RecordInv
    <3>5. ~ bulk[p] => \A c \in Jobs : retriedBy[target[p]][c] \in {"absent", "failed"}
      BY <3>1 DEF Eligible, Allows
    <3>6. bulk[p] => \A c \in Jobs : retriedBy[target[p]][c] = "absent"
      BY <3>1 DEF Eligible, AllowsBulk
    <3> QED
      BY <3>4, <3>5, <3>6, <3>7 DEF RecordInv
  <2> QED
    BY <2>1, <2>2
<1>5. ASSUME NEW p \in Processes, FindFailed(p)
      PROVE  PushInv(q)'
  BY <1>0, <1>5 DEF FindFailed
<1>6. ASSUME NEW p \in Processes, PushRetry(p)
      PROVE  PushInv(q)'
  <2>1. PICK c \in Jobs :
          /\ status[c] = "none"
          /\ status' = [status EXCEPT ![c] = "queued"]
          /\ parent' = [parent EXCEPT ![c] = target[p]]
          /\ child' = [child EXCEPT ![p] = c]
    BY <1>6 DEF PushRetry
  <2>2. /\ stage[p] = "push" /\ stage' = [stage EXCEPT ![p] = "reference"]
        /\ UNCHANGED <<retriedBy, lock, lapsed, target, bulk>>
    BY <1>6 DEF PushRetry
  <2>3. /\ target[p] \in Jobs /\ status[target[p]] \in Over /\ target[p] # c
    BY <1>0, <2>1, <2>2 DEF HolderInv
  <2>4. parent[c] = NoJob /\ Children(c) = {}
    BY <1>0, <2>1 DEF RecordInv
  <2>5. /\ parent'[c] = target[p] /\ \A d \in Jobs \ {c} : parent'[d] = parent[d]
        /\ status'[c] = "queued" /\ \A d \in Jobs \ {c} : status'[d] = status[d]
    BY <1>0, <2>1, <2>3
  <2>6. CASE q = p
    BY <1>0, <2>2, <2>6
  <2>7. CASE q # p
    <3>1. SUFFICES ASSUME stage[q] \in {"find", "push"}, target[q] \notin lapsed
          PROVE  /\ \A d \in Children(target[q])' : status'[d] \in Over
                 /\ bulk[q] => Children(target[q])' = {}
      BY <1>0, <2>2, <2>7
    <3>2. target[q] \in Jobs
      BY <1>0, <3>1 DEF HolderInv
    <3>3. target[q] # target[p]
      BY <2>2, <2>3, <2>7, <3>1, <3>2, OneInside
    <3>4. c \notin Children(target[q]) /\ target'[q] = target[q]
      BY <1>0, <2>2, <2>4, <3>2
    <3>5. \A d \in Jobs : parent'[d] = target[q] <=> parent[d] = target[q]
      BY <1>0, <2>1, <2>3, <2>4, <2>5, <3>2, <3>3
    <3>6. Children(target[q])' = Children(target[q])
      BY <3>4, <3>5
    <3> QED
      BY <1>0, <2>5, <3>1, <3>4, <3>6
  <2> QED
    BY <2>6, <2>7
<1>7. ASSUME NEW p \in Processes, StoreRetryReference(p)
      PROVE  PushInv(q)'
  BY <1>0, <1>7 DEF StoreRetryReference, RecordRetry
<1>8. ASSUME NEW p \in Processes, Release(p)
      PROVE  PushInv(q)'
  BY <1>0, <1>8 DEF Release, ReleaseOwnToken
<1>9. ASSUME NEW p \in Processes, Return(p)
      PROVE  PushInv(q)'
  BY <1>0, <1>9 DEF Return, Reset
<1>10. ASSUME NEW p \in Processes, Abort(p)
      PROVE  PushInv(q)'
  BY <1>0, <1>10 DEF Abort, Reset, ReleaseOwnToken
<1>11. ASSUME NEW j \in Jobs, ExpireLock(j)
      PROVE  PushInv(q)'
  BY <1>0, <1>11 DEF ExpireLock
<1>12. ASSUME NEW j \in Jobs, NEW r \in {"completed", "failed"}, EndRetry(j, r)
      PROVE  PushInv(q)'
  BY <1>0, <1>12 DEF EndRetry
<1>13. ASSUME NEW j \in Jobs, RemoveFailed(j)
      PROVE  PushInv(q)'
  BY <1>0, <1>13 DEF RemoveFailed, NoRetries
<1>14. ASSUME UNCHANGED retryVars
      PROVE  PushInv(q)'
  BY <1>0, <1>14
<1> QED
  BY <1>1, <1>2, <1>3, <1>4, <1>5, <1>6, <1>7, <1>8, <1>9, <1>10, <1>11, <1>12, <1>13, <1>14
  DEF RetryNext, RetryStep, RetryEnvironment

\* Every step keeps the retries of every job recorded.
LEMMA RetryRecordStep ==
    ASSUME RetryInvariant, [RetryNext]_retryVars, NEW k \in Jobs
    PROVE  RecordInv(k)'
<1> USE RetryAssumption DEF RetryTypeOK, RecordInv, Children,
        Statuses, Recorded, Stages, Over, Advance, Mishap, jobVars, processVars, retryVars
<1>0. RetryTypeOK /\ (\A p \in Processes : HolderInv(p) /\ PushInv(p)) /\ (\A j \in Jobs : RecordInv(j))
      /\ RetriesAreSequential
  BY DEF RetryInvariant
<1>1. ASSUME NEW p \in Processes, NEW j \in Jobs, NEW b \in BOOLEAN, Call(p, j, b)
      PROVE  RecordInv(k)'
  BY <1>0, <1>1 DEF Call
<1>2. ASSUME NEW p \in Processes, Acquire(p)
      PROVE  RecordInv(k)'
  BY <1>0, <1>2 DEF Acquire
<1>3. ASSUME NEW p \in Processes, LockIsBusy(p)
      PROVE  RecordInv(k)'
  BY <1>0, <1>3 DEF LockIsBusy
<1>4. ASSUME NEW p \in Processes, ReadEligibility(p)
      PROVE  RecordInv(k)'
  BY <1>0, <1>4 DEF ReadEligibility, Eligible, Allows, AllowsBulk
<1>5. ASSUME NEW p \in Processes, FindFailed(p)
      PROVE  RecordInv(k)'
  BY <1>0, <1>5 DEF FindFailed
<1>6. ASSUME NEW p \in Processes, PushRetry(p)
      PROVE  RecordInv(k)'
  <2>1. PICK c \in Jobs :
          /\ status[c] = "none"
          /\ status' = [status EXCEPT ![c] = "queued"]
          /\ parent' = [parent EXCEPT ![c] = target[p]]
          /\ child' = [child EXCEPT ![p] = c]
    BY <1>6 DEF PushRetry
  <2>2. /\ stage[p] = "push" /\ stage' = [stage EXCEPT ![p] = "reference"]
        /\ UNCHANGED <<retriedBy, lock, lapsed, target, bulk>>
    BY <1>6 DEF PushRetry
  <2>3. /\ target[p] \in Jobs /\ status[target[p]] \in Over /\ target[p] # c
    BY <1>0, <2>1, <2>2 DEF HolderInv
  <2>4. parent[c] = NoJob /\ Children(c) = {}
    BY <1>0, <2>1 DEF RecordInv
  <2>5. /\ parent'[c] = target[p] /\ \A d \in Jobs \ {c} : parent'[d] = parent[d]
        /\ status'[c] = "queued" /\ \A d \in Jobs \ {c} : status'[d] = status[d]
    BY <1>0, <2>1, <2>3
  <2>6. \A d \in Jobs : retriedBy[k][d] # "absent" => d # c
    BY <1>0, <2>4
  <2>7. \A d \in Jobs : d \in Children(k)' <=> d \in Children(k) \/ (d = c /\ k = target[p])
    BY <1>0, <2>1, <2>3, <2>4, <2>5
  <2>8. /\ status'[k] = "none" => parent'[k] = NoJob
        /\ status'[k] \notin Over => Children(k)' = {}
    <3>1. status'[k] = "none" => parent'[k] = NoJob
      BY <1>0, <2>3, <2>5
    <3>2. status'[k] \notin Over => k # target[p] /\ Children(k) = {}
      BY <1>0, <2>3, <2>4, <2>5
    <3>3. k # target[p] /\ Children(k) = {} => Children(k)' = {}
      BY <2>7
    <3> QED
      BY <3>1, <3>2, <3>3, Zenon
  <2>9. status'[k] \in {"queued", "completed"} => parent'[k] \in Jobs
    BY <1>0, <2>3, <2>5
  <2>10. \A d \in Jobs : retriedBy'[k][d] # "absent" =>
            parent'[d] = k /\ (retriedBy'[k][d] = "failed" => status'[d] \in Over)
    BY <1>0, <2>2, <2>5, <2>6
  <2>11. ASSUME status'[k] = "failed", k \notin lapsed', NEW d \in Children(k)'
         PROVE  \/ retriedBy'[k][d] # "absent"
                \/ \E r \in Processes : stage'[r] = "reference" /\ target'[r] = k /\ child'[r] = d
    <3>1. CASE d = c
      <4>1. stage'[p] = "reference" /\ target'[p] = k /\ child'[p] = d
        BY <1>0, <2>1, <2>2, <2>3, <2>4, <2>7, <2>11, <3>1
      <4> QED
        BY <4>1
    <3>2. CASE d # c
      <4>1. d \in Children(k) /\ status[k] = "failed" /\ k \notin lapsed
        BY <2>2, <2>5, <2>7, <2>11, <3>2
      <4>2. CASE retriedBy[k][d] # "absent"
        BY <2>2, <4>2
      <4>3. CASE \E r \in Processes : stage[r] = "reference" /\ target[r] = k /\ child[r] = d
        <5>1. PICK r \in Processes : stage[r] = "reference" /\ target[r] = k /\ child[r] = d
          BY <4>3
        <5>2. r # p
          BY <2>2, <5>1
        <5> QED
          BY <1>0, <2>1, <2>2, <5>1, <5>2
      <4> QED
        BY <1>0, <4>1, <4>2, <4>3
    <3> QED
      BY <3>1, <3>2
  <2> QED
    BY <2>8, <2>9, <2>10, <2>11 DEF Children
<1>7. ASSUME NEW p \in Processes, StoreRetryReference(p)
      PROVE  RecordInv(k)'
  <2>1. /\ stage[p] = "reference" /\ UNCHANGED <<status, parent, lapsed, target>>
        /\ stage' = [stage EXCEPT ![p] = "release"]
        /\ child' = [child EXCEPT ![p] = NoJob]
        /\ retriedBy' = [retriedBy EXCEPT ![target[p]][child[p]] = "pending"]
    BY <1>7 DEF StoreRetryReference, RecordRetry
  <2>2. target[p] \in Jobs /\ child[p] \in Jobs /\ parent[child[p]] = target[p]
    BY <1>0, <2>1 DEF HolderInv
  <2>3. \A d \in Jobs : retriedBy'[k][d] =
            IF k = target[p] /\ d = child[p] THEN "pending" ELSE retriedBy[k][d]
    BY <1>0, <2>1, <2>2
  <2>4. \A r \in Processes \ {p} : stage'[r] = stage[r] /\ child'[r] = child[r]
    BY <1>0, <2>1
  <2>5. Children(k)' = Children(k)
    BY <2>1
  <2>6. ASSUME status[k] = "failed", k \notin lapsed, NEW d \in Children(k)
        PROVE  \/ retriedBy'[k][d] # "absent"
               \/ \E r \in Processes : stage'[r] = "reference" /\ target'[r] = k /\ child'[r] = d
    <3>1. CASE retriedBy[k][d] # "absent"
      BY <2>3, <3>1
    <3>2. CASE \E r \in Processes : stage[r] = "reference" /\ target[r] = k /\ child[r] = d
      BY <2>1, <2>3, <2>4, <3>2
    <3> QED
      BY <1>0, <2>6, <3>1, <3>2
  <2>7. \A d \in Jobs : retriedBy'[k][d] # "absent" =>
            parent'[d] = k /\ (retriedBy'[k][d] = "failed" => status'[d] \in Over)
    BY <1>0, <2>1, <2>2, <2>3
  <2> QED
    BY <1>0, <2>1, <2>5, <2>6, <2>7
<1>8. ASSUME NEW p \in Processes, Release(p)
      PROVE  RecordInv(k)'
  BY <1>0, <1>8 DEF Release, ReleaseOwnToken
<1>9. ASSUME NEW p \in Processes, Return(p)
      PROVE  RecordInv(k)'
  BY <1>0, <1>9 DEF Return, Reset
<1>10. ASSUME NEW p \in Processes, Abort(p)
      PROVE  RecordInv(k)'
  BY <1>0, <1>10 DEF Abort, Reset, ReleaseOwnToken
<1>11. ASSUME NEW j \in Jobs, ExpireLock(j)
      PROVE  RecordInv(k)'
  BY <1>0, <1>11 DEF ExpireLock
<1>12. ASSUME NEW j \in Jobs, NEW r \in {"completed", "failed"}, EndRetry(j, r)
      PROVE  RecordInv(k)'
  <2>1. /\ status[j] = "queued" /\ status' = [status EXCEPT ![j] = r]
        /\ retriedBy' = [retriedBy EXCEPT ![parent[j]][j] = IF @ = "absent" THEN @ ELSE r]
        /\ UNCHANGED <<parent, lapsed, stage, target, child>>
    BY <1>12 DEF EndRetry
  <2>2. parent[j] \in Jobs
    BY <1>0, <2>1
  <2>3. \A d \in Jobs : retriedBy'[k][d] =
            IF k = parent[j] /\ d = j /\ retriedBy[k][d] # "absent" THEN r ELSE retriedBy[k][d]
    BY <1>0, <2>1, <2>2
  <2>4. /\ status'[j] = r /\ \A d \in Jobs \ {j} : status'[d] = status[d]
    BY <1>0, <2>1
  <2>5. Children(k)' = Children(k) /\ Children(j)' = Children(j)
    BY <2>1
  <2>6. \A d \in Jobs : retriedBy'[k][d] # "absent" =>
            parent'[d] = k /\ (retriedBy'[k][d] = "failed" => status'[d] \in Over)
    BY <1>0, <2>1, <2>3, <2>4
  <2>7. status'[k] = "failed" /\ k \notin lapsed' => \A d \in Children(k)' :
            \/ retriedBy'[k][d] # "absent"
            \/ \E x \in Processes : stage'[x] = "reference" /\ target'[x] = k /\ child'[x] = d
    <3>1. CASE k # j
      BY <1>0, <2>1, <2>3, <2>4, <2>5, <3>1
    <3>2. CASE k = j
      BY <1>0, <2>1, <2>3, <2>4, <2>5, <3>2
    <3> QED
      BY <3>1, <3>2
  <2>8. /\ status'[k] = "none" => parent'[k] = NoJob
        /\ status'[k] \notin Over => Children(k)' = {}
        /\ status'[k] \in {"queued", "completed"} => parent'[k] \in Jobs
    BY <1>0, <2>1, <2>2, <2>4, <2>5
  <2> QED
    BY <2>6, <2>7, <2>8 DEF Children
<1>13. ASSUME NEW j \in Jobs, RemoveFailed(j)
      PROVE  RecordInv(k)'
  BY <1>0, <1>13 DEF RemoveFailed, NoRetries
<1>14. ASSUME UNCHANGED retryVars
      PROVE  RecordInv(k)'
  BY <1>0, <1>14
<1> QED
  BY <1>1, <1>2, <1>3, <1>4, <1>5, <1>6, <1>7, <1>8, <1>9, <1>10, <1>11, <1>12, <1>13, <1>14
  DEF RetryNext, RetryStep, RetryEnvironment

\* Every step keeps the retries of a job one after the other.
LEMMA RetrySequentialStep ==
    ASSUME RetryInvariant, [RetryNext]_retryVars, NEW k \in Jobs
    PROVE  (k \notin lapsed => \A c, d \in Children(k) : c = d \/ status[c] \in Over \/ status[d] \in Over)'
<1> USE RetryAssumption DEF RetryTypeOK, RetriesAreSequential, Children,
        Statuses, Recorded, Stages, Over, Advance, Mishap, jobVars, processVars, retryVars
<1>0. RetryTypeOK /\ (\A p \in Processes : HolderInv(p) /\ PushInv(p)) /\ (\A j \in Jobs : RecordInv(j))
      /\ RetriesAreSequential
  BY DEF RetryInvariant
<1>1. ASSUME NEW p \in Processes, NEW j \in Jobs, NEW b \in BOOLEAN, Call(p, j, b)
      PROVE  (k \notin lapsed => \A c, d \in Children(k) : c = d \/ status[c] \in Over \/ status[d] \in Over)'
  BY <1>0, <1>1 DEF Call
<1>2. ASSUME NEW p \in Processes, Acquire(p)
      PROVE  (k \notin lapsed => \A c, d \in Children(k) : c = d \/ status[c] \in Over \/ status[d] \in Over)'
  BY <1>0, <1>2 DEF Acquire
<1>3. ASSUME NEW p \in Processes, LockIsBusy(p)
      PROVE  (k \notin lapsed => \A c, d \in Children(k) : c = d \/ status[c] \in Over \/ status[d] \in Over)'
  BY <1>0, <1>3 DEF LockIsBusy
<1>4. ASSUME NEW p \in Processes, ReadEligibility(p)
      PROVE  (k \notin lapsed => \A c, d \in Children(k) : c = d \/ status[c] \in Over \/ status[d] \in Over)'
  BY <1>0, <1>4 DEF ReadEligibility, Eligible, Allows, AllowsBulk
<1>5. ASSUME NEW p \in Processes, FindFailed(p)
      PROVE  (k \notin lapsed => \A c, d \in Children(k) : c = d \/ status[c] \in Over \/ status[d] \in Over)'
  BY <1>0, <1>5 DEF FindFailed
<1>6. ASSUME NEW p \in Processes, PushRetry(p)
      PROVE  (k \notin lapsed => \A c, d \in Children(k) : c = d \/ status[c] \in Over \/ status[d] \in Over)'
  <2>1. PICK c \in Jobs :
          /\ status[c] = "none"
          /\ status' = [status EXCEPT ![c] = "queued"]
          /\ parent' = [parent EXCEPT ![c] = target[p]]
          /\ child' = [child EXCEPT ![p] = c]
    BY <1>6 DEF PushRetry
  <2>2. /\ stage[p] = "push" /\ stage' = [stage EXCEPT ![p] = "reference"]
        /\ UNCHANGED <<retriedBy, lock, lapsed, target, bulk>>
    BY <1>6 DEF PushRetry
  <2>3. /\ target[p] \in Jobs /\ status[target[p]] \in Over /\ target[p] # c
    BY <1>0, <2>1, <2>2 DEF HolderInv
  <2>4. parent[c] = NoJob /\ Children(c) = {}
    BY <1>0, <2>1 DEF RecordInv
  <2>5. /\ parent'[c] = target[p] /\ \A d \in Jobs \ {c} : parent'[d] = parent[d]
        /\ status'[c] = "queued" /\ \A d \in Jobs \ {c} : status'[d] = status[d]
    BY <1>0, <2>1, <2>3
  <2>6. CASE k # target[p]
    <3>1. Children(k)' = Children(k) /\ c \notin Children(k)
      <4>1. parent[c] # k /\ parent'[c] # k
        BY <2>4, <2>5, <2>6
      <4>2. \A d \in Jobs : parent'[d] = k <=> parent[d] = k
        BY <2>5, <4>1
      <4> QED
        BY <4>1, <4>2
    <3>2. \A d \in Children(k) : status'[d] = status[d]
      BY <2>5, <3>1
    <3>3. k \notin lapsed => \A d, e \in Children(k) : d = e \/ status[d] \in Over \/ status[e] \in Over
      BY <1>0
    <3> HIDE DEF Children, Over
    <3> QED
      BY <2>2, <3>1, <3>2, <3>3
  <2>7. CASE k = target[p]
    <3>1. k \notin lapsed => \A d \in Children(k) : status[d] \in Over
      BY <1>0, <2>2, <2>7 DEF PushInv
    <3>2. \A d \in Children(k)' : d = c \/ d \in Children(k)
      BY <2>5
    <3>3. \A d \in Children(k) : d # c /\ status'[d] = status[d]
      BY <1>0, <2>4, <2>5, <2>7
    <3> HIDE DEF Children, Over
    <3> QED
      BY <2>2, <3>1, <3>2, <3>3
  <2> QED
    BY <2>6, <2>7
<1>7. ASSUME NEW p \in Processes, StoreRetryReference(p)
      PROVE  (k \notin lapsed => \A c, d \in Children(k) : c = d \/ status[c] \in Over \/ status[d] \in Over)'
  BY <1>0, <1>7 DEF StoreRetryReference, RecordRetry
<1>8. ASSUME NEW p \in Processes, Release(p)
      PROVE  (k \notin lapsed => \A c, d \in Children(k) : c = d \/ status[c] \in Over \/ status[d] \in Over)'
  BY <1>0, <1>8 DEF Release, ReleaseOwnToken
<1>9. ASSUME NEW p \in Processes, Return(p)
      PROVE  (k \notin lapsed => \A c, d \in Children(k) : c = d \/ status[c] \in Over \/ status[d] \in Over)'
  BY <1>0, <1>9 DEF Return, Reset
<1>10. ASSUME NEW p \in Processes, Abort(p)
      PROVE  (k \notin lapsed => \A c, d \in Children(k) : c = d \/ status[c] \in Over \/ status[d] \in Over)'
  BY <1>0, <1>10 DEF Abort, Reset, ReleaseOwnToken
<1>11. ASSUME NEW j \in Jobs, ExpireLock(j)
      PROVE  (k \notin lapsed => \A c, d \in Children(k) : c = d \/ status[c] \in Over \/ status[d] \in Over)'
  BY <1>0, <1>11 DEF ExpireLock
<1>12. ASSUME NEW j \in Jobs, NEW r \in {"completed", "failed"}, EndRetry(j, r)
      PROVE  (k \notin lapsed => \A c, d \in Children(k) : c = d \/ status[c] \in Over \/ status[d] \in Over)'
  BY <1>0, <1>12 DEF EndRetry
<1>13. ASSUME NEW j \in Jobs, RemoveFailed(j)
      PROVE  (k \notin lapsed => \A c, d \in Children(k) : c = d \/ status[c] \in Over \/ status[d] \in Over)'
  BY <1>0, <1>13 DEF RemoveFailed, NoRetries
<1>14. ASSUME UNCHANGED retryVars
      PROVE  (k \notin lapsed => \A c, d \in Children(k) : c = d \/ status[c] \in Over \/ status[d] \in Over)'
  BY <1>0, <1>14
<1> QED
  BY <1>1, <1>2, <1>3, <1>4, <1>5, <1>6, <1>7, <1>8, <1>9, <1>10, <1>11, <1>12, <1>13, <1>14
  DEF RetryNext, RetryStep, RetryEnvironment

\* RetryInvariant is inductive.
LEMMA RetryInvariantStep == RetryInvariant /\ [RetryNext]_retryVars => RetryInvariant'
<1> SUFFICES ASSUME RetryInvariant, [RetryNext]_retryVars
    PROVE  RetryInvariant'
  OBVIOUS
<1>1. RetryTypeOK'
  BY RetryTypeStep
<1>2. \A p \in Processes : HolderInv(p)' /\ PushInv(p)'
  BY RetryHolderStep, RetryPushStep
<1>3. \A j \in Jobs : RecordInv(j)'
  BY RetryRecordStep
<1>4. RetriesAreSequential'
  BY RetrySequentialStep DEF RetriesAreSequential
<1> QED
  BY <1>1, <1>2, <1>3, <1>4 DEF RetryInvariant

\* Every reachable state satisfies the inductive invariant.
THEOREM RetryInvariantHolds == RetrySpec => []RetryInvariant
<1>1. RetryInit => RetryInvariant
  BY RetryInitInvariant
<1>2. RetryInvariant /\ [RetryNext]_retryVars => RetryInvariant'
  BY RetryInvariantStep
<1> QED
  BY <1>1, <1>2, PTL DEF RetrySpec

\* Overlapping retries of one failed job are serialized, for any number of
\* requests, workers, deaths and expired locks.
THEOREM RetriesAreSerialized == RetrySpec => []RetriesAreSequential
<1>1. RetryInvariant => RetriesAreSequential
  BY DEF RetryInvariant
<1> QED
  BY <1>1, RetryInvariantHolds, PTL

\* Bulk retries never branch from a job that has been retried.
THEOREM BulkNeverBranches == RetrySpec => BulkRetriesOnlyLeaves
<1>1. ASSUME RetryInvariant, [RetryNext]_retryVars
      PROVE  [\A c \in byBulk' \ byBulk :
                parent'[c] \in lapsed \/ Children(parent'[c]) = {}]_retryVars
  <2>1. ASSUME NEW p \in Processes, PushRetry(p), NEW c \in byBulk' \ byBulk
        PROVE  parent'[c] \in lapsed \/ Children(parent'[c]) = {}
    <3>1. stage[p] = "push" /\ bulk[p]
      BY <2>1 DEF PushRetry
    <3>2. c \in Jobs /\ parent'[c] = target[p]
      BY <1>1, <2>1 DEF PushRetry, RetryInvariant, RetryTypeOK
    <3>3. target[p] \notin lapsed => Children(target[p]) = {}
      BY <1>1, <3>1 DEF RetryInvariant, PushInv
    <3> QED
      BY <3>2, <3>3
  <2>2. ASSUME ~ \E p \in Processes : PushRetry(p)
        PROVE  byBulk' = byBulk
    BY <1>1, <2>2 DEF RetryNext, RetryStep, RetryEnvironment, Call, Acquire, LockIsBusy,
       ReadEligibility, FindFailed, StoreRetryReference, Release, Return, Abort, ExpireLock,
       EndRetry, RemoveFailed, jobVars, retryVars
  <2> QED
    BY <2>1, <2>2
<1> QED
  BY <1>1, RetryInvariantHolds, PTL DEF RetrySpec, BulkRetriesOnlyLeaves

\* A holder whose lock ran out never deletes the key of the next holder.
THEOREM LocksAreReleasedByHolders == RetrySpec => LockIsReleasedByItsHolder
<1>1. ASSUME RetryInvariant, [RetryNext]_retryVars, NEW j \in Jobs,
             lock[j] # NoOne, lock'[j] = NoOne
      PROVE  \/ UNCHANGED stage
             \/ target[lock[j]] = j /\ stage'[lock[j]] \in {"returned", "idle"}
  <2> USE RetryAssumption DEF RetryTypeOK
  <2>0. RetryTypeOK /\ \A p \in Processes : HolderInv(p)
    BY <1>1 DEF RetryInvariant
  <2>1. ASSUME NEW p \in Processes, Release(p)
        PROVE  target[lock[j]] = j /\ stage'[lock[j]] = "returned"
    BY <1>1, <2>0, <2>1 DEF Release, ReleaseOwnToken, Advance
  <2>2. ASSUME NEW p \in Processes, Abort(p)
        PROVE  target[lock[j]] = j /\ stage'[lock[j]] = "idle"
    BY <1>1, <2>0, <2>2 DEF Abort, Reset, ReleaseOwnToken, HolderInv
  <2>3. ASSUME NEW p \in Processes, Acquire(p)
        PROVE  FALSE
    BY <1>1, <2>0, <2>3 DEF Acquire, HolderInv
  <2>4. CASE UNCHANGED lock
    BY <1>1, <2>4
  <2>5. CASE \E i \in Jobs : ExpireLock(i)
    BY <2>5 DEF ExpireLock, processVars
  <2>6. \/ UNCHANGED lock
        \/ \E i \in Jobs : ExpireLock(i)
        \/ \E p \in Processes : Release(p) \/ Abort(p) \/ Acquire(p)
    BY <1>1 DEF RetryNext, RetryStep, RetryEnvironment, Call, LockIsBusy, ReadEligibility,
       FindFailed, PushRetry, StoreRetryReference, Return, EndRetry, RemoveFailed, retryVars
  <2> QED
    BY <2>1, <2>2, <2>3, <2>4, <2>5, <2>6
<1>2. RetryInvariant /\ [RetryNext]_retryVars =>
        [\A j \in Jobs : lock[j] # NoOne /\ lock'[j] = NoOne =>
            \/ UNCHANGED stage
            \/ target[lock[j]] = j /\ stage'[lock[j]] \in {"returned", "idle"}]_retryVars
  BY <1>1
<1> QED
  BY <1>2, RetryInvariantHolds, PTL DEF RetrySpec, LockIsReleasedByItsHolder

-----------------------------------------------------------------------------
\* A page of a sorted set holds members of the set: ZRANGE invents none.
LEMMA FirstOfSubset == \A S, n : FirstOf(S, n) \subseteq S
  BY DEF FirstOf

\* What ZRANGE key 0 n-1 returns.
LEMMA FirstOfMember ==
    ASSUME NEW S, NEW n, NEW x
    PROVE  x \in FirstOf(S, n) <=> x \in S /\ Cardinality({y \in S : y < x}) < n
  BY Zenon DEF FirstOf

\* The head of a sorted set is its lowest member.
LEMMA FirstOfOne ==
    ASSUME NEW S \in SUBSET Nat, NEW x \in FirstOf(S, 1)
    PROVE  x \in S /\ \A y \in S : x <= y
<1> DEFINE lower == {y \in S : y < x}
<1>1. x \in S /\ Cardinality(lower) < 1
  BY FirstOfMember, Zenon
<1>2. lower \in SUBSET (0 .. x)
  <2>1. \A y \in S : y \in Nat
    BY Zenon
  <2>2. \A y \in S : y < x => y \in 0 .. x
    BY <1>1, <2>1
  <2> QED
    BY <2>2, Zenon
<1>3. IsFiniteSet(lower)
  <2>1. IsFiniteSet(0 .. x)
    BY <1>1, FS_Interval
  <2> QED
    BY <1>2, <2>1, FS_Subset, Zenon
<1>4. Cardinality(lower) \in Nat
  BY <1>3, FS_CardinalityType, Zenon
<1>5. Cardinality(lower) = 0
  <2> HIDE DEF lower
  <2> QED
    BY <1>1, <1>4
<1>6. lower = {}
  BY <1>3, <1>5, FS_EmptySet, Zenon
<1>7. \A y \in S : y \in Nat /\ ~ (y < x)
  BY <1>6, Zenon
<1> QED
  BY <1>1, <1>7

-----------------------------------------------------------------------------
(* Bulk retries keep to the protocol of single ones.                       *)

\* Each step of a bulk retry is a step of the retry protocol, or none.
LEMMA RetryAllStepsRetry ==
    ASSUME TypeOK, [Next]_vars
    PROVE  [RetryNext]_retryVars
<1>0. Workers \subseteq Processes /\ Users \subseteq Processes
  BY RetryAllAssumption DEF Users
<1>1. ASSUME NEW w \in Workers, Reserve(w) \/ CaptureFailedJobs(w) \/ SharedStep(w) \/ Skip(w)
      PROVE  UNCHANGED retryVars
  BY <1>1 DEF Reserve, CaptureFailedJobs, SharedStep, Skip
<1>2. ASSUME NEW w \in Workers, HandleBulk(w)
      PROVE  RetryNext
  <2>1. PICK j \in Current(w) \cap (hydrated[w] \ OtherQueue) : Call(w, j, TRUE)
    BY <1>2 DEF HandleBulk
  <2>2. j \in Jobs
    BY DEF TypeOK
  <2> QED
    BY <1>0, <2>1, <2>2 DEF RetryNext
<1>3. ASSUME NEW w \in Workers, RunBulk(w) \/ Handled(w)
      PROVE  RetryNext
  BY <1>0, <1>3 DEF RetryNext, RunBulk, Handled
<1>4. ASSUME NEW w \in Workers, InterruptChunk(w)
      PROVE  [RetryNext]_retryVars
  BY <1>0, <1>4 DEF RetryNext, InterruptChunk
<1>5. ASSUME NEW u \in Users, UserRetries(u)
      PROVE  RetryNext
  BY <1>0, <1>5 DEF RetryNext, UserRetries
<1>6. CASE UNCHANGED vars
  BY <1>6 DEF vars
<1> QED
  BY <1>1, <1>2, <1>3, <1>4, <1>5, <1>6 DEF Next, ProcessChunk, RetryNext

\* A page of a snapshot, and the target a worker is at, belong to it.
LEMMA CurrentInChunk == \A w \in Workers : Current(w) \subseteq chunk[w]
  BY FirstOfSubset DEF Current

\* Every step of the shared protocol keeps its types.
LEMMA SharedTypeStep ==
    ASSUME BulkTypeOK, NEW w \in Workers, JobStep(w),
           pc[w] \notin {"idle", "capture"} => operation[w] \in Operations
    PROVE  BulkTypeOK'
<1> USE BulkAssumption, FirstOfSubset
    DEF BulkTypeOK, Payloads, PCs, Goto, Renew, Current,
        snapshotVars, historyVars, queueVars, workerVars, bulkVars
<1>1. CASE MissingState(w)
  BY <1>1 DEF MissingState, JobFails
<1>2. CASE InitializeMeta(w)
  BY <1>2 DEF InitializeMeta
<1>3. CASE NextChunk(w)
  BY <1>3 DEF NextChunk
<1>4. CASE CheckAffected(w)
  BY <1>4 DEF CheckAffected
<1>5. CASE AddAffected(w)
  <2>1. operation[w] \in Operations
    BY <1>5 DEF AddAffected
  <2> QED
    BY <1>5, <2>1 DEF AddAffected
<1>6. CASE Acknowledge(w)
  BY <1>6 DEF Acknowledge
<1>7. CASE HasMore(w)
  BY <1>7 DEF HasMore
<1>8. CASE ReadTotal(w)
  BY <1>8 DEF ReadTotal
<1>9. CASE Cleanup(w)
  BY <1>9 DEF Cleanup
<1>10. CASE ReportCompletion(w)
  <2>1. operation[w] \in Operations
    BY <1>10 DEF ReportCompletion
  <2> QED
    BY <1>10, <2>1 DEF ReportCompletion
<1>11. CASE DispatchContinuation(w)
  <2>1. operation[w] \in Operations
    BY <1>11 DEF DispatchContinuation
  <2> QED
    BY <1>11, <2>1 DEF DispatchContinuation
<1>12. CASE DeleteJob(w)
  BY <1>12 DEF DeleteJob
<1> QED
  BY <1>1, <1>2, <1>3, <1>4, <1>5, <1>6, <1>7, <1>8, <1>9, <1>10, <1>11, <1>12 DEF JobStep

\* So do the steps of the queue and of time.
LEMMA QueueTypeStep ==
    ASSUME BulkTypeOK,
           \/ BulkEnvironment
           \/ \E w \in Workers : ReserveJob(w) \/ Interrupt(w)
           \/ \E w \in Workers, S \in SUBSET JobIds : CaptureTargets(w, S)
           \/ \E w \in Workers, l \in PCs :
                Goto(w, l) /\ UNCHANGED <<snapshotVars, historyVars, queueVars, payload, operation, chunk, total>>
           \/ UNCHANGED bulkVars
    PROVE  BulkTypeOK'
<1> USE BulkAssumption
    DEF BulkTypeOK, Payloads, Goto,
        snapshotVars, historyVars, queueVars, workerVars, bulkVars
<1>1. CASE DispatchOperation
  BY <1>1 DEF DispatchOperation
<1>2. ASSUME NEW p \in Payloads, RetryBulkJob(p)
      PROVE  BulkTypeOK'
  BY <1>2 DEF RetryBulkJob
<1>3. ASSUME NEW o \in Operations, ExpireSnapshot(o)
      PROVE  BulkTypeOK'
  BY <1>3 DEF ExpireSnapshot
<1>4. ASSUME NEW w \in Workers, ReserveJob(w)
      PROVE  BulkTypeOK'
  <2>1. PICK p \in Payloads :
          /\ bulkQueue' = [bulkQueue EXCEPT ![p] = @ - 1] /\ bulkQueue[p] > 0
          /\ payload' = [payload EXCEPT ![w] = p]
          /\ operation' = [operation EXCEPT ![w] = p]
          /\ pc' = [pc EXCEPT ![w] = IF p = NoOperation THEN "capture" ELSE "peek"]
          /\ overlapped' = overlapped \cup {o \in {p} \ {NoOperation} : \E v \in Workers : Processing(v, o)}
    BY <1>4 DEF ReserveJob
  <2>2. pc' \in [Workers -> PCs]
    BY <2>1 DEF PCs
  <2>3. bulkQueue' \in [Payloads -> Nat]
    BY <2>1
  <2>4. overlapped' \subseteq Operations
    BY <2>1
  <2> QED
    BY <1>4, <2>1, <2>2, <2>3, <2>4 DEF ReserveJob
<1>5. ASSUME NEW w \in Workers, Interrupt(w)
      PROVE  BulkTypeOK'
  <2>1. pc' = [pc EXCEPT ![w] = "idle"] /\ "idle" \in PCs
    BY <1>5 DEF Interrupt, JobFails, PCs
  <2> QED
    BY <1>5, <2>1 DEF Interrupt, JobFails
<1>6. ASSUME NEW w \in Workers, NEW S \in SUBSET JobIds, CaptureTargets(w, S)
      PROVE  BulkTypeOK'
  <2>1. PICK o \in Operations : /\ issued' = issued \cup {o}
                                /\ operation' = [operation EXCEPT ![w] = o]
                                /\ targets' = [targets EXCEPT ![o] = S]
                                /\ boundary' = [boundary EXCEPT ![o] = S]
    BY <1>6 DEF CaptureTargets
  <2>2. pc' = [pc EXCEPT ![w] = "initialize"] /\ "initialize" \in PCs
    BY <1>6 DEF CaptureTargets, PCs
  <2>3. UNCHANGED <<meta, affected, idleTtl, expired, completed, overlapped, reported,
                    queueVars, payload, chunk, total>>
    BY <1>6 DEF CaptureTargets
  <2> QED
    BY <2>1, <2>2, <2>3
<1>7. ASSUME NEW w \in Workers, NEW l \in PCs, Goto(w, l),
             UNCHANGED <<snapshotVars, historyVars, queueVars, payload, operation, chunk, total>>
      PROVE  BulkTypeOK'
  BY <1>7
<1>8. CASE UNCHANGED bulkVars
  BY <1>8
<1> QED
  BY <1>1, <1>2, <1>3, <1>4, <1>5, <1>6, <1>7, <1>8 DEF BulkEnvironment

\* Every step keeps the types of the bulk retry.
LEMMA RetryAllTypeStep ==
    ASSUME TypeOK, RetryInvariant, [Next]_vars,
           \A w \in Workers : pc[w] \notin {"idle", "capture"} => operation[w] \in Operations
    PROVE  TypeOK'
<1>1. RetryTypeOK'
  BY RetryAllStepsRetry, RetryTypeStep
<1>2. BulkTypeOK'
  <2>1. ASSUME NEW w \in Workers, SharedStep(w)
        PROVE  BulkTypeOK'
    BY <2>1, SharedTypeStep DEF SharedStep, TypeOK
  <2>2. ASSUME NEW w \in Workers, Reserve(w) \/ InterruptChunk(w)
        PROVE  BulkTypeOK'
    BY <2>2, QueueTypeStep DEF Reserve, InterruptChunk, TypeOK
  <2>3. ASSUME NEW w \in Workers, CaptureFailedJobs(w)
        PROVE  BulkTypeOK'
    <3>1. {j \in Jobs : status[j] = "failed"} \in SUBSET JobIds
      BY RetryAllAssumption
    <3> QED
      BY <2>3, <3>1, QueueTypeStep DEF CaptureFailedJobs, TypeOK
  <2>4. ASSUME NEW w \in Workers, Skip(w) \/ Handled(w)
        PROVE  BulkTypeOK'
    <3>1. \E l \in PCs : Goto(w, l) /\ UNCHANGED <<snapshotVars, historyVars, queueVars, payload, operation, chunk, total>>
      BY <2>4 DEF Skip, Handled, PCs
    <3> QED
      BY <3>1, QueueTypeStep DEF TypeOK
  <2>5. CASE BulkEnvironment \/ UNCHANGED bulkVars
    BY <2>5, QueueTypeStep DEF TypeOK
  <2> QED
    BY <2>1, <2>2, <2>3, <2>4, <2>5 DEF Next, ProcessChunk, HandleBulk, RunBulk, UserRetries, vars
<1>3. hydrated' \in [Workers -> SUBSET Jobs]
  <2>1. ASSUME NEW w \in Workers, SharedStep(w)
        PROVE  hydrated' \in [Workers -> SUBSET Jobs]
    <3>1. chunk'[w] \subseteq Jobs
      BY <1>2, RetryAllAssumption DEF BulkTypeOK
    <3> QED
      BY <2>1, <3>1 DEF SharedStep, TypeOK
  <2>2. ASSUME NEW w \in Workers, InterruptChunk(w)
        PROVE  hydrated' \in [Workers -> SUBSET Jobs]
    BY <2>2 DEF InterruptChunk, TypeOK
  <2>3. CASE UNCHANGED hydrated
    BY <2>3 DEF TypeOK
  <2> QED
    BY <2>1, <2>2, <2>3 DEF Next, ProcessChunk, Reserve, CaptureFailedJobs, Skip, HandleBulk,
       RunBulk, Handled, UserRetries, vars
<1>4. contended' \subseteq Jobs
  <2>1. ASSUME NEW w \in Workers, RunBulk(w)
        PROVE  contended' \subseteq Jobs
    <3>1. LockIsBusy(w) => target[w] \in Jobs
      BY RetryAllAssumption DEF RetryInvariant, HolderInv, LockIsBusy
    <3> QED
      BY <2>1, <3>1 DEF RunBulk, TypeOK
  <2>2. CASE UNCHANGED contended
    BY <2>2 DEF TypeOK
  <2> QED
    BY <2>1, <2>2 DEF Next, ProcessChunk, SharedStep, InterruptChunk, Reserve, CaptureFailedJobs,
       Skip, HandleBulk, Handled, UserRetries, vars
<1> QED
  BY <1>1, <1>2, <1>3, <1>4 DEF TypeOK

\* Jobs that are over stay over, removed ones removed, and retries and their
\* kind are remembered.
LEMMA JobsRemember ==
    ASSUME RetryInvariant, [RetryNext]_retryVars, NEW j \in Jobs
    PROVE  /\ status[j] \in Over => status'[j] \in Over
           /\ status[j] = "removed" => status'[j] = "removed"
           /\ Children(j) \subseteq Children(j)'
           /\ byBulk \subseteq byBulk'
           /\ lapsed \subseteq lapsed'
<1> USE DEF RetryInvariant, RetryTypeOK, RecordInv, Over, Children, jobVars, retryVars
<1>1. ASSUME NEW p \in Processes, PushRetry(p)
      PROVE  /\ status[j] \in Over => status'[j] \in Over
             /\ status[j] = "removed" => status'[j] = "removed"
             /\ Children(j) \subseteq Children(j)'
             /\ byBulk \subseteq byBulk'
             /\ UNCHANGED lapsed
  BY <1>1, RetryAssumption DEF PushRetry
<1>2. ASSUME NEW i \in Jobs, EndRetry(i, "completed") \/ EndRetry(i, "failed") \/ RemoveFailed(i)
      PROVE  /\ status[j] \in Over => status'[j] \in Over
             /\ status[j] = "removed" => status'[j] = "removed"
             /\ UNCHANGED <<parent, byBulk, lapsed>>
  BY <1>2 DEF EndRetry, RemoveFailed
<1>3. CASE UNCHANGED <<status, parent, byBulk>> /\ lapsed \subseteq lapsed'
  BY <1>3
<1>4. \/ \E p \in Processes : PushRetry(p)
      \/ \E i \in Jobs : EndRetry(i, "completed") \/ EndRetry(i, "failed") \/ RemoveFailed(i)
      \/ UNCHANGED <<status, parent, byBulk>> /\ lapsed \subseteq lapsed'
  BY DEF RetryNext, RetryStep, RetryEnvironment, Call, Acquire, LockIsBusy, ReadEligibility,
     FindFailed, StoreRetryReference, Release, Return, Abort, ExpireLock
<1> QED
  BY <1>1, <1>2, <1>3, <1>4

-----------------------------------------------------------------------------
(* What a bulk retry has dealt with.                                       *)

\* A job that has been dealt with stays so.
LEMMA DealtStays ==
    ASSUME TypeOK, RetryInvariant, [Next]_vars, NEW j \in Jobs, Dealt(j)
    PROVE  Dealt(j)'
<1>1. contended \subseteq contended'
  BY DEF Next, ProcessChunk, Reserve, CaptureFailedJobs, SharedStep, Skip, HandleBulk, RunBulk,
     Handled, InterruptChunk, UserRetries, vars
<1>2. /\ status[j] = "removed" => status'[j] = "removed"
      /\ Children(j) \subseteq Children(j)'
  BY RetryAllStepsRetry, JobsRemember
<1> QED
  BY <1>1, <1>2 DEF Dealt

\* A process that acts on its retry leaves the other processes where they are.
LEMMA OthersRetry ==
    ASSUME RetryTypeOK, NEW p \in Processes,
           (\E j \in Jobs, b \in BOOLEAN : Call(p, j, b)) \/ RetryStep(p) \/ Return(p) \/ Abort(p),
           NEW q \in Processes \ {p}
    PROVE  /\ stage'[q] = stage[q] /\ target'[q] = target[q] /\ bulk'[q] = bulk[q]
           /\ child'[q] = child[q] /\ outcome'[q] = outcome[q]
  BY DEF RetryTypeOK, RetryStep, Call, Acquire, LockIsBusy, ReadEligibility, FindFailed, PushRetry,
     StoreRetryReference, Release, Return, Abort, Reset, Advance

\* Another worker's place in its chunk, and in its retry, is untouched.
Untouched(v) ==
    /\ pc'[v] = pc[v] /\ payload'[v] = payload[v] /\ operation'[v] = operation[v]
    /\ chunk'[v] = chunk[v] /\ total'[v] = total[v] /\ hydrated'[v] = hydrated[v]

\* A worker that acts leaves the others where they are.
LEMMA OthersWork ==
    ASSUME TypeOK, NEW w \in Workers, Reserve(w) \/ ProcessChunk(w) \/ InterruptChunk(w),
           NEW v \in Workers \ {w}
    PROVE  Untouched(v)
<1> USE DEF TypeOK, BulkTypeOK, Untouched, Goto, bulkVars, workerVars
<1>1. CASE SharedStep(w)
  BY <1>1 DEF SharedStep, JobStep, MissingState, JobFails, InitializeMeta, NextChunk, CheckAffected,
     AddAffected, Acknowledge, HasMore, ReadTotal, Cleanup, ReportCompletion, DispatchContinuation,
     DeleteJob
<1>2. CASE Reserve(w) \/ InterruptChunk(w)
  BY <1>2 DEF Reserve, ReserveJob, InterruptChunk, Interrupt, JobFails
<1>3. CASE CaptureFailedJobs(w) \/ Skip(w) \/ HandleBulk(w) \/ RunBulk(w) \/ Handled(w)
  BY <1>3 DEF CaptureFailedJobs, CaptureTargets, Skip, HandleBulk, RunBulk, Handled
<1> QED
  BY <1>1, <1>2, <1>3 DEF ProcessChunk

\* And its retry.
LEMMA OthersRetryNot ==
    ASSUME TypeOK, NEW w \in Workers, Reserve(w) \/ ProcessChunk(w) \/ InterruptChunk(w),
           NEW q \in Processes \ {w}
    PROVE  /\ stage'[q] = stage[q] /\ target'[q] = target[q] /\ bulk'[q] = bulk[q]
           /\ outcome'[q] = outcome[q]
<1>0. w \in Processes /\ RetryTypeOK
  BY RetryAllAssumption DEF TypeOK
<1>1. CASE UNCHANGED retryVars
  BY <1>1 DEF retryVars, processVars
<1>2. CASE HandleBulk(w)
  <2>1. \E j \in Jobs, b \in BOOLEAN : Call(w, j, b)
    <3>1. PICK j \in Current(w) \cap (hydrated[w] \ OtherQueue) : Call(w, j, TRUE)
      BY <1>2 DEF HandleBulk
    <3>2. j \in Jobs
      BY DEF TypeOK
    <3> QED
      BY <3>1, <3>2
  <2> QED
    BY <1>0, <2>1, OthersRetry
<1>3. CASE RetryStep(w) \/ Return(w) \/ Abort(w)
  BY <1>0, <1>3, OthersRetry
<1> QED
  BY <1>1, <1>2, <1>3 DEF Reserve, ProcessChunk, CaptureFailedJobs, SharedStep, Skip, RunBulk,
     Handled, InterruptChunk

\* Operations remember what they captured, and expire only unattended.
LEMMA OperationsRemember ==
    ASSUME TypeOK, [Next]_vars,
           \A w \in Workers : pc[w] \notin {"idle", "capture"} => operation[w] \in Operations
    PROVE  /\ issued \subseteq issued' /\ expired \subseteq expired'
           /\ \A o \in issued : boundary'[o] = boundary[o] /\ targets'[o] \subseteq targets[o]
           /\ \A o \in expired' \ expired : UNCHANGED <<workerVars, hydrated>> /\ \A w \in Workers : ~ Holds(w, o)
<1> USE DEF TypeOK, BulkTypeOK, Goto, bulkVars, historyVars, snapshotVars
<1>1. ASSUME NEW w \in Workers, SharedStep(w)
      PROVE  /\ UNCHANGED <<issued, expired, boundary>>
             /\ \A o \in Operations : targets'[o] \subseteq targets[o]
  <2>1. CASE Acknowledge(w)
    BY <2>1 DEF Acknowledge
  <2>2. CASE Cleanup(w)
    BY <2>2 DEF Cleanup
  <2>3. CASE InitializeMeta(w) \/ NextChunk(w) \/ AddAffected(w)
    BY <2>3 DEF InitializeMeta, NextChunk, AddAffected
  <2>4. CASE CheckAffected(w) \/ HasMore(w) \/ ReadTotal(w) \/ ReportCompletion(w)
    BY <2>4 DEF CheckAffected, HasMore, ReadTotal, ReportCompletion
  <2>5. CASE MissingState(w) \/ DispatchContinuation(w) \/ DeleteJob(w)
    BY <2>5 DEF MissingState, DispatchContinuation, DeleteJob
  <2> QED
    BY <1>1, <2>1, <2>2, <2>3, <2>4, <2>5 DEF SharedStep, JobStep
<1>2. ASSUME NEW w \in Workers, CaptureFailedJobs(w)
      PROVE  /\ issued \subseteq issued' /\ UNCHANGED expired
             /\ \A o \in issued : boundary'[o] = boundary[o] /\ targets'[o] \subseteq targets[o]
  BY <1>2 DEF CaptureFailedJobs, CaptureTargets
<1>3. ASSUME NEW o \in Operations, ExpireSnapshot(o), UNCHANGED hydrated
      PROVE  /\ UNCHANGED <<issued, boundary, workerVars, hydrated>> /\ expired' = expired \cup {o}
             /\ \A w \in Workers : ~ Holds(w, o)
             /\ \A u \in Operations : targets'[u] \subseteq targets[u]
  BY <1>3 DEF ExpireSnapshot
<1>4. CASE UNCHANGED <<issued, boundary, expired, targets>>
  BY <1>4
<1>5. \/ \E w \in Workers : SharedStep(w) \/ CaptureFailedJobs(w)
      \/ \E o \in Operations : ExpireSnapshot(o) /\ UNCHANGED hydrated
      \/ UNCHANGED <<issued, boundary, expired, targets>>
  BY DEF Next, ProcessChunk, Reserve, ReserveJob, Skip, HandleBulk, RunBulk, Handled, InterruptChunk,
     Interrupt, JobFails, UserRetries, BulkEnvironment, DispatchOperation, RetryBulkJob, vars
<1> QED
  BY <1>1, <1>2, <1>3, <1>4, <1>5

\* The invariant, in the form its steps use it.
LEMMA Progress ==
    ASSUME ProgressInvariant
    PROVE  /\ TypeOK /\ RetryInvariant
           /\ \A o \in Operations : OperationInv(o)
           /\ \A w \in Workers : /\ WorkerInv(w) /\ RetryingInv(w)
                                 /\ pc[w] \notin {"idle", "capture"} => operation[w] \in Operations
                                 /\ payload[w] \in Payloads
  BY DEF ProgressInvariant, WorkerInv, TypeOK, BulkTypeOK

\* A step of the shared protocol keeps every operation consistent.
LEMMA SharedOperationStep ==
    ASSUME ProgressInvariant, [Next]_vars, NEW w \in Workers, SharedStep(w), NEW o \in Operations
    PROVE  OperationInv(o)'
<1>a. /\ TypeOK /\ OperationInv(o) /\ WorkerInv(w) /\ payload[w] \in Payloads
      /\ pc[w] \notin {"idle", "capture"} => operation[w] \in Operations
  BY Progress
<1>b. \A j \in Jobs : Dealt(j)' = Dealt(j) /\ UNCHANGED status
  BY DEF SharedStep, Dealt, Children, retryVars, jobVars
<1>c. boundary[o] \subseteq Jobs
  BY <1>a, RetryAllAssumption DEF TypeOK, BulkTypeOK
<1> USE <1>a, <1>c DEF TypeOK, BulkTypeOK, OperationInv, WorkerInv, Payloads, Goto, Renew,
        snapshotVars, historyVars, queueVars, workerVars
<1>d. UNCHANGED status
  BY DEF SharedStep, retryVars, jobVars
<1>1. CASE MissingState(w)
  <2>1. o \notin issued => bulkQueue'[o] = 0 /\ bulkFailed'[o] = 0
    BY <1>1, BulkAssumption DEF MissingState, JobFails
  <2>2. UNCHANGED <<snapshotVars, historyVars>>
    BY <1>1 DEF MissingState
  <2> QED
    BY <1>b, <1>d, <2>1, <2>2
<1>2. CASE InitializeMeta(w)
  <2>1. operation[w] \in issued /\ operation[w] \notin expired
    BY <1>2 DEF InitializeMeta
  <2>2. CASE o = operation[w]
    BY <1>2, <1>b, <1>d, <2>1, <2>2 DEF InitializeMeta
  <2>3. CASE o # operation[w]
    BY <1>2, <1>b, <1>d, <2>1, <2>3 DEF InitializeMeta
  <2> QED
    BY <2>2, <2>3
<1>3. CASE NextChunk(w)
  BY <1>3, <1>b, <1>d DEF NextChunk
<1>4. CASE CheckAffected(w)
  BY <1>4, <1>b, <1>d DEF CheckAffected
<1>5. CASE AddAffected(w)
  <2>1. operation[w] \in issued /\ operation[w] \notin expired
    BY <1>5 DEF AddAffected
  <2>2. CASE o = operation[w]
    BY <1>5, <1>b, <1>d, <2>1, <2>2 DEF AddAffected
  <2>3. CASE o # operation[w]
    BY <1>5, <1>b, <1>d, <2>1, <2>3 DEF AddAffected
  <2> QED
    BY <2>2, <2>3
<1>6. CASE Acknowledge(w)
  <2>1. /\ operation[w] \in issued /\ operation[w] \notin expired
        /\ \A j \in Current(w) : Dealt(j)
        /\ targets' = [targets EXCEPT ![operation[w]] = @ \ Current(w)]
        /\ idleTtl' = [idleTtl EXCEPT ![operation[w]] = TRUE]
        /\ UNCHANGED <<meta, affected, historyVars, queueVars>>
    BY <1>6 DEF Acknowledge
  <2>2. CASE o = operation[w]
    BY <1>b, <1>d, <2>1, <2>2
  <2>3. CASE o # operation[w]
    BY <1>b, <1>d, <2>1, <2>3
  <2> QED
    BY <2>2, <2>3
<1>7. CASE HasMore(w)
  BY <1>7, <1>b, <1>d DEF HasMore
<1>8. CASE ReadTotal(w)
  BY <1>8, <1>b, <1>d DEF ReadTotal
<1>9. CASE Cleanup(w)
  <2>1. operation[w] \in issued /\ targets[operation[w]] = {}
    BY <1>9 DEF Cleanup
  <2>2. CASE o = operation[w]
    BY <1>9, <1>b, <1>d, <2>1, <2>2 DEF Cleanup
  <2>3. CASE o # operation[w]
    BY <1>9, <1>b, <1>d, <2>1, <2>3 DEF Cleanup
  <2> QED
    BY <2>2, <2>3
<1>10. CASE ReportCompletion(w)
  <2>1. operation[w] \in issued /\ operation[w] \notin expired /\ targets[operation[w]] = {}
    BY <1>10 DEF ReportCompletion
  <2>2. CASE o = operation[w]
    BY <1>10, <1>b, <1>d, <2>1, <2>2 DEF ReportCompletion
  <2>3. CASE o # operation[w]
    BY <1>10, <1>b, <1>d, <2>1, <2>3 DEF ReportCompletion
  <2> QED
    BY <2>2, <2>3
<1>11. CASE DispatchContinuation(w)
  <2>1. operation[w] \in issued
    BY <1>11 DEF DispatchContinuation
  <2>2. o \notin issued => bulkQueue'[o] = 0 /\ bulkFailed'[o] = 0
    BY <1>11, <2>1 DEF DispatchContinuation
  <2>3. UNCHANGED <<snapshotVars, historyVars>>
    BY <1>11 DEF DispatchContinuation
  <2> QED
    BY <1>b, <1>d, <2>2, <2>3
<1>12. CASE DeleteJob(w)
  BY <1>12, <1>b, <1>d DEF DeleteJob
<1> QED
  BY <1>1, <1>2, <1>3, <1>4, <1>5, <1>6, <1>7, <1>8, <1>9, <1>10, <1>11, <1>12 DEF SharedStep, JobStep

\* Every step does.
LEMMA OperationStep ==
    ASSUME ProgressInvariant, [Next]_vars, NEW o \in Operations
    PROVE  OperationInv(o)'
<1>a. TypeOK /\ RetryInvariant /\ OperationInv(o) /\ boundary[o] \subseteq Jobs
  BY Progress, RetryAllAssumption DEF TypeOK, BulkTypeOK
<1>b. \A j \in Jobs : Dealt(j) => Dealt(j)'
  BY <1>a, DealtStays
<1>c. \A j \in Jobs : status[j] \in Over => status'[j] \in Over
  BY <1>a, RetryAllStepsRetry, JobsRemember
<1>d. ASSUME UNCHANGED <<targets, meta, affected, idleTtl, historyVars>>,
             o \notin issued => bulkQueue'[o] = 0 /\ bulkFailed'[o] = 0
      PROVE  OperationInv(o)'
  BY <1>a, <1>b, <1>c, <1>d DEF OperationInv, historyVars
<1> USE DEF TypeOK, BulkTypeOK, Payloads, Goto, snapshotVars, historyVars, queueVars, bulkVars
<1>1. ASSUME NEW w \in Workers, Reserve(w)
      PROVE  OperationInv(o)'
  <2>1. PICK p \in Payloads : bulkQueue[p] > 0 /\ bulkQueue' = [bulkQueue EXCEPT ![p] = @ - 1]
    BY <1>1 DEF Reserve, ReserveJob
  <2>2. o \notin issued => bulkQueue'[o] = 0 /\ bulkFailed'[o] = 0
    BY <1>1, <1>a, <2>1 DEF Reserve, ReserveJob, OperationInv
  <2>3. UNCHANGED <<targets, meta, affected, idleTtl, issued, boundary, expired, reported>>
    BY <1>1 DEF Reserve, ReserveJob
  <2> QED
    BY <1>a, <1>b, <1>c, <2>2, <2>3 DEF OperationInv
<1>2. ASSUME NEW w \in Workers, CaptureFailedJobs(w)
      PROVE  OperationInv(o)'
  <2>1. PICK u \in Operations \ issued :
          /\ issued' = issued \cup {u}
          /\ targets' = [targets EXCEPT ![u] = {j \in Jobs : status[j] = "failed"}]
          /\ boundary' = [boundary EXCEPT ![u] = {j \in Jobs : status[j] = "failed"}]
    BY <1>2 DEF CaptureFailedJobs, CaptureTargets
  <2>2. UNCHANGED <<meta, affected, idleTtl, expired, reported, bulkQueue, bulkFailed, status>>
    BY <1>2 DEF CaptureFailedJobs, CaptureTargets, retryVars, jobVars
  <2>3. CASE o = u
    BY <1>a, <2>1, <2>2, <2>3 DEF OperationInv, Over
  <2>4. CASE o # u
    BY <1>a, <1>b, <1>c, <2>1, <2>2, <2>4 DEF OperationInv
  <2> QED
    BY <2>3, <2>4
<1>3. ASSUME NEW w \in Workers, SharedStep(w)
      PROVE  OperationInv(o)'
  BY <1>3, SharedOperationStep
<1>4. ASSUME NEW w \in Workers, InterruptChunk(w)
      PROVE  OperationInv(o)'
  <2>1. payload[w] \in issued \cup {NoOperation}
    BY Progress DEF WorkerInv
  <2>2. o \notin issued => bulkQueue'[o] = 0 /\ bulkFailed'[o] = 0
    BY <1>4, <1>a, <2>1, BulkAssumption DEF InterruptChunk, Interrupt, JobFails, OperationInv
  <2> QED
    BY <1>4, <1>d, <2>2 DEF InterruptChunk, Interrupt
<1>5. ASSUME NEW p \in Payloads, RetryBulkJob(p)
      PROVE  OperationInv(o)'
  <2>1. o \notin issued => bulkQueue'[o] = 0 /\ bulkFailed'[o] = 0
    BY <1>5, <1>a DEF RetryBulkJob, OperationInv
  <2> QED
    BY <1>5, <1>d, <2>1 DEF RetryBulkJob
<1>6. CASE DispatchOperation
  <2>1. o \notin issued => bulkQueue'[o] = 0 /\ bulkFailed'[o] = 0
    BY <1>6, <1>a, BulkAssumption DEF DispatchOperation, OperationInv
  <2> QED
    BY <1>6, <1>d, <2>1 DEF DispatchOperation
<1>7. ASSUME NEW u \in Operations, ExpireSnapshot(u)
      PROVE  OperationInv(o)'
  BY <1>7, <1>a, <1>b, <1>c DEF ExpireSnapshot, OperationInv
<1>8. CASE UNCHANGED <<snapshotVars, historyVars, bulkQueue, bulkFailed>>
  BY <1>8, <1>a, <1>d DEF OperationInv
<1> QED
  BY <1>1, <1>2, <1>3, <1>4, <1>5, <1>6, <1>7, <1>8 DEF Next, ProcessChunk, Skip, HandleBulk, RunBulk,
     Handled, BulkEnvironment, UserRetries, vars

\* A worker that does not act, or acts on its retry only, stays consistent.
LEMMA WorkerStays ==
    ASSUME ProgressInvariant, [Next]_vars, NEW v \in Workers, Untouched(v)
    PROVE  WorkerInv(v)'
<1>a. /\ TypeOK /\ RetryInvariant /\ WorkerInv(v)
      /\ pc[v] \notin {"idle", "capture"} => operation[v] \in Operations
      /\ \A j \in chunk[v] : j \in Jobs
  BY Progress, RetryAllAssumption DEF TypeOK, BulkTypeOK
<1>b. \A j \in Jobs : (Dealt(j) => Dealt(j)') /\ (status[j] = "removed" => status'[j] = "removed")
  BY <1>a, DealtStays, RetryAllStepsRetry, JobsRemember
<1>c. /\ issued \subseteq issued'
      /\ \A o \in issued : boundary'[o] = boundary[o] /\ targets'[o] \subseteq targets[o]
      /\ \A o \in expired' \ expired : \A w \in Workers : ~ Holds(w, o)
  BY Progress, OperationsRemember
<1>d. pc[v] \notin {"idle", "capture", "peek"} => operation[v] \notin expired'
  BY <1>a, <1>c DEF WorkerInv, Holds
<1>e. Current(v)' = Current(v) /\ Current(v) \subseteq chunk[v]
  BY CurrentInChunk DEF Untouched, Current
<1> QED
  BY <1>a, <1>b, <1>c, <1>d, <1>e DEF WorkerInv, Untouched

\* A worker that takes a shared step stays consistent.
LEMMA SharedWorkerStep ==
    ASSUME ProgressInvariant, [Next]_vars, NEW w \in Workers, SharedStep(w)
    PROVE  WorkerInv(w)'
<1>a. /\ TypeOK /\ WorkerInv(w) /\ payload[w] \in Payloads
      /\ pc[w] \notin {"idle", "capture"} => operation[w] \in Operations
      /\ \A o \in Operations : OperationInv(o)
      /\ \A j \in chunk[w] : j \in Jobs
  BY Progress, RetryAllAssumption DEF TypeOK, BulkTypeOK
<1>b. UNCHANGED <<status, boundary, issued, expired>> /\ Current(w) \subseteq chunk[w]
      /\ \A j \in Jobs : Dealt(j)' = Dealt(j)
  BY CurrentInChunk DEF SharedStep, JobStep, MissingState, InitializeMeta, NextChunk,
     CheckAffected, AddAffected, Acknowledge, HasMore, ReadTotal, Cleanup, ReportCompletion,
     DispatchContinuation, DeleteJob, historyVars, retryVars, jobVars, Dealt, Children
<1>c. hydrated'[w] = IF pc[w] = "peek" THEN {j \in chunk'[w] : status[j] # "removed"}
                     ELSE IF pc'[w] = "idle" THEN {} ELSE hydrated[w]
  BY <1>a DEF SharedStep, TypeOK
<1>d. Current(w)' = FirstOf(chunk'[w], 1)
  BY DEF Current
<1> USE <1>a, <1>b, <1>c, <1>d DEF TypeOK, BulkTypeOK, WorkerInv, Payloads, PCs, Goto
<1>1. CASE MissingState(w)
  BY <1>1 DEF MissingState, JobFails
<1>2. CASE InitializeMeta(w)
  BY <1>2 DEF InitializeMeta, Current
<1>3. CASE NextChunk(w)
  <2>1. /\ pc[w] = "peek" /\ pc'[w] = IF targets[operation[w]] = {} THEN "total" ELSE "mutate"
        /\ meta[operation[w]] /\ operation[w] \in Operations
        /\ chunk'[w] = FirstOf(targets[operation[w]], ChunkSize)
        /\ UNCHANGED <<targets, payload, operation>>
    BY <1>3 DEF NextChunk
  <2>2. /\ operation[w] \in issued /\ operation[w] \notin expired
        /\ chunk'[w] \subseteq boundary[operation[w]]
    BY <2>1, FirstOfSubset DEF OperationInv
  <2>3. \A j \in chunk'[w] \ hydrated'[w] : status'[j] = "removed"
    BY <2>1
  <2> QED
    BY <2>1, <2>2, <2>3
<1>4. CASE CheckAffected(w)
  BY <1>4 DEF CheckAffected, Current
<1>5. CASE AddAffected(w)
  BY <1>5 DEF AddAffected, Current
<1>6. CASE Acknowledge(w)
  <2>1. /\ pc[w] = "acknowledge" /\ pc'[w] \in {"decide", "mutate"}
        /\ chunk'[w] = chunk[w] \ Current(w)
        /\ UNCHANGED <<payload, operation>>
    BY <1>6 DEF Acknowledge
  <2>2. chunk'[w] \subseteq chunk[w] /\ hydrated'[w] = hydrated[w]
    BY <2>1
  <2>3. /\ operation[w] \in issued /\ operation[w] \notin expired
        /\ chunk[w] \subseteq boundary[operation[w]]
    BY <2>1
  <2> QED
    BY <2>1, <2>2, <2>3
<1>7. CASE HasMore(w)
  BY <1>7 DEF HasMore, Current, snapshotVars
<1>8. CASE ReadTotal(w)
  BY <1>8 DEF ReadTotal, Current, snapshotVars
<1>9. CASE Cleanup(w)
  <2>1. /\ pc[w] = "cleanup" /\ pc'[w] = "report" /\ targets'[operation[w]] = {}
        /\ UNCHANGED <<payload, operation, chunk>>
    BY <1>9 DEF Cleanup
  <2> QED
    BY <2>1
<1>10. CASE ReportCompletion(w)
  BY <1>10 DEF ReportCompletion, Current
<1>11. CASE DispatchContinuation(w)
  BY <1>11 DEF DispatchContinuation, Current
<1>12. CASE DeleteJob(w)
  BY <1>12 DEF DeleteJob, Current
<1> QED
  BY <1>1, <1>2, <1>3, <1>4, <1>5, <1>6, <1>7, <1>8, <1>9, <1>10, <1>11, <1>12 DEF SharedStep, JobStep

\* The worker's current target is the one it retries.
LEMMA OneTarget ==
    ASSUME TypeOK, NEW w \in Workers, NEW i \in Current(w), NEW j \in Current(w)
    PROVE  i = j
<1>1. chunk[w] \in SUBSET Nat
  BY BulkAssumption DEF TypeOK, BulkTypeOK
<1>2. i \in FirstOf(chunk[w], 1) /\ j \in FirstOf(chunk[w], 1)
  BY DEF Current
<1>3. i <= j /\ j <= i /\ i \in chunk[w] /\ j \in chunk[w]
  BY <1>1, <1>2, FirstOfOne
<1>4. i \in Nat /\ j \in Nat
  BY <1>1, <1>3
<1> QED
  BY <1>3, <1>4

\* Every step keeps the workers where the invariant says they are.
LEMMA WorkerStep ==
    ASSUME ProgressInvariant, [Next]_vars, NEW v \in Workers
    PROVE  WorkerInv(v)'
<1>a. TypeOK /\ RetryInvariant /\ WorkerInv(v) /\ RetryingInv(v)
  BY Progress
<1> USE DEF TypeOK, BulkTypeOK, Payloads, Goto, bulkVars, workerVars, historyVars
<1>1. ASSUME Reserve(v)
      PROVE  WorkerInv(v)'
  <2>1. PICK p \in Payloads : /\ bulkQueue[p] > 0 /\ payload'[v] = p /\ operation'[v] = p
                              /\ pc'[v] = IF p = NoOperation THEN "capture" ELSE "peek"
    BY <1>a, <1>1 DEF Reserve, ReserveJob
  <2>2. p \in issued \cup {NoOperation}
    BY <2>1, Progress DEF OperationInv
  <2>3. issued' = issued
    BY <1>1 DEF Reserve, ReserveJob
  <2> QED
    BY <2>1, <2>2, <2>3 DEF WorkerInv
<1>2. ASSUME CaptureFailedJobs(v)
      PROVE  WorkerInv(v)'
  <2>1. PICK u \in Operations \ issued : issued' = issued \cup {u} /\ operation'[v] = u
    BY <1>2, <1>a DEF CaptureFailedJobs, CaptureTargets
  <2>2. u \notin expired
    BY Progress DEF OperationInv
  <2>3. pc'[v] = "initialize" /\ UNCHANGED <<expired, payload>>
    BY <1>2, <1>a DEF CaptureFailedJobs, CaptureTargets
  <2> QED
    BY <1>a, <2>1, <2>2, <2>3 DEF WorkerInv
<1>3. ASSUME Skip(v)
      PROVE  WorkerInv(v)'
  <2>1. /\ pc[v] = "mutate" /\ pc'[v] = "acknowledge"
        /\ UNCHANGED <<issued, expired, boundary, targets, payload, operation, chunk, hydrated, status, parent, contended>>
    BY <1>3, <1>a DEF Skip, snapshotVars, retryVars, jobVars
  <2>2. \A j \in Current(v) : j \in OtherQueue \/ status[j] = "removed"
    BY <1>3, <1>a, CurrentInChunk DEF Skip, WorkerInv
  <2>3. \A j \in Current(v)' : Dealt(j)'
    BY <2>1, <2>2 DEF Dealt, Children, Current
  <2> QED
    BY <1>a, <2>1, <2>3 DEF WorkerInv
<1>4. ASSUME Handled(v)
      PROVE  WorkerInv(v)'
  <2>1. /\ pc[v] = "mutate" /\ pc'[v] \in {"count", "acknowledge"}
        /\ stage[v] = "returned"
        /\ UNCHANGED <<issued, expired, boundary, targets, payload, operation, chunk, hydrated, status, parent, contended>>
    BY <1>4, <1>a DEF Handled, snapshotVars, Return, jobVars
  <2>2. target[v] \in Current(v) /\ Dealt(target[v])
    BY <1>a, <2>1 DEF RetryingInv
  <2>3. \A j \in Current(v) : Dealt(j)
    BY <1>a, <2>2, OneTarget
  <2>4. \A j \in Current(v)' : Dealt(j)'
    BY <2>1, <2>3 DEF Dealt, Children, Current
  <2>5. Current(v)' # {}
    BY <2>1, <2>2 DEF Current
  <2> QED
    BY <1>a, <2>1, <2>4, <2>5 DEF WorkerInv
<1>5. ASSUME InterruptChunk(v)
      PROVE  WorkerInv(v)'
  BY <1>5, <1>a DEF InterruptChunk, Interrupt, JobFails, WorkerInv
<1>6. ASSUME NEW w \in Workers \ {v}, Reserve(w) \/ ProcessChunk(w) \/ InterruptChunk(w)
      PROVE  WorkerInv(v)'
  BY <1>a, <1>6, OthersWork, WorkerStays
<1>7. CASE UNCHANGED <<workerVars, hydrated>>
  BY <1>7, WorkerStays DEF Untouched
<1>8. SharedStep(v) => WorkerInv(v)'
  BY SharedWorkerStep
<1> QED
  BY <1>1, <1>2, <1>3, <1>4, <1>5, <1>6, <1>7, <1>8 DEF Next, ProcessChunk, HandleBulk, RunBulk,
     BulkEnvironment, DispatchOperation, RetryBulkJob, ExpireSnapshot, UserRetries, vars

\* A retry that does not move stays where the worker's chunk is.
LEMMA RetryingStays ==
    ASSUME ProgressInvariant, [Next]_vars, NEW v \in Workers,
           stage'[v] = stage[v] /\ target'[v] = target[v] /\ bulk'[v] = bulk[v],
           stage[v] # "idle" => Untouched(v)
    PROVE  RetryingInv(v)'
<1>a. TypeOK /\ RetryInvariant /\ RetryingInv(v) /\ v \in Processes
  BY Progress, RetryAllAssumption
<1>b. stage[v] # "idle" => target[v] \in Jobs
  BY <1>a DEF RetryInvariant, HolderInv
<1>c. stage[v] \in {"reference", "release", "returned"} => Dealt(target[v])'
  <2>1. \A j \in Jobs : Dealt(j) => Dealt(j)'
    BY <1>a, DealtStays
  <2>2. stage[v] \in {"reference", "release", "returned"} => Dealt(target[v]')
    BY <1>a DEF RetryingInv
  <2>3. ASSUME stage[v] \in {"reference", "release", "returned"}
        PROVE  Dealt(target[v])'
    <3>1. PICK j \in Jobs : j = target[v] /\ Dealt(j)
      BY <1>a, <1>b, <2>3 DEF RetryingInv
    <3>2. Dealt(j)' /\ target'[v] = j
      BY <2>1, <3>1
    <3> QED
      BY <3>2 DEF Dealt, Children
  <2> QED
    BY <2>3
<1>d. stage[v] # "idle" => Current(v)' = Current(v) /\ hydrated'[v] = hydrated[v] /\ pc'[v] = pc[v]
  BY DEF Untouched, Current
<1> QED
  BY <1>a, <1>c, <1>d DEF RetryingInv

\* A worker's retry moves from its current target being failed to it being
\* dealt with: retried, gone, or locked by somebody else.
LEMMA RetryingStep ==
    ASSUME ProgressInvariant, [Next]_vars, NEW v \in Workers, RunBulk(v)
    PROVE  RetryingInv(v)'
<1>a. /\ TypeOK /\ RetryTypeOK /\ RetryInvariant /\ RetryingInv(v) /\ WorkerInv(v) /\ v \in Processes
      /\ pc[v] = "mutate" /\ UNCHANGED <<pc, hydrated, chunk>>
  BY Progress, RetryAllAssumption DEF RunBulk, TypeOK, bulkVars, workerVars
<1>b. stage[v] # "idle" /\ UNCHANGED <<target, bulk>>
  BY DEF RunBulk, RetryStep, Acquire, LockIsBusy, ReadEligibility, FindFailed, PushRetry,
     StoreRetryReference, Release
<1>c. target[v] \in Current(v) \cap (hydrated[v] \ OtherQueue) /\ bulk[v] /\ target[v] \in Jobs
  BY <1>a, <1>b DEF RetryingInv, RetryInvariant, HolderInv
<1>d. Current(v)' = Current(v)
  BY <1>a DEF Current
<1>e. SUFFICES ASSUME stage'[v] \in {"reference", "release", "returned"}
               PROVE  Dealt(target[v])'
  BY <1>a, <1>b, <1>c, <1>d DEF RetryingInv
<1>f. status[target[v]] \in Over
  <2>1. operation[v] \in Operations /\ target[v] \in boundary[operation[v]]
    BY <1>a, <1>c, Progress, CurrentInChunk DEF WorkerInv
  <2> QED
    BY <2>1, Progress DEF OperationInv
<1> USE DEF RetryTypeOK, Advance
<1>g. PICK j \in Jobs : j = target[v]
  BY <1>c
<1>h. Dealt(target[v])' <=> Dealt(j)'
  BY <1>b, <1>g DEF Dealt, Children
<1>i. SUFFICES Dealt(j)'
  BY <1>h
<1>1. CASE Dealt(j)
  BY <1>a, <1>1, DealtStays
<1>2. CASE LockIsBusy(v)
  <2>1. j \in contended'
    BY <1>2, <1>g DEF RunBulk
  <2> QED
    BY <2>1 DEF Dealt
<1>3. CASE ReadEligibility(v)
  <2>1. ~ Eligible(j, TRUE) /\ status[j] \in Over /\ UNCHANGED <<status, parent>>
    BY <1>a, <1>b, <1>c, <1>e, <1>f, <1>g, <1>3 DEF ReadEligibility, jobVars
  <2>2. CASE status[j] # "failed"
    BY <2>1, <2>2, <1>1 DEF Dealt, Over
  <2>3. CASE j \in Malformed
    BY <2>3, <1>1 DEF Dealt
  <2>4. CASE status[j] = "failed" /\ j \notin Malformed
    <3>1. PICK c \in Jobs : retriedBy[j][c] # "absent"
      BY <2>1, <2>4 DEF Eligible, AllowsBulk
    <3>2. c \in Children(j)
      BY <1>a, <3>1 DEF RetryInvariant, RecordInv, Children
    <3> QED
      BY <3>2, <1>1 DEF Dealt
  <2> QED
    BY <2>2, <2>3, <2>4
<1>4. CASE FindFailed(v)
  <2>1. status[j] # "failed"
    BY <1>a, <1>e, <1>g, <1>4 DEF FindFailed
  <2> QED
    BY <1>f, <1>g, <2>1, <1>1 DEF Dealt, Over
<1>5. CASE PushRetry(v)
  <2>1. PICK c \in Jobs : parent' = [parent EXCEPT ![c] = target[v]]
    BY <1>5 DEF PushRetry
  <2>2. parent'[c] = j
    BY <1>a, <1>g, <2>1
  <2> QED
    BY <2>2 DEF Dealt, Children
<1>6. CASE StoreRetryReference(v) \/ Release(v)
  BY <1>a, <1>6, <1>g, <1>1 DEF StoreRetryReference, Release, RetryingInv
<1>7. CASE Acquire(v)
  BY <1>a, <1>e, <1>7 DEF Acquire
<1> QED
  BY <1>2, <1>3, <1>4, <1>5, <1>6, <1>7 DEF RunBulk, RetryStep

\* Every step keeps the retries where the invariant says they are.
LEMMA RetryingHolds ==
    ASSUME ProgressInvariant, [Next]_vars, NEW v \in Workers
    PROVE  RetryingInv(v)'
<1>a. TypeOK /\ RetryTypeOK /\ RetryInvariant /\ RetryingInv(v) /\ v \in Processes
  BY Progress, RetryAllAssumption DEF TypeOK
<1>b. ASSUME stage'[v] = "idle"
      PROVE  RetryingInv(v)'
  BY <1>b DEF RetryingInv
<1> USE DEF Goto, bulkVars, retryVars, processVars
<1>1. ASSUME Reserve(v) \/ CaptureFailedJobs(v) \/ SharedStep(v) \/ Skip(v)
      PROVE  RetryingInv(v)'
  <2>1. pc[v] = "mutate" => Current(v) \cap (hydrated[v] \ OtherQueue) = {}
    BY <1>1 DEF Reserve, ReserveJob, CaptureFailedJobs, CaptureTargets, SharedStep, Skip, JobStep, MissingState, InitializeMeta, NextChunk, CheckAffected,
     AddAffected, Acknowledge, HasMore, ReadTotal, Cleanup, ReportCompletion, DispatchContinuation,
     DeleteJob
  <2>2. stage[v] = "idle"
    BY <1>a, <2>1 DEF RetryingInv
  <2>3. UNCHANGED stage
    BY <1>1 DEF Reserve, CaptureFailedJobs, SharedStep, Skip
  <2> QED
    BY <1>b, <2>2, <2>3
<1>2. ASSUME HandleBulk(v)
      PROVE  RetryingInv(v)'
  <2>1. PICK j \in Current(v) \cap (hydrated[v] \ OtherQueue) : Call(v, j, TRUE)
    BY <1>2 DEF HandleBulk
  <2>2. pc[v] = "mutate" /\ UNCHANGED <<pc, chunk, hydrated>>
    BY <1>2 DEF HandleBulk, workerVars
  <2>3. stage'[v] = "acquire" /\ target'[v] = j /\ bulk'[v] = TRUE
    BY <1>a, <2>1 DEF Call, Advance, RetryTypeOK
  <2>4. Current(v)' = Current(v)
    BY <2>2 DEF Current
  <2> QED
    BY <2>2, <2>3, <2>4 DEF RetryingInv
<1>3. ASSUME Handled(v)
      PROVE  RetryingInv(v)'
  BY <1>a, <1>b, <1>3 DEF Handled, Return, Reset, RetryTypeOK
<1>4. ASSUME InterruptChunk(v)
      PROVE  RetryingInv(v)'
  BY <1>a, <1>b, <1>4 DEF InterruptChunk, Abort, Reset, RetryTypeOK
<1>5. ASSUME NEW w \in Workers \ {v}, Reserve(w) \/ ProcessChunk(w) \/ InterruptChunk(w)
      PROVE  RetryingInv(v)'
  BY <1>a, <1>5, OthersWork, OthersRetryNot, RetryingStays
<1>6. ASSUME NEW u \in Users, UserRetries(u)
      PROVE  RetryingInv(v)'
  <2>1. stage'[v] = stage[v] /\ target'[v] = target[v] /\ bulk'[v] = bulk[v]
    BY <1>a, <1>6, OthersRetry DEF UserRetries, Users
  <2>2. Untouched(v)
    BY <1>6 DEF UserRetries, Untouched, workerVars
  <2> QED
    BY <2>1, <2>2, RetryingStays
<1>7. CASE RetryEnvironment /\ UNCHANGED <<bulkVars, hydrated>>
  <2>1. UNCHANGED processVars
    BY <1>7 DEF RetryEnvironment, ExpireLock, EndRetry, RemoveFailed
  <2> QED
    BY <1>7, <2>1, RetryingStays DEF Untouched, workerVars
<1>8. CASE (BulkEnvironment /\ UNCHANGED <<retryVars, hydrated>>) \/ UNCHANGED vars
  BY <1>8, RetryingStays DEF Untouched, workerVars, BulkEnvironment, DispatchOperation, RetryBulkJob,
     ExpireSnapshot, vars
<1>9. ASSUME RunBulk(v)
      PROVE  RetryingInv(v)'
  BY <1>9, RetryingStep
<1> QED
  BY <1>1, <1>2, <1>3, <1>4, <1>5, <1>6, <1>7, <1>8, <1>9 DEF Next, ProcessChunk

\* ProgressInvariant is inductive.
LEMMA ProgressStep ==
    ASSUME ProgressInvariant, [Next]_vars
    PROVE  ProgressInvariant'
<1>1. TypeOK'
  BY Progress, RetryAllTypeStep
<1>2. RetryInvariant'
  BY Progress, RetryAllStepsRetry, RetryInvariantStep
<1> QED
  BY <1>1, <1>2, OperationStep, WorkerStep, RetryingHolds DEF ProgressInvariant

\* With failed jobs and an empty bulk queue, nothing has been dealt with.
LEMMA ProgressInit == Init => ProgressInvariant
<1> SUFFICES ASSUME Init
             PROVE  ProgressInvariant
  OBVIOUS
<1>1. RetryInvariant
  BY RetryInitInvariant DEF Init
<1>2. TypeOK
  BY <1>1, BulkAssumption DEF TypeOK, RetryInvariant, Init, BulkInit, BulkTypeOK, Payloads, PCs
<1>3. \A o \in Operations : OperationInv(o)
  BY DEF Init, BulkInit, OperationInv, Payloads
<1>4. \A w \in Workers : WorkerInv(w) /\ RetryingInv(w)
  BY RetryAllAssumption DEF Init, BulkInit, RetryInit, WorkerInv, RetryingInv
<1> QED
  BY <1>1, <1>2, <1>3, <1>4 DEF ProgressInvariant

\* Operations, workers and retries agree on what has been dealt with, in every
\* reachable state.
THEOREM ProgressHolds == Spec => []ProgressInvariant
  BY ProgressInit, ProgressStep, PTL DEF Spec

\* The state keeps the types the code gives it.
THEOREM RetryAllTypesHold == Spec => []TypeOK
<1>1. ProgressInvariant => TypeOK
  BY DEF ProgressInvariant
<1> QED
  BY <1>1, ProgressHolds, PTL

\* Retrying in bulk implements the retry protocol: workers are only some of the
\* processes that retry jobs, so what is proved of those holds of bulk retries
\* that are interrupted, replayed and overtaken.
THEOREM BulkImplementsRetry == Spec => RetrySpec
<1>1. Init => RetryInit
  BY DEF Init
<1>2. ProgressInvariant /\ [Next]_vars => [RetryNext]_retryVars
  BY Progress, RetryAllStepsRetry
<1> QED
  BY <1>1, <1>2, ProgressHolds, PTL DEF Spec, RetrySpec

\* An operation completes only when each captured job has been retried, by it
\* or by somebody else, has gone, was locked when its turn came, or can be
\* retried by nobody, because its payload or its retried_by does not decode.
THEOREM CompletionIsHonest == Spec => []CompletionMeansRetried
<1>1. ProgressInvariant => CompletionMeansRetried
  BY DEF ProgressInvariant, OperationInv, Dealt, CompletionMeansRetried
<1> QED
  BY <1>1, ProgressHolds, PTL

-----------------------------------------------------------------------------
(* What a bulk retry has counted.                                          *)

\* A job that was scheduled stays so.
LEMMA ScheduledStays ==
    ASSUME ProgressInvariant, [Next]_vars, NEW j \in Jobs, IsScheduled(j)
    PROVE  IsScheduled(j)'
<1>1. /\ status[j] = "removed" => status'[j] = "removed"
      /\ Children(j) \subseteq Children(j)' /\ byBulk \subseteq byBulk'
  BY Progress, RetryAllStepsRetry, JobsRemember
<1> QED
  BY <1>1 DEF IsScheduled

\* A worker whose place in its retry changes has acted.
LEMMA WhoMoved ==
    ASSUME ProgressInvariant, [Next]_vars, NEW v \in Workers
    PROVE  \/ /\ Untouched(v) /\ stage'[v] = stage[v] /\ target'[v] = target[v]
              /\ bulk'[v] = bulk[v] /\ outcome'[v] = outcome[v]
           \/ Reserve(v) \/ ProcessChunk(v) \/ InterruptChunk(v)
<1>a. TypeOK /\ RetryTypeOK /\ v \in Processes
  BY Progress, RetryAllAssumption DEF TypeOK
<1> USE DEF bulkVars, workerVars, retryVars, processVars
<1>1. ASSUME NEW w \in Workers \ {v}, Reserve(w) \/ ProcessChunk(w) \/ InterruptChunk(w)
      PROVE  /\ Untouched(v) /\ stage'[v] = stage[v] /\ target'[v] = target[v]
             /\ bulk'[v] = bulk[v] /\ outcome'[v] = outcome[v]
  BY <1>a, <1>1, OthersWork, OthersRetryNot
<1>2. ASSUME NEW u \in Users, UserRetries(u)
      PROVE  /\ Untouched(v) /\ stage'[v] = stage[v] /\ target'[v] = target[v]
             /\ bulk'[v] = bulk[v] /\ outcome'[v] = outcome[v]
  <2>1. stage'[v] = stage[v] /\ target'[v] = target[v] /\ bulk'[v] = bulk[v] /\ outcome'[v] = outcome[v]
    BY <1>a, <1>2, OthersRetry DEF UserRetries, Users
  <2> QED
    BY <1>2, <2>1 DEF UserRetries, Untouched
<1>3. CASE RetryEnvironment /\ UNCHANGED <<bulkVars, hydrated>>
  <2>1. UNCHANGED processVars
    BY <1>3 DEF RetryEnvironment, ExpireLock, EndRetry, RemoveFailed
  <2> QED
    BY <1>3, <2>1 DEF Untouched
<1>4. CASE (BulkEnvironment /\ UNCHANGED <<retryVars, hydrated>>) \/ UNCHANGED vars
  BY <1>4 DEF Untouched, BulkEnvironment, DispatchOperation, RetryBulkJob, ExpireSnapshot, vars
<1> QED
  BY <1>1, <1>2, <1>3, <1>4 DEF Next

\* A bulk retry is about to schedule a job only if none has, and it is there.
LEMMA OnlyUnscheduledFly ==
    ASSUME ProgressInvariant, ProgressInvariant', [Next]_vars, NEW j \in Jobs \ lapsed',
           IsScheduled(j), InFlight(j)'
    PROVE  InFlight(j)
<1>1. PICK v \in Workers : target'[v] = j /\ stage'[v] \in {"find", "push"}
  BY DEF InFlight
<1>a. /\ TypeOK /\ RetryTypeOK /\ v \in Processes /\ RetryingInv(v)
      /\ RetryInvariant /\ RetryInvariant'
  BY Progress, RetryAllAssumption DEF TypeOK, ProgressInvariant
<1>2. CASE stage'[v] = stage[v] /\ target'[v] = target[v]
  BY <1>1, <1>2 DEF InFlight
<1>3. CASE Reserve(v) \/ ProcessChunk(v) \/ InterruptChunk(v)
  <2>1. CASE RunBulk(v)
    <3>1. CASE ReadEligibility(v)
      <4>1. /\ target[v] = j /\ bulk[v] /\ bulk'[v] /\ status[j] = "failed" /\ UNCHANGED <<status, parent>>
            /\ stage'[v] = "find"
        BY <1>a, <1>1, <3>1 DEF ReadEligibility, Eligible, RetryingInv, Advance, RetryTypeOK, jobVars
      <4>2. Children(j)' = {}
        BY <1>a, <1>1, <4>1 DEF RetryInvariant, PushInv
      <4>3. Children(j) = {}
        BY <4>1, <4>2 DEF Children
      <4> QED
        BY <4>1, <4>3 DEF IsScheduled
    <3>2. CASE FindFailed(v)
      BY <1>1, <3>2 DEF FindFailed, InFlight
    <3>3. CASE Acquire(v) \/ LockIsBusy(v) \/ PushRetry(v) \/ StoreRetryReference(v) \/ Release(v)
      BY <1>a, <1>1, <3>3 DEF Acquire, LockIsBusy, PushRetry, StoreRetryReference, Release, Advance, RetryTypeOK
    <3> QED
      BY <2>1, <3>1, <3>2, <3>3 DEF RunBulk, RetryStep
  <2>2. CASE HandleBulk(v)
    BY <1>a, <1>1, <2>2 DEF HandleBulk, Call, Advance, RetryTypeOK
  <2>3. CASE Handled(v)
    BY <1>a, <1>1, <2>3 DEF Handled, Return, Reset, RetryTypeOK
  <2>4. CASE InterruptChunk(v)
    BY <1>a, <1>1, <2>4 DEF InterruptChunk, Abort, Reset, RetryTypeOK, retryVars, processVars
  <2>5. CASE Reserve(v) \/ CaptureFailedJobs(v) \/ SharedStep(v) \/ Skip(v)
    BY <1>2, <2>5 DEF Reserve, CaptureFailedJobs, SharedStep, Skip, retryVars, processVars
  <2> QED
    BY <1>3, <2>1, <2>2, <2>3, <2>4, <2>5 DEF ProcessChunk
<1> QED
  BY <1>2, <1>3, WhoMoved

\* A worker that owes a count for a job owed it before, or has just scheduled
\* the job or found it gone.
LEMMA WhoOwes ==
    ASSUME ProgressInvariant, [Next]_vars, NEW v \in Workers, Owes(v)', NEW j \in Current(v)'
    PROVE  /\ operation'[v] = operation[v] /\ j \in Current(v)
           /\ \/ Owes(v)
              \/ RunBulk(v) /\ target[v] = j /\ (PushRetry(v) \/ (FindFailed(v) /\ status[j] # "failed"))
<1>a. TypeOK /\ RetryTypeOK /\ v \in Processes /\ RetryingInv(v)
  BY Progress, RetryAllAssumption DEF TypeOK
<1> USE DEF TypeOK, BulkTypeOK, Goto
<1>1. CASE /\ Untouched(v) /\ stage'[v] = stage[v] /\ target'[v] = target[v]
           /\ bulk'[v] = bulk[v] /\ outcome'[v] = outcome[v]
  BY <1>1 DEF Owes, Current, Untouched
<1>2. CASE Reserve(v) \/ CaptureFailedJobs(v) \/ Skip(v)
  BY <1>a, <1>2 DEF Reserve, ReserveJob, CaptureFailedJobs, CaptureTargets, Skip, Owes
<1>3. CASE SharedStep(v)
  <2>1. pc[v] # "mutate"
    BY <1>3 DEF SharedStep, JobStep, MissingState, InitializeMeta, NextChunk, CheckAffected,
       AddAffected, Acknowledge, HasMore, ReadTotal, Cleanup, ReportCompletion, DispatchContinuation,
       DeleteJob
  <2>2. stage[v] = "idle" /\ UNCHANGED stage
    BY <1>a, <1>3, <2>1 DEF SharedStep, RetryingInv, retryVars, processVars
  <2>3. pc'[v] \in {"count", "increment"}
    BY <2>2 DEF Owes
  <2>4. CheckAffected(v)
    BY <1>3, <1>a, <2>3 DEF SharedStep, JobStep, MissingState, JobFails, InitializeMeta, NextChunk,
       AddAffected, Acknowledge, HasMore, ReadTotal, Cleanup, ReportCompletion, DispatchContinuation,
       DeleteJob
  <2> QED
    BY <2>4 DEF CheckAffected, Owes, Current
<1>4. CASE InterruptChunk(v)
  BY <1>a, <1>4 DEF InterruptChunk, Interrupt, JobFails, Owes
<1>5. CASE HandleBulk(v)
  BY <1>a, <1>5 DEF HandleBulk, Call, Advance, Owes, RetryTypeOK, bulkVars, workerVars
<1>6. CASE Handled(v)
  <2>1. pc[v] = "mutate" /\ stage[v] = "returned" /\ UNCHANGED <<operation, chunk>>
    BY <1>6 DEF Handled, Return
  <2>2. outcome[v]
    BY <1>a, <1>6 DEF Handled, Owes
  <2> QED
    BY <2>1, <2>2 DEF Owes, Current
<1>7. CASE RunBulk(v)
  <2>1. pc[v] = "mutate" /\ UNCHANGED <<pc, operation, chunk>>
    BY <1>7 DEF RunBulk, bulkVars, workerVars
  <2>2. Current(v)' = Current(v)
    BY <2>1 DEF Current
  <2>3. stage[v] # "idle" => target[v] \in Current(v)
    BY <1>a DEF RetryingInv
  <2>4. stage[v] # "idle" => target[v] = j
    BY <1>a, <2>2, <2>3, OneTarget
  <2>5. CASE PushRetry(v)
    <3>1. stage[v] = "push"
      BY <2>5 DEF PushRetry
    <3>2. target[v] = j /\ j \in Current(v) /\ operation'[v] = operation[v]
      BY <2>1, <2>2, <2>4, <3>1
    <3> QED
      BY <1>7, <2>5, <3>2, Zenon
  <2>6. CASE FindFailed(v)
    <3>1. status[target[v]] # "failed"
      BY <1>a, <2>1, <2>6 DEF FindFailed, Owes, Advance, RetryTypeOK
    <3> QED
      BY <1>7, <2>1, <2>2, <2>4, <2>6, <3>1 DEF FindFailed
  <2>7. CASE ReadEligibility(v) \/ LockIsBusy(v) \/ Acquire(v)
    BY <1>a, <2>1, <2>7 DEF ReadEligibility, LockIsBusy, Acquire, Owes, Advance, RetryTypeOK
  <2>8. CASE StoreRetryReference(v)
    BY <2>1, <2>2, <2>8 DEF StoreRetryReference, Owes
  <2>9. CASE Release(v)
    BY <1>a, <2>1, <2>2, <2>9 DEF Release, Owes, Advance, RetryTypeOK
  <2> QED
    BY <1>7, <2>5, <2>6, <2>7, <2>8, <2>9 DEF RunBulk, RetryStep
<1> QED
  BY <1>1, <1>2, <1>3, <1>4, <1>5, <1>6, <1>7, WhoMoved DEF ProcessChunk

\* Every step keeps what a worker owes scheduled, by it alone.
LEMMA OwesStep ==
    ASSUME ProgressInvariant, ProgressInvariant', \A v \in Workers : OwesInv(v), [Next]_vars,
           NEW w \in Workers
    PROVE  OwesInv(w)'
<1> SUFFICES ASSUME NEW j \in Current(w)', j \notin lapsed', Owes(w)'
             PROVE  /\ IsScheduled(j)'
                    /\ ~ InFlight(j)'
                    /\ \A v \in Workers : Owes(v)' /\ j \in Current(v)' => v = w
  BY DEF OwesInv
<1>a. /\ operation'[w] = operation[w] /\ j \in Current(w)
      /\ \/ Owes(w)
         \/ RunBulk(w) /\ target[w] = j /\ (PushRetry(w) \/ (FindFailed(w) /\ status[j] # "failed"))
  BY WhoOwes
<1>b. /\ TypeOK /\ RetryTypeOK /\ RetryInvariant /\ RetryingInv(w) /\ WorkerInv(w) /\ w \in Processes
      /\ Workers \subseteq Processes
  BY Progress, RetryAllAssumption DEF TypeOK
<1>c. j \in Jobs
  BY <1>a, <1>b, CurrentInChunk, RetryAllAssumption DEF TypeOK, BulkTypeOK
<1>d. j \notin lapsed
  BY <1>b, <1>c, RetryAllStepsRetry, JobsRemember
<1>1. CASE Owes(w)
  <2>1. /\ IsScheduled(j) /\ ~ InFlight(j)
        /\ \A v \in Workers : Owes(v) /\ j \in Current(v) => v = w
    BY <1>1, <1>a, <1>d DEF OwesInv
  <2>2. IsScheduled(j)' /\ ~ InFlight(j)'
    BY <1>c, <2>1, ScheduledStays, OnlyUnscheduledFly
  <2>3. ASSUME NEW v \in Workers, Owes(v)', j \in Current(v)'
        PROVE  v = w
    <3>0. /\ operation'[v] = operation[v] /\ j \in Current(v)
          /\ \/ Owes(v)
             \/ RunBulk(v) /\ target[v] = j /\ (PushRetry(v) \/ (FindFailed(v) /\ status[j] # "failed"))
      BY <2>3, WhoOwes
    <3>1. /\ j \in Current(v)
          /\ Owes(v) \/ (target[v] = j /\ (PushRetry(v) \/ FindFailed(v)))
      BY <3>0, Zenon
    <3>2. PushRetry(v) \/ FindFailed(v) => stage[v] \in {"find", "push"}
      BY DEF PushRetry, FindFailed
    <3> QED
      BY <2>1, <3>1, <3>2 DEF InFlight
  <2> QED
    BY <2>2, <2>3
<1>2. CASE /\ ~ Owes(w) /\ RunBulk(w) /\ target[w] = j
           /\ PushRetry(w) \/ (FindFailed(w) /\ status[j] # "failed")
  <2>1. /\ stage[w] \in {"find", "push"} /\ InFlight(j) /\ bulk[w]
    BY <1>b, <1>2 DEF PushRetry, FindFailed, InFlight, RetryingInv
  <2>2. IsScheduled(j)'
    <3>1. CASE PushRetry(w)
      <4>1. PICK c \in Jobs : parent' = [parent EXCEPT ![c] = target[w]] /\ byBulk' = byBulk \cup {c}
        BY <2>1, <3>1 DEF PushRetry
      <4>2. c \in (Children(j) \cap byBulk)'
        BY <1>b, <1>2, <4>1 DEF RetryTypeOK, Children
      <4> QED
        BY <4>2 DEF IsScheduled
    <3>2. CASE FindFailed(w) /\ status[j] # "failed"
      <4>1. status[j] \in Over
        BY <1>b, <1>2, <2>1 DEF RetryInvariant, HolderInv
      <4>2. UNCHANGED status
        BY <3>2 DEF FindFailed, jobVars
      <4> QED
        BY <3>2, <4>1, <4>2 DEF IsScheduled, Over
    <3> QED
      BY <1>2, <3>1, <3>2
  <2>3. ~ InFlight(j)'
    <3>1. SUFFICES ASSUME NEW v \in Workers, target'[v] = j, stage'[v] \in {"find", "push"}
                   PROVE  FALSE
      BY DEF InFlight
    <3>2. CASE v = w
      BY <1>b, <1>2, <3>1, <3>2 DEF PushRetry, FindFailed, Advance, RetryTypeOK
    <3>3. CASE v # w
      <4>1. target'[v] = target[v] /\ stage'[v] = stage[v]
        BY <1>b, <1>2, <3>3, OthersRetryNot DEF ProcessChunk
      <4>2. Inside(v, j) /\ Inside(w, j)
        BY <1>2, <2>1, <3>1, <4>1 DEF Inside
      <4> QED
        BY <1>b, <1>c, <1>d, <3>3, <4>2, OneInside
    <3> QED
      BY <3>2, <3>3
  <2>4. ASSUME NEW v \in Workers, Owes(v)', j \in Current(v)', v # w
        PROVE  FALSE
    <3>1. Untouched(v) /\ stage'[v] = stage[v] /\ outcome'[v] = outcome[v]
      BY <1>b, <1>2, <2>4, OthersWork, OthersRetryNot DEF ProcessChunk
    <3>2. Owes(v) /\ j \in Current(v)
      BY <2>4, <3>1 DEF Owes, Untouched, Current
    <3>3. ~ InFlight(j)
      BY <1>d, <3>2 DEF OwesInv
    <3> QED
      BY <2>1, <3>3
  <2> QED
    BY <2>2, <2>3, <2>4
<1> QED
  BY <1>1, <1>2, <1>a

\* Sets of jobs can be counted, and a part has no more members than the whole.
LEMMA Countable ==
    ASSUME NEW S \in SUBSET JobIds, NEW T \in SUBSET S
    PROVE  /\ IsFiniteSet(S) /\ IsFiniteSet(T)
           /\ Cardinality(S) \in Nat /\ Cardinality(T) \in Nat
           /\ Cardinality(T) <= Cardinality(S)
<1>1. IsFiniteSet(S)
  BY FiniteJobIds, FS_Subset, Zenon
<1>2. IsFiniteSet(T) /\ Cardinality(T) <= Cardinality(S)
  BY <1>1, FS_Subset, Zenon
<1> QED
  BY <1>1, <1>2, FS_CardinalityType

\* Each job that an operation scheduled stays scheduled, and counted once.
LEMMA CreditsStay ==
    ASSUME ProgressInvariant, ProgressInvariant', [Next]_vars,
           NEW o \in issued, boundary[o] \cap lapsed' = {}
    PROVE  Scheduled(o) \subseteq Scheduled(o)' /\ Credited(o) \subseteq Credited(o)'
<1>a. TypeOK /\ o \in Operations /\ boundary'[o] = boundary[o] /\ \A j \in boundary[o] : j \in Jobs
  BY Progress, OperationsRemember, RetryAllAssumption DEF TypeOK, BulkTypeOK
<1>1. ASSUME NEW j \in Scheduled(o)
      PROVE  j \in Scheduled(o)' /\ IsScheduled(j)
  <2>1. j \in boundary[o] /\ j \in Jobs /\ IsScheduled(j)
    BY <1>a DEF Scheduled, IsScheduled
  <2>2. IsScheduled(j)'
    BY <2>1, ScheduledStays
  <2> QED
    BY <1>a, <2>1, <2>2 DEF Scheduled, IsScheduled
<1>2. ASSUME NEW j \in Credited(o)
      PROVE  j \in Credited(o)'
  <2>1. /\ j \in Scheduled(o) /\ ~ InFlight(j)
        /\ \A w \in Workers : ~ OwesFor(w, o, j)
    BY DEF Credited
  <2>2. j \in boundary[o] /\ j \in Jobs \ lapsed' /\ IsScheduled(j) /\ j \in Scheduled(o)'
    BY <1>a, <1>1, <2>1 DEF Scheduled
  <2>3. ~ InFlight(j)'
    BY <2>1, <2>2, OnlyUnscheduledFly
  <2>4. ASSUME NEW w \in Workers, OwesFor(w, o, j)'
        PROVE  FALSE
    <3>1. Owes(w)' /\ operation'[w] = o /\ j \in Current(w)'
      BY <2>4 DEF OwesFor
    <3>0. /\ operation'[w] = operation[w] /\ j \in Current(w)
          /\ \/ Owes(w)
             \/ RunBulk(w) /\ target[w] = j /\ (PushRetry(w) \/ (FindFailed(w) /\ status[j] # "failed"))
      BY <3>1, WhoOwes
    <3>2. /\ operation'[w] = operation[w] /\ j \in Current(w)
          /\ Owes(w) \/ (target[w] = j /\ (PushRetry(w) \/ FindFailed(w)))
      BY <3>0, Zenon
    <3>3. PushRetry(w) \/ FindFailed(w) => stage[w] \in {"find", "push"}
      BY DEF PushRetry, FindFailed
    <3> QED
      BY <2>1, <3>1, <3>2, <3>3 DEF OwesFor, InFlight
  <2> QED
    BY <2>2, <2>3, <2>4 DEF Credited
<1> QED
  BY <1>1, <1>2

\* Records and counters that do not move keep up with what is scheduled.
LEMMA CreditFrame ==
    ASSUME ProgressInvariant, ProgressInvariant', [Next]_vars, NEW o \in issued,
           boundary[o] \cap lapsed' = {}, CreditInv(o)
    PROVE  /\ affected[o] \in Nat /\ affected[o] <= Cardinality(Credited(o))
           /\ affected[o] <= Cardinality(Credited(o))' /\ affected[o] <= Cardinality(Scheduled(o))'
           /\ 0 <= Cardinality(Credited(o))'
           /\ \A i \in DOMAIN reported[o] : reported[o][i] <= Cardinality(Scheduled(o))'
           /\ \A w \in Workers : pc[w] \in {"cleanup", "report"} /\ operation[w] = o =>
                total[w] <= Cardinality(Scheduled(o))'
<1>a. /\ TypeOK /\ TypeOK' /\ o \in Operations /\ reported[o] \in Seq(Nat)
      /\ affected[o] \in Nat /\ \A w \in Workers : total[w] \in Nat
  BY Progress DEF ProgressInvariant, TypeOK, BulkTypeOK
<1>b. lapsed \subseteq lapsed'
  <2>1. CASE Jobs = {}
    BY <1>a, <2>1 DEF TypeOK, RetryTypeOK
  <2>2. CASE Jobs # {}
    BY <2>2, Progress, RetryAllStepsRetry, JobsRemember
  <2> QED
    BY <2>1, <2>2
<1>1. /\ affected[o] <= Cardinality(Credited(o))
      /\ \A i \in DOMAIN reported[o] : reported[o][i] <= Cardinality(Scheduled(o))
      /\ \A w \in Workers : pc[w] \in {"cleanup", "report"} /\ operation[w] = o =>
            total[w] <= Cardinality(Scheduled(o))
  BY <1>b DEF CreditInv
<1>2. Scheduled(o) \subseteq Scheduled(o)' /\ Credited(o) \subseteq Credited(o)'
  BY CreditsStay
<1>3. /\ Scheduled(o)' \in SUBSET JobIds /\ Scheduled(o) \in SUBSET (Scheduled(o)')
      /\ Credited(o)' \in SUBSET (Scheduled(o)') /\ Credited(o) \in SUBSET (Credited(o)')
  BY <1>a, <1>2 DEF Scheduled, Credited, TypeOK, BulkTypeOK
<1>4. Cardinality(Scheduled(o)) \in Nat /\ Cardinality(Scheduled(o)') \in Nat
      /\ Cardinality(Scheduled(o)) <= Cardinality(Scheduled(o)')
  BY <1>3, Countable
<1>5. Cardinality(Credited(o)) \in Nat /\ Cardinality(Credited(o)') \in Nat
      /\ Cardinality(Credited(o)) <= Cardinality(Credited(o)')
      /\ Cardinality(Credited(o)') <= Cardinality(Scheduled(o)')
  <2>1. Credited(o)' \in SUBSET JobIds
    BY <1>3
  <2> QED
    BY <1>3, <2>1, Countable
<1>6. \A i \in DOMAIN reported[o] : reported[o][i] \in Nat
  BY <1>a
<1> QED
  BY <1>a, <1>1, <1>4, <1>5, <1>6

\* An operation that has just been captured has counted nothing.
LEMMA CreditOfNew ==
    ASSUME ProgressInvariant, ProgressInvariant', [Next]_vars, NEW o \in Operations \ issued
    PROVE  CreditInv(o)'
<1>a. /\ TypeOK /\ TypeOK' /\ affected[o] = 0 /\ reported[o] = <<>> /\ OperationInv(o)
      /\ \A w \in Workers : WorkerInv(w)
      /\ \A w \in Workers : WorkerInv(w)'
  BY Progress DEF ProgressInvariant, OperationInv
<1>b. Cardinality(Credited(o)') \in Nat
  <2>1. Scheduled(o)' \in SUBSET JobIds /\ Credited(o)' \in SUBSET (Scheduled(o)')
    BY <1>a DEF Scheduled, Credited, TypeOK, BulkTypeOK
  <2> QED
    BY <2>1, Countable
<1>1. \A w \in Workers : ~ (pc[w] \notin {"idle", "capture"} /\ operation[w] = o)
  BY <1>a DEF WorkerInv
<1>2. affected'[o] = 0 /\ reported'[o] = <<>>
  <2> USE <1>a DEF TypeOK, BulkTypeOK, bulkVars, snapshotVars, historyVars
  <2>1. ASSUME NEW w \in Workers, SharedStep(w)
        PROVE  affected'[o] = 0 /\ reported'[o] = <<>>
    <3>1. pc[w] \notin {"idle", "capture"}
      BY <2>1 DEF SharedStep, JobStep, MissingState, InitializeMeta, NextChunk, CheckAffected,
         AddAffected, Acknowledge, HasMore, ReadTotal, Cleanup, ReportCompletion,
         DispatchContinuation, DeleteJob
    <3>2. operation[w] # o
      BY <1>1, <3>1
    <3> QED
      BY <2>1, <3>2 DEF SharedStep, JobStep, MissingState, InitializeMeta, NextChunk, CheckAffected,
         AddAffected, Acknowledge, HasMore, ReadTotal, Cleanup, ReportCompletion,
         DispatchContinuation, DeleteJob
  <2>2. ASSUME NEW u \in Operations, ExpireSnapshot(u)
        PROVE  affected'[o] = 0 /\ reported'[o] = <<>>
    BY <2>2 DEF ExpireSnapshot
  <2>3. CASE UNCHANGED <<affected, reported>>
    BY <2>3
  <2>4. \/ \E w \in Workers : SharedStep(w)
        \/ \E u \in Operations : ExpireSnapshot(u)
        \/ UNCHANGED <<affected, reported>>
    BY DEF Next, ProcessChunk, Reserve, ReserveJob, CaptureFailedJobs, CaptureTargets, Skip,
       HandleBulk, RunBulk, Handled, InterruptChunk, Interrupt, BulkEnvironment, DispatchOperation,
       RetryBulkJob, UserRetries, vars
  <2> QED
    BY <2>1, <2>2, <2>3, <2>4
<1>3. \A w \in Workers : ~ (pc'[w] \in {"cleanup", "report"} /\ operation'[w] = o)
  <2> SUFFICES ASSUME NEW w \in Workers, pc'[w] \in {"cleanup", "report"}, operation'[w] = o
               PROVE  FALSE
    OBVIOUS
  <2> USE <1>a DEF TypeOK, BulkTypeOK, Goto, bulkVars, workerVars
  <2>1. CASE Untouched(w)
    BY <1>1, <2>1 DEF Untouched
  <2>2. CASE SharedStep(w)
    <3>1. pc'[w] \notin {"cleanup", "report"} \/ ReadTotal(w) \/ Cleanup(w)
      <4>1. MissingState(w) \/ DeleteJob(w) => pc'[w] = "idle"
        BY DEF MissingState, JobFails, DeleteJob
      <4>2. InitializeMeta(w) \/ NextChunk(w) \/ HasMore(w) => pc'[w] \in {"peek", "mutate", "total", "continue"}
        BY DEF InitializeMeta, NextChunk, HasMore
      <4>3. CheckAffected(w) \/ AddAffected(w) \/ Acknowledge(w) => pc'[w] \in {"increment", "acknowledge", "decide", "mutate"}
        BY DEF CheckAffected, AddAffected, Acknowledge
      <4>4. ReportCompletion(w) \/ DispatchContinuation(w) => pc'[w] = "delete"
        BY DEF ReportCompletion, DispatchContinuation
      <4> QED
        BY <2>2, <4>1, <4>2, <4>3, <4>4 DEF SharedStep, JobStep
    <3>2. pc[w] \in {"total", "cleanup"} /\ operation'[w] = operation[w]
      BY <3>1 DEF ReadTotal, Cleanup
    <3> QED
      BY <1>1, <3>2
  <2>3. CASE Reserve(w) \/ InterruptChunk(w)
    <3>1. pc'[w] \in {"capture", "peek", "idle"}
      BY <2>3 DEF Reserve, ReserveJob, InterruptChunk, Interrupt, JobFails
    <3> QED
      BY <3>1
  <2>4. CASE CaptureFailedJobs(w) \/ Skip(w) \/ HandleBulk(w) \/ RunBulk(w) \/ Handled(w)
    BY <2>4 DEF CaptureFailedJobs, CaptureTargets, Skip, HandleBulk, RunBulk, Handled
  <2> QED
    BY <2>1, <2>2, <2>3, <2>4, WhoMoved DEF ProcessChunk
<1> QED
  BY <1>b, <1>2, <1>3 DEF CreditInv

\* The job a worker counts was scheduled, and had not been counted.
LEMMA CreditOfCount ==
    ASSUME ProgressInvariant, ProgressInvariant', CreditInvariant, [Next]_vars, NEW w \in Workers,
           AddAffected(w), SharedStep(w), NEW o \in issued, operation[w] = o,
           boundary[o] \cap lapsed' = {}
    PROVE  Cardinality(Credited(o)) + 1 <= Cardinality(Credited(o)')
<1>a. /\ TypeOK /\ TypeOK' /\ WorkerInv(w) /\ OwesInv(w) /\ RetryingInv(w) /\ o \in Operations
      /\ pc[w] = "increment" /\ pc'[w] = "acknowledge" /\ Owes(w)
  BY Progress DEF ProgressInvariant, CreditInvariant, TypeOK, BulkTypeOK, AddAffected, Goto, Owes
<1>1. PICK j \in Current(w) : TRUE
  BY <1>a DEF WorkerInv
<1>2. j \in boundary[o] /\ j \in Jobs
  BY <1>a, CurrentInChunk, RetryAllAssumption DEF WorkerInv, TypeOK, BulkTypeOK
<1>b. lapsed \subseteq lapsed'
  BY <1>2, Progress, RetryAllStepsRetry, JobsRemember
<1>3. /\ IsScheduled(j) /\ ~ InFlight(j) /\ j \notin lapsed'
      /\ \A v \in Workers : Owes(v) /\ j \in Current(v) => v = w
  BY <1>a, <1>1, <1>2, <1>b DEF OwesInv
<1>4. j \notin Credited(o)
  BY <1>a, <1>1 DEF Credited, OwesFor
<1>5. j \in Credited(o)'
  <2>1. j \in Scheduled(o)'
    <3>1. j \in Scheduled(o)
      BY <1>2, <1>3 DEF Scheduled, IsScheduled
    <3> QED
      BY <3>1, CreditsStay
  <2>2. ~ InFlight(j)'
    BY <1>2, <1>3, OnlyUnscheduledFly
  <2>3. ASSUME NEW v \in Workers, OwesFor(v, o, j)'
        PROVE  FALSE
    <3>1. v # w
      BY <1>a, <2>3 DEF OwesFor, Owes
    <3>2. Untouched(v) /\ stage'[v] = stage[v] /\ outcome'[v] = outcome[v]
      BY <1>a, <3>1, OthersWork, OthersRetryNot, RetryAllAssumption DEF ProcessChunk
    <3>3. Owes(v) /\ j \in Current(v)
      BY <2>3, <3>2 DEF OwesFor, Owes, Untouched, Current
    <3> QED
      BY <1>3, <3>1, <3>3
  <2> QED
    BY <2>1, <2>2, <2>3 DEF Credited
<1>6. Credited(o) \cup {j} \in SUBSET (Credited(o)')
  BY <1>5, CreditsStay
<1>7. Credited(o)' \in SUBSET JobIds
  BY <1>a DEF Scheduled, Credited, TypeOK, BulkTypeOK
<1>8. Cardinality(Credited(o) \cup {j}) <= Cardinality(Credited(o)')
  BY <1>6, <1>7, Countable
<1>9. IsFiniteSet(Credited(o)) /\ Cardinality(Credited(o)) \in Nat
  <2>1. Credited(o) \in SUBSET JobIds
    BY <1>a DEF Scheduled, Credited, TypeOK, BulkTypeOK
  <2> QED
    BY <2>1, Countable
<1>10. Cardinality(Credited(o) \cup {j}) = Cardinality(Credited(o)) + 1
  BY <1>4, <1>9, FS_AddElement
<1> QED
  BY <1>8, <1>10

\* A new completion record leaves the earlier ones alone.
LEMMA RecordAppended ==
    ASSUME NEW s \in Seq(Nat), NEW n \in Nat, NEW i \in DOMAIN Append(s, n)
    PROVE  Append(s, n)[i] = n \/ (i \in DOMAIN s /\ Append(s, n)[i] = s[i])
  OBVIOUS

\* Every step keeps the counter and the records of an operation below the jobs
\* that were scheduled.
LEMMA CreditStep ==
    ASSUME ProgressInvariant, ProgressInvariant', CreditInvariant, [Next]_vars, NEW o \in Operations
    PROVE  CreditInv(o)'
<1>a. TypeOK /\ TypeOK' /\ CreditInv(o)
  BY Progress DEF ProgressInvariant, CreditInvariant
<1>0. CASE o \notin issued
  BY <1>0, CreditOfNew
<1>b. SUFFICES ASSUME o \in issued, boundary[o] \cap lapsed' = {}
               PROVE  CreditInv(o)'
  <2>1. o \in issued => boundary'[o] = boundary[o]
    BY Progress, OperationsRemember
  <2> QED
    BY <1>0, <2>1 DEF CreditInv
<1>c. /\ affected[o] \in Nat /\ affected[o] <= Cardinality(Credited(o))
      /\ affected[o] <= Cardinality(Credited(o))' /\ affected[o] <= Cardinality(Scheduled(o))'
      /\ 0 <= Cardinality(Credited(o))'
      /\ \A i \in DOMAIN reported[o] : reported[o][i] <= Cardinality(Scheduled(o))'
      /\ \A w \in Workers : pc[w] \in {"cleanup", "report"} /\ operation[w] = o =>
           total[w] <= Cardinality(Scheduled(o))'
  BY <1>a, <1>b, CreditFrame
<1>d. ASSUME affected'[o] \in {affected[o], 0}, reported'[o] = reported[o],
             \A w \in Workers : pc'[w] \in {"cleanup", "report"} /\ operation'[w] = o =>
                pc[w] \in {"cleanup", "report"} /\ operation[w] = o /\ total'[w] = total[w]
      PROVE  CreditInv(o)'
  BY <1>c, <1>d DEF CreditInv
<1> USE <1>a DEF TypeOK, BulkTypeOK, Goto, bulkVars, snapshotVars, historyVars, workerVars
<1>1. ASSUME NEW w \in Workers, SharedStep(w)
      PROVE  CreditInv(o)'
  <2>a. \A v \in Workers \ {w} : Untouched(v)
    BY <1>1, OthersWork DEF ProcessChunk
  <2>1. CASE AddAffected(w)
    <3>1. /\ reported'[o] = reported[o] /\ pc'[w] = "acknowledge"
          /\ affected'[o] = IF operation[w] = o THEN affected[o] + 1 ELSE affected[o]
      BY <2>1 DEF AddAffected
    <3>2. affected'[o] <= Cardinality(Credited(o))'
      <4>1. CASE operation[w] = o
        <5>1. Cardinality(Credited(o)) + 1 <= Cardinality(Credited(o)')
          BY <1>1, <1>b, <2>1, <4>1, CreditOfCount
        <5>2. Credited(o) \in SUBSET JobIds /\ Credited(o)' \in SUBSET JobIds
          BY DEF Scheduled, Credited
        <5>3. Cardinality(Credited(o)) \in Nat /\ Cardinality(Credited(o)') \in Nat
          BY <5>2, Countable
        <5> QED
          BY <1>c, <3>1, <4>1, <5>1, <5>3
      <4>2. CASE operation[w] # o
        BY <1>c, <3>1, <4>2
      <4> QED
        BY <4>1, <4>2
    <3>3. \A v \in Workers : pc'[v] \in {"cleanup", "report"} /\ operation'[v] = o =>
            pc[v] \in {"cleanup", "report"} /\ operation[v] = o /\ total'[v] = total[v]
      BY <2>a, <3>1 DEF Untouched
    <3> QED
      BY <1>c, <3>1, <3>2, <3>3 DEF CreditInv
  <2>2. CASE ReadTotal(w)
    <3>1. /\ reported'[o] = reported[o] /\ affected'[o] = affected[o] /\ operation'[w] = operation[w]
          /\ operation[w] = o => total'[w] = affected[o]
      BY <2>2 DEF ReadTotal
    <3>2. \A v \in Workers : pc'[v] \in {"cleanup", "report"} /\ operation'[v] = o =>
            total'[v] <= Cardinality(Scheduled(o))'
      BY <1>c, <2>a, <3>1 DEF Untouched
    <3> QED
      BY <1>c, <3>1, <3>2 DEF CreditInv
  <2>3. CASE ReportCompletion(w)
    <3>1. /\ affected'[o] = affected[o] /\ pc[w] = "report" /\ pc'[w] = "delete"
          /\ reported'[o] = IF operation[w] = o THEN Append(reported[o], total[w]) ELSE reported[o]
      BY <2>3 DEF ReportCompletion
    <3>2. \A i \in DOMAIN reported'[o] : reported'[o][i] <= Cardinality(Scheduled(o))'
      <4>1. CASE operation[w] = o
        <5>1. total[w] <= Cardinality(Scheduled(o))'
          BY <1>c, <3>1, <4>1
        <5>2. reported[o] \in Seq(Nat) /\ total[w] \in Nat
          OBVIOUS
        <5>3. \A i \in DOMAIN reported'[o] : reported'[o][i] = total[w] \/ (i \in DOMAIN reported[o] /\ reported'[o][i] = reported[o][i])
          <6>1. reported'[o] = Append(reported[o], total[w])
            BY <3>1, <4>1
          <6>2. \A i \in DOMAIN Append(reported[o], total[w]) :
                    \/ Append(reported[o], total[w])[i] = total[w]
                    \/ i \in DOMAIN reported[o] /\ Append(reported[o], total[w])[i] = reported[o][i]
            BY <5>2, RecordAppended, Zenon
          <6> QED
            BY <6>1, <6>2, Zenon
        <5> QED
          BY <1>c, <5>1, <5>3
      <4>2. CASE operation[w] # o
        BY <1>c, <3>1, <4>2
      <4> QED
        BY <4>1, <4>2
    <3>3. \A v \in Workers : pc'[v] \in {"cleanup", "report"} /\ operation'[v] = o =>
            pc[v] \in {"cleanup", "report"} /\ operation[v] = o /\ total'[v] = total[v]
      BY <2>a, <3>1 DEF Untouched
    <3> QED
      BY <1>c, <3>1, <3>2, <3>3 DEF CreditInv
  <2>4. CASE Cleanup(w)
    <3>1. /\ affected'[o] \in {affected[o], 0} /\ reported'[o] = reported[o]
          /\ pc[w] = "cleanup" /\ operation'[w] = operation[w] /\ total'[w] = total[w]
      BY <2>4 DEF Cleanup
    <3> QED
      BY <1>d, <2>a, <3>1 DEF Untouched
  <2>5. CASE InitializeMeta(w)
    <3>1. /\ affected'[o] \in {affected[o], 0} /\ reported'[o] = reported[o]
          /\ pc'[w] = "peek"
      BY <2>5 DEF InitializeMeta
    <3> QED
      BY <1>d, <2>a, <3>1 DEF Untouched
  <2>6. CASE \/ MissingState(w) \/ NextChunk(w) \/ CheckAffected(w) \/ Acknowledge(w) \/ HasMore(w)
             \/ DispatchContinuation(w) \/ DeleteJob(w)
    <3>1. UNCHANGED <<affected, reported>> /\ pc'[w] \notin {"cleanup", "report"}
      <4>1. CASE MissingState(w) \/ DispatchContinuation(w) \/ DeleteJob(w)
        BY <4>1 DEF MissingState, JobFails, DispatchContinuation, DeleteJob
      <4>2. CASE NextChunk(w) \/ CheckAffected(w)
        BY <4>2 DEF NextChunk, CheckAffected
      <4>3. CASE Acknowledge(w)
        BY <4>3 DEF Acknowledge
      <4>4. CASE HasMore(w)
        BY <4>4 DEF HasMore
      <4> QED
        BY <2>6, <4>1, <4>2, <4>3, <4>4
    <3> QED
      BY <1>d, <2>a, <3>1 DEF Untouched
  <2> QED
    BY <1>1, <2>1, <2>2, <2>3, <2>4, <2>5, <2>6 DEF SharedStep, JobStep
<1>2. ASSUME NEW w \in Workers,
             \/ Reserve(w) \/ InterruptChunk(w) \/ CaptureFailedJobs(w) \/ Skip(w) \/ HandleBulk(w)
             \/ RunBulk(w) \/ Handled(w)
      PROVE  CreditInv(o)'
  <2>a. \A v \in Workers \ {w} : Untouched(v)
    BY <1>2, OthersWork DEF ProcessChunk
  <2>1. UNCHANGED <<affected, reported>>
    BY <1>2 DEF Reserve, ReserveJob, InterruptChunk, Interrupt, CaptureFailedJobs, CaptureTargets,
       Skip, HandleBulk, RunBulk, Handled
  <2>2. pc'[w] \notin {"cleanup", "report"} \/ UNCHANGED workerVars
    <3>1. CASE Reserve(w) \/ InterruptChunk(w)
      <4>1. pc'[w] \in {"capture", "peek", "idle"}
        BY <3>1 DEF Reserve, ReserveJob, InterruptChunk, Interrupt, JobFails
      <4> QED
        BY <4>1
    <3>2. CASE CaptureFailedJobs(w) \/ Skip(w) \/ HandleBulk(w) \/ RunBulk(w) \/ Handled(w)
      BY <3>2 DEF CaptureFailedJobs, CaptureTargets, Skip, HandleBulk, RunBulk, Handled
    <3> QED
      BY <1>2, <3>1, <3>2
  <2> QED
    BY <1>d, <2>a, <2>1, <2>2 DEF Untouched
<1>3. ASSUME NEW u \in Operations, ExpireSnapshot(u)
      PROVE  CreditInv(o)'
  BY <1>3, <1>d DEF ExpireSnapshot
<1>4. CASE UNCHANGED <<affected, reported, workerVars>>
  BY <1>4, <1>d
<1> QED
  BY <1>1, <1>2, <1>3, <1>4 DEF Next, ProcessChunk, BulkEnvironment, DispatchOperation, RetryBulkJob,
     UserRetries, vars

\* What is dealt with and what is counted stay consistent in every reachable
\* state.
THEOREM RetryAllInvariantHolds == Spec => []RetryAllInvariant
<1>1. Init => CreditInvariant
  BY FS_EmptySet DEF Init, BulkInit, CreditInvariant, CreditInv, OwesInv, Owes, RetryInit, Current, FirstOf,
     Credited, Scheduled
<1>2. ProgressInvariant /\ ProgressInvariant' /\ CreditInvariant /\ [Next]_vars => CreditInvariant'
  BY CreditStep, OwesStep DEF CreditInvariant
<1> QED
  BY <1>1, <1>2, ProgressHolds, PTL DEF Spec, RetryAllInvariant

\* However often chunks are interrupted, replayed and overtaken, an operation
\* counts and reports no more jobs than were scheduled, as long as no lock of
\* its jobs ran out under its holder.
THEOREM CountsAreEarned == Spec => []AffectedWereScheduled
<1>1. RetryAllInvariant => AffectedWereScheduled
  <2> SUFFICES ASSUME RetryAllInvariant, NEW o \in Operations, boundary[o] \cap lapsed = {}
               PROVE  /\ affected[o] <= Cardinality(Scheduled(o))
                      /\ \A i \in DOMAIN reported[o] : reported[o][i] <= Cardinality(Scheduled(o))
    BY DEF AffectedWereScheduled
  <2>1. TypeOK /\ CreditInv(o)
    BY Progress DEF RetryAllInvariant, CreditInvariant
  <2>2. Scheduled(o) \in SUBSET JobIds /\ Credited(o) \in SUBSET Scheduled(o)
    BY <2>1 DEF TypeOK, BulkTypeOK, Scheduled, Credited
  <2>3. Cardinality(Credited(o)) \in Nat /\ Cardinality(Scheduled(o)) \in Nat
        /\ Cardinality(Credited(o)) <= Cardinality(Scheduled(o))
    BY <2>2, Countable
  <2>4. affected[o] \in Nat
    BY <2>1 DEF TypeOK, BulkTypeOK
  <2> QED
    BY <2>1, <2>3, <2>4 DEF CreditInv
<1> QED
  BY <1>1, RetryAllInvariantHolds, PTL
=============================================================================
