------------------------ MODULE RetainedJobIndex_proofs ------------------------
(***************************************************************************)
(* The generations of RetainedJobIndex, for every number of jobs and       *)
(* processes and every bound: while no lock has run out under its holder,  *)
(* nobody touches the published slot, so readers need no lock.             *)
(*                                                                         *)
(* PublishedIsStable is not inductive: that a writer stays off the         *)
(* published slot needs to know which slot it works on (WorkingInv) and    *)
(* that nobody else publishes meanwhile (HolderInv); that a reader's       *)
(* answer is whole needs its earlier round trip (ReaderInv).               *)
(*                                                                         *)
(* AnswerInvariant is inductive on top of it, and says what live reads and *)
(* publications tell of the retained jobs: all of them that can be         *)
(* hydrated, though jobs come and are trimmed in between.                  *)
(***************************************************************************)
EXTENDS RetainedJobIndex, TLAPS

-----------------------------------------------------------------------------
(* Records.                                                                *)

\* The record of a process that runs no call is a record.
LEMMA IdleIsRun == Idle \in Runs
  BY DEF Idle, Runs, Stages, Passes, Generations, LockedStages, ReadAttempts, ReconciliationAttempts

\* What the proofs need of it.
LEMMA IdleFields == Idle.stage = "idle" /\ Idle.fresh = FALSE
  BY DEF Idle

\* Moving to another stage.
LEMMA StagedRun ==
  ASSUME NEW r \in Runs, NEW s \in Stages
  PROVE  [r EXCEPT !.stage = s] \in Runs
  BY DEF Runs

\* The next attempt of a live read.
LEMMA LiveRun ==
  ASSUME NEW r \in Runs, NEW n \in 0 .. ReadAttempts - 1
  PROVE  [r EXCEPT !.live = TRUE, !.attempt = n] \in Runs
  BY DEF Runs

\* materializeSourceSnapshot keeps the record a record.
LEMMA MaterializedRun ==
  ASSUME NEW r \in Runs, source \in SUBSET Ids
  PROVE  Materialized(r) \in Runs /\ Materialized(r).stage = "inspect"
  BY DEF Runs, Materialized, Stages

\* So does the end of synchronizedSourceSnapshot, which leaves the locked stages.
LEMMA SynchronizedRun ==
  ASSUME NEW r \in Runs
  PROVE  Synchronized(r) \in Runs /\ Synchronized(r).stage \in {"revision", "ensure"}
<1>1. CASE r.live
  <2>1. [Idle EXCEPT !.stage = "revision", !.live = TRUE, !.snapshot = r.snapshot,
                     !.attempt = r.attempt] \in Runs
    <3>1. r.snapshot \in SUBSET Ids /\ r.attempt \in 0 .. ReadAttempts - 1 BY DEF Runs
    <3> HIDE DEF Idle
    <3> QED BY <3>1, IdleIsRun DEF Runs, Stages
  <2> QED BY <1>1, <2>1 DEF Synchronized, Idle
<1>2. CASE ~ r.live
  BY <1>2, StagedRun, IdleIsRun DEF Synchronized, Stages, Idle
<1> QED BY <1>1, <1>2 

\* A retry goes back to the inspection, or gives up.
LEMMA RetryRun ==
  ASSUME TypeOK, NEW p \in Processes, Retry(p)
  PROVE \E r \in Runs : Become(p, r) /\ r.stage \in {"idle", "inspect"}
<1>1. run[p] \in Runs /\ source \in SUBSET Ids BY DEF TypeOK
<1>2. CASE run[p].attempt + 1 < ReadAttempts
  <2>1. run[p].attempt + 1 \in 0 .. ReadAttempts - 1
    BY <1>1, <1>2 DEF Runs, ReadAttempts
  <2>2. [Idle EXCEPT !.live = TRUE, !.attempt = run[p].attempt + 1] \in Runs
    BY <2>1, LiveRun, IdleIsRun
  <2> QED BY <1>1, <1>2, <2>2, MaterializedRun DEF Retry
<1>3. CASE ~ (run[p].attempt + 1 < ReadAttempts)
  BY <1>3, IdleIsRun, IdleFields DEF Retry
<1> QED BY <1>2, <1>3

-----------------------------------------------------------------------------
(* What keeps the invariant.                                               *)

\* Become changes the record of one process.
LEMMA Becoming ==
  ASSUME TypeOK, NEW p \in Processes, NEW r \in Runs, Become(p, r)
  PROVE  /\ run' \in [Processes -> Runs]
         /\ run'[p] = r
         /\ \A q \in Processes \ {p} : run'[q] = run[q]
  BY DEF TypeOK, Become

\* The stages in which a lock holder works on a slot.
Writing == LockedStages \ {"prepare", "release", "giveup"}

\* The stages in which a published read relies on the state it read.
Answering == {"total", "page", "check"}

\* What the invariant asks of a record p takes on.
Suits(p, r) ==
  /\ r.stage \in LockedStages => lock' = p
  /\ r.stage \in Writing => r.working \in {"a", "b"} /\ r.working # published
  /\ r.fresh /\ r.stage \in Answering =>
       /\ r.working = published
       /\ published \in {"a", "b"} =>
           /\ r.stage \in {"page", "check"} => r.total = completed
           /\ r.stage = "check" => r.answer = completed

\* The types of everything but the records.
DataOK ==
  /\ source \subseteq Ids
  /\ ever \subseteq Ids
  /\ hashless \subseteq Ids
  /\ metadata \subseteq Ids
  /\ projection \in [Generations -> SUBSET Ids]
  /\ unresolved \in [Generations -> SUBSET Ids]
  /\ initialized \in [Generations -> BOOLEAN]
  /\ damaged \in [Generations -> BOOLEAN]
  /\ published \in Generations \cup {"none"}
  /\ lock \in Processes \cup {NoOne}
  /\ completed \subseteq Ids
  /\ mishaps \in Nat
  /\ lapses \in Nat

\* A step that publishes nothing keeps the invariant if its new record suits the
\* state, it takes at most a free lock, gives up at most its own, and changes no
\* projection but that of the slot it works on.
LEMMA LocalStep ==
  ASSUME IndexInvariant, NEW p \in Processes, NEW r \in Runs, Become(p, r),
         DataOK', UNCHANGED <<published, completed, lapses>>,
         lapses = 0 => Suits(p, r),
         lock' \in {lock, p, NoOne},
         lock' # lock => lock \in {NoOne, p},
         \A g \in Generations :
            \/ projection'[g] = projection[g]
            \/ run[p].stage \in Writing /\ g = run[p].working
  PROVE  IndexInvariant'
<1>0. TypeOK
  BY DEF IndexInvariant
<1>1. /\ run' \in [Processes -> Runs]
      /\ run'[p] = r
      /\ \A q \in Processes \ {p} : run'[q] = run[q]
  BY <1>0, Becoming
<1>2. PublishedIsStable'
  BY <1>0 DEF IndexInvariant, PublishedIsStable, WorkingInv, Generations, Writing
<1>3. ASSUME lapses = 0 PROVE HolderInv(p)' /\ WorkingInv(p)' /\ ReaderInv(p)'
  BY <1>1, <1>3 DEF Suits, HolderInv, WorkingInv, ReaderInv, Writing, Answering
<1>4. ASSUME lapses = 0, NEW q \in Processes \ {p}
      PROVE  HolderInv(q)' /\ WorkingInv(q)' /\ ReaderInv(q)'
  <2>1. HolderInv(q) /\ WorkingInv(q) /\ ReaderInv(q) /\ run'[q] = run[q]
    BY <1>1, <1>4 DEF IndexInvariant
  <2> QED BY <2>1, IndexAssumption DEF HolderInv, WorkingInv, ReaderInv
<1>5. TypeOK'
  BY <1>1 DEF DataOK, TypeOK
<1> QED BY <1>2, <1>3, <1>4, <1>5 DEF IndexInvariant

\* A step that changes nothing but its record.
LEMMA QuietStep ==
  ASSUME IndexInvariant, NEW p \in Processes, NEW r \in Runs, Become(p, r),
         lapses = 0 => Suits(p, r),
         UNCHANGED <<sourceVars, indexVars, published, lock, completed, boundVars>>
  PROVE  IndexInvariant'
<1>1. DataOK'
  BY DEF IndexInvariant, TypeOK, DataOK, sourceVars, indexVars, boundVars
<1> QED BY <1>1, LocalStep DEF indexVars, boundVars

\* Any record outside the locked and the answering stages suits every state.
LEMMA OutsideSuits ==
  ASSUME NEW p \in Processes, NEW r \in Runs, r.stage \notin LockedStages \cup Answering
  PROVE  Suits(p, r)
  BY DEF Suits, Writing, Answering

\* So does that of a lock holder which stays on its slot.
LEMMA WritingSuits ==
  ASSUME IndexInvariant, lapses = 0, NEW p \in Processes, NEW r \in Runs,
         lock = p, lock' = lock, published' = published,
         run[p].stage \in Writing, r.working = run[p].working,
         r.stage \in LockedStages
  PROVE  Suits(p, r)
  BY DEF IndexInvariant, WorkingInv, Suits, Writing, Answering, LockedStages

-----------------------------------------------------------------------------
(* The steps.                                                              *)

\* Inspection, up to taking the lock.
LEMMA InspectionStep ==
  ASSUME IndexInvariant, NEW p \in Processes, Inspection(p)
  PROVE  IndexInvariant'
<1>0. TypeOK /\ run[p] \in Runs /\ source \in SUBSET Ids
  BY DEF IndexInvariant, TypeOK
<1>1. CASE Warm(p)
  <2> DEFINE r == [run[p] EXCEPT !.snapshot = source, !.pass = "growing", !.stage = "acquire"]
  <2>1. r \in Runs /\ r.stage = "acquire"
    BY <1>0 DEF Runs, Passes, Stages
  <2>2. Suits(p, r)
    BY <2>1, OutsideSuits DEF LockedStages, Answering
  <2> HIDE DEF r
  <2>3. Become(p, r)
    BY <1>1 DEF Warm, r
  <2> QED BY <1>1, <2>1, <2>2, <2>3, QuietStep DEF Warm
<1>2. CASE Synchronize(p)
  <2>1. Materialized(run[p]) \in Runs /\ Materialized(run[p]).stage = "inspect"
    BY <1>0, MaterializedRun
  <2>2. Suits(p, Materialized(run[p]))
    BY <2>1, OutsideSuits DEF LockedStages, Answering
  <2> QED BY <1>2, <2>1, <2>2, QuietStep DEF Synchronize
<1>3. CASE ReadLive(p)
  <2> DEFINE r == Materialized([run[p] EXCEPT !.live = TRUE])
  <2>1. [run[p] EXCEPT !.live = TRUE] \in Runs
    BY <1>0 DEF Runs
  <2>2. r \in Runs /\ r.stage = "inspect"
    BY <1>0, <2>1, MaterializedRun
  <2> HIDE DEF r
  <2>3. Suits(p, r)
    BY <2>2, OutsideSuits DEF LockedStages, Answering
  <2>4. Become(p, r)
    BY <1>3 DEF ReadLive, r
  <2> QED BY <1>3, <2>2, <2>3, <2>4, QuietStep DEF ReadLive
<1>a. ASSUME Inconsistent(p)
      PROVE  \E r \in Runs : Become(p, r) /\ r.stage \in {"idle", "acquire"}
  <2> DEFINE pass == IF run[p].pass = "inspect" THEN "growing" ELSE "only"
             r == [run[p] EXCEPT !.pass = pass, !.stage = "acquire"]
  <2>1. r \in Runs /\ r.stage = "acquire"
    BY <1>0 DEF Runs, Passes, Stages
  <2>2. Become(p, r) \/ Become(p, Idle)
    BY <1>a, <1>0 DEF Inconsistent, Runs
  <2> QED BY <2>1, <2>2, IdleIsRun, IdleFields
<1>b. ASSUME NEW r \in Runs, Become(p, r),
             r.stage \in {"idle", "acquire", "count", "refresh", "inspect", "revision", "ensure"},
             UNCHANGED <<sourceVars, indexVars, published, lock, completed, boundVars>>
      PROVE  IndexInvariant'
  <2>1. Suits(p, r)
    BY <1>b, OutsideSuits DEF LockedStages, Answering
  <2> QED BY <1>b, <2>1, QuietStep
<1>4. CASE InspectCoverage(p)
  <2>1. [run[p] EXCEPT !.stage = "count"] \in Runs /\ [run[p] EXCEPT !.stage = "count"].stage = "count"
    BY <1>0 DEF Runs, Stages
  <2>2. \E r \in Runs : Become(p, r) /\ r.stage \in {"idle", "acquire", "count"}
    BY <1>4, <1>a, <2>1 DEF InspectCoverage, Goto
  <2> QED BY <1>4, <1>b, <2>2 DEF InspectCoverage
<1>5. CASE InspectCounts(p)
  <2>1. [run[p] EXCEPT !.stage = "refresh"] \in Runs /\ [run[p] EXCEPT !.stage = "refresh"].stage = "refresh"
    BY <1>0 DEF Runs, Stages
  <2>2. Synchronized(run[p]) \in Runs /\ Synchronized(run[p]).stage \in {"revision", "ensure"}
    BY <1>0, SynchronizedRun
  <2>3. \E r \in Runs : Become(p, r) /\ r.stage \in {"idle", "acquire", "refresh", "revision", "ensure"}
    BY <1>5, <1>a, <2>1, <2>2 DEF InspectCounts
  <2> QED BY <1>5, <1>b, <2>3 DEF InspectCounts
<1>6. CASE Refresh(p)
  <2> DEFINE r == [run[p] EXCEPT !.snapshot = source, !.pass = "again", !.stage = "inspect"]
  <2>1. r \in Runs /\ r.stage = "inspect"
    BY <1>0 DEF Runs, Passes, Stages
  <2> QED BY <1>6, <1>b, <2>1 DEF Refresh
<1>7. CASE Acquire(p)
  <2>1. CASE lock = NoOne
    <3> DEFINE r == [run[p] EXCEPT !.stage = "prepare"]
    <3>1. r \in Runs /\ r.stage = "prepare"
      BY <1>0 DEF Runs, Stages, LockedStages
    <3>2. lock' = p /\ Become(p, r)
      BY <1>7, <2>1 DEF Acquire, Goto
    <3> HIDE DEF r
    <3>3. Suits(p, r)
      BY <3>1, <3>2 DEF Suits, Writing, Answering
    <3>4. DataOK'
      BY <1>0, <1>7, <3>2 DEF Acquire, TypeOK, DataOK, sourceVars, indexVars, boundVars
    <3> QED BY <1>7, <2>1, <3>1, <3>2, <3>3, <3>4, LocalStep DEF Acquire, indexVars, boundVars
  <2>2. CASE lock # NoOne
    <3> DEFINE r == [run[p] EXCEPT !.pass = "busy", !.stage = "inspect"]
    <3>1. r \in Runs /\ r.stage = "inspect"
      BY <1>0 DEF Runs, Passes, Stages
    <3>2. lock' = lock /\ (Become(p, r) \/ Become(p, Idle))
      BY <1>7, <2>2 DEF Acquire, Leave
    <3> QED BY <1>7, <1>b, <3>1, <3>2, IdleIsRun, IdleFields DEF Acquire
  <2> QED BY <2>1, <2>2
<1> QED BY <1>1, <1>2, <1>3, <1>4, <1>5, <1>6, <1>7 DEF Inspection

\* A step of a lock holder on its slot, with or without a heartbeat.
LEMMA WritingStep ==
  ASSUME IndexInvariant, NEW p \in Processes, run[p].stage \in Writing,
         NEW r \in Runs, r.working = run[p].working, r.stage \in LockedStages,
         Beat(p, r) \/ Become(p, r),
         DataOK', UNCHANGED <<published, lock, completed, lapses>>,
         \A g \in Generations \ {run[p].working} : projection'[g] = projection[g]
  PROVE  IndexInvariant'
<1>1. CASE Become(p, r)
  <2>1. lapses = 0 => lock = p
    BY DEF IndexInvariant, HolderInv, Writing
  <2>2. lapses = 0 => Suits(p, r)
    BY <2>1, WritingSuits
  <2> QED BY <1>1, <2>2, LocalStep
<1>2. CASE Beat(p, r)
  <2>1. CASE lock = p
    <3>1. lapses = 0 => Suits(p, r)
      BY <2>1, WritingSuits
    <3> QED BY <1>2, <2>1, <3>1, LocalStep DEF Beat
  <2>2. CASE lock # p
    <3>1. Suits(p, Idle)
      BY IdleIsRun, IdleFields, OutsideSuits DEF LockedStages, Answering
    <3> QED BY <1>2, <2>2, <3>1, IdleIsRun, LocalStep DEF Beat
  <2> QED BY <2>1, <2>2
<1> QED BY <1>1, <1>2

\* Preparing the slot: it is never the published one.
LEMMA WorkingStep ==
  ASSUME IndexInvariant, NEW p \in Processes,
         Prepare(p) \/ Wipe(p) \/ Initialize(p) \/ Diff(p)
  PROVE  IndexInvariant'
<1>0. TypeOK /\ run[p] \in Runs /\ run[p].working \in Generations /\ run[p].base \in Generations
  BY DEF IndexInvariant, TypeOK, Runs
<1>1. CASE Prepare(p)
  <2> DEFINE g == IF Current = "a" THEN "b" ELSE "a"
             s == IF initialized[g] THEN "diff" ELSE "wipe"
             r == [run[p] EXCEPT !.base = Current, !.working = g, !.stage = s]
  <2>1. /\ g \in {"a", "b"} /\ g # published
        /\ s \in {"diff", "wipe"} /\ Current \in Generations
    BY <1>0 DEF Current, Generations, TypeOK
  <2> HIDE DEF g, s
  <2>2. r \in Runs /\ r.stage = s /\ r.working = g
    <3>1. s \in Stages /\ g \in Generations
      BY <2>1 DEF Stages, LockedStages, Generations
    <3> QED BY <1>0, <2>1, <3>1 DEF Runs
  <2>3. Become(p, r)
    BY <1>1 DEF Prepare, g, s
  <2>4. lapses = 0 => lock = p
    BY <1>1 DEF Prepare, IndexInvariant, HolderInv, LockedStages
  <2> HIDE DEF r
  <2>5. lapses = 0 => Suits(p, r)
    BY <1>1, <2>1, <2>2, <2>4 DEF Suits, Prepare, Answering
  <2> QED BY <1>1, <2>2, <2>3, <2>5, QuietStep DEF Prepare
<1>2. CASE Wipe(p)
  <2> DEFINE r == [run[p] EXCEPT !.stage = "initialize"]
  <2>1. r \in Runs /\ r.stage = "initialize" /\ r.working = run[p].working
    BY <1>0 DEF Runs, Stages, LockedStages
  <2>2. DataOK'
    BY <1>0, <1>2 DEF Wipe, TypeOK, DataOK, sourceVars, boundVars
  <2> QED BY <1>0, <1>2, <2>1, <2>2, WritingStep DEF Wipe, Writing, LockedStages, TypeOK, boundVars
<1>3. CASE Initialize(p)
  <2> DEFINE r == [run[p] EXCEPT !.base = "legacy", !.stage = "diff"]
  <2>1. r \in Runs /\ r.stage = "diff" /\ r.working = run[p].working
    BY <1>0 DEF Runs, Stages, LockedStages, Generations
  <2>2. DataOK'
    BY <1>0, <1>3 DEF Initialize, TypeOK, DataOK, sourceVars, boundVars
  <2> QED BY <1>0, <1>3, <2>1, <2>2, WritingStep DEF Initialize, Writing, LockedStages, TypeOK, boundVars
<1>4. CASE Diff(p)
  <2> DEFINE missing == Gap(run[p].snapshot, run[p].working)
             surplus == Cardinality(projection[run[p].working])
                          + Cardinality(unresolved[run[p].working])
                          + Cardinality(missing) > Cardinality(run[p].snapshot)
             references == unresolved[run[p].working] # {}
             r == [run[p] EXCEPT !.todo = missing, !.surplus = surplus,
                                 !.references = references, !.stage = "hydrate"]
  <2>1. missing \in SUBSET Ids
    BY <1>0 DEF Gap, Runs
  <2>2. surplus \in BOOLEAN
    OBVIOUS
  <2>3. references \in BOOLEAN
    OBVIOUS
  <2>4. Beat(p, r)
    BY <1>4 DEF Diff
  <2> HIDE DEF missing, surplus, references
  <2>5. r \in Runs /\ r.stage = "hydrate" /\ r.working = run[p].working
    BY <1>0, <2>1, <2>2, <2>3 DEF Runs, Stages, LockedStages
  <2> HIDE DEF r
  <2>6. DataOK'
    BY <1>0, <1>4 DEF Diff, TypeOK, DataOK, sourceVars, indexVars, boundVars
  <2> QED BY <1>4, <2>4, <2>5, <2>6, WritingStep DEF Diff, Writing, LockedStages, indexVars, boundVars
<1> QED BY <1>1, <1>2, <1>3, <1>4

\* Adding what is missing.
LEMMA AdditionStep ==
  ASSUME IndexInvariant, NEW p \in Processes,
         Hydrate(p) \/ Write(p) \/ Added(p) \/ Rebuild(p)
  PROVE  IndexInvariant'
<1>0. /\ TypeOK /\ run[p] \in Runs /\ run[p].working \in Generations
      /\ run[p].todo \in SUBSET Ids /\ run[p].found \in SUBSET Ids /\ run[p].snapshot \in SUBSET Ids
  BY DEF IndexInvariant, TypeOK, Runs
<1>1. CASE Hydrate(p)
  <2> DEFINE found == Chunk(run[p].todo) \ (hashless \ metadata)
             r == [run[p] EXCEPT !.found = found, !.stage = "write"]
  <2>1. found \in SUBSET Ids
    BY <1>0 DEF Chunk
  <2>2. Beat(p, r)
    BY <1>1 DEF Hydrate
  <2>3. DataOK'
    <3>1. PICK old \in SUBSET (Chunk(run[p].todo) \cap (hashless \ metadata)) :
             unresolved' = [unresolved EXCEPT ![run[p].working] = @ \cup old]
      BY <1>1 DEF Hydrate
    <3>2. old \in SUBSET Ids
      BY <1>0, <3>1 DEF Chunk
    <3> QED BY <1>0, <1>1, <3>1, <3>2 DEF Hydrate, TypeOK, DataOK, sourceVars, boundVars
  <2> HIDE DEF found
  <2>4. r \in Runs /\ r.stage = "write" /\ r.working = run[p].working
    BY <1>0, <2>1 DEF Runs, Stages, LockedStages
  <2> HIDE DEF r
  <2> QED BY <1>1, <2>2, <2>3, <2>4, WritingStep DEF Hydrate, Writing, LockedStages, boundVars
<1>2. CASE Write(p)
  <2> DEFINE todo == run[p].todo \ Chunk(run[p].todo)
             r == [run[p] EXCEPT !.todo = todo, !.found = {}, !.stage = "hydrate"]
  <2>1. todo \in SUBSET Ids
    BY <1>0
  <2>2. Beat(p, r)
    BY <1>0, <1>2 DEF Write, Runs
  <2>3. DataOK'
    BY <1>0, <1>2 DEF Write, TypeOK, DataOK, sourceVars, boundVars
  <2> HIDE DEF todo
  <2>4. r \in Runs /\ r.stage = "hydrate" /\ r.working = run[p].working
    BY <1>0, <2>1 DEF Runs, Stages, LockedStages
  <2> HIDE DEF r
  <2> QED BY <1>0, <1>2, <2>2, <2>3, <2>4, WritingStep DEF Write, Writing, LockedStages, TypeOK, boundVars
<1>3. CASE Added(p)
  <2> DEFINE stale == projection[run[p].working] \ run[p].snapshot
             r == [run[p] EXCEPT !.todo = stale, !.stage = "remove"]
  <2>1. stale \in SUBSET Ids
    BY <1>0 DEF TypeOK
  <2>2. Become(p, r) \/ Beat(p, Reconciled(run[p]))
    BY <1>3 DEF Added
  <2>3. DataOK'
    BY <1>0, <1>3 DEF Added, TypeOK, DataOK, sourceVars, indexVars, boundVars
  <2> HIDE DEF stale
  <2>4. r \in Runs /\ r.stage = "remove" /\ r.working = run[p].working
    BY <1>0, <2>1 DEF Runs, Stages, LockedStages
  <2>5. /\ Reconciled(run[p]) \in Runs /\ Reconciled(run[p]).stage = "verify"
        /\ Reconciled(run[p]).working = run[p].working
    BY <1>0 DEF Reconciled, Runs, Stages, LockedStages
  <2> HIDE DEF r
  <2> QED BY <1>3, <2>2, <2>3, <2>4, <2>5, WritingStep DEF Added, Writing, LockedStages, indexVars, boundVars
<1>4. CASE Rebuild(p)
  <2> DEFINE r == [run[p] EXCEPT !.todo = run[p].snapshot, !.stage = "hydrate"]
  <2>1. r \in Runs /\ r.stage = "hydrate" /\ r.working = run[p].working
    BY <1>0 DEF Runs, Stages, LockedStages
  <2>2. DataOK'
    BY <1>0, <1>4 DEF Rebuild, TypeOK, DataOK, sourceVars, boundVars
  <2>3. Beat(p, r)
    BY <1>4 DEF Rebuild
  <2> HIDE DEF r
  <2> QED BY <1>0, <1>4, <2>1, <2>2, <2>3, WritingStep DEF Rebuild, Writing, LockedStages, TypeOK, boundVars
<1> QED BY <1>1, <1>2, <1>3, <1>4

\* Removing what is stale.
LEMMA RemovalStep ==
  ASSUME IndexInvariant, NEW p \in Processes,
         Remove(p) \/ PruneCatalogs(p) \/ Removed(p) \/ DropReferences(p)
  PROVE  IndexInvariant'
<1>0. /\ TypeOK /\ run[p] \in Runs /\ run[p].working \in Generations
      /\ run[p].todo \in SUBSET Ids
  BY DEF IndexInvariant, TypeOK, Runs
<1>a. ASSUME NEW r \in Runs
      PROVE  Reconciled(r) \in Runs /\ Reconciled(r).stage = "verify" /\ Reconciled(r).working = r.working
  BY DEF Reconciled, Runs, Stages, LockedStages
<1>1. CASE Remove(p)
  <2> DEFINE r == [run[p] EXCEPT !.stage = "catalog"]
  <2>1. r \in Runs /\ r.stage = "catalog" /\ r.working = run[p].working
    BY <1>0 DEF Runs, Stages, LockedStages
  <2>2. DataOK'
    BY <1>0, <1>1 DEF Remove, TypeOK, DataOK, sourceVars, boundVars
  <2>3. Become(p, r)
    BY <1>1 DEF Remove, Goto
  <2> HIDE DEF r
  <2> QED BY <1>0, <1>1, <2>1, <2>2, <2>3, WritingStep DEF Remove, Writing, LockedStages, TypeOK, boundVars
<1>2. CASE PruneCatalogs(p)
  <2> DEFINE todo == run[p].todo \ Chunk(run[p].todo)
             r == [run[p] EXCEPT !.todo = todo, !.stage = "remove"]
  <2>1. todo \in SUBSET Ids
    BY <1>0
  <2>2. Beat(p, r)
    BY <1>0, <1>2 DEF PruneCatalogs, Runs
  <2>3. DataOK'
    BY <1>0, <1>2 DEF PruneCatalogs, TypeOK, DataOK, sourceVars, boundVars
  <2> HIDE DEF todo
  <2>4. r \in Runs /\ r.stage = "remove" /\ r.working = run[p].working
    BY <1>0, <2>1 DEF Runs, Stages, LockedStages
  <2> HIDE DEF r
  <2> QED BY <1>2, <2>2, <2>3, <2>4, WritingStep DEF PruneCatalogs, Writing, LockedStages, boundVars
<1>3. CASE Removed(p)
  <2> DEFINE gone == unresolved[run[p].working] \ run[p].snapshot
             r == [run[p] EXCEPT !.todo = gone, !.stage = "drop"]
  <2>1. gone \in SUBSET Ids
    BY <1>0 DEF TypeOK
  <2>2. Become(p, r) \/ Beat(p, Reconciled(run[p]))
    BY <1>3 DEF Removed
  <2>3. DataOK'
    BY <1>0, <1>3 DEF Removed, TypeOK, DataOK, sourceVars, indexVars, boundVars
  <2> HIDE DEF gone
  <2>4. r \in Runs /\ r.stage = "drop" /\ r.working = run[p].working
    BY <1>0, <2>1 DEF Runs, Stages, LockedStages
  <2> HIDE DEF r
  <2> QED BY <1>0, <1>a, <1>3, <2>2, <2>3, <2>4, WritingStep DEF Removed, Writing, LockedStages, indexVars, boundVars
<1>4. CASE DropReferences(p)
  <2> DEFINE todo == run[p].todo \ Chunk(run[p].todo)
             r == [run[p] EXCEPT !.todo = todo]
             e == [run[p] EXCEPT !.todo = {}]
  <2>1. todo \in SUBSET Ids
    BY <1>0
  <2>2. Beat(p, Reconciled(e)) \/ Beat(p, r)
    BY <1>0, <1>4 DEF DropReferences, Runs
  <2>3. DataOK'
    BY <1>0, <1>4 DEF DropReferences, TypeOK, DataOK, sourceVars, boundVars
  <2> HIDE DEF todo
  <2>4. r \in Runs /\ r.stage = run[p].stage /\ r.working = run[p].working
    BY <1>0, <2>1 DEF Runs
  <2>5. e \in Runs /\ e.working = run[p].working
    BY <1>0 DEF Runs
  <2> HIDE DEF r, e
  <2>6. /\ Reconciled(e) \in Runs /\ Reconciled(e).stage = "verify" 
        /\ Reconciled(e).working = run[p].working
    BY <2>5, <1>a
  <2> QED BY <1>4, <2>2, <2>3, <2>4, <2>6, WritingStep DEF DropReferences, Writing, LockedStages, boundVars
<1> QED BY <1>1, <1>2, <1>3, <1>4

\* Verifying, and refreshing the snapshot under the lock.
LEMMA VerificationStep ==
  ASSUME IndexInvariant, NEW p \in Processes, Verify(p) \/ RefreshUnderLock(p)
  PROVE  IndexInvariant'
<1>0. TypeOK /\ run[p] \in Runs /\ source \in SUBSET Ids /\ run[p].round \in 0 .. ReconciliationAttempts
  BY DEF IndexInvariant, TypeOK, Runs
<1>1. CASE Verify(p)
  <2>1. DataOK' /\ projection' = projection /\ UNCHANGED <<published, lock, completed, lapses>>
    BY <1>0, <1>1 DEF Verify, VerifyThen, TypeOK, DataOK, sourceVars, indexVars, boundVars
  <2>2. \E r \in Runs : Beat(p, r) /\ r.working = run[p].working /\ r.stage \in LockedStages
    <3>1. ASSUME NEW s \in LockedStages
          PROVE  LET r == [run[p] EXCEPT !.stage = s]
                 IN  r \in Runs /\ r.working = run[p].working /\ r.stage \in LockedStages
      BY <1>0 DEF Runs, Stages
    <3>2. ASSUME run[p].round < ReconciliationAttempts
          PROVE  LET r == [run[p] EXCEPT !.round = run[p].round + 1, !.stage = "diff"]
                 IN  r \in Runs /\ r.working = run[p].working /\ r.stage \in LockedStages
      <4>1. run[p].round + 1 \in 0 .. ReconciliationAttempts
        BY <1>0, <3>2 DEF ReconciliationAttempts
      <4> QED BY <1>0, <4>1 DEF Runs, Stages, LockedStages
    <3>3. \/ \E s \in LockedStages : Beat(p, [run[p] EXCEPT !.stage = s])
          \/ /\ run[p].round < ReconciliationAttempts
             /\ Beat(p, [run[p] EXCEPT !.round = run[p].round + 1, !.stage = "diff"])
      <4>1. {"growth", "publish", "giveup"} \subseteq LockedStages
        BY DEF LockedStages
      <4> DEFINE growing == run[p].pass = "growing"
      <4>2. \/ Beat(p, [run[p] EXCEPT !.stage = IF growing THEN "growth" ELSE "publish"])
            \/ Beat(p, IF run[p].round < ReconciliationAttempts
                       THEN [run[p] EXCEPT !.round = run[p].round + 1, !.stage = "diff"]
                       ELSE [run[p] EXCEPT !.stage = IF growing THEN "growth" ELSE "giveup"])
        BY <1>1, Zenon DEF Verify, VerifyThen
      <4> HIDE DEF growing
      <4>3. CASE growing
        BY <4>1, <4>2, <4>3
      <4>4. CASE ~ growing
        BY <4>1, <4>2, <4>4
      <4> QED BY <4>3, <4>4
    <3>4. CASE \E s \in LockedStages : Beat(p, [run[p] EXCEPT !.stage = s])
      BY <3>1, <3>4
    <3>5. CASE /\ run[p].round < ReconciliationAttempts
               /\ Beat(p, [run[p] EXCEPT !.round = run[p].round + 1, !.stage = "diff"])
      BY <3>2, <3>5
    <3> QED BY <3>3, <3>4, <3>5
  <2>3. run[p].stage \in Writing
    BY <1>1 DEF Verify, VerifyThen, Writing, LockedStages
  <2> QED BY <2>1, <2>2, <2>3, WritingStep
<1>2. CASE RefreshUnderLock(p)
  <2> DEFINE r == [run[p] EXCEPT !.snapshot = source, !.pass = "final", !.round = 0, !.stage = "diff"]
  <2>1. r \in Runs /\ r.stage = "diff" /\ r.working = run[p].working
    <3>1. 0 \in 0 .. ReconciliationAttempts /\ "diff" \in Stages /\ "final" \in Passes
      BY DEF ReconciliationAttempts, Stages, LockedStages, Passes
    <3> QED BY <1>0, <3>1 DEF Runs
  <2>2. DataOK'
    BY <1>0, <1>2 DEF RefreshUnderLock, TypeOK, DataOK, sourceVars, indexVars, boundVars
  <2>3. Beat(p, r)
    BY <1>2 DEF RefreshUnderLock
  <2> HIDE DEF r
  <2> QED BY <1>2, <2>1, <2>2, <2>3, WritingStep
          DEF RefreshUnderLock, Writing, LockedStages, indexVars, boundVars
<1> QED BY <1>1, <1>2

\* Publishing: nobody else is in a locked stage, and every state read before is
\* out of date.
LEMMA PublicationStep ==
  ASSUME IndexInvariant, NEW p \in Processes, Publish(p) \/ PublishLegacy(p)
  PROVE  IndexInvariant'
<1>0. /\ TypeOK /\ run[p] \in Runs /\ run[p].working \in Generations /\ Current \in Generations
      /\ run \in [Processes -> Runs]
  BY DEF IndexInvariant, TypeOK, Runs, Current, Generations
<1>a. ASSUME NEW q \in Processes
      PROVE  /\ [run[q] EXCEPT !.fresh = FALSE] \in Runs
             /\ [run[q] EXCEPT !.fresh = FALSE].stage = run[q].stage
             /\ [run[q] EXCEPT !.fresh = FALSE].working = run[q].working
             /\ [run[q] EXCEPT !.fresh = FALSE].fresh = FALSE
  BY <1>0 DEF Runs
<1>b. ASSUME NEW g, NEW r \in Runs, PublishState(p, g, r)
      PROVE  /\ published' = g
             /\ run' \in [Processes -> Runs]
             /\ run'[p] = r
             /\ \A q \in Processes \ {p} : /\ run'[q].stage = run[q].stage
                                           /\ run'[q].working = run[q].working
                                           /\ run'[q].fresh = FALSE
  <2> DEFINE s(q) == IF q = p THEN r ELSE [run[q] EXCEPT !.fresh = FALSE]
  <2>1. run' = [q \in Processes |-> s(q)] /\ published' = g
    BY <1>b DEF PublishState
  <2>2. \A q \in Processes : s(q) \in Runs
    BY <1>a, <1>b
  <2>3. s(p) = r /\ \A q \in Processes \ {p} : s(q) = [run[q] EXCEPT !.fresh = FALSE]
    OBVIOUS
  <2> HIDE DEF s
  <2>4. run' \in [Processes -> Runs] /\ \A q \in Processes : run'[q] = s(q)
    BY <2>1, <2>2
  <2> QED BY <1>a, <2>1, <2>3, <2>4
<1>1. CASE Publish(p)
  <2> DEFINE r == [run[p] EXCEPT !.stage = "release"]
  <2>1. r \in Runs /\ r.stage = "release"
    BY <1>0 DEF Runs, Stages, LockedStages
  <2>2. PublishState(p, run[p].working, r)
    BY <1>1 DEF Publish
  <2> HIDE DEF r
  <2>3. TypeOK'
    <3>1. metadata' \subseteq Ids /\ completed' \subseteq Ids /\ published' \in Generations
      BY <1>0, <1>1, <1>b, <2>1, <2>2 DEF Publish, TypeOK
    <3> QED BY <1>0, <1>1, <1>b, <2>1, <2>2, <3>1 DEF Publish, TypeOK, sourceVars, boundVars
  <2>4. PublishedIsStable'
    BY <1>1, <1>b, <2>1, <2>2 DEF Publish, PublishedIsStable
  <2>5. ASSUME lapses' = 0, NEW q \in Processes
        PROVE  HolderInv(q)' /\ WorkingInv(q)' /\ ReaderInv(q)'
    <3>1. lock = p /\ lock' = p /\ HolderInv(q)
      BY <1>1, <2>5 DEF Publish, IndexInvariant, HolderInv, LockedStages, boundVars
    <3>2. CASE q = p
      BY <1>b, <2>1, <2>2, <3>1, <3>2 DEF HolderInv, WorkingInv, ReaderInv
    <3>3. CASE q # p
      BY <1>b, <2>1, <2>2, <3>1, <3>3 DEF HolderInv, WorkingInv, ReaderInv
    <3> QED BY <3>2, <3>3
  <2> QED BY <2>3, <2>4, <2>5 DEF IndexInvariant
<1>2. CASE PublishLegacy(p)
  <2>1. PublishState(p, "legacy", Idle) /\ Idle \in Runs
    BY <1>2, IdleIsRun DEF PublishLegacy
  <2>2. TypeOK'
    <3>1. completed' \subseteq Ids /\ published' \in Generations
      BY <1>0, <1>2, <1>b, <2>1 DEF PublishLegacy, TypeOK, Generations
    <3> QED BY <1>0, <1>2, <1>b, <2>1, <3>1 DEF PublishLegacy, TypeOK, sourceVars, indexVars, boundVars
  <2>3. PublishedIsStable'
    <3>1. published' = "legacy"
      BY <2>1 DEF PublishState
    <3> QED BY <3>1 DEF PublishedIsStable
  <2>4. ASSUME lapses' = 0, NEW q \in Processes
        PROVE  HolderInv(q)' /\ WorkingInv(q)' /\ ReaderInv(q)'
    <3>1. HolderInv(q) /\ WorkingInv(q) /\ lock' = lock /\ published' = "legacy"
      BY <1>2, <1>b, <2>1, <2>4 DEF PublishLegacy, IndexInvariant, boundVars
    <3>2. CASE q = p
      BY <1>b, <2>1, <3>1, <3>2, IdleFields DEF HolderInv, WorkingInv, ReaderInv, LockedStages
    <3>3. CASE q # p
      BY <1>b, <2>1, <3>1, <3>3 DEF HolderInv, WorkingInv, ReaderInv
    <3> QED BY <3>2, <3>3
  <2> QED BY <2>2, <2>3, <2>4 DEF IndexInvariant
<1> QED BY <1>1, <1>2

\* Releasing the lock, ensuring a revision, and dying.
LEMMA EndingStep ==
  ASSUME IndexInvariant, NEW p \in Processes, Release(p) \/ EnsureRevision(p) \/ Abort(p)
  PROVE  IndexInvariant'
<1>0. TypeOK /\ run[p] \in Runs
  BY DEF IndexInvariant, TypeOK
<1>1. CASE Release(p)
  <2>1. PICK r \in Runs : Become(p, r) /\ r.stage \in {"idle", "revision", "ensure"}
    BY <1>0, <1>1, IdleIsRun, IdleFields, SynchronizedRun DEF Release, Leave
  <2>2. Suits(p, r)
    BY <2>1, OutsideSuits DEF LockedStages, Answering
  <2>3. lock' \in {lock, NoOne} /\ (lock' # lock => lock = p) /\ mishaps' \in Nat
    BY <1>0, <1>1 DEF Release, TypeOK, boundVars
  <2>4. DataOK'
    BY <1>0, <1>1, <2>3 DEF Release, TypeOK, DataOK, sourceVars, indexVars
  <2> QED BY <1>1, <2>1, <2>2, <2>3, <2>4, LocalStep DEF Release, indexVars
<1>2. CASE EnsureRevision(p)
  <2>1. [run[p] EXCEPT !.stage = "legacy"] \in Runs /\ [run[p] EXCEPT !.stage = "legacy"].stage = "legacy"
    BY <1>0 DEF Runs, Stages
  <2>2. PICK r \in Runs : Become(p, r) /\ r.stage \in {"idle", "legacy"}
    BY <1>2, <2>1, IdleIsRun, IdleFields DEF EnsureRevision, Goto, Leave
  <2>3. Suits(p, r)
    BY <2>2, OutsideSuits DEF LockedStages, Answering
  <2> QED BY <1>2, <2>2, <2>3, QuietStep DEF EnsureRevision
<1>3. CASE Abort(p)
  <2>1. Become(p, Idle) /\ Suits(p, Idle)
    BY <1>3, IdleIsRun, IdleFields, OutsideSuits DEF Abort, Leave, LockedStages, Answering
  <2>2. lock' \in {lock, NoOne} /\ (lock' # lock => lock = p)
    BY <1>3 DEF Abort
  <2>3. damaged' \in [Generations -> BOOLEAN]
    BY <1>0, <1>3 DEF Abort, TypeOK
  <2>4. DataOK'
    BY <1>0, <1>3, <2>2, <2>3 DEF Abort, TypeOK, DataOK, sourceVars
  <2> QED BY <1>3, <2>1, <2>2, <2>4, IdleIsRun, LocalStep DEF Abort
<1> QED BY <1>1, <1>2, <1>3

\* Live reads never answer from the published state alone.
LEMMA LiveReadingStep ==
  ASSUME IndexInvariant, NEW p \in Processes,
         \/ ReadRevision(p) \/ CheckActive(p) \/ ProveCoverage(p)
         \/ Query(p) \/ RecheckActive(p) \/ RecheckRevision(p)
  PROVE  IndexInvariant'
<1>0. /\ TypeOK /\ run[p] \in Runs /\ run[p].snapshot \in SUBSET Ids /\ run[p].answer \in SUBSET Ids
  BY DEF IndexInvariant, TypeOK, Runs
<1> DEFINE Quiet == {"idle", "inspect", "active", "prove", "query", "recheck", "confirm"}
<1>a. ASSUME NEW r \in Runs, Become(p, r), r.stage \in Quiet,
             UNCHANGED <<sourceVars, indexVars, published, lock, completed, boundVars>>
      PROVE  IndexInvariant'
  <2>1. Suits(p, r)
    BY <1>a, OutsideSuits DEF LockedStages, Answering
  <2> QED BY <1>a, <2>1, QuietStep
<1>b. ASSUME NEW s \in Quiet \ {"idle"}
      PROVE  [run[p] EXCEPT !.stage = s] \in Runs /\ [run[p] EXCEPT !.stage = s].stage = s
  BY <1>0 DEF Runs, Stages
<1>1. CASE ReadRevision(p)
  <2> DEFINE r == [run[p] EXCEPT !.fresh = TRUE, !.stage = "active"]
  <2>1. r \in Runs /\ r.stage = "active"
    BY <1>0 DEF Runs, Stages
  <2> QED BY <1>1, <1>a, <2>1 DEF ReadRevision
<1>2. CASE CheckActive(p)
  <2>1. \E r \in Runs : Become(p, r) /\ r.stage \in Quiet
    BY <1>0, <1>2, <1>b, RetryRun DEF CheckActive, Goto
  <2> QED BY <1>2, <1>a, <2>1 DEF CheckActive
<1>3. CASE ProveCoverage(p)
  <2> DEFINE answer == run[p].snapshot \cap projection[Current]
             r == [run[p] EXCEPT !.answer = answer, !.stage = "query"]
  <2>1. Become(p, r) \/ Retry(p)
    BY <1>3 DEF ProveCoverage
  <2>2. answer \in SUBSET Ids
    BY <1>0
  <2> HIDE DEF answer
  <2>3. r \in Runs /\ r.stage = "query"
    BY <1>0, <2>2 DEF Runs, Stages
  <2>4. \E x \in Runs : Become(p, x) /\ x.stage \in Quiet
    BY <1>0, <2>1, <2>3, RetryRun
  <2> QED BY <1>3, <1>a, <2>4 DEF ProveCoverage
<1>4. CASE Query(p)
  <2> DEFINE answer == run[p].answer \cap projection[Current]
             r == [run[p] EXCEPT !.answer = answer, !.stage = "recheck"]
  <2>1. Become(p, r)
    BY <1>0, <1>4 DEF Query, Runs
  <2>2. answer \in SUBSET Ids
    BY <1>0
  <2> HIDE DEF answer
  <2>3. r \in Runs /\ r.stage = "recheck"
    BY <1>0, <2>2 DEF Runs, Stages
  <2> QED BY <1>4, <1>a, <2>1, <2>3 DEF Query
<1>5. CASE RecheckActive(p)
  <2>1. \E r \in Runs : Become(p, r) /\ r.stage \in Quiet
    BY <1>0, <1>5, <1>b, RetryRun DEF RecheckActive, Goto
  <2> QED BY <1>5, <1>a, <2>1 DEF RecheckActive
<1>6. CASE RecheckRevision(p)
  <2>1. \E r \in Runs : Become(p, r) /\ r.stage \in Quiet
    BY <1>0, <1>6, RetryRun, IdleIsRun, IdleFields DEF RecheckRevision, Leave
  <2> QED BY <1>6, <1>a, <2>1 DEF RecheckRevision
<1> QED BY <1>1, <1>2, <1>3, <1>4, <1>5, <1>6

\* Published reads: what they find under a current state is what was completed.
LEMMA PublishedReadingStep ==
  ASSUME IndexInvariant, NEW p \in Processes,
         ReadState(p) \/ ReadTotal(p) \/ ReadPage(p) \/ CheckState(p)
  PROVE  IndexInvariant'
<1>0. TypeOK /\ run[p] \in Runs /\ run[p].working \in Generations
  BY DEF IndexInvariant, TypeOK, Runs
<1>a. ASSUME lapses = 0
      PROVE  ReaderInv(p) /\ (published \in {"a", "b"} => projection[published] = completed)
  BY <1>a DEF IndexInvariant, PublishedIsStable
<1>1. CASE ReadState(p)
  <2> DEFINE r == [run[p] EXCEPT !.working = published, !.fresh = TRUE, !.stage = "total"]
  <2>1. r \in Runs /\ r.stage = "total" /\ r.working = published
    BY <1>0, <1>1 DEF ReadState, TypeOK, Runs, Stages
  <2>2. Suits(p, r)
    BY <2>1 DEF Suits, Writing, LockedStages
  <2>3. Become(p, r)
    BY <1>1 DEF ReadState
  <2> HIDE DEF r
  <2> QED BY <1>1, <2>1, <2>2, <2>3, QuietStep DEF ReadState
<1>2. CASE ReadTotal(p)
  <2> DEFINE total == projection[run[p].working]
             r == [run[p] EXCEPT !.total = total, !.stage = "page"]
  <2>1. total \in SUBSET Ids /\ Become(p, r)
    BY <1>0, <1>2 DEF ReadTotal, TypeOK
  <2>2. lapses = 0 /\ run[p].fresh =>
          /\ run[p].working = published
          /\ published \in {"a", "b"} => total = completed
    BY <1>2, <1>a DEF ReadTotal, ReaderInv
  <2> HIDE DEF total
  <2>3. /\ r \in Runs /\ r.stage = "page" /\ r.total = total
        /\ r.fresh = run[p].fresh /\ r.working = run[p].working
    BY <1>0, <2>1 DEF Runs, Stages
  <2> HIDE DEF r
  <2>4. lapses = 0 => Suits(p, r)
    BY <2>2, <2>3 DEF Suits, Writing, LockedStages
  <2> QED BY <1>2, <2>1, <2>3, <2>4, QuietStep DEF ReadTotal
<1>3. CASE ReadPage(p)
  <2> DEFINE answer == projection[run[p].working]
             r == [run[p] EXCEPT !.answer = answer, !.stage = "check"]
  <2>1. answer \in SUBSET Ids /\ Become(p, r)
    BY <1>0, <1>3 DEF ReadPage, TypeOK
  <2>2. lapses = 0 /\ run[p].fresh =>
          /\ run[p].working = published
          /\ published \in {"a", "b"} => run[p].total = completed /\ answer = completed
    BY <1>3, <1>a DEF ReadPage, ReaderInv
  <2> HIDE DEF answer
  <2>3. /\ r \in Runs /\ r.stage = "check" /\ r.answer = answer /\ r.total = run[p].total
        /\ r.fresh = run[p].fresh /\ r.working = run[p].working
    BY <1>0, <2>1 DEF Runs, Stages
  <2> HIDE DEF r
  <2>4. lapses = 0 => Suits(p, r)
    BY <2>2, <2>3 DEF Suits, Writing, LockedStages
  <2> QED BY <1>3, <2>1, <2>3, <2>4, QuietStep DEF ReadPage
<1>4. CASE CheckState(p)
  <2>1. Become(p, Idle) /\ Suits(p, Idle)
    BY <1>4, IdleIsRun, IdleFields, OutsideSuits DEF CheckState, Leave, LockedStages, Answering
  <2> QED BY <1>4, <2>1, IdleIsRun, QuietStep DEF CheckState
<1> QED BY <1>1, <1>2, <1>3, <1>4

\* Horizon and Redis: only a lock that expires under its holder matters.
LEMMA EnvironmentStep ==
  ASSUME IndexInvariant, (\E id \in Ids : Retain(id) \/ Trim(id) \/ LoseHash(id)) \/ ExpireLock
  PROVE  IndexInvariant'
<1>0. TypeOK
  BY DEF IndexInvariant
<1>1. ASSUME NEW id \in Ids, Retain(id) \/ Trim(id) \/ LoseHash(id)
      PROVE  IndexInvariant'
  <2>1. TypeOK'
    BY <1>0, <1>1 DEF Retain, Trim, LoseHash, TypeOK, indexVars, boundVars
  <2>2. UNCHANGED <<projection, published, lock, run, completed, lapses>>
    BY <1>1 DEF Retain, Trim, LoseHash, indexVars, boundVars
  <2> QED BY <2>1, <2>2
          DEF IndexInvariant, PublishedIsStable, HolderInv, WorkingInv, ReaderInv
<1>2. CASE ExpireLock
  <2>1. TypeOK'
    BY <1>0, <1>2 DEF ExpireLock, TypeOK, sourceVars, indexVars
  <2>2. UNCHANGED <<projection, published, run, completed>> /\ lock' = NoOne /\ lock \in Processes
    BY <1>0, <1>2 DEF ExpireLock, TypeOK, indexVars
  <2>3. lapses' = 0 => lapses = 0 /\ run[lock].stage \notin LockedStages
    BY <1>0, <1>2 DEF ExpireLock, TypeOK
  <2>4. PublishedIsStable'
    BY <2>2, <2>3 DEF IndexInvariant, PublishedIsStable
  <2>5. ASSUME lapses' = 0, NEW q \in Processes
        PROVE  HolderInv(q)' /\ WorkingInv(q)' /\ ReaderInv(q)'
    <3>1. HolderInv(q) /\ WorkingInv(q) /\ ReaderInv(q)
      BY <2>3, <2>5 DEF IndexInvariant
    <3> QED BY <2>2, <2>3, <2>5, <3>1 DEF HolderInv, WorkingInv, ReaderInv
  <2> QED BY <2>1, <2>4, <2>5 DEF IndexInvariant
<1> QED BY <1>1, <1>2

-----------------------------------------------------------------------------
(* The invariant, and what it gives.                                       *)

\* The initial states.
LEMMA IndexInit == Init => IndexInvariant
<1> SUFFICES ASSUME Init PROVE IndexInvariant
  OBVIOUS
<1>1. run = [p \in Processes |-> Idle] /\ \A p \in Processes : run[p] = Idle
  BY DEF Init
<1>2. TypeOK
  <2>1. completed \subseteq Ids
    BY DEF Init
  <2> QED BY <1>1, <2>1, IdleIsRun DEF Init, TypeOK, Generations
<1>3. PublishedIsStable
  BY DEF Init, PublishedIsStable
<1>4. \A p \in Processes : HolderInv(p) /\ WorkingInv(p) /\ ReaderInv(p)
  BY <1>1, IdleFields DEF HolderInv, WorkingInv, ReaderInv, LockedStages
<1> QED BY <1>2, <1>3, <1>4 DEF IndexInvariant

\* Every step.
LEMMA IndexNext == IndexInvariant /\ [Next]_vars => IndexInvariant'
<1> SUFFICES ASSUME IndexInvariant, [Next]_vars PROVE IndexInvariant'
  OBVIOUS
<1>1. ASSUME NEW p \in Processes, Step(p) PROVE IndexInvariant'
  BY <1>1, InspectionStep, WorkingStep, AdditionStep, RemovalStep, VerificationStep,
     PublicationStep, EndingStep, LiveReadingStep, PublishedReadingStep
     DEF Step, Synchronization, Reading
<1>2. CASE Environment
  BY <1>2, EndingStep, EnvironmentStep DEF Environment
<1>3. CASE UNCHANGED vars
  BY <1>3 DEF IndexInvariant, TypeOK, PublishedIsStable, HolderInv, WorkingInv, ReaderInv,
              vars, sourceVars, indexVars, boundVars
<1> QED BY <1>1, <1>2, <1>3 DEF Next

\* The inductive invariant: locked stages hold the lock, writers stay off the
\* published slot, and readers with a current state have read what was completed,
\* as long as no lock runs out under its holder (synchronizeSnapshotUnderLock,
\* prepareWorkingGeneration, publishWorkingGeneration, withPublishedCandidateKey).
THEOREM IndexInvariantHolds == Spec => []IndexInvariant
  BY IndexInit, IndexNext, PTL DEF Spec

\* The types of the state, in every reachable state.
THEOREM TypesHold == Spec => []TypeOK
<1>1. IndexInvariant => TypeOK
  BY DEF IndexInvariant
<1> QED BY <1>1, IndexInvariantHolds, PTL

\* Whatever the number of processes and jobs, nobody writes to the generation
\* readers are reading: until a lock runs out under its holder, a published slot
\* is what the last publishWorkingGeneration completed.
THEOREM PublishedStaysStable == Spec => []PublishedIsStable
<1>1. IndexInvariant => PublishedIsStable
  BY DEF IndexInvariant
<1> QED BY <1>1, IndexInvariantHolds, PTL

\* withPublishedCandidateKey: a page and a total that are not rejected both come
\* from the last completed projection, although they take no lock.
THEOREM PublishedReadsHold == Spec => []PublishedReadsAreWhole
<1>1. IndexInvariant => PublishedReadsAreWhole
  BY DEF IndexInvariant, PublishedReadsAreWhole, ReaderInv
<1> QED BY <1>1, IndexInvariantHolds, PTL

-----------------------------------------------------------------------------
(* Answers: what live reads leave out, and what a publication keeps.       *)

\* The state the answers depend on, besides the records.
AnswerVars == <<source, ever, hashless, metadata, projection, unresolved, published, lapses>>

\* The IDs a record holds.
HeldBy(r) == r.snapshot \cup r.todo \cup r.found

\* A record that knows nothing about the index yet, or any more.
Calm(r) ==
  /\ lapses = 0 => r.pass # "final"
  /\ r.stage \notin {"write", "publish", "query", "recheck", "confirm"}
  /\ HeldBy(r) \subseteq ever

\* Initially nothing is unresolved, and the metadata is that of the projection.
LEMMA AnswerInit == Init => AnswerInvariant
<1> SUFFICES ASSUME Init PROVE AnswerInvariant
  OBVIOUS
<1>1. \A p \in Processes : run[p] = Idle
  BY DEF Init
<1>2. /\ source = ever /\ completed \subseteq source /\ metadata = completed
      /\ \A g \in Generations : projection[g] \subseteq completed /\ unresolved[g] = {}
  BY DEF Init
<1>3. RetainedInv
  BY <1>1, <1>2 DEF RetainedInv, Idle
<1>4. UnresolvedInv
  BY <1>2 DEF UnresolvedInv
<1>5. \A p \in Processes : SnapshotInv(p) /\ LiveReadInv(p)
  BY <1>1 DEF SnapshotInv, LiveReadInv, Idle
<1> QED BY <1>3, <1>4, <1>5 DEF AnswerInvariant

\* Become changes the record of one process, whatever the record.
LEMMA Became ==
  ASSUME IndexInvariant, NEW p \in Processes, NEW r, Become(p, r)
  PROVE  run'[p] = r /\ \A q \in Processes \ {p} : run'[q] = run[q]
  BY DEF IndexInvariant, TypeOK, Become

\* The record of a process that runs no call is calm.
LEMMA IdleIsCalm == Calm(Idle)
  BY DEF Calm, HeldBy, Idle

\* A process that takes on a record which suits the state keeps the invariant.
LEMMA RecordStep ==
  ASSUME AnswerInvariant, NEW p \in Processes, UNCHANGED AnswerVars,
         \A q \in Processes \ {p} : run'[q] = run[q],
         HeldBy(run'[p]) \subseteq ever,
         lapses = 0 => SnapshotInv(p)' /\ LiveReadInv(p)'
  PROVE  AnswerInvariant'
<1> USE DEF AnswerVars
<1>1. RetainedInv'
  BY DEF AnswerInvariant, RetainedInv, HeldBy
<1>2. lapses = 0 => UnresolvedInv'
  BY DEF AnswerInvariant, UnresolvedInv
<1>3. ASSUME lapses = 0, NEW q \in Processes \ {p} PROVE SnapshotInv(q)' /\ LiveReadInv(q)'
  <2>1. SnapshotInv(q) /\ LiveReadInv(q) /\ run'[q] = run[q]
    BY <1>3 DEF AnswerInvariant
  <2>2. SnapshotInv(q)'
    BY <2>1 DEF SnapshotInv, Gap
  <2>3. LiveReadInv(q)'
    BY <2>1 DEF LiveReadInv, Current
  <2> QED BY <2>2, <2>3
<1> QED BY <1>1, <1>2, <1>3 DEF AnswerInvariant

\* A calm record suits every state.
LEMMA CalmStep ==
  ASSUME IndexInvariant, AnswerInvariant, NEW p \in Processes, NEW r, Become(p, r), Calm(r),
         UNCHANGED AnswerVars
  PROVE  AnswerInvariant'
<1>1. run'[p] = r /\ \A q \in Processes \ {p} : run'[q] = run[q]
  BY Became
<1>2. lapses = 0 => SnapshotInv(p)' /\ LiveReadInv(p)'
  BY <1>1 DEF Calm, SnapshotInv, LiveReadInv
<1> QED BY <1>1, <1>2, RecordStep DEF Calm

\* A call outside the locked stages is calm when it moves to another such stage.
LEMMA OutsideIsCalm ==
  ASSUME IndexInvariant, AnswerInvariant, NEW p \in Processes,
         run[p].stage \notin LockedStages \ {"prepare"}
  PROVE  /\ lapses = 0 => run[p].pass # "final"
         /\ HeldBy(run[p]) \subseteq ever /\ source \subseteq ever /\ run[p] \in Runs
  BY DEF AnswerInvariant, SnapshotInv, RetainedInv, HeldBy, IndexInvariant, TypeOK

\* A record with another stage.
LEMMA OtherStage ==
  ASSUME NEW r \in Runs, NEW s
  PROVE  /\ [r EXCEPT !.stage = s].stage = s
         /\ [r EXCEPT !.stage = s].pass = r.pass
         /\ [r EXCEPT !.stage = s].fresh = r.fresh
         /\ [r EXCEPT !.stage = s].working = r.working
         /\ [r EXCEPT !.stage = s].snapshot = r.snapshot
         /\ [r EXCEPT !.stage = s].answer = r.answer
         /\ HeldBy([r EXCEPT !.stage = s]) = HeldBy(r)
  BY DEF Runs, HeldBy

\* What follows synchronizing is calm.
LEMMA SynchronizedIsCalm ==
  ASSUME AnswerInvariant, NEW r \in Runs, HeldBy(r) \subseteq ever
  PROVE  Calm(Synchronized(r))
  BY DEF Synchronized, Calm, HeldBy, Idle, Runs

\* So is the next attempt of a live read, or its end.
LEMMA RetryIsCalm ==
  ASSUME AnswerInvariant, NEW p, Retry(p)
  PROVE  \E r : Become(p, r) /\ Calm(r)
<1>1. source \subseteq ever
  BY DEF AnswerInvariant, RetainedInv
<1>2. Calm(Materialized([Idle EXCEPT !.live = TRUE, !.attempt = run[p].attempt + 1]))
  BY <1>1 DEF Materialized, Calm, HeldBy, Idle
<1> QED BY <1>2, IdleIsCalm DEF Retry

\* Up to taking the lock, and preparing the slot.
LEMMA InspectionAnswers ==
  ASSUME IndexInvariant, AnswerInvariant, NEW p \in Processes, Inspection(p) \/ Prepare(p)
  PROVE  AnswerInvariant'
<1> USE DEF sourceVars, indexVars, boundVars
<1>0. /\ lapses = 0 => run[p].pass # "final"
      /\ HeldBy(run[p]) \subseteq ever /\ source \subseteq ever /\ run[p] \in Runs
  BY OutsideIsCalm DEF Inspection, Warm, Synchronize, ReadLive, InspectCoverage, InspectCounts,
     Refresh, Acquire, Prepare, LockedStages
<1>1. UNCHANGED AnswerVars
  BY DEF Inspection, Warm, Synchronize, ReadLive, InspectCoverage, InspectCounts,
     Refresh, Acquire, Prepare, AnswerVars
<1>a. Inconsistent(p) => \E r : Become(p, r) /\ Calm(r)
  <2>1. ASSUME run[p].pass # "busy"
        PROVE  Calm([run[p] EXCEPT !.pass = IF @ = "inspect" THEN "growing" ELSE "only",
                                   !.stage = "acquire"])
    BY <1>0 DEF Calm, HeldBy, Runs
  <2> QED BY <2>1, IdleIsCalm DEF Inconsistent
<1>b. ASSUME NEW s \in {"count", "prepare"} PROVE Calm([run[p] EXCEPT !.stage = s])
  BY <1>0, OtherStage DEF Calm
<1>2. \E r : Become(p, r) /\ Calm(r)
  <2>1. CASE Warm(p)
    <3>1. Calm([run[p] EXCEPT !.snapshot = source, !.pass = "growing", !.stage = "acquire"])
      BY <1>0 DEF Calm, HeldBy, Runs
    <3> QED BY <2>1, <3>1 DEF Warm
  <2>2. CASE Synchronize(p)
    <3>1. Calm(Materialized(run[p]))
      BY <1>0 DEF Calm, HeldBy, Runs, Materialized
    <3> QED BY <2>2, <3>1 DEF Synchronize
  <2>3. CASE ReadLive(p)
    <3>1. Calm(Materialized([run[p] EXCEPT !.live = TRUE]))
      BY <1>0 DEF Calm, HeldBy, Runs, Materialized
    <3> QED BY <2>3, <3>1 DEF ReadLive
  <2>4. CASE InspectCoverage(p)
    BY <2>4, <1>a, <1>b DEF InspectCoverage, Goto
  <2>5. CASE InspectCounts(p)
    <3>1. Calm([run[p] EXCEPT !.stage = "refresh"])
      BY <1>0, OtherStage DEF Calm
    <3>2. Calm(Synchronized(run[p]))
      BY <1>0, SynchronizedIsCalm
    <3> QED BY <2>5, <3>1, <3>2, <1>a DEF InspectCounts
  <2>6. CASE Refresh(p)
    <3>1. Calm([run[p] EXCEPT !.snapshot = source, !.pass = "again", !.stage = "inspect"])
      BY <1>0 DEF Calm, HeldBy, Runs
    <3> QED BY <2>6, <3>1 DEF Refresh
  <2>7. CASE Acquire(p)
    <3>1. Calm([run[p] EXCEPT !.pass = "busy", !.stage = "inspect"])
      BY <1>0 DEF Calm, HeldBy, Runs
    <3> QED BY <2>7, <3>1, <1>b, IdleIsCalm DEF Acquire, Goto, Leave
  <2>8. CASE Prepare(p)
    <3> DEFINE g == IF Current = "a" THEN "b" ELSE "a"
               s == IF initialized[g] THEN "diff" ELSE "wipe"
               r == [run[p] EXCEPT !.base = Current, !.working = g, !.stage = s]
    <3>1. Become(p, r) /\ s \in {"diff", "wipe"}
      BY <2>8 DEF Prepare
    <3> HIDE DEF g, s
    <3>2. Calm(r)
      BY <1>0, <3>1 DEF Calm, HeldBy, Runs
    <3> QED BY <3>1, <3>2
  <2> QED BY <2>1, <2>2, <2>3, <2>4, <2>5, <2>6, <2>7, <2>8 DEF Inspection
<1> QED BY <1>1, <1>2, CalmStep

\* A step of a lock holder on its slot: nobody else holds the lock, and no live
\* read uses the slot.
LEMMA HolderStep ==
  ASSUME IndexInvariant, AnswerInvariant, NEW p \in Processes, run[p].stage \in Writing,
         NEW r, Beat(p, r) \/ Become(p, r),
         UNCHANGED <<source, ever, hashless, published, lapses>>,
         r.working = run[p].working,
         r.stage \in LockedStages \ {"prepare"},
         HeldBy(r) \subseteq ever,
         \/ r.snapshot = run[p].snapshot /\ r.pass = run[p].pass
         \/ r.snapshot = source,
         \A g \in Generations :
            g # run[p].working => projection'[g] = projection[g] /\ unresolved'[g] = unresolved[g],
         \A g \in Generations :
            /\ projection'[g] \cup unresolved'[g] \subseteq ever
            /\ projection'[g] \cap source \subseteq metadata',
         lapses = 0 =>
            /\ \A g \in Generations : unresolved'[g] \subseteq hashless \ metadata'
            /\ r.stage = "write" => \A g \in Generations : r.found \cap unresolved'[g] = {}
            /\ r.stage = "publish" =>
                 r.snapshot \subseteq projection'[r.working] \cup unresolved'[r.working]
  PROVE  AnswerInvariant'
<1>0. \E x \in {r, Idle} : Become(p, x)
  BY DEF Beat
<1>1. PICK x \in {r, Idle} : run'[p] = x /\ \A q \in Processes \ {p} : run'[q] = run[q]
  BY <1>0, Became
<1>2. HeldBy(x) \subseteq ever
  BY <1>1, IdleIsCalm DEF Calm
<1>3. RetainedInv'
  <2>1. \A q \in Processes : HeldBy(run'[q]) \subseteq ever
    BY <1>1, <1>2 DEF AnswerInvariant, RetainedInv, HeldBy
  <2> QED BY <2>1 DEF AnswerInvariant, RetainedInv, HeldBy
<1>4. ASSUME lapses = 0 PROVE UnresolvedInv'
  BY <1>4 DEF UnresolvedInv
<1>5. ASSUME lapses = 0
      PROVE  /\ lock = p
             /\ run[p].working \in {"a", "b"} /\ run[p].working # published
             /\ Current \in Generations /\ Current # run[p].working /\ Current' = Current
             /\ \A q \in Processes \ {p} : run[q].stage \notin LockedStages
  <2>1. lock = p /\ run[p].working \in {"a", "b"} /\ run[p].working # published
    BY <1>5 DEF IndexInvariant, HolderInv, WorkingInv, Writing
  <2>2. Current \in Generations /\ Current # run[p].working /\ Current' = Current
    BY <2>1 DEF Current, IndexInvariant, TypeOK, Generations
  <2>3. \A q \in Processes \ {p} : run[q].stage \notin LockedStages
    BY <1>5, <2>1 DEF IndexInvariant, HolderInv
  <2> QED BY <2>1, <2>2, <2>3
<1>6. ASSUME lapses = 0 PROVE SnapshotInv(p)' /\ LiveReadInv(p)'
  <2>1. CASE x = Idle
    BY <1>1, <2>1 DEF SnapshotInv, LiveReadInv, Idle
  <2>2. CASE x = r
    <3>1. LiveReadInv(p)'
      BY <1>1, <2>2 DEF LiveReadInv, LockedStages
    <3>2. projection'[published] = projection[published] \/ published \notin {"a", "b"}
      BY <1>5, <1>6 DEF Generations
    <3>3. r.pass = "final" /\ published \in {"a", "b"} =>
              projection[published] \cap source \subseteq r.snapshot
      BY <1>6 DEF AnswerInvariant, SnapshotInv, Writing
    <3>4. Gap(run[p].snapshot, run[p].working)' =
              run'[p].snapshot \ (projection'[run'[p].working] \cup unresolved'[run'[p].working])
      BY DEF Gap
    <3> QED BY <1>1, <1>6, <2>2, <3>1, <3>2, <3>3, <3>4 DEF SnapshotInv
  <2> QED BY <1>1, <2>1, <2>2
<1>7. ASSUME lapses = 0, NEW q \in Processes \ {p} PROVE SnapshotInv(q)' /\ LiveReadInv(q)'
  <2>1. SnapshotInv(q) /\ LiveReadInv(q) /\ run'[q] = run[q] /\ run[q].stage \notin LockedStages
    BY <1>1, <1>5, <1>7 DEF AnswerInvariant
  <2>2. SnapshotInv(q)'
    BY <2>1 DEF SnapshotInv, LockedStages
  <2>3. LiveReadInv(q)'
    <3>1. projection'[Current] = projection[Current] /\ unresolved'[Current] = unresolved[Current]
      BY <1>5, <1>7
    <3> QED BY <1>5, <1>7, <2>1, <3>1 DEF LiveReadInv
  <2> QED BY <2>2, <2>3
<1> QED BY <1>3, <1>4, <1>6, <1>7 DEF AnswerInvariant

\* What a lock holder may rely on.
LEMMA HolderKnows ==
  ASSUME IndexInvariant, AnswerInvariant, NEW p \in Processes
  PROVE  /\ run[p] \in Runs /\ run[p].working \in Generations
         /\ HeldBy(run[p]) \subseteq ever /\ source \subseteq ever
         /\ projection \in [Generations -> SUBSET Ids] /\ unresolved \in [Generations -> SUBSET Ids]
         /\ \A g \in Generations : /\ projection[g] \cup unresolved[g] \subseteq ever
                                   /\ projection[g] \cap source \subseteq metadata
         /\ lapses = 0 => \A g \in Generations : unresolved[g] \subseteq hashless \ metadata
         /\ lapses = 0 /\ run[p].stage = "write" =>
                \A g \in Generations : run[p].found \cap unresolved[g] = {}
  BY DEF IndexInvariant, TypeOK, Runs, AnswerInvariant, RetainedInv, HeldBy, UnresolvedInv, SnapshotInv

\* Wiping and initializing the slot, and what it lacks.
LEMMA WorkingAnswers ==
  ASSUME IndexInvariant, AnswerInvariant, NEW p \in Processes, Wipe(p) \/ Initialize(p) \/ Diff(p)
  PROVE  AnswerInvariant'
<1> USE HolderKnows DEF sourceVars, boundVars
<1>1. CASE Wipe(p)
  <2> DEFINE r == [run[p] EXCEPT !.stage = "initialize"]
  <2>1. /\ r.stage = "initialize" /\ r.working = run[p].working /\ r.snapshot = run[p].snapshot
        /\ r.pass = run[p].pass /\ HeldBy(r) \subseteq ever
    BY OtherStage
  <2>2. Beat(p, r) /\ run[p].stage = "wipe" /\ UNCHANGED <<source, ever, hashless, metadata, published, lapses>>
    BY <1>1 DEF Wipe
  <2>3. \A g \in Generations :
           IF g = run[p].working THEN projection'[g] = {} /\ unresolved'[g] = {}
           ELSE projection'[g] = projection[g] /\ unresolved'[g] = unresolved[g]
    BY <1>1 DEF Wipe
  <2> HIDE DEF r
  <2> QED BY <2>1, <2>2, <2>3, HolderStep DEF Writing, LockedStages
<1>2. CASE Initialize(p)
  <2> DEFINE r == [run[p] EXCEPT !.base = "legacy", !.stage = "diff"]
  <2>1. /\ r.stage = "diff" /\ r.working = run[p].working /\ r.snapshot = run[p].snapshot
        /\ r.pass = run[p].pass /\ HeldBy(r) \subseteq ever
    BY DEF Runs, HeldBy
  <2>2. /\ Become(p, r) /\ run[p].stage = "initialize"
        /\ UNCHANGED <<source, ever, hashless, metadata, projection, published, lapses>>
    BY <1>2 DEF Initialize
  <2>3. \A g \in Generations :
           unresolved'[g] = IF g = run[p].working THEN unresolved[run[p].base] ELSE unresolved[g]
    BY <1>2 DEF Initialize
  <2>4. run[p].base \in Generations
    BY DEF Runs
  <2> HIDE DEF r
  <2> QED BY <2>1, <2>2, <2>3, <2>4, HolderStep DEF Writing, LockedStages
<1>3. CASE Diff(p)
  <2> DEFINE missing == Gap(run[p].snapshot, run[p].working)
             surplus == Cardinality(projection[run[p].working])
                          + Cardinality(unresolved[run[p].working])
                          + Cardinality(missing) > Cardinality(run[p].snapshot)
             references == unresolved[run[p].working] # {}
             r == [run[p] EXCEPT !.todo = missing, !.surplus = surplus,
                                 !.references = references, !.stage = "hydrate"]
  <2>1. Beat(p, r) /\ missing \subseteq run[p].snapshot
    BY <1>3 DEF Diff, Gap
  <2>2. /\ run[p].stage = "diff"
        /\ UNCHANGED <<source, ever, hashless, metadata, projection, unresolved, published, lapses>>
    BY <1>3 DEF Diff, indexVars
  <2> HIDE DEF missing, surplus, references
  <2>3. /\ r.stage = "hydrate" /\ r.working = run[p].working /\ r.snapshot = run[p].snapshot
        /\ r.pass = run[p].pass /\ HeldBy(r) \subseteq ever
    BY <2>1 DEF Runs, HeldBy
  <2> HIDE DEF r
  <2> QED BY <2>1, <2>2, <2>3, HolderStep DEF Writing, LockedStages
<1> QED BY <1>1, <1>2, <1>3

\* Adding what is missing: what has neither hash nor metadata is not written.
LEMMA AdditionAnswers ==
  ASSUME IndexInvariant, AnswerInvariant, NEW p \in Processes,
         Hydrate(p) \/ Write(p) \/ Added(p) \/ Rebuild(p)
  PROVE  AnswerInvariant'
<1> USE HolderKnows DEF sourceVars, boundVars
<1>1. CASE Hydrate(p)
  <2> DEFINE lost == hashless \ metadata
             found == Chunk(run[p].todo) \ lost
             r == [run[p] EXCEPT !.found = found, !.stage = "write"]
  <2>1. Chunk(run[p].todo) \subseteq run[p].todo
    BY DEF Chunk
  <2>2. PICK old \in SUBSET (Chunk(run[p].todo) \cap lost) :
           unresolved' = [unresolved EXCEPT ![run[p].working] = @ \cup old]
    BY <1>1 DEF Hydrate
  <2>3. /\ Beat(p, r) /\ run[p].stage = "hydrate"
        /\ UNCHANGED <<source, ever, hashless, metadata, projection, published, lapses>>
    BY <1>1 DEF Hydrate
  <2>4. \A g \in Generations :
           unresolved'[g] = IF g = run[p].working THEN unresolved[g] \cup old ELSE unresolved[g]
    BY <2>2
  <2>5. found \subseteq ever /\ old \subseteq ever /\ old \subseteq lost /\ found \cap lost = {}
    BY <2>1 DEF HeldBy
  <2> HIDE DEF found
  <2>6. /\ r.stage = "write" /\ r.working = run[p].working /\ r.snapshot = run[p].snapshot
        /\ r.pass = run[p].pass /\ HeldBy(r) \subseteq ever /\ r.found = found
    BY <2>5 DEF Runs, HeldBy
  <2> HIDE DEF r
  <2>7. \A g \in Generations : unresolved'[g] \subseteq ever
    <3> TAKE g \in Generations
    <3>1. unresolved[g] \subseteq ever
      BY DEF AnswerInvariant, RetainedInv
    <3>2. unresolved'[g] = unresolved[g] \cup old \/ unresolved'[g] = unresolved[g]
      BY <2>4
    <3> QED BY <2>5, <3>1, <3>2
  <2>8. lapses = 0 => \A g \in Generations : unresolved'[g] \subseteq lost /\ found \cap unresolved'[g] = {}
    BY <2>4, <2>5
  <2> QED BY <2>3, <2>4, <2>6, <2>7, <2>8, HolderStep DEF Writing, LockedStages
<1>2. CASE Write(p)
  <2> DEFINE todo == run[p].todo \ Chunk(run[p].todo)
             r == [run[p] EXCEPT !.todo = todo, !.found = {}, !.stage = "hydrate"]
  <2>1. /\ Beat(p, r) /\ run[p].stage = "write" /\ metadata' = metadata \cup run[p].found
        /\ UNCHANGED <<source, ever, hashless, published, lapses>>
    BY <1>2 DEF Write, Runs
  <2>2. \A g \in Generations :
           IF g = run[p].working
           THEN projection'[g] = projection[g] \cup run[p].found /\ unresolved'[g] = unresolved[g] \ run[p].found
           ELSE projection'[g] = projection[g] /\ unresolved'[g] = unresolved[g]
    BY <1>2 DEF Write
  <2>3. todo \subseteq run[p].todo
    OBVIOUS
  <2> HIDE DEF todo
  <2>4. /\ r.stage = "hydrate" /\ r.working = run[p].working /\ r.snapshot = run[p].snapshot
        /\ r.pass = run[p].pass /\ HeldBy(r) \subseteq ever
    BY <2>3 DEF Runs, HeldBy
  <2> HIDE DEF r
  <2>5. run[p].found \subseteq ever
    BY DEF HeldBy
  <2>6. \A g \in Generations : /\ projection'[g] \cup unresolved'[g] \subseteq ever
                               /\ projection'[g] \cap source \subseteq metadata'
    BY <2>1, <2>2, <2>5
  <2>7. lapses = 0 => \A g \in Generations : unresolved'[g] \subseteq hashless \ metadata'
    BY <2>1, <2>2
  <2> QED BY <2>1, <2>2, <2>4, <2>6, <2>7, HolderStep DEF Writing, LockedStages
<1>3. CASE Added(p)
  <2> DEFINE stale == projection[run[p].working] \ run[p].snapshot
             r == [run[p] EXCEPT !.todo = stale, !.stage = "remove"]
             e == Reconciled(run[p])
  <2>1. (Become(p, r) \/ Beat(p, e)) /\ run[p].stage = "hydrate" /\ stale \subseteq ever
    BY <1>3 DEF Added
  <2>2. UNCHANGED <<source, ever, hashless, metadata, projection, unresolved, published, lapses>>
    BY <1>3 DEF Added, indexVars
  <2> HIDE DEF stale
  <2>3. /\ r.stage = "remove" /\ r.working = run[p].working /\ r.snapshot = run[p].snapshot
        /\ r.pass = run[p].pass /\ HeldBy(r) \subseteq ever
    BY <2>1 DEF Runs, HeldBy
  <2>4. /\ e.stage = "verify" /\ e.working = run[p].working /\ e.snapshot = run[p].snapshot
        /\ e.pass = run[p].pass /\ HeldBy(e) \subseteq ever
    BY DEF Runs, HeldBy, Reconciled
  <2> HIDE DEF r, e
  <2>5. CASE Become(p, r)
    BY <2>1, <2>2, <2>3, <2>5, HolderStep DEF Writing, LockedStages
  <2>6. CASE Beat(p, e)
    BY <2>1, <2>2, <2>4, <2>6, HolderStep DEF Writing, LockedStages
  <2> QED BY <2>1, <2>5, <2>6
<1>4. CASE Rebuild(p)
  <2> DEFINE r == [run[p] EXCEPT !.todo = run[p].snapshot, !.stage = "hydrate"]
  <2>1. /\ r.stage = "hydrate" /\ r.working = run[p].working /\ r.snapshot = run[p].snapshot
        /\ r.pass = run[p].pass /\ HeldBy(r) \subseteq ever
    BY DEF Runs, HeldBy
  <2>2. Beat(p, r) /\ run[p].stage = "verify" /\ UNCHANGED <<source, ever, hashless, metadata, published, lapses>>
    BY <1>4 DEF Rebuild
  <2>3. \A g \in Generations :
           IF g = run[p].working THEN projection'[g] = {} /\ unresolved'[g] = {}
           ELSE projection'[g] = projection[g] /\ unresolved'[g] = unresolved[g]
    BY <1>4 DEF Rebuild
  <2> HIDE DEF r
  <2> QED BY <2>1, <2>2, <2>3, HolderStep DEF Writing, LockedStages
<1> QED BY <1>1, <1>2, <1>3, <1>4

\* Removing what is stale: the metadata that goes is that of jobs no source
\* retains.
LEMMA RemovalAnswers ==
  ASSUME IndexInvariant, AnswerInvariant, NEW p \in Processes,
         Remove(p) \/ PruneCatalogs(p) \/ Removed(p) \/ DropReferences(p)
  PROVE  AnswerInvariant'
<1> USE HolderKnows DEF sourceVars, boundVars
<1>a. ASSUME NEW r \in Runs
      PROVE  LET e == Reconciled(r)
             IN  /\ e.stage = "verify" /\ e.working = r.working /\ e.snapshot = r.snapshot
                 /\ e.pass = r.pass /\ HeldBy(e) = HeldBy(r)
  BY DEF Reconciled, Runs, HeldBy
<1>1. CASE Remove(p)
  <2> DEFINE r == [run[p] EXCEPT !.stage = "catalog"]
  <2>1. /\ r.stage = "catalog" /\ r.working = run[p].working /\ r.snapshot = run[p].snapshot
        /\ r.pass = run[p].pass /\ HeldBy(r) \subseteq ever
    BY OtherStage
  <2>2. /\ Become(p, r) /\ run[p].stage = "remove"
        /\ UNCHANGED <<source, ever, hashless, metadata, unresolved, published, lapses>>
    BY <1>1 DEF Remove, Goto
  <2>3. \A g \in Generations : /\ projection'[g] \subseteq projection[g]
                               /\ g # run[p].working => projection'[g] = projection[g]
    BY <1>1 DEF Remove
  <2> HIDE DEF r
  <2> QED BY <2>1, <2>2, <2>3, HolderStep DEF Writing, LockedStages
<1>2. CASE PruneCatalogs(p)
  <2> DEFINE todo == run[p].todo \ Chunk(run[p].todo)
             r == [run[p] EXCEPT !.todo = todo, !.stage = "remove"]
  <2>1. /\ Beat(p, r) /\ run[p].stage = "catalog"
        /\ metadata' \subseteq metadata /\ metadata \cap source \subseteq metadata'
        /\ UNCHANGED <<source, ever, hashless, projection, unresolved, published, lapses>>
    BY <1>2 DEF PruneCatalogs, Runs
  <2>2. todo \subseteq run[p].todo
    OBVIOUS
  <2> HIDE DEF todo
  <2>3. /\ r.stage = "remove" /\ r.working = run[p].working /\ r.snapshot = run[p].snapshot
        /\ r.pass = run[p].pass /\ HeldBy(r) \subseteq ever
    BY <2>2 DEF Runs, HeldBy
  <2> HIDE DEF r
  <2> QED BY <2>1, <2>3, HolderStep DEF Writing, LockedStages
<1>3. CASE Removed(p)
  <2> DEFINE gone == unresolved[run[p].working] \ run[p].snapshot
             r == [run[p] EXCEPT !.todo = gone, !.stage = "drop"]
             e == Reconciled(run[p])
  <2>1. (Become(p, r) \/ Beat(p, e)) /\ run[p].stage = "remove" /\ gone \subseteq ever
    BY <1>3 DEF Removed
  <2>2. UNCHANGED <<source, ever, hashless, metadata, projection, unresolved, published, lapses>>
    BY <1>3 DEF Removed, indexVars
  <2> HIDE DEF gone
  <2>3. /\ r.stage = "drop" /\ r.working = run[p].working /\ r.snapshot = run[p].snapshot
        /\ r.pass = run[p].pass /\ HeldBy(r) \subseteq ever
    BY <2>1 DEF Runs, HeldBy
  <2>4. /\ e.stage = "verify" /\ e.working = run[p].working /\ e.snapshot = run[p].snapshot
        /\ e.pass = run[p].pass /\ HeldBy(e) \subseteq ever
    BY <1>a
  <2> HIDE DEF r, e
  <2>5. CASE Become(p, r)
    BY <2>1, <2>2, <2>3, <2>5, HolderStep DEF Writing, LockedStages
  <2>6. CASE Beat(p, e)
    BY <2>1, <2>2, <2>4, <2>6, HolderStep DEF Writing, LockedStages
  <2> QED BY <2>1, <2>5, <2>6
<1>4. CASE DropReferences(p)
  <2> DEFINE todo == run[p].todo \ Chunk(run[p].todo)
             r == [run[p] EXCEPT !.todo = todo]
             d == [run[p] EXCEPT !.todo = {}]
             e == Reconciled(d)
  <2>1. (Beat(p, e) \/ Beat(p, r)) /\ run[p].stage = "drop"
    BY <1>4 DEF DropReferences, Runs
  <2>2. UNCHANGED <<source, ever, hashless, metadata, projection, published, lapses>>
    BY <1>4 DEF DropReferences
  <2>3. \A g \in Generations : /\ unresolved'[g] \subseteq unresolved[g]
                               /\ g # run[p].working => unresolved'[g] = unresolved[g]
    BY <1>4 DEF DropReferences
  <2>4. todo \subseteq run[p].todo
    OBVIOUS
  <2> HIDE DEF todo
  <2>5. /\ r.stage = run[p].stage /\ r.working = run[p].working /\ r.snapshot = run[p].snapshot
        /\ r.pass = run[p].pass /\ HeldBy(r) \subseteq ever
    BY <2>4 DEF Runs, HeldBy
  <2>6. /\ d \in Runs /\ d.working = run[p].working /\ d.snapshot = run[p].snapshot
        /\ d.pass = run[p].pass /\ HeldBy(d) \subseteq ever
    BY DEF Runs, HeldBy
  <2> HIDE DEF r, d
  <2>7. /\ e.stage = "verify" /\ e.working = run[p].working /\ e.snapshot = run[p].snapshot
        /\ e.pass = run[p].pass /\ HeldBy(e) \subseteq ever
    BY <1>a, <2>6
  <2> HIDE DEF e
  <2>8. CASE Beat(p, r)
    BY <2>1, <2>2, <2>3, <2>5, <2>8, HolderStep DEF Writing, LockedStages
  <2>9. CASE Beat(p, e)
    BY <2>1, <2>2, <2>3, <2>7, <2>9, HolderStep DEF Writing, LockedStages
  <2> QED BY <2>1, <2>8, <2>9
<1> QED BY <1>1, <1>2, <1>3, <1>4

\* Verifying: only a slot that covers the snapshot goes on to be published.
LEMMA VerificationAnswers ==
  ASSUME IndexInvariant, AnswerInvariant, NEW p \in Processes, Verify(p) \/ RefreshUnderLock(p)
  PROVE  AnswerInvariant'
<1> USE HolderKnows DEF sourceVars, boundVars
<1>0. UNCHANGED <<source, ever, hashless, metadata, projection, unresolved, published, lapses>>
  BY DEF Verify, VerifyThen, RefreshUnderLock, indexVars
<1>1. CASE Verify(p)
  <2> DEFINE exact == Gap(run[p].snapshot, run[p].working) = {}
             S(s) == [run[p] EXCEPT !.stage = s]
             r == [run[p] EXCEPT !.round = run[p].round + 1, !.stage = "diff"]
  <2>1. run[p].stage = "verify"
    BY <1>1 DEF Verify, VerifyThen
  <2>2. \/ Beat(p, S("growth")) \/ Beat(p, S("giveup")) \/ Beat(p, r)
        \/ exact /\ Beat(p, S("publish"))
    <3> DEFINE growing == run[p].pass = "growing"
               counts == CountsMatch(run[p].snapshot, run[p].working)
    <3>1. \/ /\ exact /\ counts
             /\ Beat(p, [run[p] EXCEPT !.stage = IF growing THEN "growth" ELSE "publish"])
          \/ Beat(p, IF run[p].round < ReconciliationAttempts THEN r
                     ELSE [run[p] EXCEPT !.stage = IF growing THEN "growth" ELSE "giveup"])
      BY <1>1, Zenon DEF Verify, VerifyThen
    <3> HIDE DEF growing, counts, r, exact
    <3>2. CASE growing
      BY <3>1, <3>2
    <3>3. CASE ~ growing
      BY <3>1, <3>3
    <3> QED BY <3>2, <3>3
  <2>3. ASSUME NEW s \in {"growth", "giveup"}, Beat(p, S(s)) PROVE AnswerInvariant'
    <3>1. /\ S(s).stage = s /\ S(s).working = run[p].working /\ S(s).snapshot = run[p].snapshot
          /\ S(s).pass = run[p].pass /\ HeldBy(S(s)) \subseteq ever
      BY OtherStage
    <3> HIDE DEF S
    <3> QED BY <1>0, <2>1, <2>3, <3>1, HolderStep DEF Writing, LockedStages
  <2>4. CASE Beat(p, r)
    <3>1. /\ r.stage = "diff" /\ r.working = run[p].working /\ r.snapshot = run[p].snapshot
          /\ r.pass = run[p].pass /\ HeldBy(r) \subseteq ever
      BY DEF Runs, HeldBy
    <3> HIDE DEF r
    <3> QED BY <1>0, <2>1, <2>4, <3>1, HolderStep DEF Writing, LockedStages
  <2>5. CASE exact /\ Beat(p, S("publish"))
    <3> DEFINE e == S("publish")
    <3>1. /\ e.stage = "publish" /\ e.working = run[p].working /\ e.snapshot = run[p].snapshot
          /\ e.pass = run[p].pass /\ HeldBy(e) \subseteq ever
      BY OtherStage
    <3>2. Beat(p, e) /\ e.snapshot \subseteq projection[e.working] \cup unresolved[e.working]
      BY <2>5, <3>1 DEF Gap
    <3> HIDE DEF e
    <3> QED BY <1>0, <2>1, <3>1, <3>2, HolderStep DEF Writing, LockedStages
  <2> QED BY <2>2, <2>3, <2>4, <2>5
<1>2. CASE RefreshUnderLock(p)
  <2> DEFINE r == [run[p] EXCEPT !.snapshot = source, !.pass = "final", !.round = 0,
                                 !.stage = "diff"]
  <2>1. Beat(p, r) /\ run[p].stage = "growth"
    BY <1>2 DEF RefreshUnderLock
  <2>2. /\ r.stage = "diff" /\ r.working = run[p].working /\ r.snapshot = source
        /\ HeldBy(r) \subseteq ever
    BY DEF Runs, HeldBy
  <2> HIDE DEF r
  <2> QED BY <1>0, <2>1, <2>2, HolderStep DEF Writing, LockedStages
<1> QED BY <1>1, <1>2

\* Publishing: every live read under way is told, and only metadata of jobs that
\* are not retained goes with the generation replaced.
LEMMA PublicationAnswers ==
  ASSUME IndexInvariant, AnswerInvariant, NEW p \in Processes, Publish(p) \/ PublishLegacy(p)
  PROVE  AnswerInvariant'
<1> USE HolderKnows DEF sourceVars, boundVars
<1>0. /\ UNCHANGED <<source, ever, hashless, projection, unresolved, lapses>>
      /\ metadata' \subseteq metadata /\ metadata \cap source \subseteq metadata'
  BY DEF Publish, PublishLegacy, indexVars
<1>1. /\ \A q \in Processes \ {p} : run'[q] = [run[q] EXCEPT !.fresh = FALSE]
      /\ \/ run'[p] = Idle
         \/ run'[p] = [run[p] EXCEPT !.stage = "release"] /\ run[p].stage = "publish"
      /\ published' = "legacy" \/ run[p].stage = "publish"
  BY DEF Publish, PublishLegacy, PublishState
<1>2. \A q \in Processes \ {p} :
        /\ run'[q].fresh = FALSE /\ run'[q].stage = run[q].stage /\ run'[q].pass = run[q].pass
        /\ run'[q].snapshot = run[q].snapshot /\ run'[q].working = run[q].working
        /\ run'[q].found = run[q].found /\ run'[q].todo = run[q].todo
  <2>1. ASSUME NEW r \in Runs, NEW e, e = [r EXCEPT !.fresh = FALSE]
        PROVE  /\ e.fresh = FALSE /\ e.stage = r.stage /\ e.pass = r.pass
               /\ e.snapshot = r.snapshot /\ e.working = r.working
               /\ e.found = r.found /\ e.todo = r.todo
    BY <2>1 DEF Runs
  <2>2. \A q \in Processes : run[q] \in Runs
    BY DEF IndexInvariant, TypeOK
  <2> QED BY <1>1, <2>1, <2>2
<1>3. /\ run'[p].stage \in {"idle", "release"} /\ HeldBy(run'[p]) \subseteq ever
      /\ run'[p].pass = "final" => run'[p].stage = "release"
  <2>1. CASE run'[p] = Idle
    BY <2>1, IdleIsCalm DEF Idle, Calm
  <2>2. CASE run'[p] = [run[p] EXCEPT !.stage = "release"]
    BY <2>2, OtherStage
  <2> QED BY <1>1, <2>1, <2>2
<1>4. RetainedInv'
  <2>1. \A q \in Processes : HeldBy(run'[q]) \subseteq ever
    BY <1>2, <1>3 DEF HeldBy
  <2> QED BY <1>0, <2>1 DEF RetainedInv, HeldBy
<1>5. lapses = 0 => UnresolvedInv'
  BY <1>0 DEF UnresolvedInv
<1>6. ASSUME lapses = 0, NEW q \in Processes PROVE SnapshotInv(q)' /\ LiveReadInv(q)'
  <2>1. CASE q = p
    <3>1. SnapshotInv(q)'
      BY <1>3, <2>1 DEF SnapshotInv, LockedStages
    <3>2. LiveReadInv(q)'
      BY <1>3, <2>1 DEF LiveReadInv
    <3> QED BY <3>1, <3>2
  <2>2. CASE q # p
    <3>1. SnapshotInv(q)
      BY <1>6 DEF AnswerInvariant
    <3>2. published' \in {"a", "b"} => run[q].stage \notin LockedStages
      BY <1>1, <1>6, <2>2 DEF IndexInvariant, HolderInv, LockedStages
    <3>3. LiveReadInv(q)'
      BY <1>2, <2>2 DEF LiveReadInv
    <3>4. Gap(run[q].snapshot, run[q].working)' = Gap(run[q].snapshot, run[q].working)
      BY <1>0, <1>2, <2>2 DEF Gap
    <3>5. SnapshotInv(q)'
      BY <1>0, <1>2, <2>2, <3>1, <3>2, <3>4 DEF SnapshotInv
    <3> QED BY <3>3, <3>5
  <2> QED BY <2>1, <2>2
<1> QED BY <1>0, <1>4, <1>5, <1>6 DEF AnswerInvariant

\* A call that ends a synchronization, or dies, is calm.
LEMMA EndingAnswers ==
  ASSUME IndexInvariant, AnswerInvariant, NEW p \in Processes,
         Release(p) \/ EnsureRevision(p) \/ Abort(p)
  PROVE  AnswerInvariant'
<1> USE HolderKnows DEF sourceVars, indexVars, boundVars
<1>1. UNCHANGED AnswerVars
  BY DEF Release, EnsureRevision, Abort, AnswerVars
<1>2. CASE Release(p) \/ Abort(p)
  <2>1. Calm(Synchronized(run[p]))
    BY SynchronizedIsCalm
  <2>2. Become(p, Idle) \/ Become(p, Synchronized(run[p]))
    BY <1>2 DEF Release, Abort, Leave
  <2> QED BY <1>1, <2>1, <2>2, IdleIsCalm, CalmStep
<1>3. CASE EnsureRevision(p)
  <2>1. lapses = 0 => run[p].pass # "final"
    BY <1>3, OutsideIsCalm DEF EnsureRevision, LockedStages
  <2>2. Calm([run[p] EXCEPT !.stage = "legacy"])
    BY <2>1, OtherStage DEF Calm
  <2>3. Become(p, Idle) \/ Become(p, [run[p] EXCEPT !.stage = "legacy"])
    BY <1>3 DEF EnsureRevision, Goto, Leave
  <2> QED BY <1>1, <2>2, <2>3, IdleIsCalm, CalmStep
<1> QED BY <1>2, <1>3

\* A live read: the coverage proved leaves out unresolved references only, and
\* the candidate key is taken from the same generation if nothing was published.
LEMMA LiveReadingAnswers ==
  ASSUME IndexInvariant, AnswerInvariant, NEW p \in Processes,
         \/ ReadRevision(p) \/ CheckActive(p) \/ ProveCoverage(p)
         \/ Query(p) \/ RecheckActive(p) \/ RecheckRevision(p)
  PROVE  AnswerInvariant'
<1> USE DEF sourceVars, indexVars, boundVars
<1>0. /\ lapses = 0 => run[p].pass # "final"
      /\ HeldBy(run[p]) \subseteq ever /\ source \subseteq ever /\ run[p] \in Runs
  BY OutsideIsCalm DEF ReadRevision, CheckActive, ProveCoverage, Query, RecheckActive,
     RecheckRevision, LockedStages
<1>1. UNCHANGED AnswerVars
  BY DEF ReadRevision, CheckActive, ProveCoverage, Query, RecheckActive, RecheckRevision, AnswerVars
<1>2. Current' = Current /\ unresolved' = unresolved /\ projection' = projection
  BY <1>1 DEF Current, AnswerVars
<1>a. ASSUME NEW r, Become(p, r), HeldBy(r) \subseteq ever, r.stage \in {"query", "recheck", "confirm"},
             r.pass = run[p].pass,
             lapses = 0 /\ r.fresh =>
                /\ r.answer \subseteq r.snapshot /\ r.snapshot \ r.answer \subseteq unresolved[Current]
                /\ r.stage = "query" => r.answer \subseteq projection[Current]
      PROVE  AnswerInvariant'
  <2>1. run'[p] = r /\ \A q \in Processes \ {p} : run'[q] = run[q]
    BY <1>a, Became
  <2>2. lapses = 0 => SnapshotInv(p)'
    BY <1>0, <1>a, <2>1 DEF SnapshotInv
  <2>3. lapses = 0 => LiveReadInv(p)'
    BY <1>2, <1>a, <2>1 DEF LiveReadInv
  <2> QED BY <1>1, <1>a, <2>1, <2>2, <2>3, RecordStep
<1>3. CASE ReadRevision(p)
  <2>1. Calm([run[p] EXCEPT !.fresh = TRUE, !.stage = "active"])
    BY <1>0 DEF Calm, HeldBy, Runs
  <2> QED BY <1>1, <1>3, <2>1, CalmStep DEF ReadRevision
<1>4. CASE CheckActive(p)
  <2>1. Calm([run[p] EXCEPT !.stage = "prove"])
    BY <1>0, OtherStage DEF Calm
  <2>2. \E r : Become(p, r) /\ Calm(r)
    BY <1>4, <2>1, RetryIsCalm DEF CheckActive, Goto
  <2> QED BY <1>1, <2>2, CalmStep
<1>5. CASE ProveCoverage(p)
  <2>1. CASE Gap(run[p].snapshot, Current) = {}
    <3> DEFINE answer == run[p].snapshot \cap projection[Current]
               r == [run[p] EXCEPT !.answer = answer, !.stage = "query"]
    <3>1. /\ answer \subseteq run[p].snapshot /\ run[p].snapshot \ answer \subseteq unresolved[Current]
          /\ answer \subseteq projection[Current] /\ Become(p, r)
      BY <1>5, <2>1 DEF ProveCoverage, Gap
    <3> HIDE DEF answer
    <3>2. /\ r.stage = "query" /\ r.answer = answer /\ r.snapshot = run[p].snapshot
          /\ r.pass = run[p].pass /\ HeldBy(r) \subseteq ever
      BY <1>0 DEF Runs, HeldBy
    <3> HIDE DEF r
    <3> QED BY <3>1, <3>2, <1>a
  <2>2. CASE Gap(run[p].snapshot, Current) # {}
    BY <1>1, <1>5, <2>2, RetryIsCalm, CalmStep DEF ProveCoverage
  <2> QED BY <2>1, <2>2
<1>6. CASE Query(p)
  <2> DEFINE answer == run[p].answer \cap projection[Current]
             r == [run[p] EXCEPT !.answer = answer, !.stage = "recheck"]
  <2>1. Become(p, r) /\ run[p].stage = "query"
    BY <1>0, <1>6 DEF Query, Runs
  <2>2. lapses = 0 /\ run[p].fresh =>
           answer \subseteq run[p].snapshot /\ run[p].snapshot \ answer \subseteq unresolved[Current]
    BY <2>1 DEF AnswerInvariant, LiveReadInv
  <2> HIDE DEF answer
  <2>3. /\ r.stage = "recheck" /\ r.answer = answer /\ r.snapshot = run[p].snapshot
        /\ r.pass = run[p].pass /\ r.fresh = run[p].fresh /\ HeldBy(r) \subseteq ever
    BY <1>0 DEF Runs, HeldBy
  <2> HIDE DEF r
  <2> QED BY <2>1, <2>2, <2>3, <1>a
<1>7. CASE RecheckActive(p)
  <2>1. CASE lock = NoOne
    <3> DEFINE r == [run[p] EXCEPT !.stage = "confirm"]
    <3>1. Become(p, r) /\ run[p].stage = "recheck"
      BY <1>7, <2>1 DEF RecheckActive, Goto
    <3>2. lapses = 0 /\ run[p].fresh =>
             /\ run[p].answer \subseteq run[p].snapshot
             /\ run[p].snapshot \ run[p].answer \subseteq unresolved[Current]
      BY <3>1 DEF AnswerInvariant, LiveReadInv
    <3>3. /\ r.stage = "confirm" /\ r.answer = run[p].answer /\ r.snapshot = run[p].snapshot
          /\ r.pass = run[p].pass /\ r.fresh = run[p].fresh /\ HeldBy(r) \subseteq ever
      BY <1>0, OtherStage
    <3> HIDE DEF r
    <3> QED BY <3>1, <3>2, <3>3, <1>a
  <2>2. CASE lock # NoOne
    BY <1>1, <1>7, <2>2, RetryIsCalm, CalmStep DEF RecheckActive
  <2> QED BY <2>1, <2>2
<1>8. CASE RecheckRevision(p)
  <2>1. \E r : Become(p, r) /\ Calm(r)
    BY <1>8, RetryIsCalm, IdleIsCalm DEF RecheckRevision, Leave
  <2> QED BY <1>1, <2>1, CalmStep
<1> QED BY <1>3, <1>4, <1>5, <1>6, <1>7, <1>8

\* Published reads are calm: they know about the generation they read only.
LEMMA PublishedReadingAnswers ==
  ASSUME IndexInvariant, AnswerInvariant, NEW p \in Processes,
         ReadState(p) \/ ReadTotal(p) \/ ReadPage(p) \/ CheckState(p)
  PROVE  AnswerInvariant'
<1> USE DEF sourceVars, indexVars, boundVars
<1>0. /\ lapses = 0 => run[p].pass # "final"
      /\ HeldBy(run[p]) \subseteq ever /\ run[p] \in Runs
  BY OutsideIsCalm DEF ReadState, ReadTotal, ReadPage, CheckState, LockedStages
<1>1. UNCHANGED AnswerVars
  BY DEF ReadState, ReadTotal, ReadPage, CheckState, AnswerVars
<1>2. \E r : Become(p, r) /\ Calm(r)
  <2>1. Calm([run[p] EXCEPT !.working = published, !.fresh = TRUE, !.stage = "total"])
    BY <1>0 DEF Calm, HeldBy, Runs
  <2>2. Calm([run[p] EXCEPT !.total = projection[run[p].working], !.stage = "page"])
    BY <1>0 DEF Calm, HeldBy, Runs
  <2>3. Calm([run[p] EXCEPT !.answer = projection[run[p].working], !.stage = "check"])
    BY <1>0 DEF Calm, HeldBy, Runs
  <2> QED BY <2>1, <2>2, <2>3, IdleIsCalm DEF ReadState, ReadTotal, ReadPage, CheckState, Leave
<1> QED BY <1>1, <1>2, CalmStep

\* Horizon adds jobs that are new, and drops others; hashes expire for good.
LEMMA EnvironmentAnswers ==
  ASSUME IndexInvariant, AnswerInvariant,
         (\E id \in Ids : Retain(id) \/ Trim(id) \/ LoseHash(id)) \/ ExpireLock
  PROVE  AnswerInvariant'
<1> USE DEF indexVars, sourceVars, boundVars
<1>1. /\ UNCHANGED <<metadata, projection, unresolved, published, run>>
      /\ ever \subseteq ever' /\ hashless \subseteq hashless'
      /\ source' \subseteq ever' /\ source' \cap ever \subseteq source
  BY DEF Retain, Trim, LoseHash, ExpireLock, AnswerInvariant, RetainedInv
<1>2. lapses' = 0 => lapses = 0
  BY DEF Retain, Trim, LoseHash, ExpireLock, IndexInvariant, TypeOK
<1>3. RetainedInv'
  BY <1>1 DEF AnswerInvariant, RetainedInv
<1>4. lapses' = 0 => UnresolvedInv'
  BY <1>1, <1>2 DEF AnswerInvariant, UnresolvedInv
<1>5. ASSUME lapses' = 0, NEW p \in Processes PROVE SnapshotInv(p)' /\ LiveReadInv(p)'
  <2>1. SnapshotInv(p) /\ LiveReadInv(p)
    BY <1>2, <1>5 DEF AnswerInvariant
  <2>2. published \in {"a", "b"} => projection[published] \cap source' \subseteq projection[published] \cap source
    BY <1>1 DEF AnswerInvariant, RetainedInv, Generations
  <2>3. SnapshotInv(p)'
    BY <1>1, <2>1, <2>2 DEF SnapshotInv, Gap
  <2>4. LiveReadInv(p)'
    BY <1>1, <2>1 DEF LiveReadInv, Current
  <2> QED BY <2>3, <2>4
<1> QED BY <1>3, <1>4, <1>5 DEF AnswerInvariant

\* Every step.
LEMMA AnswerNext == IndexInvariant /\ AnswerInvariant /\ [Next]_vars => AnswerInvariant'
<1> SUFFICES ASSUME IndexInvariant, AnswerInvariant, [Next]_vars PROVE AnswerInvariant'
  OBVIOUS
<1>1. ASSUME NEW p \in Processes, Step(p) PROVE AnswerInvariant'
  BY <1>1, InspectionAnswers, WorkingAnswers, AdditionAnswers, RemovalAnswers, VerificationAnswers,
     PublicationAnswers, EndingAnswers, LiveReadingAnswers, PublishedReadingAnswers
     DEF Step, Synchronization, Reading
<1>2. CASE Environment
  BY <1>2, EndingAnswers, EnvironmentAnswers DEF Environment
<1>3. CASE UNCHANGED vars
  BY <1>3 DEF AnswerInvariant, RetainedInv, UnresolvedInv, SnapshotInv, LiveReadInv, Gap, Current,
              vars, sourceVars, indexVars, boundVars
<1> QED BY <1>1, <1>2, <1>3 DEF Next

\* What is unresolved stays without hash and metadata, what is published covers
\* the snapshot, and a live read leaves out unresolved references only, as long as
\* no lock runs out under its holder (hydrateAndStore, publishWorkingGeneration,
\* withCandidateKey).
THEOREM AnswerInvariantHolds == Spec => []AnswerInvariant
  BY IndexInvariantHolds, AnswerInit, AnswerNext, PTL DEF Spec

\* withCandidateKey: a live read that is not rejected answers for the source as
\* it was when the call began, and leaves out only jobs that can no longer be
\* hydrated, whatever was published, replaced or trimmed in between.
THEOREM LiveReadsHold == Spec => []LiveReadsAreComplete
<1>1. IndexInvariant /\ AnswerInvariant => LiveReadsAreComplete
  <2> SUFFICES ASSUME IndexInvariant, AnswerInvariant, NEW p \in Processes,
                      run[p].stage = "confirm", run[p].fresh, lapses = 0
               PROVE  /\ run[p].answer \subseteq run[p].snapshot
                      /\ run[p].snapshot \ run[p].answer \subseteq hashless \ metadata
    BY DEF LiveReadsAreComplete
  <2>1. Current \in Generations
    BY DEF Current, IndexInvariant, TypeOK, Generations
  <2>2. LiveReadInv(p) /\ UnresolvedInv
    BY DEF AnswerInvariant
  <2> QED BY <2>1, <2>2 DEF LiveReadInv, UnresolvedInv
<1> QED BY <1>1, IndexInvariantHolds, AnswerInvariantHolds, PTL

\* publishWorkingGeneration: a generation reconciled with a source read under
\* the lock replaces the published one without losing a job that is retained.
THEOREM PublicationKeepsRetained == Spec => RetainedJobsStayListed
<1>1. ASSUME IndexInvariant, AnswerInvariant, [Next]_vars, NEW p \in Processes,
             run[p].stage = "publish", run[p].pass = "final", run'[p].stage = "release",
             lapses' = 0, published \in {"a", "b"}
      PROVE  projection[published] \cap source' \subseteq (projection[published])'
  <2>1. run \in [Processes -> Runs] /\ lapses \in Nat
    BY <1>1 DEF IndexInvariant, TypeOK
  <2>2. ASSUME NEW q \in Processes \ {p}, Step(q) \/ Abort(q) PROVE run'[p].stage = "publish"
    <3>1. CASE \E r : Become(q, r)
      <4>1. PICK r : Become(q, r)
        BY <3>1
      <4> QED BY <1>1, <2>2, <4>1, Became
    <3>2. CASE Publish(q) \/ PublishLegacy(q)
      <4>1. run'[p] = [run[p] EXCEPT !.fresh = FALSE]
        BY <2>2, <3>2 DEF Publish, PublishLegacy, PublishState
      <4> QED BY <1>1, <2>1, <4>1 DEF Runs
    <3>3. \/ \E r : Become(q, r)
          \/ Publish(q) \/ PublishLegacy(q)
      <4>a. Leave(q) \/ Inconsistent(q) \/ Retry(q) \/ (\E s : Goto(q, s)) \/ (\E r : Beat(q, r)) =>
               \E r : Become(q, r)
        BY Zenon DEF Leave, Inconsistent, Retry, Goto, Beat
      <4>1. CASE Inspection(q)
        BY <4>1, <4>a, Zenon DEF Inspection, Warm, Synchronize, ReadLive, InspectCoverage, InspectCounts, Refresh,
           Acquire
      <4>2. CASE Synchronization(q)
        BY <4>2, <4>a, Zenon DEF Synchronization, Prepare, Wipe, Initialize, Diff, Hydrate, Write, Added, Remove,
           PruneCatalogs, Removed, DropReferences, Rebuild, Verify, VerifyThen, RefreshUnderLock,
           Release, EnsureRevision
      <4>3. CASE Reading(q)
        BY <4>3, <4>a, Zenon DEF Reading, ReadRevision, CheckActive, ProveCoverage, Query, RecheckActive,
           RecheckRevision, ReadState, ReadTotal, ReadPage, CheckState
      <4>4. CASE Abort(q)
        BY <4>4, <4>a, Zenon DEF Abort
      <4> QED BY <2>2, <4>1, <4>2, <4>3, <4>4 DEF Step
    <3> QED BY <3>1, <3>2, <3>3
  <2>3. Step(p)
    <3>1. ~ UNCHANGED run
      BY <1>1
    <3>2. ~ (\E id \in Ids : Retain(id) \/ Trim(id) \/ LoseHash(id)) /\ ~ ExpireLock
      BY <3>1 DEF Retain, Trim, LoseHash, ExpireLock
    <3>3. ~ Abort(p)
      BY <1>1, IdleFields, Became DEF Abort, Leave
    <3>4. ~ UNCHANGED vars
      BY <3>1 DEF vars
    <3> QED BY <1>1, <2>2, <3>2, <3>3, <3>4 DEF Next, Environment
  <2>4. Publish(p)
    BY <1>1, <2>3 DEF Step, Inspection, Synchronization, Reading, Warm, Synchronize, ReadLive,
       InspectCoverage, InspectCounts, Refresh, Acquire, Prepare, Wipe, Initialize, Diff, Hydrate,
       Write, Added, Remove, PruneCatalogs, Removed, DropReferences, Rebuild, Verify, VerifyThen,
       RefreshUnderLock, Release, EnsureRevision, PublishLegacy, ReadRevision, CheckActive,
       ProveCoverage, Query, RecheckActive, RecheckRevision, ReadState, ReadTotal, ReadPage, CheckState
  <2>5. /\ published' = run[p].working /\ projection' = projection /\ source' = source
        /\ lapses = 0
    BY <1>1, <2>4 DEF Publish, PublishState, sourceVars, boundVars
  <2>6. /\ SnapshotInv(p) /\ UnresolvedInv /\ RetainedInv
        /\ run[p].working \in Generations /\ published \in Generations
    BY <1>1, <2>1, <2>5 DEF AnswerInvariant, Runs, Generations
  <2>7. run[p].snapshot \subseteq projection[run[p].working] \cup unresolved[run[p].working]
    BY <1>1, <2>6 DEF SnapshotInv, Gap
  <2>8. projection[published] \cap source \subseteq run[p].snapshot
    BY <1>1, <2>6 DEF SnapshotInv
  <2>9. projection[published] \cap source \subseteq metadata
    BY <2>6 DEF RetainedInv
  <2>10. unresolved[run[p].working] \cap metadata = {}
    BY <2>6 DEF UnresolvedInv
  <2> QED BY <2>5, <2>7, <2>8, <2>9, <2>10
<1>2. IndexInvariant /\ AnswerInvariant /\ [Next]_vars =>
        [\A p \in Processes :
           run[p].stage = "publish" /\ run[p].pass = "final" /\ run'[p].stage = "release"
             /\ lapses' = 0 /\ published \in {"a", "b"}
             => projection[published] \cap source' \subseteq (projection[published])']_vars
  BY <1>1
<1> QED BY IndexInvariantHolds, AnswerInvariantHolds, <1>2, PTL DEF Spec, RetainedJobsStayListed
=============================================================================
