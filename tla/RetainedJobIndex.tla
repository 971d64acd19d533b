--------------------------- MODULE RetainedJobIndex ---------------------------
(***************************************************************************)
(* The Redis projection of one retained-job source (RetainedJobIndex).     *)
(* Synchronizers diff a private snapshot of Horizon's source against a     *)
(* working generation of the index under an expiring lock, write it in     *)
(* chunks and publish it by one SET; readers use the published generation  *)
(* without the lock and check afterwards whether it moved.                 *)
(*                                                                         *)
(* A process runs one public call at a time: "warm" (synchronize, forced), *)
(* "synchronize", "live" (withCandidateKey) or "published"                 *)
(* (withPublishedCandidateKey).  The facets of a generation are written in *)
(* the transaction that writes its projection, so one set stands for both. *)
(* A step is a write to Redis with the heartbeat after it: a heartbeat     *)
(* that finds the token gone throws, whenever it was lost.  Trimming the   *)
(* source is Horizon's and may happen at any time (Trim).                  *)
(***************************************************************************)
EXTENDS Naturals, FiniteSets

CONSTANTS Ids,          \* retained job IDs, numbered by score
          Processes,    \* web requests and Artisan commands
          NoOne,        \* the lock key does not exist
          Kinds,        \* process -> the calls it makes
          Fragile,      \* bound: IDs whose job hash may expire early
          Trimmable,    \* bound: IDs Horizon may trim
          ChunkSize,    \* SOURCE_CHUNK_SIZE
          MaxMishaps    \* bound: aborts, failed releases, locks lost by holders

ASSUME IndexAssumption ==
    /\ Ids \subseteq Nat
    /\ NoOne \notin Processes
    /\ Kinds \in [Processes -> SUBSET {"warm", "synchronize", "live", "published"}]
    /\ Fragile \subseteq Ids
    /\ Trimmable \subseteq Ids
    /\ ChunkSize \in Nat \ {0}
    /\ MaxMishaps \in Nat

VARIABLES
    source,       \* Horizon's sorted set
    ever,         \* history: IDs that have been retained
    hashless,     \* IDs whose job hash has expired
    metadata,     \* IDs whose metadata is stored, for all generations
    projection,   \* generation -> its projection
    unresolved,   \* generation -> its unresolved references
    initialized,  \* generation -> whether its initialization key exists
    damaged,      \* generation -> whether a catalog value lost its facet
    published,    \* the generation of the published state, or "none"
    lock,         \* the process whose token is in the lock key
    run,          \* process -> the call it is running
    completed,    \* history: the projection last published
    mishaps,      \* aborts and failed releases so far
    lapses        \* locks lost by running holders so far

sourceVars == <<source, ever, hashless>>
indexVars  == <<metadata, projection, unresolved, initialized, damaged>>
boundVars  == <<mishaps, lapses>>
vars == <<sourceVars, indexVars, published, lock, run, completed, boundVars>>

Generations == {"legacy", "a", "b"}

\* POST_REBUILD_RECONCILIATION_ATTEMPTS, CANDIDATE_SYNCHRONIZATION_ATTEMPTS
ReconciliationAttempts == 2
ReadAttempts == 2

\* The stages a lock holder can be in.
LockedStages == {"prepare", "wipe", "initialize", "diff", "hydrate", "write", "remove",
                 "catalog", "drop", "verify", "growth", "publish", "release", "giveup"}
Stages == LockedStages \cup
          {"idle", "inspect", "count", "refresh", "acquire", "ensure", "legacy",
           "revision", "active", "prove", "query", "recheck", "confirm",
           "total", "page", "check"}
Passes == {"inspect", "again", "busy", "growing", "final", "only"}

Runs == [stage : Stages,
         live : BOOLEAN,              \* the call is withCandidateKey
         pass : Passes,
         snapshot : SUBSET Ids,       \* the source snapshot key
         working : Generations,       \* $workingGenerations
         base : Generations,          \* $publishedGeneration
         todo : SUBSET Ids,           \* the missing or stale key
         found : SUBSET Ids,          \* the hydrated part of the chunk
         surplus : BOOLEAN,           \* the counts show stale members
         references : BOOLEAN,        \* $unresolvedCount > 0
         round : 0 .. ReconciliationAttempts,
         attempt : 0 .. ReadAttempts - 1,
         fresh : BOOLEAN,             \* the state it read is still the published one
         total : SUBSET Ids,          \* what the callback's ZCARD counted
         answer : SUBSET Ids]         \* what its ZRANGE returned

Idle == [stage |-> "idle", live |-> FALSE, pass |-> "inspect", snapshot |-> {},
         working |-> "legacy", base |-> "legacy", todo |-> {}, found |-> {},
         surplus |-> FALSE, references |-> FALSE, round |-> 0, attempt |-> 0,
         fresh |-> FALSE, total |-> {}, answer |-> {}]

-----------------------------------------------------------------------------
(* Helpers.                                                                *)

\* ZRANGE key 0 SOURCE_CHUNK_SIZE-1
Chunk(S) == {x \in S : Cardinality({y \in S : y < x}) < ChunkSize}

\* currentGeneration, for a process that is not working on one.
Current == IF published = "none" THEN "legacy" ELSE published

\* source - projection - unresolved
Gap(S, g) == S \ (projection[g] \cup unresolved[g])

CountsMatch(S, g) ==
    Cardinality(projection[g]) + Cardinality(unresolved[g]) = Cardinality(S)

\* Something may still go wrong.
Mishap == mishaps + lapses < MaxMishaps

Become(p, next) == run' = [run EXCEPT ![p] = next]

Goto(p, stage) == Become(p, [run[p] EXCEPT !.stage = stage])

\* The call returns or throws.
Leave(p) == Become(p, Idle)

\* The heartbeat: go on with the call's new record, or throw.
Beat(p, next) == Become(p, IF lock = p THEN next ELSE Idle)

\* What follows synchronizedSourceSnapshot, which is over with record r.
Synchronized(r) ==
    IF r.live THEN [Idle EXCEPT !.stage = "revision", !.live = TRUE,
                                !.snapshot = r.snapshot, !.attempt = r.attempt]
    ELSE [Idle EXCEPT !.stage = "ensure"]

\* materializeSourceSnapshot, and what a call does with it first.
Materialized(r) == [r EXCEPT !.snapshot = source, !.stage = "inspect"]

\* continue: the next attempt of withCandidateKey, or its exception.
Retry(p) ==
    Become(p, IF run[p].attempt + 1 < ReadAttempts
              THEN Materialized([Idle EXCEPT !.live = TRUE, !.attempt = run[p].attempt + 1])
              ELSE Idle)

-----------------------------------------------------------------------------
Init ==
    /\ source \in SUBSET Ids
    /\ ever = source
    /\ hashless = {}
    /\ \/ published = "none" /\ completed = {}
       \/ published = "legacy" /\ completed = source
    /\ metadata = completed
    /\ projection = [g \in Generations |-> IF g = "legacy" THEN completed ELSE {}]
    /\ unresolved = [g \in Generations |-> {}]
    /\ initialized = [g \in Generations |-> FALSE]
    /\ damaged = [g \in Generations |-> FALSE]
    /\ lock = NoOne
    /\ run = [p \in Processes |-> Idle]
    /\ mishaps = 0
    /\ lapses = 0

-----------------------------------------------------------------------------
(* Finding out whether to synchronize.                                     *)

\* A forced call does not inspect.
Warm(p) ==
    /\ "warm" \in Kinds[p]
    /\ run[p].stage = "idle"
    /\ Become(p, [run[p] EXCEPT !.snapshot = source, !.pass = "growing", !.stage = "acquire"])
    /\ UNCHANGED <<sourceVars, indexVars, published, lock, completed, boundVars>>

Synchronize(p) ==
    /\ "synchronize" \in Kinds[p]
    /\ run[p].stage = "idle"
    /\ Become(p, Materialized(run[p]))
    /\ UNCHANGED <<sourceVars, indexVars, published, lock, completed, boundVars>>

ReadLive(p) ==
    /\ "live" \in Kinds[p]
    /\ run[p].stage = "idle"
    /\ Become(p, Materialized([run[p] EXCEPT !.live = TRUE]))
    /\ UNCHANGED <<sourceVars, indexVars, published, lock, completed, boundVars>>

\* The index is not consistent with the snapshot: take the lock, or fail if
\* it was busy already.
Inconsistent(p) ==
    Become(p, IF run[p].pass = "busy" THEN Idle
              ELSE [run[p] EXCEPT !.pass = IF @ = "inspect" THEN "growing" ELSE "only",
                                  !.stage = "acquire"])

\* indexIsConsistent, its coverage gap.
InspectCoverage(p) ==
    /\ run[p].stage = "inspect"
    /\ IF Gap(run[p].snapshot, Current) = {} THEN Goto(p, "count") ELSE Inconsistent(p)
    /\ UNCHANGED <<sourceVars, indexVars, published, lock, completed, boundVars>>

\* indexIsConsistent, its counts and the structure, which tells a damaged
\* generation only if the request asks for the facets concerned.
InspectCounts(p) ==
    /\ run[p].stage = "count"
    /\ \/ /\ CountsMatch(run[p].snapshot, Current)
          /\ Become(p, IF run[p].pass = "inspect" THEN [run[p] EXCEPT !.stage = "refresh"]
                       ELSE Synchronized(run[p]))
       \/ /\ ~ CountsMatch(run[p].snapshot, Current) \/ damaged[Current]
          /\ Inconsistent(p)
    /\ UNCHANGED <<sourceVars, indexVars, published, lock, completed, boundVars>>

\* refreshSourceSnapshot of an index found consistent, without the lock.
Refresh(p) ==
    /\ run[p].stage = "refresh"
    /\ Become(p, [run[p] EXCEPT !.snapshot = source, !.pass = "again", !.stage = "inspect"])
    /\ UNCHANGED <<sourceVars, indexVars, published, lock, completed, boundVars>>

Acquire(p) ==
    /\ run[p].stage = "acquire"
    /\ IF lock = NoOne
       THEN lock' = p /\ Goto(p, "prepare")
       ELSE /\ IF run[p].pass = "growing" THEN Leave(p)
               ELSE Become(p, [run[p] EXCEPT !.pass = "busy", !.stage = "inspect"])
            /\ UNCHANGED lock
    /\ UNCHANGED <<sourceVars, indexVars, published, completed, boundVars>>

-----------------------------------------------------------------------------
(* Under the lock: the working generation.                                 *)

\* Mutant of Prepare: there is only one slot besides the legacy keys.
PrepareOnlySlot(p) ==
    /\ run[p].stage = "prepare"
    /\ Become(p, [run[p] EXCEPT !.base = Current,
                                !.working = "a",
                                !.stage = IF initialized["a"] THEN "diff" ELSE "wipe"])
    /\ UNCHANGED <<sourceVars, indexVars, published, lock, completed, boundVars>>

\* prepareWorkingGeneration: the slot that is not published.
Prepare(p) ==
    LET g == IF Current = "a" THEN "b" ELSE "a"
    IN /\ run[p].stage = "prepare"
       /\ Become(p, [run[p] EXCEPT !.base = Current,
                                   !.working = g,
                                   !.stage = IF initialized[g] THEN "diff" ELSE "wipe"])
       /\ UNCHANGED <<sourceVars, indexVars, published, lock, completed, boundVars>>

\* deleteGeneration
Wipe(p) ==
    LET g == run[p].working
    IN /\ run[p].stage = "wipe"
       /\ projection' = [projection EXCEPT ![g] = {}]
       /\ unresolved' = [unresolved EXCEPT ![g] = {}]
       /\ initialized' = [initialized EXCEPT ![g] = FALSE]
       /\ damaged' = [damaged EXCEPT ![g] = FALSE]
       /\ Beat(p, [run[p] EXCEPT !.stage = "initialize"])
       /\ UNCHANGED <<sourceVars, metadata, published, lock, completed, boundVars>>

\* The unresolved references are inherited; initializeGeneration.
Initialize(p) ==
    LET g == run[p].working
    IN /\ run[p].stage = "initialize"
       /\ unresolved' = [unresolved EXCEPT ![g] = unresolved[run[p].base]]
       /\ initialized' = [initialized EXCEPT ![g] = TRUE]
       /\ Become(p, [run[p] EXCEPT !.base = "legacy", !.stage = "diff"])
       /\ UNCHANGED <<sourceVars, metadata, projection, damaged, published, lock, completed, boundVars>>

\* reconcileProjection, its counts, and the difference addMissingJobs takes.
Diff(p) ==
    LET g == run[p].working
        missing == Gap(run[p].snapshot, g)
    IN /\ run[p].stage = "diff"
       /\ Beat(p, [run[p] EXCEPT
            !.todo = missing,
            !.surplus = Cardinality(projection[g]) + Cardinality(unresolved[g])
                          + Cardinality(missing) > Cardinality(run[p].snapshot),
            !.references = unresolved[g] # {},
            !.stage = "hydrate"])
       /\ UNCHANGED <<sourceVars, indexVars, published, lock, completed, boundVars>>

\* hydrateAndStore: the stored metadata or getJobs for a chunk; references with
\* neither are recorded as unresolved if past the grace period, or left out.
Hydrate(p) ==
    LET g == run[p].working
        chunk == Chunk(run[p].todo)
        lost == hashless \ metadata
    IN /\ run[p].stage = "hydrate"
       /\ chunk # {}
       /\ \E old \in SUBSET (chunk \cap lost) :
            unresolved' = [unresolved EXCEPT ![g] = @ \cup old]
       /\ Beat(p, [run[p] EXCEPT !.found = chunk \ lost, !.stage = "write"])
       /\ UNCHANGED <<sourceVars, metadata, projection, initialized, damaged, published, lock,
                      completed, boundVars>>

\* hydrateAndStore: metadata, facets, catalogs and projection, in one transaction.
Write(p) ==
    LET g == run[p].working
    IN /\ run[p].stage = "write"
       /\ metadata' = metadata \cup run[p].found
       /\ projection' = [projection EXCEPT ![g] = @ \cup run[p].found]
       /\ unresolved' = [unresolved EXCEPT ![g] = @ \ run[p].found]
       /\ Beat(p, [run[p] EXCEPT !.todo = @ \ Chunk(@), !.found = {}, !.stage = "hydrate"])
       /\ UNCHANGED <<sourceVars, initialized, damaged, published, lock, completed, boundVars>>

\* A reconciliation is over.
Reconciled(r) == [r EXCEPT !.surplus = FALSE, !.references = FALSE, !.stage = "verify"]

\* Nothing is missing any more: removeStaleJobs, if the counts call for it.
Added(p) ==
    LET g == run[p].working
    IN /\ run[p].stage = "hydrate"
       /\ run[p].todo = {}
       /\ IF run[p].surplus
          THEN Become(p, [run[p] EXCEPT !.todo = projection[g] \ run[p].snapshot,
                                         !.stage = "remove"])
          ELSE Beat(p, Reconciled(run[p]))
       /\ UNCHANGED <<sourceVars, indexVars, published, lock, completed, boundVars>>

\* removeStaleChunk: the transaction ...
Remove(p) ==
    LET g == run[p].working
    IN /\ run[p].stage = "remove"
       /\ run[p].todo # {}
       /\ projection' = [projection EXCEPT ![g] = @ \ Chunk(run[p].todo)]
       /\ Goto(p, "catalog")
       /\ UNCHANGED <<sourceVars, metadata, unresolved, initialized, damaged, published, lock,
                      completed, boundVars>>

\* ... and pruning the catalogs of facets it emptied, and the metadata no
\* source retains.
PruneCatalogs(p) ==
    /\ run[p].stage = "catalog"
    /\ metadata' = metadata \ (Chunk(run[p].todo) \ source)
    /\ Beat(p, [run[p] EXCEPT !.todo = @ \ Chunk(@), !.stage = "remove"])
    /\ UNCHANGED <<sourceVars, projection, unresolved, initialized, damaged, published, lock,
                   completed, boundVars>>

\* No stale jobs are left: removeStaleUnresolvedReferences, if there were any.
Removed(p) ==
    LET g == run[p].working
    IN /\ run[p].stage = "remove"
       /\ run[p].todo = {}
       /\ IF run[p].references
          THEN Become(p, [run[p] EXCEPT !.todo = unresolved[g] \ run[p].snapshot,
                                         !.stage = "drop"])
          ELSE Beat(p, Reconciled(run[p]))
       /\ UNCHANGED <<sourceVars, indexVars, published, lock, completed, boundVars>>

DropReferences(p) ==
    LET g == run[p].working
        chunk == Chunk(run[p].todo)
    IN /\ run[p].stage = "drop"
       /\ unresolved' = [unresolved EXCEPT ![g] = @ \ chunk]
       /\ Beat(p, IF run[p].todo = chunk THEN Reconciled([run[p] EXCEPT !.todo = {}])
                  ELSE [run[p] EXCEPT !.todo = @ \ chunk])
       /\ UNCHANGED <<sourceVars, metadata, projection, initialized, damaged, published, lock,
                      completed, boundVars>>

\* indexStructureIsConsistent after the first reconciliation: rebuildTypeIndex.
Rebuild(p) ==
    LET g == run[p].working
    IN /\ run[p].stage = "verify"
       /\ run[p].round = 0
       /\ damaged[g]
       /\ projection' = [projection EXCEPT ![g] = {}]
       /\ unresolved' = [unresolved EXCEPT ![g] = {}]
       /\ damaged' = [damaged EXCEPT ![g] = FALSE]
       /\ Beat(p, [run[p] EXCEPT !.todo = run[p].snapshot, !.stage = "hydrate"])
       /\ UNCHANGED <<sourceVars, metadata, initialized, published, lock, completed, boundVars>>

\* indexIsConsistent under the lock; what it finds wrong is reconciled again as
\* long as more holds, then forgiven on the first pass over a growing source.
VerifyThen(p, more, round) ==
    LET g == run[p].working
        exact == Gap(run[p].snapshot, g) = {} /\ CountsMatch(run[p].snapshot, g)
        growing == run[p].pass = "growing"
    IN /\ run[p].stage = "verify"
       /\ \/ /\ exact
             /\ Beat(p, [run[p] EXCEPT !.stage = IF growing THEN "growth" ELSE "publish"])
          \/ /\ ~ exact \/ damaged[g]
             /\ Beat(p, IF more THEN [run[p] EXCEPT !.round = round, !.stage = "diff"]
                        ELSE [run[p] EXCEPT !.stage = IF growing THEN "growth" ELSE "giveup"])
       /\ UNCHANGED <<sourceVars, indexVars, published, lock, completed, boundVars>>

\* Mutant of Verify: the attempts are not limited.
VerifyForever(p) == VerifyThen(p, TRUE, 1)

\* synchronizeSnapshotUnderLock: two reconciliations after the first.
Verify(p) == VerifyThen(p, run[p].round < ReconciliationAttempts, run[p].round + 1)

\* Mutant of RefreshUnderLock: the snapshot stays the one taken before the lock.
ReconcileTwice(p) ==
    /\ run[p].stage = "growth"
    /\ Beat(p, [run[p] EXCEPT !.pass = "final", !.round = 0, !.stage = "diff"])
    /\ UNCHANGED <<sourceVars, indexVars, published, lock, completed, boundVars>>

\* The growing source: trim, refreshSourceSnapshot, and reconcile once more.
RefreshUnderLock(p) ==
    /\ run[p].stage = "growth"
    /\ Beat(p, [run[p] EXCEPT !.snapshot = source, !.pass = "final", !.round = 0,
                              !.stage = "diff"])
    /\ UNCHANGED <<sourceVars, indexVars, published, lock, completed, boundVars>>

\* A new published state: every state read before it is no longer current.
PublishState(p, g, next) ==
    /\ published' = g
    /\ run' = [q \in Processes |-> IF q = p THEN next ELSE [run[q] EXCEPT !.fresh = FALSE]]

\* publishWorkingGeneration.  Nothing compares the token here.  The metadata
\* only the replaced generation still refers to is deleted afterwards, unless
\* that fails, which is ignored.
Publish(p) ==
    /\ run[p].stage = "publish"
    /\ PublishState(p, run[p].working, [run[p] EXCEPT !.stage = "release"])
    /\ completed' = projection[run[p].working]
    /\ metadata' \in {metadata, metadata \ (projection[Current] \ (run[p].snapshot \cup source))}
    /\ UNCHANGED <<sourceVars, projection, unresolved, initialized, damaged, lock, boundVars>>

\* releaseSynchronizationLock: the script compares the token, its errors are
\* swallowed; then the call goes on, or throws what it was throwing.
Release(p) ==
    /\ run[p].stage \in {"release", "giveup"}
    /\ \/ lock' = (IF lock = p THEN NoOne ELSE lock) /\ UNCHANGED mishaps
       \/ Mishap /\ mishaps' = mishaps + 1 /\ UNCHANGED lock
    /\ IF run[p].stage = "release" THEN Become(p, Synchronized(run[p])) ELSE Leave(p)
    /\ UNCHANGED <<sourceVars, indexVars, published, completed, lapses>>

-----------------------------------------------------------------------------
(* ensureSynchronizationRevision: GET, and SET if there is no state.       *)

EnsureRevision(p) ==
    /\ run[p].stage = "ensure"
    /\ IF published = "none" THEN Goto(p, "legacy") ELSE Leave(p)
    /\ UNCHANGED <<sourceVars, indexVars, published, lock, completed, boundVars>>

PublishLegacy(p) ==
    /\ run[p].stage = "legacy"
    /\ PublishState(p, "legacy", Idle)
    /\ completed' = IF published = "none" THEN projection["legacy"] ELSE completed
    /\ UNCHANGED <<sourceVars, indexVars, lock, boundVars>>

-----------------------------------------------------------------------------
(* withCandidateKey, after synchronizing.                                  *)

ReadRevision(p) ==
    /\ run[p].stage = "revision"
    /\ Become(p, [run[p] EXCEPT !.fresh = TRUE, !.stage = "active"])
    /\ UNCHANGED <<sourceVars, indexVars, published, lock, completed, boundVars>>

CheckActive(p) ==
    /\ run[p].stage = "active"
    /\ IF lock = NoOne THEN Goto(p, "prove") ELSE Retry(p)
    /\ UNCHANGED <<sourceVars, indexVars, published, lock, completed, boundVars>>

\* inspectableSourceSnapshot: the intersection and its coverage proof, atomically.
ProveCoverage(p) ==
    /\ run[p].stage = "prove"
    /\ IF Gap(run[p].snapshot, Current) = {}
       THEN Become(p, [run[p] EXCEPT !.answer = run[p].snapshot \cap projection[Current],
                               !.stage = "query"])
       ELSE Retry(p)
    /\ UNCHANGED <<sourceVars, indexVars, published, lock, completed, boundVars>>

\* The candidate key: the intersection with a facet of the current generation.
Query(p) ==
    /\ run[p].stage = "query"
    /\ Become(p, [run[p] EXCEPT !.answer = @ \cap projection[Current], !.stage = "recheck"])
    /\ UNCHANGED <<sourceVars, indexVars, published, lock, completed, boundVars>>

\* Mutant of RecheckActive: the revision is read anew instead of compared.
RereadRevision(p) ==
    /\ run[p].stage = "recheck"
    /\ Become(p, [run[p] EXCEPT !.fresh = TRUE, !.stage = "confirm"])
    /\ UNCHANGED <<sourceVars, indexVars, published, lock, completed, boundVars>>

RecheckActive(p) ==
    /\ run[p].stage = "recheck"
    /\ IF lock = NoOne THEN Goto(p, "confirm") ELSE Retry(p)
    /\ UNCHANGED <<sourceVars, indexVars, published, lock, completed, boundVars>>

RecheckRevision(p) ==
    /\ run[p].stage = "confirm"
    /\ IF run[p].fresh THEN Leave(p) ELSE Retry(p)
    /\ UNCHANGED <<sourceVars, indexVars, published, lock, completed, boundVars>>

-----------------------------------------------------------------------------
(* withPublishedCandidateKey.                                              *)

\* Without a published state, RetainedJobIndexWarming.
ReadState(p) ==
    /\ "published" \in Kinds[p]
    /\ run[p].stage = "idle"
    /\ published # "none"
    /\ Become(p, [run[p] EXCEPT !.working = published, !.fresh = TRUE, !.stage = "total"])
    /\ UNCHANGED <<sourceVars, indexVars, published, lock, completed, boundVars>>

ReadTotal(p) ==
    /\ run[p].stage = "total"
    /\ Become(p, [run[p] EXCEPT !.total = projection[run[p].working], !.stage = "page"])
    /\ UNCHANGED <<sourceVars, indexVars, published, lock, completed, boundVars>>

ReadPage(p) ==
    /\ run[p].stage = "page"
    /\ Become(p, [run[p] EXCEPT !.answer = projection[run[p].working], !.stage = "check"])
    /\ UNCHANGED <<sourceVars, indexVars, published, lock, completed, boundVars>>

\* Unless the state is still the one it read, RetainedJobIndexWarming.
CheckState(p) ==
    /\ run[p].stage = "check"
    /\ Leave(p)
    /\ UNCHANGED <<sourceVars, indexVars, published, lock, completed, boundVars>>

-----------------------------------------------------------------------------
(* Horizon, Redis and failures.                                            *)

Retain(id) ==
    /\ id \notin ever
    /\ ever' = ever \cup {id}
    /\ source' = source \cup {id}
    /\ UNCHANGED <<hashless, indexVars, published, lock, run, completed, boundVars>>

Trim(id) ==
    /\ id \in source \cap Trimmable
    /\ source' = source \ {id}
    /\ UNCHANGED <<ever, hashless, indexVars, published, lock, run, completed, boundVars>>

\* A job hash expires, maybe before the reference to it.
LoseHash(id) ==
    /\ id \in (ever \cap Fragile) \ hashless
    /\ hashless' = hashless \cup {id}
    /\ UNCHANGED <<source, ever, indexVars, published, lock, run, completed, boundVars>>

\* SYNCHRONIZATION_LOCK_SECONDS without a heartbeat.
ExpireLock ==
    /\ lock # NoOne
    /\ lock' = NoOne
    /\ IF run[lock].stage \in LockedStages
       THEN Mishap /\ lapses' = lapses + 1
       ELSE UNCHANGED lapses
    /\ UNCHANGED <<sourceVars, indexVars, published, run, completed, mishaps>>

\* The process dies, which leaves its lock, or a call throws, which releases
\* it.  Between a removal and the pruning after it, a catalog stays behind.
Abort(p) ==
    /\ run[p].stage # "idle"
    /\ Mishap
    /\ mishaps' = mishaps + 1
    /\ Leave(p)
    /\ lock' \in {lock, IF lock = p THEN NoOne ELSE lock}
    /\ damaged' = IF run[p].stage = "catalog"
                  THEN [damaged EXCEPT ![run[p].working] = TRUE] ELSE damaged
    /\ UNCHANGED <<sourceVars, metadata, projection, unresolved, initialized, published,
                   completed, lapses>>

-----------------------------------------------------------------------------
Inspection(p) ==
    \/ Warm(p)
    \/ Synchronize(p)
    \/ ReadLive(p)
    \/ InspectCoverage(p)
    \/ InspectCounts(p)
    \/ Refresh(p)
    \/ Acquire(p)

Synchronization(p) ==
    \/ Prepare(p)
    \/ Wipe(p)
    \/ Initialize(p)
    \/ Diff(p)
    \/ Hydrate(p)
    \/ Write(p)
    \/ Added(p)
    \/ Remove(p)
    \/ PruneCatalogs(p)
    \/ Removed(p)
    \/ DropReferences(p)
    \/ Rebuild(p)
    \/ Verify(p)
    \/ RefreshUnderLock(p)
    \/ Publish(p)
    \/ Release(p)
    \/ EnsureRevision(p)
    \/ PublishLegacy(p)

Reading(p) ==
    \/ ReadRevision(p)
    \/ CheckActive(p)
    \/ ProveCoverage(p)
    \/ Query(p)
    \/ RecheckActive(p)
    \/ RecheckRevision(p)
    \/ ReadState(p)
    \/ ReadTotal(p)
    \/ ReadPage(p)
    \/ CheckState(p)

Environment ==
    \/ \E id \in Ids : Retain(id) \/ Trim(id) \/ LoseHash(id)
    \/ ExpireLock
    \/ \E p \in Processes : Abort(p)

Step(p) == Inspection(p) \/ Synchronization(p) \/ Reading(p)

Next ==
    \/ \E p \in Processes : Step(p)
    \/ Environment

Spec == Init /\ [][Next]_vars

\* PHP runs a call to its end, and Redis expires the key of a dead holder.
Fairness ==
    /\ \A p \in Processes : WF_vars(run[p].stage # "idle" /\ Step(p))
    /\ WF_vars(ExpireLock)

FairSpec == Spec /\ Fairness

-----------------------------------------------------------------------------
(* Properties.                                                             *)

\* The state has the types the code gives it.
TypeOK ==
    /\ source \subseteq Ids
    /\ ever \subseteq Ids
    /\ hashless \subseteq Ids
    /\ metadata \subseteq Ids
    /\ projection \in [Generations -> SUBSET Ids]
    /\ unresolved \in [Generations -> SUBSET Ids]
    /\ initialized \in [Generations -> BOOLEAN]
    /\ damaged \in [Generations -> BOOLEAN]
    /\ published \in Generations \cup {"none"}
    /\ lock \in Processes \cup {NoOne}
    /\ run \in [Processes -> Runs]
    /\ completed \subseteq Ids
    /\ mishaps \in Nat
    /\ lapses \in Nat

\* Synchronizers never touch what readers are reading: while no lock has run
\* out under its holder, the published generation is exactly the projection
\* the last synchronization completed.  (ensureSynchronizationRevision can put
\* the legacy state back, which the generations "a" and "b" are immune to.)
PublishedIsStable ==
    lapses = 0 /\ published \in {"a", "b"} => projection[published] = completed

\* A published read that is not rejected saw the last completed projection,
\* in all its round trips, although it took no lock.
PublishedReadsAreWhole ==
    \A p \in Processes :
        run[p].stage = "check" /\ run[p].fresh /\ lapses = 0 /\ published \in {"a", "b"}
            => run[p].total = completed /\ run[p].answer = completed

\* A live read that is not rejected answers for a source that was retained
\* when it began: nothing else, and all of it that could ever be hydrated,
\* whatever was published, replaced or trimmed in between.
LiveReadsAreComplete ==
    \A p \in Processes :
        run[p].stage = "confirm" /\ run[p].fresh /\ lapses = 0 =>
            /\ run[p].answer \subseteq run[p].snapshot
            /\ run[p].snapshot \ run[p].answer \subseteq hashless \ metadata

\* Replacing the published projection drops no job that is still retained, as
\* long as the replacement was reconciled with a source read under the lock
\* (the other ones are checked apart).
RetainedJobsStayListed ==
    [][\A p \in Processes :
        run[p].stage = "publish" /\ run[p].pass = "final" /\ run'[p].stage = "release"
            /\ lapses' = 0 /\ published \in {"a", "b"}
            => projection[published] \cap source' \subseteq (projection[published])']_vars

\* Why the published generation is stable: everybody in a locked stage holds
\* the lock, whoever writes writes to a slot that is not published, and a reader
\* whose state is current has read what was completed.
HolderInv(p) == run[p].stage \in LockedStages => lock = p

WorkingInv(p) ==
    run[p].stage \in LockedStages \ {"prepare", "release", "giveup"} =>
        run[p].working \in {"a", "b"} /\ run[p].working # published

ReaderInv(p) ==
    run[p].fresh /\ run[p].stage \in {"total", "page", "check"} =>
        /\ run[p].working = published
        /\ published \in {"a", "b"} =>
            /\ run[p].stage \in {"page", "check"} => run[p].total = completed
            /\ run[p].stage = "check" => run[p].answer = completed

\* The inductive invariant of the index, as long as no lock has run out.
IndexInvariant ==
    /\ TypeOK
    /\ PublishedIsStable
    /\ lapses = 0 => \A p \in Processes : HolderInv(p) /\ WorkingInv(p) /\ ReaderInv(p)

\* Only what has been retained is in the index, and the metadata of a job that
\* is retained still outlives every generation that lists it.
RetainedInv ==
    /\ source \subseteq ever
    /\ \A g \in Generations :
        /\ projection[g] \cup unresolved[g] \subseteq ever
        /\ projection[g] \cap source \subseteq metadata
    /\ \A p \in Processes : run[p].snapshot \cup run[p].todo \cup run[p].found \subseteq ever

\* An unresolved reference has neither its hash nor its metadata.
UnresolvedInv == \A g \in Generations : unresolved[g] \subseteq hashless \ metadata

\* What a lock holder knows: what it is about to write is unresolved in no
\* generation, what it is about to publish covers its snapshot, and a snapshot
\* of a source read under the lock has all the published jobs still retained.
SnapshotInv(p) ==
    /\ run[p].stage = "write" =>
        \A g \in Generations : run[p].found \cap unresolved[g] = {}
    /\ run[p].stage = "publish" => Gap(run[p].snapshot, run[p].working) = {}
    /\ run[p].pass = "final" =>
        /\ run[p].stage \in LockedStages \ {"prepare"}
        /\ run[p].stage \notin {"release", "giveup"} /\ published \in {"a", "b"} =>
            projection[published] \cap source \subseteq run[p].snapshot

\* What a live read knows as long as its revision is current: the generation
\* has not changed since its coverage was proved, so that the answer leaves out
\* unresolved references only.
LiveReadInv(p) ==
    run[p].fresh /\ run[p].stage \in {"query", "recheck", "confirm"} =>
        /\ run[p].answer \subseteq run[p].snapshot
        /\ run[p].snapshot \ run[p].answer \subseteq unresolved[Current]
        /\ run[p].stage = "query" => run[p].answer \subseteq projection[Current]

\* The inductive invariant of the answers, on top of IndexInvariant.
AnswerInvariant ==
    /\ RetainedInv
    /\ lapses = 0 => UnresolvedInv /\ \A p \in Processes : SnapshotInv(p) /\ LiveReadInv(p)

\* Nobody is locked out for good: a synchronizer that dies, hangs or fails
\* leaves the lock to the next one.
LockIsFreed == lock # NoOne ~> lock = NoOne
=============================================================================
