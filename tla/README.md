# A verification of Horizon New Dawn

Horizon New Dawn replaces the dashboard of Laravel Horizon: a PHP package that
reads and changes what Horizon keeps in Redis, and a React interface over it.
This directory holds TLA+ modules of the parts whose correctness depends on
what several processes do in which order, TLC configurations that check them on
small instances, and TLAPS proofs for every instance. Paths below are relative
to the repository.

## 1. The system

Horizon itself, the browser, Inertia's router, Laravel's queue, its failed-job provider, its batch repository
and Redis are outside the repository: they are modelled only as far as
`src/` uses them, and those definitions are marked external in `PROJECT.json`.

| Component | State it keeps | Operations | What is hard, and what makes it correct |
|---|---|---|---|
| Bulk operation protocol, `src/BulkOperations` | per operation a sorted set of targets and a `:meta` hash with a counter, both with an idle expiry; queue jobs that carry an operation ID | create a snapshot, next chunk, add affected, acknowledge, has more, finish, renew; dispatch, continue, complete, fail | no lock: retried and continued jobs may run the same operation at once, a worker may die between any two round trips, keys may expire under a continuation. No target is dropped unprocessed, nothing outside the snapshot is touched, completion and totals are true, every operation ends |
| Clear failed jobs, `src/FailedJobs/Actions/ClearFailedJobs.php` | Horizon's record and the provider's record of a failed job | process a chunk | two stores deleted in two calls, jobs that go on failing. Acknowledged means gone from both |
| Retry one failed job, `src/FailedJobs` | a Redis lock per job with a token and 60 s; the retry references on the job | handle, handleBulk, eligibility, lock, release | several processes, lock expiry, death between the push and its record. At most one retry that may succeed; a bulk retry only touches leaves |
| Retry all failed jobs | the two above | process a chunk | chunks hydrated before they are retried, targets locked by somebody else. Counted means scheduled |
| Monitored tags, `src/Monitoring` | Horizon's tag sorted sets | retry failed, clear recent, monitor, stop | a page is removed before it is counted; monitoring may stop between chunks |
| Pending jobs, `src/Jobs/Actions` | the queue's ready, delayed and reserved structures, Horizon's job hashes, unique locks, batch counters | cancel one, cancel all, release now, clear | every operation races the worker that takes the job; two structures change in separate steps, with a compensation |
| Queues, `src/Queues` | Laravel's pause flag and the package's displayed deadline; the queue and Horizon's metadata | pause, resume, status, clear, purge metadata | two keys written and read in separate steps; a cursor walk over a set that changes |
| Batches, `src/Batches` | Laravel's batch rows, columns the package adds | cancel, retry, retry all of a queue, clear, synchronize metadata | classification and deletion are separate; lineages of retried jobs |
| Retained job index, `src/Jobs/RetainedJobIndex.php` | per generation a projection, facets, catalogs, unresolved references and an initialization key; metadata shared by generations; a published state; a lock with a token | synchronize, warm, live reads, published reads | no reader takes the lock; a crash leaves a half-written slot; the source grows, is trimmed and loses hashes under the writer. Readers see one complete projection, retained jobs stay listed, the lock is given back |
| Retained job queries, `src/Jobs/RetainedJobQuery.php`, `RetainedJobCursor.php`, `RetainedJobFilterCatalog.php` | cursors in URLs | page, count, facet | positions inside groups of equal scores while the set changes |
| Pending job states, `src/Jobs/PendingJobStateIndex.php` | a temporary classification | classify | three structures read one after another |
| Read models (dashboard, metrics, lists) | none | read and shape | none of their own |
| Process control, `src/Instances`, `src/Supervisors` | Horizon's command queues | pause, continue, terminate | a command is accepted long before its effect shows |
| Asset publication, `src/Assets` | a build directory, staging and backup directories | publish, recover, sweep | a deployment dies between two renames, deployments overlap, abandoned directories are recognized by age |
| Process transitions, `resources/js/hooks/use-process-transitions.ts` and the tables of instances and supervisors | pending transitions with tokens and deadlines; commands that wait for a response | begin, succeed, fail, abort, expire, reconcile with a refresh | a command is accepted long before Horizon obeys it; answers of refreshes overtake each other, one timeout serves all deadlines. No transition is lost, doubled or endless |
| Action menus and dialogs, `resources/js/components/**/*-actions*.tsx` | per menu the dialog that is open, its target and what it works at | offer, ask, confirm, dismiss, send, terminate | one foreground visit of the browser serves all menus: one interrupts the other; rows and menus leave under a refresh. A menu is disabled exactly while its request is under way |
| Automatic refresh, `use-auto-load.ts`, `auto-refresh-status.ts`, `inertia-request-coordination.ts` | the rows, their baseline revision, whether history is browsed, the requests under way, the status | poll, toggle, load new entries or the next page, visit | four kinds of requests run beside each other and answer in any order. The status is true, no list stays visibly behind without a notice |
| Query controls, `use-job-query-controls.ts`, `use-job-filter-catalog-refresh.ts`, the list pages | a draft of search and filters, the last submission, a debounce, the order | type, filter, sort, change tabs, submit, adopt an answer | late answers against newer edits; polls and commands that carry an old address. No late answer undoes a selection |
| Tables, `use-sortable-rows.ts` and the tables | none beyond the order | filter, sort, partition rows | equal, missing and reserved rows. Every row once, in the stated order |
| Queue page and shell, `pages/queues/show.tsx`, `queue-overview.tsx`, `use-scheduled-job-clock.ts`, `use-navigation-counts.tsx` | tab, view, rows, summary, last known numbers, charts, counts, a clock | choose a tab or a view, open, refresh, load the charts, release delayed jobs on the clock | parts of the page are answered separately and late. The address names what is shown |
| Detail pages and presentation | a preference at most | render | none of their own |
| HTTP layer and components | nothing that outlives a request | route, validate, render | none of their own |
| Release tooling, `scripts` | files in the repository | synchronize upstream | not part of the running program |

How they interact: a controller either calls an action directly or dispatches a
bulk job (`BulkOperationDispatcher`). Bulk jobs run on Horizon's own queue, one
chunk each, call the same actions and dispatch their successors. Bulk retries and
single retries meet in the per-job lock; clears meet Horizon in the stores;
readers meet synchronizers in the published state; the interface meets all of
them through polls. `PROJECT.json` lists the hazards line by line.

## 2. The modules

| Module | Models | Extends or instantiates |
|---|---|---|
| `BulkOperation` | `BulkOperationSnapshot`, `BulkOperationJob`, the queue's side of a bulk job | |
| `ClearFailedJobs` | `ClearFailedJobs::processChunk` with its two stores | extends `BulkOperation` |
| `PointInTimeOperation` | the promise: an operation fixes its targets at one instant, each of them leaves once | instantiated by `ClearFailedJobs` |
| `FailedJobRetry` | `RetryFailedJob`, `FailedJobRetryLock`, `FailedJobRetryEligibility`, Horizon's retry | |
| `RetryAllFailedJobs` | `RetryAllFailedJobs::processChunk` | extends `BulkOperation` and `FailedJobRetry` |
| `RetainedJobIndex` | synchronization, publication and both kinds of reads | |
| `PendingJobs` | the pending-job actions and the queue actions, next to Horizon's workers | |
| `JobLifecycle` | the promise: a job comes once, waits, is taken, given back or ended, and only a waiting one is cancelled or cleared, at one instant and for good | instantiated by `PendingJobs` |
| `ProcessTransitions` | the transition hook, its requests, its deadlines and the pages that poll for it | |
| `ActionMenus` | every menu and dialog that sends a command, and the visit they share | |
| `ListRefresh` | one list under automatic refresh | |
| `ListTables` | filtering and ordering of the rows of each table, as pure operators | |
| `QueryControls` | search, filters, tabs, order and the filter catalog of the list pages | extends `ListTables` |
| `QueuePage` | the page of one queue inside the shell | |
| `*_proofs` | theorems about the module they are named after; those of `RetryAllFailedJobs_proofs` are also about `FailedJobRetry`, those of `Refresh_proofs` about `ProcessTransitions` and `ListRefresh` | extend it, `TLAPS` and library theorems |
| `MC*` | instances for TLC: symmetry, value definitions | extend the module |

Conventions. A step is one Redis round trip, one Lua script or one transaction,
or several round trips no other process can tell apart; the order of the steps of
a call is kept in a variable per process (`pc`, `stage`). History variables are
marked as such where they are declared, and no action reads them. Crashes are
actions that may strike between any two steps. Mutant operators stand before the
definition they distort and say so; nothing else uses them.

### BulkOperation and ClearFailedJobs

`targets`, `meta`, `affected` and `idleTtl` are the two keys of
`BulkOperationSnapshot`; `bulkQueue` and `bulkFailed` count the bulk jobs that
carry an operation ID (or none, the coordinators), because two jobs with one
payload cannot be told apart. A worker's `pc` is its place in
`processChunk`: capture (`createFromSortedSet`), initialize (`initializeMeta`,
first `renew`), peek (`nextChunk`), mutate and forget (what is done to a
target), count and increment (`addAffected`: the existence check and the
increment are two round trips), acknowledge, decide (`hasMore`), total and
cleanup (`finish`), report, continue, delete. `Interrupt` is a killed worker or
a throwing call: jobs have one try, so both end as a failed job, which
`RetryBulkJob` may requeue with the payload it had. `ExpireSnapshot` needs a
snapshot no worker holds: the TTL is a week, a chunk takes seconds.

### FailedJobRetry and RetryAllFailedJobs

A process's `stage` follows `RetryFailedJob::handleWithPolicy` and Horizon's
`RetryFailedJob` command: take the lock, read the job and decide eligibility,
find it again, push the retry under a new ID, record it on the parent, release.
`ExpireLock` may strike a live holder, which is remembered in a history
variable; the safety property is stated up to it. Eligibility is computed from
what is recorded on the job, not from the truth: `RetriesAreSequential` is about
the difference. A job of `Malformed` has a payload or a `retried_by` that does not
decode: nobody may retry it, and a bulk retry acknowledges it unretried. In
`RetryAllFailedJobs` a worker is also a process of the retry protocol, and users
retry single jobs beside it.

### RetainedJobIndex

`run[p]` is the local state of the call process `p` is in. Facets and catalogs
are written in the transaction that writes the projection, so one set stands for
them; that a crash between a removal and its catalog pruning leaves a catalog
entry behind is kept as `damaged`. Generations are `legacy` (keys from before
generations) and the two slots `a` and `b`. The heartbeat after each write
(`Beat`) is where a holder notices that its token is gone; `Publish` and `Wipe`
do not look. `Retain`, `Trim` and `LoseHash` are Horizon and Redis.

### PendingJobs

One queue, seen from `CancelPendingJob`, `ReleaseDelayedJobNow` and `ClearQueue`.
A payload is the job and a number that changes whenever the payload does (each
attempt, and the `madeAvailableAt` mark), because all three find a job in its
queue by the payload they read earlier. `call[c].place` is where a call stands:
`remove` (`removeFromQueue`), `locks`, `command` and `forget` (`cleanUp`: the lock
that the context of the payload names, for the jobs of `Named`, then that of the
command, for those of `Decoded`, then the record), `move`, `migrate`
and `rollback` (the move to the ready list, Horizon's record of it, the
compensation), `purge` (the cursor walk of `ClearQueueMetadata`). Refusals change
nothing and end the call. The walk returns any members it meets and has ended
only when every member that stayed in the set was returned, which is what Redis
promises. `Push`, `MigrateDue`, `Pop`, `MarkReserved`, `EndJob` and `ReleaseBack`
are Laravel and Horizon. The notify list, the expiry of unique locks,
`ShouldBeUniqueUntilProcessing`, debounce locks, and reserved jobs that time out
are left out; all unique jobs share one lock. `robbed` is history: the jobs whose lock
was released by force on account of another.

### ProcessTransitions

`transition` is the reference the hook writes at once, `rendered` what the last
render saw, `timer` the one timeout of the page: the code reads sometimes one and
sometimes the other, and so do the guards. `Start` is `run` of the instance and
supervisor tables with `onInstanceTransition` or `onSupervisorTransition` inside;
`Succeed`, `Fail` and `Abort` are the ends of `requestHorizonCommand`; `Answer`
brings a refresh and reconciles; `Expire` is the timeout. Deadlines are the time
left to them, `Tick` counts down and lets what is due go first. Horizon's own
processes change by `Change`, with or without a command.

### ActionMenus

A menu has a kind, which says what its items need and whether they ask. Props
enter as the facts that enable items (`offered`); `Change` and `Unmount` are
refreshes. `Send` is a foreground visit of the router: it finishes the visit under
way (`Finished`, the `onFinish` of the interrupted menu) and marks the menu that
sends. `Succeed`, `Redirect` and `FailVisit` are how it ends. The terminate command
goes beside the visit and has `phase`: sent, delayed, reloading. All pairs of menus
that a page shows together are initial states.

### ListRefresh

`request` holds at most one request of each kind (poll, the reload automatic
loading begins with, the reload of new entries, the next page); a second one of
the same kind replaces the first only where the code cancels it. An answer was
read at any revision of the source since it was sent, and carries the query it
was sent with, so answers overtake each other. What the hook compares is less than
that: the total and the first ID of the list. `Token` says what they were for each
query, in any way: changes may leave them alone, and two queries may share them.
`Effect` is the effect of
`useAutoLoad`, `Exchange` and `SettledCount` the bookkeeping of the status.

### ListTables and QueryControls

`ListTables` says for each table which rows it shows in which order, over rows
that have a name, a value, the filters they pass, a reserved mark and parts; names
are ranks, and a search is the set of names it is found in. The stable sort and the
filter of JavaScript are given by the place of each row (`InOrder`): the n-th row is
the one with n - 1 before it. `IsList` says what lists the server sends: each row
has an id of its own. `QueryControls` has the
controls of one page at a time. Pages differ in what of their controls is a draft
and in whether the rows are sorted in place (`View`). `Answer` adopts an answer
into the draft as `useJobQueryControls` does during render; `Debounce` is its
timeout. The two tables of the dashboard stand for a page each. `lost` and
`sorted` are history: they name the two situations the properties except.

### QueuePage

`queue`, `tab` and `view` are the page as it was answered, `address` the
URL, `rows` the tabs the table has rows of. A refresh replaces the rows, or is merged
into them if history was browsed when it was sent (`browsing`, which more than a page
of rows, `long`, turns on again); older rows are always merged. Which delayed jobs the
table has (`due`) may change with every answer that brings pending rows. A tab visit, a view visit and a link bring different parts of the page;
refreshes keep the URL, are cancelled by visits, and are dropped by Inertia when
the URL has changed its path meanwhile. `awaiting` is the click on the metrics view
that waits for the code of the charts. The clock of `useScheduledJobClock` renders
the table again when the next delayed job is due, in waits no longer than the
browser's longest timeout. Prefetched tabs and a stopped Horizon are left out.

## 3. The runs

Every run is listed in `PROJECT.json` with its properties; every property has a
mutant there, a plausible bug under which the same run finds it violated.
Deadlock is checked in `list_refresh` alone, where a poll is always possible. In
the other parts everything may be idle for good, and the bounded counters make
every instance stop.

| Run | Question | Instance |
|---|---|---|
| `clear_failed` | Does a clear delete what it acknowledges, stay inside its boundary, report true totals, implement the point-in-time promise, and end? | 3 jobs, 2 operations, 2 workers, chunks of 2, 1 request, 1 retried bulk job, 2 interruptions |
| `failed_job_retry` | Are overlapping retries of one job serialized? | 3 jobs (a job, its retry, a second retry or a second generation), 2 processes, one job whose record may be removed, 1 mishap |
| `retry_all` | Do bulk retries count what they scheduled and complete only what was tried? | 2 or 3 jobs that failed and 2 or 1 UUIDs for their retries, one job that nobody may retry, 2 workers, 1 user with one job to retry, chunks of 1, 1 of each mishap |
| `index` | Do synchronizers keep off the published projection and keep what is retained, and do readers without a lock see one complete projection? | 2 jobs, one of which may lose its hash and be trimmed, a maintenance command and a request of any kind, chunks of 1 |
| `index_liveness` | Is the lock always given back? | 1 job, 2 commands, 1 mishap (a crash, a release that throws, or a lock that runs out under its holder) |
| `pending_jobs` | Do cancellations, releases and clears agree with the workers they race, and implement the life of a job? | 3 unique jobs (one in a batch; of the others one whose lock is released twice), the payload of one changes twice, of another once, 2 callers, 2 failures |
| `process_transitions` | Do transitions of an instance and its supervisor exclude each other, and do all of them end, for a reason? | an instance, its supervisor, 2 commands, 1 change of a process |
| `action_menus` | Is every working menu released, and does a success close its own dialog? | 9 pairs of menus, 2 connections, 2 requests, 2 changes |
| `list_refresh` | Is the status true, and does the list catch up? | 2 changes of the source, one of which does not show in the revision, 2 queries that share a revision, 1 visit, 1 use of the switch, 2 pages |
| `query_controls` | Do late answers leave the user's filters alone, is nothing asked twice, does the list follow the draft, does the address keep the order, are rows in order? | 9 pages, 4 texts (one of them another one with a space), 2 filters, 4 actions, 1 failure |
| `query_drafts` | finding 1 | the same with 3 actions and no failure |
| `queue_page` | Does the address name what is shown, do the rows of a left tab go away unless history is browsed, are numbers kept and delayed jobs released? | 2 queues, 2 tabs, a delayed job beyond the longest wait that comes to and leaves the table, 2 actions, 1 surprise |

Why these bounds are enough to be interesting. Three jobs in chunks of two give a
full chunk, a partial one and a continuation, with room for a job that fails
after the capture. Two workers can run one operation at once, one of them a
chunk behind, and that takes a retried bulk job. Two interruptions allow a
retried job to die as well; the retried coordinator draws the second operation,
so one request is enough for two operations (the theorems cover any number). A
retry pool of three holds two retries of one job, which is what
`RetriesAreSequential` forbids, and a retry of a retry. In `retry_all` two jobs in chunks of one
make a continuation and leave UUIDs, so a chunk that has scheduled a retry is replayed
(a retried bulk job) and overtaken (its continuation beside it); `Asked`, the jobs the
user retries, and the rule that the user retries nothing after a mishap, keep the
instance small. Two members make a
generation that is half written, half removed or half hydrated; two processes
make every race between two calls. In `index` job 2 is retained for good, so that a
reader or a synchronizer that loses it is found out, and job 1 comes, loses its
hash and goes in any order. `index` has no crashes: they would leave the
safety instance too large, and are in `index_liveness` and in the proofs of
`PublishedIsStable` and `PublishedReadsAreWhole`. In `pending_jobs` the payload of
job 1 may change twice (released and taken, or taken twice), that of job 2, which
shares the lock with it, once. Job 3, of a batch, may not be cancelled and is only
pushed, due and cleared; it is unique as well, so that a lock released for the second
time, and taken by job 2 in between, lets it in. Two failures let one caller throw and the other die.

In the interface a race takes two requests of two actors: two commands, one to
the instance and one to its supervisor or two to the same, with a failure of the
first after the start of the second; two visits, the second of which interrupts
the first; an answer that was read before a change and arrives after a newer one.
A search that is submitted, changed and answered late takes three actions of the
user, a filter beside it four. The delayed job is due two ticks after the
table was first rendered and no wait is longer than one, so the clock must set
itself anew for the same job. In `queue_page` the page is opened at one of the queues,
with one of the counts or none (queues and counts are interchangeable), and with
automatic loading on; older rows are asked for only while the code of the charts has not
been, since neither reads what the other changes.

Symmetry is used for interchangeable workers, processes and callers in
`failed_job_retry`, `retry_all` and `pending_jobs`, which have no liveness
properties. In `FailedJobRetry` and `PendingJobs` jobs are numbered, and
the lowest free one is pushed next: that removes the symmetry of IDs by hand.

Bounds in guards: `MaxRequests`, `MaxRetries`, `MaxInterruptions` (bulk jobs),
`MaxMishaps` (deaths and throwing calls of retries and synchronizers, and
synchronization locks that run out under a live holder; failing requests of the
list pages), `Trimmable` (IDs that Horizon may trim from its list), `Removable`
(jobs whose failed record may be removed), `MaxForms` (changes of a job's payload), `MaxFailures` (calls that
die or throw), `MaxTokens` (transitions begun), `MaxChanges` (changes of Horizon's
processes; refreshes that change what menus offer), `MaxRequests` in `ActionMenus`
(requests sent), `Inputs` (numbers typed into the pause form), `MaxSource`,
`MaxVisits`, `MaxToggles`, `MaxPages` (one list), `MaxEdits` (actions of the user, the scrolling for older rows included),
`MaxTime` (the clock), `MaxSurprises` (summaries that do not tell what was known).
Source members and jobs are bounded by the sets that hold them, since an ID does
not come back.

Each module states its types as an invariant named for them. Those of
`ClearFailedJobs` and `RetainedJobIndex` are theorems (`TypesHold`); the others
document the state and are no property of a run: what the proofs need of them is
part of the inductive invariants.

### Fairness

`ClearFailedJobs!Fairness`: each worker reserves bulk jobs while there are any
and carries on with the chunk it runs. Horizon supervises its workers and
restarts dead ones; `Interrupt` may always come first, and `OperationsEnd` says
what is promised then. No fairness is assumed of users, of expiry or of a retry
of a failed bulk job.

`RetainedJobIndex!Fairness`: a call that has begun goes on, since PHP runs it to
its end unless it dies, and Redis expires a key. Nobody has to start a call, and
the source may change for ever: `LockIsFreed` shows that reconciliation ends in
spite of it (the second pass of `synchronizeSnapshotUnderLock` is the last).

`ProcessTransitions!Fairness`: React renders what was set, the browser fires its
timeout, clocks do not stop, and a command is aborted when its time is over. No
refresh has to be answered and no command obeyed: `TransitionsEnd` and
`RowsComeBack` rest on the deadlines alone.

`ActionMenus!Fairness`: the foreground visit and the reload after a terminate
command end because the browser ends every request, the terminate command is
aborted in time, a timeout fires. Success is never assumed.

`ListRefresh!ListFairness`: the timer of the poll goes on firing and visits end. The
answers are strongly fair, because every poll cancels the one before: a server
that is always slower than the poll interval refreshes nothing, and
`ListCatchesUp` is promised for one that is not.

`QueryControls!Spec` and `QueuePage!Spec`: the debounce ends, visits that are not
interrupted are answered, and (on the page of a queue) polls are sent and
answered. Nothing is assumed of the user.

## 4. What is proved

The proofs hold for every value of the constants that satisfies the named
assumptions next to their declaration (finite or typed sets, a NoX that is not
one of X, positive chunk sizes). `FiniteJobIds` is there for the counting proofs: a
store holds finitely many jobs.

`ClearFailedJobs_proofs`: the types, `SettledTargetsAreCleared`,
`CompletionMeansCleared` and `OnlyTargetsAreCleared`. The state properties are
parts of `ClearInvariant`, which is inductive. What it adds: Horizon's record
never outlives the provider's (the order of the two deletions), an expired
operation has no meta hash, an operation nobody drew has left no trace (so that a
coordinator that draws an ID disturbs nobody), and for each place of a worker
what it has already established, most importantly that a worker between the
mutation and the acknowledgement holds a target that is gone from both stores,
and that a worker past `hasMore` works on an empty snapshot. The last one needs
that targets only shrink after the capture. No lock is involved: two workers may
run the operation at once because deletion is idempotent and none of these facts
is about a single worker.

`TotalsAreTrue` needs a second invariant, `TotalsInvariant`, about the operations
whose jobs run one at a time. While the keys live, what is counted plus what is
still targeted is what was captured, one more between the count of a target and
its acknowledgement, and at most one more for each interruption (`CountInv`); and
a job that has its operation to itself finds the snapshot as it left it
(`SoleJobInv`). The proof takes each page of `ZRANGE` to be nonempty as long as the
snapshot is, which rests on the least element of a set of scores.

`ImplementsPromise` is the refinement: `Spec` implements `PointInTimeOperation`
under the mapping of `Promise`. The capture opens an operation with the jobs that
are retained then; deleting Horizon's record of a target begins its removal
(`Leave`), deleting the provider's ends it (`Remove`), and the acknowledgement
settles it (`Settle`); the cleanup completes the operation and the expiry of its keys
abandons it; everything else stutters. What it needs beyond `ClearInvariant` is
`StatusesHold`.

`RetryAllFailedJobs_proofs` has three parts. The first is about single retries
(`FailedJobRetry`): `RetriesAreSequential`, `BulkRetriesOnlyLeaves` and
`LockIsReleasedByItsHolder`, from `RetryInvariant`. The heart of it is the gap
between truth and record: a retry that was pushed is recorded on its parent, or
its parent has lapsed (the lock ran out, or the process died between the push and
the record), or the holder is about to record it. So a process that found a job
eligible under the lock knows the truth, and the lock keeps it true until its own
push.

The second part shows that the bulk retry keeps to that protocol:
`BulkImplementsRetry` states `Spec => RetrySpec`, so everything the first part says
of retries holds in bulk, replays and crashes included. From `ProgressInvariant`
follows `CompletionMeansRetried`: what left a snapshot has been dealt with
(`Dealt`: retried, gone, locked, of another queue, or not decodable), and a worker inside a retry is at its current target.

The third part is about the counter, which is incremented after the retry and
before the acknowledgement, by jobs that may be replayed and overtaken:
`AffectedWereScheduled`, from `CreditInvariant`. The counter is bounded by the
scheduled jobs that nobody is about to schedule and nobody still owes a count for
(`Credited`), and two workers never owe for the same job, because the second finds
it retried. That a lapsed job may be scheduled twice and counted twice is why the
property leaves operations with one out.

`RetainedJobIndex_proofs`: `PublishedIsStable` and `PublishedReadsAreWhole`, from
`IndexInvariant`: whoever is in a locked stage holds the lock; whoever writes
writes to a slot that is not published, because it chose the slot after it took
the lock and nobody else publishes meanwhile; a published reader whose state is
still current has read what was completed. All of it up to the first lock that
runs out under its holder.

`AnswerInvariant`, on top of it, gives `LiveReadsAreComplete` and
`RetainedJobsStayListed`. A live read is complete because what its answer leaves
out is unresolved in the current generation (`LiveReadInv`), an unresolved reference
has neither hash nor metadata (`UnresolvedInv`), and what a lock holder is about to
write is unresolved in no generation (`SnapshotInv`). A publication drops
nothing because its last pass has read the source under the lock and what it
publishes covers that snapshot.

`PendingJobs_proofs`: `NoJobIsDuplicated`, `CancelledJobsStayCancelled` (a part of the
invariant that no run states of its own, since `ImplementsJobLifecycle` says more),
`UniqueJobsStayUnique` and `LocksAreNotStranded`, from `PendingInvariant`. That a
job is in one place is inductive by itself, because every step that adds a payload
of a job removes another one of the same job in the same script, and the rollback
looks before it does so. From there a removal takes the only copy, so a cancelled
job is nowhere; and an active unique job holds the lock, so whoever releases the lock
of a cancelled job for the first time is the only one and releases no other's. The
second release, of jobs that tell their lock in both places, has no such guarantee:
`robbed` collects whom it hits, and the invariant is about the others.

`QueuedJobsCanBeCancelled` and `ClearedJobsAreUnlisted` follow from `RecordInvariant`,
on top of it. Record and queue agree because the payload of a job no worker has
taken changes once, when a delayed job is released, and the call that released it
is the one that will write the record (`FormInv`). A clear leaves nothing behind,
although the set changes under its scan, because whatever it removed and has not
passed yet is still in the rest of the scan, and nobody lists it again
(`RecordCallInv`).

`JobsLiveOnce` is the second refinement: `PendingSpec` implements `JobLifecycle`.
Waiting are the jobs with a payload in the queue, ready or delayed, taken those with
one in the reserved set, and over those that were pushed and are none of this and not
cancelled. Of the three round trips of a cancellation only the removal is an event,
and only if it found the payload: a caller is told that a job was cancelled only
if it took it from the queue in that step, for good. A release, its rollback, and a delayed job
that falls due replace one payload of a job by another (`StillWaiting`) and stutter. A
worker or a caller that removes a payload removes the job, because there is no second
one (`LeavesQueue`, `LeavesWorker`, from `NoJobIsDuplicated`). A unique job enters only
while no other waits or is taken, because an active one holds the lock (`LockInv`),
as long as no cancelled job has had its lock released twice (`ReleasedTwice`); from then
on `JobLifecycle` lets it enter beside another.

`Refresh_proofs`: `OneTransitionPerInstance` and
`TransitionsEndForAReason`, from `TransitionInvariant`. The guard of a new instance
transition looks only at the supervisors the page shows, so the invariant needs
that a pending process is one the page shows, unless Horizon is unavailable and the
page shows none: a refresh that no longer has a supervisor settles its transition
in the same step. And of `ListRefresh`, `ActiveCountIsTrue`: the status
counts every tracked request under way once (`StatusInvariant`), because a request
is sent only where none of its kind is under way that is not cancelled in the same
step, so that what ends and what begins never overlap.

`ActionMenus_proofs`: `WorkingMenusWait` and `SuccessClosesItsOwnDialog`, from
`MenuInvariant`: the menu of the visit under way has no terminate command under way,
every dialog asks about an item of its menu, and what a menu asks while it works is
what it works at, for the connection its visit was confirmed for. That a working
menu cannot be opened is what keeps it so.

`QueryControls_proofs`: `FiltersFollowTheUser`, `NothingIsAskedTwice` and
`AddressKeepsTheSort`, from `QueryInvariant`: on a page of jobs the visit under way
either repeats what the page shows (a command, another page of it) or was built
from the draft, whose filters have not changed since because a change would have
interrupted it; the search has no such invariant, which is finding 1.

`RowsAreInOrder` is about the tables alone. It holds for lists of any length whose
rows have ids of their own and sort by numbers or by nothing. It is proved without
an induction over the rows: in an order the rank of a place is the number of places
before it, ranks are below the size and differ, so each is taken once
(`RanksAreTaken`, by counting), and `InOrder` finds the place of each
(`InOrderEnumerates`). That a column orders the places comes down to
`ValuesAreOrdered`, missing values last. What is left is composition: searching and
then sorting, sorting and then grouping, and the parts of a row.

`QueuePage_proofs`: `AddressNamesWhatIsShown`, from `PageInvariant`: a visit for a
part of the page names the rest of it as it is, and the summary is of the queue,
unless the charts arrived late. `DueJobsAreShown`, from `ClockInvariant`: whenever
the table has a release still to come, the clock is armed no later than the next
one, whatever delayed jobs the rows of an answer bring. A rendering may leave the clock alone only if the next release is the one it
is armed for, and a wait that is cut to the longest one a browser knows is armed
again when it ends. `KnownNumbersStay`, from `KnownInvariant`: a number that is
told is kept for its queue, so it is there when a refresh does not tell it.

Two techniques recur. A refinement is proved from the initial states and step by
step, from the invariant of the detailed module. And where a set must have a least
element (a page of scores, the next release), the proof takes it from the library's
theorem on well-founded relations, over the pairs of numbers in order.

Only model-checked: the liveness properties `OperationsEnd`, `LockIsFreed`,
`TransitionsEnd`, `RowsComeBack`, `MenusComeBack`, `ListCatchesUp`,
`ListFollowsTheDraft` and `RowsReturn`, which are out of the prover's reach.

## 5. Findings

One run ends in a violation of what the documentation says. `PROJECT.json`
quotes the lines.

1. `query_drafts`: a search of jobs that is submitted and taken back before its
   answer arrives is restored by that answer, because the draft equals the search
   the page showed before: the debounce sends nothing, and the answer is adopted.

Observations on the processes behind the interface, met while modelling. The
first four differ from a sentence of the documentation.

- A coordinator that dies after its capture keeps a payload without an operation
  ID; retried from Horizon, it captures a second snapshot and clears failures newer
  than the request (`src/BulkOperations/Jobs/ClearFailedJobsJob.php:12-20`,
  `README.md:164-167`). The properties of `ClearFailedJobs` are about each operation
  and its own capture.
- A target whose lock is held when its turn comes is acknowledged. If the holder
  then dies before its push, the target is silently skipped
  (`RetryAllFailedJobs.php:60-64`, `FailedJobRetryLock.php:45-47`,
  `README.md:159-160`). `CompletionMeansRetried` excepts it.
- A synchronization that is not forced may publish a projection reconciled with a
  snapshot of the source taken before the lock, over a newer one: a retained job
  leaves the listing until the next synchronization (`RetainedJobIndex.php:205-289`,
  `docs/architecture.md:55-58`). `RetainedJobsStayListed` is about projections
  reconciled under the lock.
- An ordinary request prunes stale members of the slot it works on
  (`RetainedJobIndex.php:452-466`, `docs/architecture.md:121-122`).
- A coordinator that dies after `createFromSortedSet` copied the source and
  before it set an expiry leaves a key without one. Nobody knows its ID, so it
  harms no operation, but it stays.
- `ensureSynchronizationRevision` sets the legacy state after a `get`, without the
  lock. A generation published in between is overwritten, and readers see the
  legacy projection until the next publication. The properties of published
  reads are stated for the generations `a` and `b`.
- Publishing and wiping a generation do not compare the lock's token. After a
  lock has run out under a synchronizer that is between two heartbeats, two may
  publish in any order, and readers may see a slot that is being rewritten.
- A retry that ends before it is recorded on its parent is recorded as pending
  and stays so: its parent is never eligible again. It is never retried twice.
- A failed job whose payload or `retried_by` does not decode is acknowledged by a bulk
  retry, and the operation completes without it (`FailedJobRetryEligibility.php:13-15,
  24-26,31-66`, `RetryAllFailedJobs.php:60-64`). `CompletionMeansRetried` excepts it.
- Cancelling a unique job releases its lock twice, by force and in two round trips: the
  one its context names and that of its command (`ReleaseCancelledJobLocks.php:25,33-35`).
  Another unique job that takes the lock in between loses it, and a third one may join it
  (`robbed`, `UniqueJobsStayUnique`). This takes a class listed in
  `job_payload_allowed_classes`, which is empty by default (`README.md:410-418`). A
  cancelled job that tells its lock in neither place keeps it (`LocksAreNotStranded`).
- `migrated` of a released job may be written after a worker has reserved, ended
  or released back the job: the hash then says pending, with a payload the queue
  does not hold, and the job cannot be cancelled by it. `QueuedJobsCanBeCancelled`
  is therefore about jobs no worker has taken yet.
- `ClearQueue` releases no unique-job locks: a cleared unique job keeps the next
  one out until its lock expires. `LocksAreNotStranded` excepts it.
- A job pushed between the two steps of `ClearQueue` may lose its record and
  stay queued: it can be neither cancelled nor released until a worker takes it.
- `CancelPendingJobs` takes every pending job, the continuations of other bulk
  operations included; `ClearPendingJobs` leaves the bulk queue out.
- Paging inside a group of equal scores asks for positions in several round trips
  on a key that a synchronizer may be changing (`RetainedJobIndex.php:3191`).
- A pause and its displayed deadline are two keys: two requests may interleave and
  leave the deadline of one with the pause of the other (`PauseQueue.php:29`).
- Abandoned staging directories are recognized by age: a slow deployment may lose
  the one it is about to move in (`AssetsPublisher.php:263`).

Observations on the interface:

- `use-auto-load.ts:92` keeps the cancel function of one request. The reload that
  automatic loading begins with (line 164) is no longer cancellable after another
  request was sent, and may return a list to its first page after history was
  loaded (`CHANGELOG.md:56,115`). `ListCatchesUp` is about freshness only.
- With automatic loading on and history browsed, a poll prepends and the notice of
  new entries is never shown (`docs/architecture.md:254-257`).
- The revision of a list is its total and its first ID (`JobController.php:51-58`,
  `FailedJobController.php:43-50`, `BatchController.php:129-136`). With automatic loading
  off, a change that leaves both alone is not announced, nor is a late answer of an old
  query that has the same pair (`Behind` in `ListCatchesUp`).
- An answer to a reload that was sent with an old query may land after the visit
  that changed the query; the next poll heals it.
- Two menus render nothing while they have nothing to offer and keep their state:
  their dialog may open again without being asked for.
- A command that another visit interrupts may have been carried out; its dialog
  stays open, as after a failure.
- Only pausing and resuming a queue flush the cache of prefetched pages.
- On the batches page a search under way is lost, and polling stays off, when a
  filter choice interrupts its visit; a search that fires during a filter visit drops
  that filter; of two quick filter choices the first is dropped; a double click
  repeats a visit.
- A query visit of jobs that fails or is interrupted by a command is not sent again,
  also not when the same text is typed again, and polling stays off until the query
  is changed (`lost` in `ListFollowsTheDraft`).
- An order chosen while a visit is under way is lost from the address, though not
  from the table; opening the other type of metrics keeps the table's order and
  drops it from the address (`sorted` in `AddressKeepsTheSort`).
- A click on the metrics view that waits for the code of the charts
  (`queue-overview.tsx:142-172`) keeps the address it was made at: it pulls the user
  back to the tab or queue that was open then, and may mix the props of two queues
  (`late` in `AddressNamesWhatIsShown`).
- A poll of the activity sent during a tab visit brings the rows of the old tab, and so
  may a request for older rows that is still under way. With automatic loading on the
  next poll replaces them (`RowsReturn`), unless history is browsed: polls are then merged
  by the IDs of the rows (`use-auto-load.ts:83-87,148`, `QueueController.php:164`), so rows of
  two tabs stay side by side, and with more than a page of them every later poll is
  merged as well. `docs/architecture.md:250-254` says that a refresh replaces the first
  page, that no record stays through an additive merge, and that polling the rows stops
  once older ones were loaded.
- A second message with the same text is not announced (`horizon-layout.tsx:170-178`).

## 6. Not modelled

The read models, the HTTP layer, the release tooling, the detail pages and
presentation keep no state of their own. Facets, catalogs, search and paging of
the retained job index are abstracted to set membership. Of the interface, the
prefetch cache, the preferences (sidebar, colour scheme), the recovery after a
failed code chunk or a new asset version (which reload the page: `Reload` in
`QueuePage`), and what the queue page shows while Horizon is stopped are left out.
Inertia's router is external: one foreground visit at a time, a new one
interrupts the one under way, asynchronous reloads run beside it.

The components marked `not_modelled` with "Planned" in `PROJECT.json` are in the
plan below; four hazards there (a page of a tag removed before it is counted, a
total added after the last acknowledgement, a deployment that dies between two
renames, batches classified and deleted in two statements) have no property yet.

## 7. The plan

Done: `BulkOperation`, `ClearFailedJobs`, `PointInTimeOperation` with proofs;
`FailedJobRetry`, `RetryAllFailedJobs` with proofs; `RetainedJobIndex` with proofs;
`PendingJobs`, `JobLifecycle` with proofs; the interface (`ProcessTransitions`, `ActionMenus`,
`QueryControls`, `QueuePage`, `ListRefresh` with proofs, `ListTables`).

Left, most important first:

1. `CancelPendingJobs`: `BulkOperation` composed with `PendingJobs`; the total is
   added after the last acknowledgement, so it may be short but never exceeds
   what was cancelled.
2. `MonitoredTags`: `ClearRecentJobs` and the monitored retry on `BulkOperation`;
   a page leaves the tag before it is counted, the guard may fail between chunks.
3. `BatchActions`: `createFromIds`, `RetryQueueBatches`, `ClearBatches`,
   `ClearableBatches` against workers that retry and finish batches.
4. `AssetsPublisher`: overlapping deployments, deaths between renames, sweeping
   by age; an abstract specification "a complete build is in place, or the
   previous one can be put back".
5. `QueuePause` and `PendingJobStateIndex`: two keys, three structures, readers
   in between.
6. `RetainedJobQuery` and `RetainedJobCursor` as pure operators, paging checked
   against the sorted list as reference.

Refinements worth stating: every bulk operation implements `PointInTimeOperation`,
the retained index implements a register of complete projections, the asset
directory implements an atomic swap.
