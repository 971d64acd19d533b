---------------------------- MODULE BulkOperation ----------------------------
(***************************************************************************)
(* The protocol every bulk operation shares: a private snapshot of the     *)
(* targets on the Horizon Redis connection (BulkOperationSnapshot), and    *)
(* one-attempt queue jobs (BulkOperationJob) that each process one chunk   *)
(* and dispatch the next.  What is done to a target belongs to the modules *)
(* that extend this one: their steps run while pc is "capture" or          *)
(* "mutate" and hand the target on at "count" (the target was affected) or *)
(* "acknowledge" (it was skipped).                                         *)
(*                                                                         *)
(* A step is one Redis round trip, or several no other process can tell    *)
(* apart.  Job IDs are numbered by their score in the source sorted set.   *)
(***************************************************************************)
EXTENDS Naturals, Sequences, FiniteSets

CONSTANTS JobIds,            \* identifiers a source set may hold
          Operations,        \* operation IDs newOperationId may draw
          NoOperation,       \* the null operationId of a coordinator's payload
          Workers,           \* queue worker processes
          ChunkSize,         \* CHUNK_SIZE
          MaxRequests,       \* bound: coordinators a user dispatches
          MaxRetries,        \* bound: failed bulk jobs a user retries
          MaxInterruptions   \* bound: crashes and exceptions

ASSUME BulkAssumption ==
    /\ JobIds \subseteq Nat
    /\ NoOperation \notin Operations
    /\ ChunkSize \in Nat \ {0}
    /\ MaxRequests \in Nat
    /\ MaxRetries \in Nat
    /\ MaxInterruptions \in Nat

\* A sorted set of Redis is finite: what counting its members needs.
ASSUME FiniteJobIds == IsFiniteSet(JobIds)

VARIABLES
    targets,        \* operation -> members of the private sorted set
    meta,           \* operation -> whether the :meta hash exists
    affected,       \* operation -> the hash's "affected" counter
    idleTtl,        \* operation -> whether its keys carry an expiry
    issued,         \* history: operation IDs drawn so far
    boundary,       \* history: operation -> the members captured
    expired,        \* history: operations whose keys ran into the idle TTL
    completed,      \* history: operations whose keys finish() deleted
    overlapped,     \* history: operations two jobs have processed at a time
    reported,       \* history: operation -> totals of its completion records
    bulkQueue,      \* payload -> queued bulk jobs carrying it
    bulkFailed,     \* payload -> failed bulk jobs carrying it
    pc,             \* worker -> its place in handle()
    payload,        \* worker -> operationId of the job being run
    operation,      \* worker -> $operationId
    chunk,          \* worker -> $ids still to process
    total,          \* worker -> the total finish() read
    requests,       \* coordinators dispatched so far
    retries,        \* failed bulk jobs retried so far
    interruptions   \* crashes and exceptions so far

snapshotVars == <<targets, meta, affected, idleTtl>>
historyVars  == <<issued, boundary, expired, completed, overlapped, reported>>
queueVars    == <<bulkQueue, bulkFailed, requests, retries, interruptions>>
workerVars   == <<pc, payload, operation, chunk, total>>
bulkVars     == <<snapshotVars, historyVars, queueVars, workerVars>>

Payloads == Operations \cup {NoOperation}

PCs == {"idle", "capture", "initialize", "peek", "mutate", "forget", "count",
        "increment", "acknowledge", "decide", "total", "cleanup", "report",
        "continue", "delete"}

-----------------------------------------------------------------------------
(* Helpers.                                                                *)

\* The n members with the lowest scores: ZRANGE key 0 n-1.
FirstOf(S, n) == {x \in S : Cardinality({y \in S : y < x}) < n}

\* The target the worker's foreach is at.
Current(w) == FirstOf(chunk[w], 1)

\* A worker has drawn or been handed o, and has not yet left handle().
Holds(w, o) == pc[w] # "idle" /\ operation[w] = o

\* It still has something to do for o: only the job's deletion follows "delete".
Processing(w, o) == Holds(w, o) /\ pc[w] # "delete"

Goto(w, label) == pc' = [pc EXCEPT ![w] = label]

\* expire on both keys.  A key that does not exist stays absent.
Renew(o) == idleTtl' = [idleTtl EXCEPT ![o] = TRUE]

-----------------------------------------------------------------------------
BulkInit ==
    /\ targets   = [o \in Operations |-> {}]
    /\ meta      = [o \in Operations |-> FALSE]
    /\ affected  = [o \in Operations |-> 0]
    /\ idleTtl   = [o \in Operations |-> FALSE]
    /\ issued    = {}
    /\ boundary  = [o \in Operations |-> {}]
    /\ expired   = {}
    /\ completed = {}
    /\ overlapped = {}
    /\ reported  = [o \in Operations |-> <<>>]
    /\ bulkQueue  = [p \in Payloads |-> 0]
    /\ bulkFailed = [p \in Payloads |-> 0]
    /\ pc        = [w \in Workers |-> "idle"]
    /\ payload   = [w \in Workers |-> NoOperation]
    /\ operation = [w \in Workers |-> NoOperation]
    /\ chunk     = [w \in Workers |-> {}]
    /\ total     = [w \in Workers |-> 0]
    /\ requests  = 0
    /\ retries   = 0
    /\ interruptions = 0

-----------------------------------------------------------------------------
(* The queue: dispatching, reserving, failing and retrying bulk jobs.      *)

\* A user asks for the operation: the coordinator carries no operation ID.
DispatchOperation ==
    /\ requests < MaxRequests
    /\ requests' = requests + 1
    /\ bulkQueue' = [bulkQueue EXCEPT ![NoOperation] = @ + 1]
    /\ UNCHANGED <<snapshotVars, historyVars, workerVars, bulkFailed, retries, interruptions>>

ReserveJob(w) ==
    /\ pc[w] = "idle"
    /\ \E p \in Payloads :
        /\ bulkQueue[p] > 0
        /\ bulkQueue' = [bulkQueue EXCEPT ![p] = @ - 1]
        /\ payload' = [payload EXCEPT ![w] = p]
        /\ operation' = [operation EXCEPT ![w] = p]
        /\ Goto(w, IF p = NoOperation THEN "capture" ELSE "peek")
        /\ overlapped' = overlapped \cup {o \in {p} \ {NoOperation} : \E v \in Workers : Processing(v, o)}
    /\ UNCHANGED <<snapshotVars, issued, boundary, expired, completed, reported, chunk, total, bulkFailed, requests, retries, interruptions>>

\* The job leaves the worker without having been deleted: with one try it
\* becomes a failed job whose payload is the one it was queued with.
JobFails(w) ==
    /\ bulkFailed' = [bulkFailed EXCEPT ![payload[w]] = @ + 1]
    /\ pc' = [pc EXCEPT ![w] = "idle"]
    /\ payload' = [payload EXCEPT ![w] = NoOperation]
    /\ operation' = [operation EXCEPT ![w] = NoOperation]
    /\ chunk' = [chunk EXCEPT ![w] = {}]
    /\ total' = [total EXCEPT ![w] = 0]
    /\ UNCHANGED bulkQueue

\* A worker is killed, or a call of its step throws.
Interrupt(w) ==
    /\ pc[w] # "idle"
    /\ interruptions < MaxInterruptions
    /\ interruptions' = interruptions + 1
    /\ JobFails(w)
    /\ UNCHANGED <<snapshotVars, historyVars, requests, retries>>

\* A call that starts with ensureExists throws BulkOperationMissingStateException.
MissingState(w) ==
    /\ pc[w] \in {"peek", "count", "acknowledge", "decide", "total"}
    /\ ~ meta[operation[w]]
    /\ JobFails(w)
    /\ UNCHANGED <<snapshotVars, historyVars, requests, retries, interruptions>>

\* The failed bulk job is retried from Horizon, with the payload it had.
RetryBulkJob(p) ==
    /\ bulkFailed[p] > 0
    /\ retries < MaxRetries
    /\ retries' = retries + 1
    /\ bulkFailed' = [bulkFailed EXCEPT ![p] = @ - 1]
    /\ bulkQueue' = [bulkQueue EXCEPT ![p] = @ + 1]
    /\ UNCHANGED <<snapshotVars, historyVars, workerVars, requests, interruptions>>

DeleteJob(w) ==
    /\ pc[w] = "delete"
    /\ pc' = [pc EXCEPT ![w] = "idle"]
    /\ payload' = [payload EXCEPT ![w] = NoOperation]
    /\ operation' = [operation EXCEPT ![w] = NoOperation]
    /\ chunk' = [chunk EXCEPT ![w] = {}]
    /\ total' = [total EXCEPT ![w] = 0]
    /\ UNCHANGED <<snapshotVars, historyVars, queueVars>>

-----------------------------------------------------------------------------
(* BulkOperationSnapshot.                                                  *)

\* createFromSortedSet up to its last zadd: read the source and copy it under
\* an operation ID nobody else knows.  The copy carries no expiry yet.
CaptureTargets(w, members) ==
    /\ pc[w] = "capture"
    /\ \E o \in Operations \ issued :
        /\ issued' = issued \cup {o}
        /\ operation' = [operation EXCEPT ![w] = o]
        /\ targets' = [targets EXCEPT ![o] = members]
        /\ boundary' = [boundary EXCEPT ![o] = members]
    /\ Goto(w, "initialize")
    /\ UNCHANGED <<meta, affected, idleTtl, expired, completed, overlapped, reported,
                   queueVars, payload, chunk, total>>

\* initializeMeta and the first renew.
InitializeMeta(w) ==
    /\ pc[w] = "initialize"
    /\ meta' = [meta EXCEPT ![operation[w]] = TRUE]
    /\ affected' = [affected EXCEPT ![operation[w]] = 0]
    /\ Renew(operation[w])
    /\ Goto(w, "peek")
    /\ UNCHANGED <<targets, historyVars, queueVars, payload, operation, chunk, total>>

\* nextChunk, and the early completion when it returns nothing.
NextChunk(w) ==
    LET o == operation[w]
    IN /\ pc[w] = "peek"
       /\ meta[o]
       /\ Renew(o)
       /\ chunk' = [chunk EXCEPT ![w] = FirstOf(targets[o], ChunkSize)]
       /\ Goto(w, IF targets[o] = {} THEN "total" ELSE "mutate")
       /\ UNCHANGED <<targets, meta, affected, historyVars, queueVars,
                      payload, operation, total>>

\* addAffected(1), its ensureExists.
CheckAffected(w) ==
    /\ pc[w] = "count"
    /\ meta[operation[w]]
    /\ Goto(w, "increment")
    /\ UNCHANGED <<snapshotVars, historyVars, queueVars, payload, operation, chunk, total>>

\* Mutant of AddAffected: every target counts the rest of its chunk.
AddChunkAffected(w) ==
    LET o == operation[w]
    IN /\ pc[w] = "increment"
       /\ meta' = [meta EXCEPT ![o] = TRUE]
       /\ affected' = [affected EXCEPT ![o] = @ + Cardinality(chunk[w])]
       /\ Renew(o)
       /\ Goto(w, "acknowledge")
       /\ UNCHANGED <<targets, historyVars, queueVars, payload, operation, chunk, total>>

\* addAffected(1), its hincrby, which recreates a hash deleted meanwhile.
AddAffected(w) ==
    LET o == operation[w]
    IN /\ pc[w] = "increment"
       /\ meta' = [meta EXCEPT ![o] = TRUE]
       /\ affected' = [affected EXCEPT ![o] = @ + 1]
       /\ Renew(o)
       /\ Goto(w, "acknowledge")
       /\ UNCHANGED <<targets, historyVars, queueVars, payload, operation, chunk, total>>

\* Mutant of Acknowledge: the whole chunk leaves the snapshot with its first target.
AcknowledgeChunk(w) ==
    LET o == operation[w]
        rest == chunk[w] \ Current(w)
    IN /\ pc[w] = "acknowledge"
       /\ meta[o]
       /\ targets' = [targets EXCEPT ![o] = @ \ chunk[w]]
       /\ Renew(o)
       /\ chunk' = [chunk EXCEPT ![w] = rest]
       /\ Goto(w, IF rest = {} THEN "decide" ELSE "mutate")
       /\ UNCHANGED <<meta, affected, historyVars, queueVars, payload, operation, total>>

\* acknowledge: zrem the current target, and go to the next one.
Acknowledge(w) ==
    LET o == operation[w]
        rest == chunk[w] \ Current(w)
    IN /\ pc[w] = "acknowledge"
       /\ meta[o]
       /\ targets' = [targets EXCEPT ![o] = @ \ Current(w)]
       /\ Renew(o)
       /\ chunk' = [chunk EXCEPT ![w] = rest]
       /\ Goto(w, IF rest = {} THEN "decide" ELSE "mutate")
       /\ UNCHANGED <<meta, affected, historyVars, queueVars, payload, operation, total>>

\* Mutant of HasMore: the operation is over after its first chunk.
CompleteAfterOneChunk(w) ==
    /\ pc[w] = "decide"
    /\ meta[operation[w]]
    /\ Goto(w, "total")
    /\ UNCHANGED <<snapshotVars, historyVars, queueVars, payload, operation, chunk, total>>

\* totalAffected and hasMore after the loop; a continuation ignores the total.
HasMore(w) ==
    /\ pc[w] = "decide"
    /\ meta[operation[w]]
    /\ Goto(w, IF targets[operation[w]] # {} THEN "continue" ELSE "total")
    /\ UNCHANGED <<snapshotVars, historyVars, queueVars, payload, operation, chunk, total>>

\* finish: read the total ...
ReadTotal(w) ==
    /\ pc[w] = "total"
    /\ meta[operation[w]]
    /\ total' = [total EXCEPT ![w] = affected[operation[w]]]
    /\ Goto(w, "cleanup")
    /\ UNCHANGED <<snapshotVars, historyVars, queueVars, payload, operation, chunk>>

\* ... and delete both keys.
Cleanup(w) ==
    LET o == operation[w]
    IN /\ pc[w] = "cleanup"
       /\ targets' = [targets EXCEPT ![o] = {}]
       /\ meta' = [meta EXCEPT ![o] = FALSE]
       /\ affected' = [affected EXCEPT ![o] = 0]
       /\ idleTtl' = [idleTtl EXCEPT ![o] = FALSE]
       /\ completed' = completed \cup {o}
       /\ Goto(w, "report")
       /\ UNCHANGED <<issued, boundary, expired, overlapped, reported, queueVars,
                      payload, operation, chunk, total>>

\* continueOrComplete, complete: the completion record.
ReportCompletion(w) ==
    LET o == operation[w]
    IN /\ pc[w] = "report"
       /\ reported' = [reported EXCEPT ![o] = Append(@, total[w])]
       /\ Goto(w, "delete")
       /\ UNCHANGED <<snapshotVars, issued, boundary, expired, completed, overlapped, queueVars,
                      payload, operation, chunk, total>>

\* Mutant of DispatchContinuation: the rest of the snapshot is left to nobody.
ForgetContinuation(w) ==
    /\ pc[w] = "continue"
    /\ Goto(w, "delete")
    /\ UNCHANGED <<snapshotVars, historyVars, queueVars, payload, operation, chunk, total>>

\* continueOrComplete, not complete: the next job carries the operation ID.
DispatchContinuation(w) ==
    /\ pc[w] = "continue"
    /\ bulkQueue' = [bulkQueue EXCEPT ![operation[w]] = @ + 1]
    /\ Goto(w, "delete")
    /\ UNCHANGED <<snapshotVars, historyVars, bulkFailed, requests, retries, interruptions,
                   payload, operation, chunk, total>>

\* The idle TTL runs out: a week in which no worker touched the keys.
ExpireSnapshot(o) ==
    /\ idleTtl[o]
    /\ \A w \in Workers : ~ Holds(w, o)
    /\ targets' = [targets EXCEPT ![o] = {}]
    /\ meta' = [meta EXCEPT ![o] = FALSE]
    /\ affected' = [affected EXCEPT ![o] = 0]
    /\ idleTtl' = [idleTtl EXCEPT ![o] = FALSE]
    /\ expired' = expired \cup {o}
    /\ UNCHANGED <<issued, boundary, completed, overlapped, reported, queueVars, workerVars>>

-----------------------------------------------------------------------------
\* The steps of handle() that do not depend on what the operation does.
JobStep(w) ==
    \/ MissingState(w)
    \/ InitializeMeta(w)
    \/ NextChunk(w)
    \/ CheckAffected(w)
    \/ AddAffected(w)
    \/ Acknowledge(w)
    \/ HasMore(w)
    \/ ReadTotal(w)
    \/ Cleanup(w)
    \/ ReportCompletion(w)
    \/ DispatchContinuation(w)
    \/ DeleteJob(w)

\* Users and time.
BulkEnvironment ==
    \/ DispatchOperation
    \/ \E p \in Payloads : RetryBulkJob(p)
    \/ \E o \in Operations : ExpireSnapshot(o)

BulkTypeOK ==
    /\ targets \in [Operations -> SUBSET JobIds]
    /\ meta \in [Operations -> BOOLEAN]
    /\ affected \in [Operations -> Nat]
    /\ idleTtl \in [Operations -> BOOLEAN]
    /\ issued \subseteq Operations
    /\ boundary \in [Operations -> SUBSET JobIds]
    /\ expired \subseteq Operations
    /\ completed \subseteq Operations
    /\ overlapped \subseteq Operations
    /\ reported \in [Operations -> Seq(Nat)]
    /\ bulkQueue \in [Payloads -> Nat]
    /\ bulkFailed \in [Payloads -> Nat]
    /\ pc \in [Workers -> PCs]
    /\ payload \in [Workers -> Payloads]
    /\ operation \in [Workers -> Payloads]
    /\ chunk \in [Workers -> SUBSET JobIds]
    /\ total \in [Workers -> Nat]
    /\ requests \in Nat
    /\ retries \in Nat
    /\ interruptions \in Nat
=============================================================================
