----------------------------- MODULE MCActionMenus -----------------------------
(***************************************************************************)
(* Finite instances of ActionMenus for TLC: the pages that hold two menus. *)
(***************************************************************************)
EXTENDS ActionMenus, TLC

CONSTANTS m1, m2

ShownTogether ==
    {<<"queue", "instances">>,              \* dashboard
     <<"failedJobs", "failedJob">>,         \* failed jobs
     <<"pendingJobs", "pendingJob">>,       \* pending jobs
     <<"batches", "batchPending">>,         \* batches
     <<"batchPending", "batchFailed">>,     \* one batch
     <<"queues", "queue">>,                 \* queues
     <<"queuePending", "queueBatches">>,    \* one queue
     <<"queueFailed", "retryButton">>,
     <<"monitoredTag", "tag">>}             \* monitoring

TwoMenuPages == {m1 :> pair[1] @@ m2 :> pair[2] : pair \in ShownTogether}
=============================================================================
