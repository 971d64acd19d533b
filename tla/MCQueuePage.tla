------------------------------ MODULE MCQueuePage ------------------------------
(***************************************************************************)
(* QueuePage for TLC.  Queues are interchangeable, and so are counts: the  *)
(* page is opened at one of the queues, with one of the counts or none.    *)
(* It is opened with new entries loaded automatically; turning that off is *)
(* an action of the user.                                                  *)
(***************************************************************************)
EXTENDS QueuePage

MCInit ==
    /\ Init
    /\ queue = CHOOSE q \in Queues : TRUE
    /\ summary.completed \in {Null, CHOOSE v \in Values : TRUE}
    /\ autoLoad

\* Bound: the older rows of a table are not asked for once charts were.
MCNext == Next /\ (nextPages' # {} => chart' = "unloaded")

MCSpec ==
    /\ MCInit /\ [][MCNext]_vars
    /\ WF_vars(Answer)
    /\ WF_vars(ActivityPoll) /\ WF_vars(ActivityAnswer)
=============================================================================
