---------------------------- MODULE MCQueryControls ----------------------------
(***************************************************************************)
(* QueryControls for TLC: "a " is "a" typed with a trailing space, and is  *)
(* found in one name.  The lists have values that are equal, values that   *)
(* are missing, reserved jobs below others, and parts.                     *)
(***************************************************************************)
EXTENDS QueryControls, TLC

Text == {"", "a", "a ", "b"}
Trimmed == [t \in Text |-> IF t = "a " THEN "a" ELSE t]
Found == ("" :> {1, 2, 3}) @@ ("a" :> {1, 2}) @@ ("b" :> {3})
Keys ==
    [p \in Pages |-> CASE p = "pending" -> {"queue", "state"}
                      [] p \in {"completed", "failed", "batches", "queues", "metrics"} -> {"queue"}
                      [] OTHER -> {}]
SortKeys ==
    [p \in Pages |-> CASE p \in {"completed", "batches", "metrics"} -> {"value"}
                      [] p = "workload" -> {"throughput"}
                      [] OTHER -> {"name"}]
ValueDescending == [column |-> "value", direction |-> "desc"]

Row(id, name, value, passes, reserved, parts) ==
    [id |-> id, name |-> name, value |-> value, passes |-> passes, reserved |-> reserved,
     parts |-> parts]
Parts ==
    <<Row(1, 2, 5, {}, FALSE, <<>>), Row(2, 1, 5, {}, FALSE, <<>>),
      Row(3, 3, Null, {}, FALSE, <<>>)>>
Lists == {
    <<Row(1, 2, Null, {"queue"}, FALSE, Parts), Row(2, 1, 7, {}, TRUE, <<>>),
      Row(3, 3, 9, {"queue"}, FALSE, Tail(Parts)), Row(4, 1, 7, {"queue"}, TRUE, <<>>)>>,
    <<Row(1, 3, 0, {}, TRUE, <<>>), Row(2, 1, Null, {"queue"}, FALSE, <<>>),
      Row(3, 2, Null, {"queue"}, TRUE, <<>>)>>}
=============================================================================
