------------------------------- MODULE ListTables -------------------------------
(***************************************************************************)
(* What the tables of the interface make of the rows of their lists: which *)
(* rows they show, in which order.  A row has an id, a name, the names of  *)
(* the filters it passes, a value to sort by -- a time or a rate, Null     *)
(* while it has none -- is reserved by a worker or not, and has parts: the *)
(* queues of a pool, the supervisors of an instance.  The tables of jobs   *)
(* and batches show every row they are given; those of queues and metrics  *)
(* are searched and filtered where they are.                               *)
(***************************************************************************)
EXTENDS Integers, Sequences, FiniteSets

CONSTANTS
    Null,      \* a value a row does not have
    Contains   \* text -> the names it is found in

NoSort == [column |-> "none", direction |-> "asc"]

RowIds(rows) == {rows[i].id : i \in DOMAIN rows}

\* A list the server may send: every row has an id of its own.
IsRow(row) ==
    /\ row = [id |-> row.id, name |-> row.name, value |-> row.value, passes |-> row.passes,
              reserved |-> row.reserved, parts |-> row.parts]
    /\ row.name \in Int
    /\ row.value \in Int \cup {Null}

IsList(rows) ==
    /\ rows \in Seq({rows[i] : i \in DOMAIN rows})
    /\ \A i \in DOMAIN rows : IsRow(rows[i])
    /\ \A i, j \in DOMAIN rows : rows[i].id = rows[j].id => i = j

\* What a column sorts by.  Names are compared as the collator does; here they
\* are numbers.  A workload without a throughput is below all others.
Value(row, column) ==
    CASE column = "name" -> row.name
      [] column = "throughput" -> IF row.value = Null THEN -1 ELSE row.value
      [] OTHER -> row.value

\* Mutant of CompareValues: the direction turns missing values too.
CompareTurned(left, right, direction) ==
    LET c == IF left = right THEN 0
             ELSE IF left = Null THEN 1
             ELSE IF right = Null THEN -1
             ELSE left - right
    IN  IF direction = "asc" THEN c ELSE -c

\* Rows without a value come last in both directions.
CompareValues(left, right, direction) ==
    CASE left = right -> 0
      [] left # right /\ left = Null -> 1
      [] left # right /\ right = Null -> -1
      [] OTHER -> IF direction = "asc" THEN left - right ELSE right - left

\* The places of rows in an order: the n-th is the one with n - 1 before it.
InOrder(places, before) ==
    [n \in 1..Cardinality(places) |->
        CHOOSE p \in places : Cardinality({q \in places : <<q, p>> \in before}) = n - 1]

Arranged(rows, places, before) ==
    LET order == InOrder(places, before)
    IN  [n \in 1..Cardinality(places) |-> rows[order[n]]]

\* The rows at some places, in the order of the list.
Earlier == {pp \in Nat \X Nat : pp[1] < pp[2]}
Selected(rows, places) == Arranged(rows, places, Earlier)

\* Rows of equal value keep the order of the list.
Before(rows, sort) ==
    {pp \in (DOMAIN rows) \X (DOMAIN rows) :
        LET c == CompareValues(Value(rows[pp[1]], sort.column),
                               Value(rows[pp[2]], sort.column), sort.direction)
        IN  c < 0 \/ (c = 0 /\ pp[1] < pp[2])}

SortRows(rows, columns, sort) ==
    IF sort.column \notin columns THEN rows
    ELSE Arranged(rows, DOMAIN rows, Before(rows, sort))

\* Reserved jobs lead the table of pending jobs.
GroupReservedPendingJobs(jobs) ==
    LET reserved == {i \in DOMAIN jobs : jobs[i].reserved}
    IN  Selected(jobs, reserved) \o Selected(jobs, DOMAIN jobs \ reserved)

-----------------------------------------------------------------------------
(* The tables. *)

PendingJobTable(jobs, columns, sort) ==
    GroupReservedPendingJobs(SortRows(jobs, columns, sort))

JobTable(jobs, columns, sort) == SortRows(jobs, columns, sort)
FailedJobTable(jobs, columns, sort) == SortRows(jobs, columns, sort)

\* Batches arrive in the order that was asked for.
BatchTable(batches) == batches

Matching(rows, search, filters) ==
    Selected(rows, {i \in DOMAIN rows :
        rows[i].name \in Contains[search] /\ filters \subseteq rows[i].passes})

QueueTable(queues, columns, sort) == SortRows(queues, columns, sort)
MetricsTable(metrics, columns, sort) == SortRows(metrics, columns, sort)

MonitoredTagsTable(tags, columns, sort) == SortRows(tags, columns, sort)

\* The queues of a pool are in the order of the table too.
WorkloadRows(item, columns, sort) ==
    [item EXCEPT !.parts = SortRows(item.parts, columns, sort)]

WorkloadTable(items, columns, sort) ==
    LET sorted == SortRows(items, columns, sort)
    IN  [i \in DOMAIN sorted |-> WorkloadRows(sorted[i], columns, sort)]

\* One order for the supervisors of every instance; the instances keep theirs.
HorizonInstance(group, columns, sort) ==
    [group EXCEPT !.parts = SortRows(group.parts, columns, sort)]

SupervisorsTable(groups, columns, sort) ==
    [i \in DOMAIN groups |-> HorizonInstance(groups[i], columns, sort)]

QueuesIndex(queues, search, filters, columns, sort) ==
    QueueTable(Matching(queues, search, filters), columns, sort)

MetricsIndex(metrics, search, filters, columns, sort) ==
    MetricsTable(Matching(metrics, search, filters), columns, sort)

-----------------------------------------------------------------------------
(* The order a user expects, stated without the algorithm.                   *)

Precedes(left, right, column, direction) ==
    LET l == Value(left, column)
        r == Value(right, column)
    IN  \/ l # Null /\ r = Null
        \/ l # Null /\ r # Null /\ (IF direction = "asc" THEN l < r ELSE l > r)

Place(rows, row) == CHOOSE i \in DOMAIN rows : rows[i].id = row.id

\* shown has the rows of ids, each once, those of lead first, and otherwise
\* ordered by the sort and then as they are in the list.
IsOrdered(shown, list, ids, lead, columns, sort) ==
    /\ RowIds(shown) = ids
    /\ Len(shown) = Cardinality(ids)
    /\ \A i, j \in DOMAIN shown : i < j =>
          LET a == shown[i]
              b == shown[j]
          IN  \/ a.id \in lead /\ b.id \notin lead
              \/ /\ a.id \in lead <=> b.id \in lead
                 /\ IF sort.column \notin columns THEN Place(list, a) < Place(list, b)
                    ELSE \/ Precedes(a, b, sort.column, sort.direction)
                         \/ /\ ~ Precedes(b, a, sort.column, sort.direction)
                            /\ Place(list, a) < Place(list, b)
=============================================================================
