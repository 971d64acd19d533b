----------------------------- MODULE QueryControls -----------------------------
(***************************************************************************)
(* The search, filters and sort order of the list pages.  On the pages of  *)
(* jobs the user edits a draft: a filter is requested at once, a search    *)
(* after half a second of rest, and the draft adopts what the server       *)
(* answers only where the user has not edited it since.  The batches page  *)
(* drafts its search alone.  Every request is a foreground visit built     *)
(* from the address of the page, and interrupts the one under way.  The    *)
(* lists of queues and metrics are searched where they are.  The sort      *)
(* order of all but the batches is no request, it is kept in the address.  *)
(* The two tables of the dashboard stand for a page each.                  *)
(***************************************************************************)
EXTENDS ListTables

CONSTANTS
    Texts,       \* what can be typed
    Trim,        \* text -> text without surrounding space
    NoText,      \* the empty text
    Filters,     \* the filters there are; each is set or not
    FilterKeys,  \* page -> the filters it has
    Statuses,    \* tabs of the batches page
    FirstStatus, \* the tab that is open when the address names none
    SortColumns, \* page -> the columns it can be sorted by
    DefaultSort, \* order of completed jobs when the address names none
    Samples,     \* lists a page may have to show
    MaxEdits,    \* bound: actions of the user
    MaxMishaps   \* bound: requests that fail

ASSUME QueryControlsAssumption ==
    /\ Trim \in [Texts -> Texts]
    /\ NoText \in Texts /\ Trim[NoText] = NoText
    /\ \A t \in Texts : Trim[Trim[t]] = Trim[t]
    /\ \A p \in DOMAIN FilterKeys : FilterKeys[p] \subseteq Filters
    /\ Samples # {}
    /\ Null \notin Int
    /\ \A list \in Samples :
          IsList(list) /\ \A i \in DOMAIN list : IsList(list[i].parts)
    /\ FirstStatus \in Statuses
    /\ {MaxEdits, MaxMishaps} \subseteq Nat

VARIABLES
    page,          \* the page that is open
    address,       \* what the URL asks for
    props,         \* what the server answered last
    draft,         \* the search box and the filters, as the controls show them
    lastSubmitted, \* lastSubmittedStateRef
    timer,         \* the debounce is running
    sort,          \* the order the rows are shown in, where the page sorts them
    visit,         \* what the foreground visit under way asks for
    poll,          \* the address a background refresh was sent with
    catalog,       \* the request for the options of the filters
    intent,        \* history: what the user typed and selected last
    lost,          \* history: the request for a draft failed or was interrupted
    sorted,        \* history: the address may have lost the order
    edits, mishaps

controlVars == <<draft, lastSubmitted, timer, sort>>
historyVars == <<intent, lost, sorted>>
boundVars == <<edits, mishaps>>
vars == <<page, address, props, controlVars, visit, poll, catalog, historyVars, boundVars>>

Columns == UNION {SortColumns[p] : p \in DOMAIN SortColumns}
Sorts == {NoSort} \cup [column : Columns, direction : {"asc", "desc"}]
Request == [search : Texts, filters : SUBSET Filters, status : Statuses, sort : Sorts]
NoVisit == [search |-> NoText, filters |-> {}, status |-> "none", sort |-> NoSort]
Blank == [search |-> NoText, filters |-> {}, status |-> FirstStatus, sort |-> NoSort]

Wanted(d) == [search |-> Trim[d.search], filters |-> d.filters]
Part(q) == [search |-> q.search, filters |-> q.filters]

-----------------------------------------------------------------------------
(* The pages: what of their controls is drafted and requested from the       *)
(* server, and whether they sort the rows they have or request them sorted.  *)

JobsContent(type) ==
    [drafted |-> {"search", "filters"}, sortsRows |-> TRUE,
     defaultSort |-> IF type = "pending" THEN NoSort ELSE DefaultSort]

FailedJobsIndex ==
    [drafted |-> {"search", "filters"}, sortsRows |-> TRUE, defaultSort |-> NoSort]

BatchesIndexContent ==
    [drafted |-> {"search"}, sortsRows |-> FALSE, defaultSort |-> NoSort]

\* Queues, metrics, tags and the tables of the dashboard ask for nothing.
LocalTable == [drafted |-> {}, sortsRows |-> TRUE, defaultSort |-> NoSort]

View(p) ==
    CASE p \in {"pending", "completed"} -> JobsContent(p)
      [] p = "failed"  -> FailedJobsIndex
      [] p = "batches" -> BatchesIndexContent
      [] OTHER         -> LocalTable

Pages ==
    {"pending", "completed", "failed", "batches", "queues", "metrics", "tags",
     "workload", "supervisors"}
Drafted == {p \in Pages : "filters" \in View(p).drafted}
Local == {p \in Pages : View(p).drafted = {}}
Searched == Pages \ {"tags", "workload", "supervisors"}

-----------------------------------------------------------------------------
(* Order of the rows. *)

NextSort(current, column) ==
    [column |-> column,
     direction |-> IF current = [column |-> column, direction |-> "asc"]
                   THEN "desc" ELSE "asc"]

\* The order of the address counts if the page has the column.
InitialSort(p, q) ==
    IF q.sort.column \in SortColumns[p] THEN q.sort ELSE View(p).defaultSort

\* The rows a page shows of a list.
Table(p, list, d, order) ==
    LET columns == SortColumns[p]
    IN  CASE p = "pending"     -> PendingJobTable(list, columns, order)
          [] p = "completed"   -> JobTable(list, columns, order)
          [] p = "failed"      -> FailedJobTable(list, columns, order)
          [] p = "batches"     -> BatchTable(list)
          [] p = "queues"      -> QueuesIndex(list, Trim[d.search], d.filters, columns, order)
          [] p = "metrics"     -> MetricsIndex(list, Trim[d.search], d.filters, columns, order)
          [] p = "tags"        -> MonitoredTagsTable(list, columns, order)
          [] p = "workload"    -> WorkloadTable(list, columns, order)
          [] p = "supervisors" -> SupervisorsTable(list, columns, order)

-----------------------------------------------------------------------------
(* Requests. *)

Asks(p, d, q) ==
    /\ "search" \in View(p).drafted => Trim[d.search] = q.search
    /\ "filters" \in View(p).drafted => d.filters = q.filters

\* Mutant of IsPending: the last submission is not remembered.
IsPendingAnyway(p, d, shown, last) ==
    ~ Asks(p, d, shown)

\* The debounce of jobs runs for a draft that is neither what the page shows nor
\* what was asked for last; that of batches for any other search.
IsPending(p, d, shown, last) ==
    ~ Asks(p, d, shown) /\ (p \in Drafted => Wanted(d) # last)

IsCommitted == Asks(page, draft, props)

\* A visit interrupts the one under way, and background refreshes.
Visit(q, ofDraft) ==
    /\ visit' = q
    /\ poll' = NoVisit
    /\ lost' = (~ ofDraft /\ (lost \/ visit # NoVisit))

Submit(d) ==
    /\ lastSubmitted' = Wanted(d)
    /\ Visit([address EXCEPT !.search = Trim[d.search], !.filters = d.filters], TRUE)

Edit ==
    /\ edits < MaxEdits
    /\ edits' = edits + 1
    /\ UNCHANGED mishaps

-----------------------------------------------------------------------------
(* The user. *)

Type(text) ==
    /\ Edit
    /\ draft' = [draft EXCEPT !.search = text]
    /\ intent' = [intent EXCEPT !.search = text]
    /\ timer' = IsPending(page, draft', props, lastSubmitted)
    /\ UNCHANGED <<page, address, props, lastSubmitted, sort, visit, poll, catalog,
                   lost, sorted>>

\* Mutant of Debounce: it submits the filters of the page.
DebounceShownFilters ==
    /\ timer
    /\ timer' = FALSE
    /\ UNCHANGED draft
    /\ IF page \in Drafted
       THEN Submit([draft EXCEPT !.filters = props.filters])
       ELSE /\ Visit([address EXCEPT !.search = Trim[draft.search]], TRUE)
            /\ UNCHANGED lastSubmitted
    /\ UNCHANGED <<page, address, props, sort, catalog, intent, sorted, boundVars>>

Debounce ==
    /\ timer
    /\ timer' = FALSE
    /\ UNCHANGED draft
    /\ IF page \in Drafted
       THEN Submit(draft)
       ELSE /\ Visit([address EXCEPT !.search = Trim[draft.search]], TRUE)
            /\ UNCHANGED lastSubmitted
    /\ UNCHANGED <<page, address, props, sort, catalog, intent, sorted, boundVars>>

\* The search box.
TabbedResultsBody == page \in Searched /\ \E t \in Texts : t # draft.search /\ Type(t)

\* Mutant of SetFilters: filters wait for the debounce as the search does.
SetFiltersLater(selected) ==
    /\ Edit
    /\ intent' = [intent EXCEPT !.filters = selected]
    /\ draft' = [draft EXCEPT !.filters = selected]
    /\ timer' = IsPending(page, draft', props, lastSubmitted)
    /\ UNCHANGED <<page, address, props, lastSubmitted, sort, visit, poll, catalog,
                   lost, sorted>>

\* A filter of jobs changes the draft and takes the search along.
SetFilters(selected) ==
    /\ Edit
    /\ intent' = [intent EXCEPT !.filters = selected]
    /\ draft' = [draft EXCEPT !.filters = selected]
    /\ Submit(draft')
    /\ timer' = FALSE
    /\ UNCHANGED <<page, address, props, sort, catalog, sorted>>

Toggled(f) == IF f \in draft.filters THEN draft.filters \ {f} ELSE draft.filters \cup {f}

\* The button that clears filters is disabled while none is active.
JobFilters ==
    /\ page \in Drafted
    /\ \/ \E f \in FilterKeys[page] : SetFilters(Toggled(f))
       \/ draft.filters # {} /\ SetFilters({})

\* A filter of queues or metrics is applied where the rows are.
FilterRows(selected) ==
    /\ Edit
    /\ draft' = [draft EXCEPT !.filters = selected]
    /\ intent' = [intent EXCEPT !.filters = selected]
    /\ UNCHANGED <<page, address, props, lastSubmitted, timer, sort, visit, poll, catalog,
                   lost, sorted>>

QueueFilters ==
    /\ page = "queues"
    /\ \/ \E f \in FilterKeys[page] : FilterRows(Toggled(f))
       \/ draft.filters # {} /\ FilterRows({})

MetricsFilters ==
    /\ page = "metrics"
    /\ \/ \E f \in FilterKeys[page] : FilterRows(Toggled(f))
       \/ draft.filters # {} /\ FilterRows({})

\* The tabs of the metrics keep their controls and their order.
MetricsTab ==
    /\ page = "metrics"
    /\ Edit
    /\ Visit(Blank, FALSE)
    /\ sorted' = TRUE
    /\ UNCHANGED <<page, address, props, controlVars, catalog, intent>>

\* A control of the batches page requests a change of what the page shows.
UpdateQuery(q) ==
    /\ page = "batches"
    /\ Edit
    /\ Visit(q, FALSE)
    /\ UNCHANGED <<page, address, props, controlVars, catalog, intent, sorted>>

BatchFilters ==
    \/ \E f \in FilterKeys["batches"] : UpdateQuery([address EXCEPT !.filters = Toggled(f)])
    \/ draft.filters # {} /\ UpdateQuery([address EXCEPT !.filters = {}])

UpdateStatus(status) ==
    status # props.status /\ UpdateQuery([address EXCEPT !.status = status])

UpdateSort(column) ==
    /\ column \in SortColumns["batches"]
    /\ UpdateQuery([address EXCEPT !.sort = NextSort(props.sort, column)])

\* Rows are sorted where they are and the address is replaced.
ToggleSort(column) ==
    /\ View(page).sortsRows
    /\ column \in SortColumns[page]
    /\ Edit
    /\ sort' = NextSort(sort, column)
    /\ address' = [address EXCEPT !.sort = sort']
    /\ sorted' = (visit # NoVisit)
    /\ UNCHANGED <<page, props, draft, lastSubmitted, timer, visit, poll, catalog, intent,
                   lost>>

-----------------------------------------------------------------------------
(* Answers. *)

\* The draft adopts the search and the filters it has not been edited away from.
Adopt(d, old, new) ==
    [search  |-> IF new.search # old.search /\ Trim[d.search] = old.search
                 THEN new.search ELSE d.search,
     filters |-> IF d.filters \in {old.filters, new.filters} THEN new.filters ELSE d.filters]

\* The page shows the filters of batches as the server answers them.
Shown(p, d, old, new) ==
    CASE p \in Drafted -> Adopt(d, old, new)
      [] p = "batches" -> [d EXCEPT !.filters = new.filters]
      [] OTHER         -> d

\* The debounce starts again when what it depends on has changed.
Answer ==
    /\ visit # NoVisit
    /\ visit' = NoVisit
    /\ address' = visit
    /\ props' = visit
    /\ draft' = Shown(page, draft, props, visit)
    /\ timer' = IF page \in Drafted \/ visit.search # props.search
                THEN IsPending(page, draft', visit, lastSubmitted) ELSE timer
    /\ UNCHANGED <<page, lastSubmitted, sort, poll, catalog, historyVars, boundVars>>

\* An error, or no connection: the hook hears nothing of it.
Fail ==
    /\ visit # NoVisit
    /\ mishaps < MaxMishaps
    /\ mishaps' = mishaps + 1
    /\ visit' = NoVisit
    /\ lost' = TRUE
    /\ UNCHANGED <<page, address, props, controlVars, poll, catalog, intent, sorted, edits>>

\* A command of a menu is a visit too, and returns to the address of the page.
Command ==
    /\ Edit
    /\ Visit(address, FALSE)
    /\ UNCHANGED <<page, address, props, controlVars, catalog, intent, sorted>>

-----------------------------------------------------------------------------
(* Background refreshes.  They run while the draft is committed -- the queues *)
(* while they are not searched -- and keep the address: an answer carries the *)
(* one its request was sent with.                                            *)

Poll ==
    /\ IsCommitted
    /\ page = "queues" => Wanted(draft) = Part(Blank)
    /\ poll' = address
    /\ UNCHANGED <<page, address, props, controlVars, visit, catalog, historyVars, boundVars>>

\* Mutant of PollAnswer: without preserveUrl.
PollAnswerWithAddress ==
    /\ poll # NoVisit
    /\ poll' = NoVisit
    /\ address' = poll
    /\ UNCHANGED <<page, props, controlVars, visit, catalog, historyVars, boundVars>>

PollAnswer ==
    /\ poll # NoVisit
    /\ poll' = NoVisit
    /\ UNCHANGED <<page, address, props, controlVars, visit, catalog, historyVars, boundVars>>

-----------------------------------------------------------------------------
(* The catalog of filter options of a page of jobs: asked for when the user  *)
(* comes near the filters, not while a request is under way nor within the   *)
(* poll interval of the last answer.                                         *)

NoCatalog == [inFlight |-> FALSE, request |-> FALSE, age |-> "never"]

CatalogIntent ==
    /\ page \in Drafted
    /\ ~ catalog.inFlight
    /\ catalog.age # "recent"
    /\ catalog' = [catalog EXCEPT !.inFlight = TRUE, !.request = TRUE]
    /\ UNCHANGED <<page, address, props, controlVars, visit, poll, historyVars, boundVars>>

CatalogSuccess ==
    /\ catalog.request
    /\ catalog' = [inFlight |-> FALSE, request |-> FALSE, age |-> "recent"]
    /\ UNCHANGED <<page, address, props, controlVars, visit, poll, historyVars, boundVars>>

\* onFinish, without onSuccess
CatalogFailure ==
    /\ catalog.request
    /\ catalog' = [catalog EXCEPT !.inFlight = FALSE, !.request = FALSE]
    /\ UNCHANGED <<page, address, props, controlVars, visit, poll, historyVars, boundVars>>

CatalogAges ==
    /\ catalog.age = "recent"
    /\ catalog' = [catalog EXCEPT !.age = "old"]
    /\ UNCHANGED <<page, address, props, controlVars, visit, poll, historyVars, boundVars>>

-----------------------------------------------------------------------------
\* A page is mounted with what its address asks for.  Leaving a page stops its
\* debounce and cancels its request for the catalog.
Mounted(p, q) ==
    /\ page' = p
    /\ address' = q
    /\ props' = q
    /\ draft' = Part(q)
    /\ lastSubmitted' = Part(q)
    /\ timer' = FALSE
    /\ sort' = InitialSort(p, q)
    /\ visit' = NoVisit
    /\ poll' = NoVisit
    /\ catalog' = NoCatalog
    /\ intent' = Part(q)
    /\ lost' = FALSE
    /\ sorted' = FALSE

\* The tabs of the lists of jobs and the links of the sidebar name no query.
Open(p) == Edit /\ Mounted(p, Blank)
Reload == Edit /\ Mounted(page, address)

-----------------------------------------------------------------------------
Init ==
    /\ page \in Pages
    /\ address = Blank
    /\ props = Blank
    /\ draft = Part(Blank)
    /\ lastSubmitted = Part(Blank)
    /\ timer = FALSE
    /\ sort = InitialSort(page, Blank)
    /\ visit = NoVisit
    /\ poll = NoVisit
    /\ catalog = NoCatalog
    /\ intent = Part(Blank)
    /\ lost = FALSE
    /\ sorted = FALSE
    /\ edits = 0
    /\ mishaps = 0

Next ==
    \/ TabbedResultsBody \/ Debounce
    \/ JobFilters \/ BatchFilters \/ QueueFilters \/ MetricsFilters \/ MetricsTab
    \/ \E s \in Statuses : UpdateStatus(s)
    \/ \E c \in Columns : UpdateSort(c) \/ ToggleSort(c)
    \/ Answer \/ Fail \/ Command
    \/ Poll \/ PollAnswer
    \/ CatalogIntent \/ CatalogSuccess \/ CatalogFailure \/ CatalogAges
    \/ \E p \in Pages : Open(p)
    \/ Reload

\* The debounce ends and visits that are not interrupted are answered.
Spec == Init /\ [][Next]_vars /\ WF_vars(Debounce) /\ WF_vars(Answer)

-----------------------------------------------------------------------------
(* Properties. *)

TypeOK ==
    /\ page \in Pages
    /\ {address, props} \subseteq Request
    /\ draft \in [search : Texts, filters : SUBSET Filters]
    /\ lastSubmitted \in [search : Texts, filters : SUBSET Filters]
    /\ {timer, lost, sorted} \subseteq BOOLEAN
    /\ sort \in Sorts
    /\ {visit, poll} \subseteq Request \cup {NoVisit}
    /\ catalog \in [inFlight : BOOLEAN, request : BOOLEAN, age : {"never", "recent", "old"}]

\* No answer, however late, undoes a filter of jobs the user has selected since.
FiltersFollowTheUser == page \in Drafted => draft.filters = intent.filters

\* The same of the search.
SearchFollowsTheUser == page \in Drafted => draft.search = intent.search

\* The debounce of jobs never runs towards a request that is already under way,
\* nor one that the page shows the answer of.
NothingIsAskedTwice ==
    page \in Drafted /\ timer =>
        /\ Wanted(draft) # Part(props)
        /\ visit # NoVisit => Wanted(draft) # Part(visit)

\* What the user asks for is answered in the end, unless the request for it was
\* interrupted or failed: then nothing asks again before the user asks for something
\* else, typing the same text anew included.
ListFollowsTheDraft == ~ IsCommitted ~> (IsCommitted \/ lost)

\* A reload shows the rows in the order the user chose, unless it was chosen while
\* a visit was under way -- its answer brings the address it was sent with -- or the
\* other type of metrics was opened, which keeps the order but does not name it.
AddressKeepsTheSort ==
    View(page).sortsRows /\ ~ sorted => InitialSort(page, address) = sort

\* Whatever the user has typed, selected and sorted, the table of a page has every
\* row it should show and no other: reserved jobs first, then in the order of the
\* column, rows without a value last in both directions, rows of equal value as the
\* server listed them; and so the queues of a pool and the supervisors of an instance.
RowsAreInOrder ==
    page # "batches" => \A list \in Samples :
        LET shown == Table(page, list, draft, sort)
            matching == IF page \notin Searched \cap Local THEN RowIds(list)
                        ELSE {list[i].id : i \in {j \in DOMAIN list :
                                /\ list[j].name \in Contains[Trim[draft.search]]
                                /\ draft.filters \subseteq list[j].passes}}
            lead == {list[i].id : i \in {j \in DOMAIN list :
                        page = "pending" /\ list[j].reserved}}
            columns == SortColumns[page]
            parted == page \in {"workload", "supervisors"}
        IN  /\ IsOrdered(shown, list, matching, lead,
                         IF page = "supervisors" THEN {} ELSE columns, sort)
            /\ parted => \A i \in DOMAIN shown : \A j \in DOMAIN list :
                  shown[i].id = list[j].id =>
                    IsOrdered(shown[i].parts, list[j].parts, RowIds(list[j].parts), {},
                              columns, sort)

=============================================================================
