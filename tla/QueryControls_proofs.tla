--------------------------- MODULE QueryControls_proofs ---------------------------
(***************************************************************************)
(* For any filters, texts and sort columns, and in any order of typing,    *)
(* filtering, sorting, answers, failures and commands: no answer undoes a  *)
(* filter of jobs, no search is asked for twice, and the address keeps the *)
(* order of the rows.  And for any lists: the tables show all rows they    *)
(* should, in the order that was asked for.                                *)
(***************************************************************************)
EXTENDS QueryControls, FiniteSetTheorems, SequenceTheorems, TLAPS

\* A request has the fields a request is built from.
IsRequest(q) ==
    q = [search |-> q.search, filters |-> q.filters, status |-> q.status, sort |-> q.sort]

\* The address names what the page of jobs shows.  A visit asks for the draft's
\* filters and was the last submission, or it repeats what the page shows.
DraftInv ==
    page \in Drafted =>
        /\ Part(address) = Part(props)
        /\ draft.filters = intent.filters
        /\ visit # NoVisit =>
              \/ Part(visit) = Part(props)
              \/ Part(visit) = lastSubmitted /\ visit.filters = draft.filters
        /\ timer => Wanted(draft) # Part(props) /\ Wanted(draft) # lastSubmitted

\* The address names the order of the rows, and so does the visit under way,
\* unless the address may have lost it.
SortInv ==
    View(page).sortsRows /\ ~ sorted =>
        /\ InitialSort(page, address) = sort
        /\ visit # NoVisit => visit.sort = address.sort

\* The inductive invariant.
QueryInvariant ==
    /\ page \in Pages
    /\ IsRequest(address) /\ IsRequest(visit)
    /\ draft = [search |-> draft.search, filters |-> draft.filters]
    /\ intent = [search |-> intent.search, filters |-> intent.filters]
    /\ DraftInv
    /\ SortInv

\* What is said of a page depends on these variables alone.
queryState == <<page, address, props, draft, lastSubmitted, timer, sort, visit, intent, sorted>>

\* The pages whose filters are drafted sort their rows; batches do neither.
LEMMA DraftedPages ==
  /\ Drafted = {"pending", "completed", "failed"}
  /\ ~ View("batches").sortsRows
  /\ "batches" \notin Drafted /\ "metrics" \notin Drafted /\ "queues" \notin Drafted
  BY DEF Drafted, View, Pages, JobsContent, FailedJobsIndex, BatchesIndexContent, LocalTable

\* A page that is mounted shows what its address asks for.
LEMMA MountedKeeps ==
  ASSUME NEW p \in Pages, NEW q, IsRequest(q), Mounted(p, q)
  PROVE  QueryInvariant'
  <1>1. IsRequest(NoVisit)
    BY DEF IsRequest, NoVisit
  <1> QED BY <1>1 DEF Mounted, QueryInvariant, DraftInv, SortInv, Part, IsRequest

\* Nothing that the invariant is about changes.
LEMMA OthersKeep ==
  ASSUME QueryInvariant, UNCHANGED queryState
  PROVE  QueryInvariant'
  BY DEF queryState, QueryInvariant, DraftInv, SortInv, IsRequest, InitialSort

\* A page is opened without a query.
LEMMA QueryInit == Init => QueryInvariant
  <1> SUFFICES ASSUME Init PROVE QueryInvariant
    OBVIOUS
  <1>1. IsRequest(NoVisit) /\ IsRequest(Blank)
    BY DEF IsRequest, NoVisit, Blank
  <1> QED BY <1>1 DEF Init, QueryInvariant, DraftInv, SortInv, Part

\* The debounce runs for a draft that was neither answered nor asked for.
LEMMA TypeKeeps ==
  ASSUME QueryInvariant, NEW text, Type(text)
  PROVE  QueryInvariant'
  <1>1. /\ UNCHANGED <<page, address, props, lastSubmitted, sort, visit, sorted>>
        /\ draft' = [search |-> text, filters |-> draft.filters]
        /\ intent' = [search |-> text, filters |-> intent.filters]
        /\ timer' = IsPending(page, draft', props, lastSubmitted)
    BY DEF Type, QueryInvariant
  <1>2. ASSUME page \in Drafted, timer'
        PROVE  Wanted(draft') # Part(props) /\ Wanted(draft') # lastSubmitted
    <2>1. "search" \in View(page).drafted /\ "filters" \in View(page).drafted
      BY <1>2, DraftedPages DEF View, JobsContent, FailedJobsIndex
    <2> QED BY <1>1, <1>2, <2>1 DEF IsPending, Asks, Wanted, Part
  <1>3. DraftInv'
    BY <1>1, <1>2 DEF DraftInv, QueryInvariant
  <1>4. SortInv'
    BY <1>1 DEF SortInv, QueryInvariant, InitialSort
  <1> QED BY <1>1, <1>3, <1>4 DEF QueryInvariant, IsRequest

\* A draft that is submitted is what the visit asks for.
LEMMA SubmitKeeps ==
  ASSUME QueryInvariant, page \in Drafted, Submit(draft'), timer' = FALSE,
         draft' = [search |-> draft'.search, filters |-> draft'.filters],
         intent' = [search |-> intent'.search, filters |-> draft'.filters],
         UNCHANGED <<page, address, props, sort, sorted>>
  PROVE  QueryInvariant'
  <1>1. /\ visit' = [search |-> Trim[draft'.search], filters |-> draft'.filters,
                     status |-> address.status, sort |-> address.sort]
        /\ lastSubmitted' = Wanted(draft')
    BY DEF Submit, Visit, QueryInvariant, IsRequest
  <1>2. DraftInv'
    BY <1>1 DEF DraftInv, QueryInvariant, Part, Wanted
  <1>3. SortInv'
    BY <1>1 DEF SortInv, QueryInvariant, InitialSort
  <1> QED BY <1>1, <1>2, <1>3 DEF QueryInvariant, IsRequest

\* The debounce of jobs submits the draft; that of batches is no draft of jobs.
LEMMA DebounceKeeps ==
  ASSUME QueryInvariant, Debounce
  PROVE  QueryInvariant'
  <1>1. CASE page \in Drafted
    BY <1>1, SubmitKeeps DEF Debounce, QueryInvariant, DraftInv
  <1>2. CASE page \notin Drafted
    <2>1. /\ visit' = [search |-> Trim[draft.search], filters |-> address.filters,
                       status |-> address.status, sort |-> address.sort]
          /\ UNCHANGED <<page, address, props, draft, lastSubmitted, sort, intent, sorted>>
      BY <1>2 DEF Debounce, Visit, QueryInvariant, IsRequest
    <2> QED BY <1>2, <2>1 DEF QueryInvariant, DraftInv, SortInv, IsRequest, InitialSort
  <1> QED BY <1>1, <1>2

\* A filter of jobs is requested at once.
LEMMA SetFiltersKeeps ==
  ASSUME QueryInvariant, page \in Drafted, NEW selected, SetFilters(selected)
  PROVE  QueryInvariant'
  BY SubmitKeeps DEF SetFilters, QueryInvariant

\* A filter of rows concerns no draft of jobs.
LEMMA FilterRowsKeeps ==
  ASSUME QueryInvariant, page \notin Drafted, NEW selected, FilterRows(selected)
  PROVE  QueryInvariant'
  BY DEF FilterRows, QueryInvariant, DraftInv, SortInv, IsRequest, InitialSort

\* A control of the batches page concerns neither drafts of jobs nor an order
\* kept in the address.
LEMMA UpdateQueryKeeps ==
  ASSUME QueryInvariant, NEW q, IsRequest(q), UpdateQuery(q)
  PROVE  QueryInvariant'
  BY DraftedPages DEF UpdateQuery, Visit, controlVars, QueryInvariant, DraftInv, SortInv, IsRequest

\* The tab of the other metrics may lose the order, and says so.
LEMMA MetricsTabKeeps ==
  ASSUME QueryInvariant, MetricsTab
  PROVE  QueryInvariant'
  BY DraftedPages DEF MetricsTab, Visit, Blank, controlVars, QueryInvariant, DraftInv, SortInv,
     IsRequest

\* The order is put into the address; a visit under way may lose it again.
LEMMA ToggleSortKeeps ==
  ASSUME QueryInvariant, NEW column, ToggleSort(column)
  PROVE  QueryInvariant'
  <1>1. /\ address' = [search |-> address.search, filters |-> address.filters,
                       status |-> address.status, sort |-> sort']
        /\ sort'.column = column /\ column \in SortColumns[page]
        /\ sorted' = (visit # NoVisit)
        /\ UNCHANGED <<page, props, draft, lastSubmitted, timer, visit, intent>>
    BY DEF ToggleSort, NextSort, QueryInvariant, IsRequest
  <1>2. InitialSort(page, address') = sort'
    BY <1>1 DEF InitialSort
  <1>3. SortInv'
    BY <1>1, <1>2 DEF SortInv, InitialSort
  <1>4. DraftInv'
    BY <1>1 DEF DraftInv, QueryInvariant, Part
  <1> QED BY <1>1, <1>3, <1>4 DEF QueryInvariant, IsRequest

\* An answer is adopted where it does not contradict the user.
LEMMA AnswerKeeps ==
  ASSUME QueryInvariant, Answer
  PROVE  QueryInvariant'
  <1>1. /\ visit # NoVisit /\ visit' = NoVisit /\ IsRequest(NoVisit)
        /\ address' = visit /\ props' = visit
        /\ draft' = Shown(page, draft, props, visit)
        /\ UNCHANGED <<page, lastSubmitted, sort, intent, sorted>>
    BY DEF Answer, historyVars, IsRequest, NoVisit
  <1>2. draft' = [search |-> draft'.search, filters |-> draft'.filters]
    BY <1>1 DEF Shown, Adopt, QueryInvariant
  <1>3. ASSUME page \in Drafted
        PROVE  /\ draft'.filters = intent.filters
               /\ timer' => Wanted(draft') # Part(visit) /\ Wanted(draft') # lastSubmitted
    <2>1. "search" \in View(page).drafted /\ "filters" \in View(page).drafted
      BY <1>3, DraftedPages DEF View, JobsContent, FailedJobsIndex
    <2>2. visit.filters \in {props.filters, draft.filters}
      BY <1>1, <1>3 DEF QueryInvariant, DraftInv, Part
    <2>3. draft'.filters = draft.filters
      <3>1. draft' = Adopt(draft, props, visit)
        BY <1>1, <1>3, DraftedPages DEF Shown
      <3>2. draft'.filters = IF draft.filters \in {props.filters, visit.filters}
                             THEN visit.filters ELSE draft.filters
        BY <3>1 DEF Adopt
      <3> QED BY <2>2, <3>2
    <2>4. timer' = IsPending(page, draft', visit, lastSubmitted)
      BY <1>3 DEF Answer
    <2> QED BY <1>3, <2>1, <2>3, <2>4 DEF QueryInvariant, DraftInv, IsPending, Asks, Wanted, Part
  <1>4. DraftInv'
    BY <1>1, <1>3 DEF DraftInv
  <1>5. SortInv'
    BY <1>1 DEF SortInv, QueryInvariant, InitialSort
  <1> QED BY <1>1, <1>2, <1>4, <1>5 DEF QueryInvariant, IsRequest

\* The visit ends unanswered.
LEMMA FailKeeps ==
  ASSUME QueryInvariant, Fail
  PROVE  QueryInvariant'
  <1>1. IsRequest(NoVisit)
    BY DEF IsRequest, NoVisit
  <1> QED BY <1>1 DEF Fail, controlVars, QueryInvariant, DraftInv, SortInv, IsRequest, InitialSort

\* A command returns to the address.
LEMMA CommandKeeps ==
  ASSUME QueryInvariant, Command
  PROVE  QueryInvariant'
  BY DEF Command, Visit, controlVars, QueryInvariant, DraftInv, SortInv, IsRequest, InitialSort

\* Every step keeps the invariant.
LEMMA QueryStep == QueryInvariant /\ [Next]_vars => QueryInvariant'
  <1> SUFFICES ASSUME QueryInvariant, [Next]_vars PROVE QueryInvariant'
    OBVIOUS
  <1>1. CASE TabbedResultsBody
    BY <1>1, TypeKeeps DEF TabbedResultsBody
  <1>2. CASE Debounce
    BY <1>2, DebounceKeeps
  <1>3. CASE JobFilters
    BY <1>3, SetFiltersKeeps DEF JobFilters
  <1>4. CASE BatchFilters
    <2>1. ASSUME NEW selected, UpdateQuery([address EXCEPT !.filters = selected])
          PROVE  QueryInvariant'
      <3>1. IsRequest([address EXCEPT !.filters = selected])
        BY DEF QueryInvariant, IsRequest
      <3> QED BY <2>1, <3>1, UpdateQueryKeeps
    <2> QED BY <1>4, <2>1 DEF BatchFilters
  <1>5. CASE QueueFilters \/ MetricsFilters
    BY <1>5, FilterRowsKeeps, DraftedPages DEF QueueFilters, MetricsFilters
  <1>6. CASE MetricsTab
    BY <1>6, MetricsTabKeeps
  <1>7. ASSUME NEW s \in Statuses, UpdateStatus(s) PROVE QueryInvariant'
    <2>1. IsRequest([address EXCEPT !.status = s])
      BY DEF QueryInvariant, IsRequest
    <2> QED BY <1>7, <2>1, UpdateQueryKeeps DEF UpdateStatus
  <1>8. ASSUME NEW c \in Columns, UpdateSort(c) PROVE QueryInvariant'
    <2>1. IsRequest([address EXCEPT !.sort = NextSort(props.sort, c)])
      BY DEF QueryInvariant, IsRequest
    <2> QED BY <1>8, <2>1, UpdateQueryKeeps DEF UpdateSort
  <1>9. ASSUME NEW c \in Columns, ToggleSort(c) PROVE QueryInvariant'
    BY <1>9, ToggleSortKeeps
  <1>10. CASE Answer
    BY <1>10, AnswerKeeps
  <1>11. CASE Fail
    BY <1>11, FailKeeps
  <1>12. CASE Command
    BY <1>12, CommandKeeps
  <1>13. CASE Poll \/ PollAnswer
    BY <1>13, OthersKeep DEF Poll, PollAnswer, queryState, controlVars, historyVars
  <1>14. CASE CatalogIntent \/ CatalogSuccess \/ CatalogFailure \/ CatalogAges
    BY <1>14, OthersKeep DEF CatalogIntent, CatalogSuccess, CatalogFailure, CatalogAges,
       queryState, controlVars, historyVars
  <1>15. ASSUME NEW p \in Pages, Open(p) PROVE QueryInvariant'
    <2>1. IsRequest(Blank)
      BY DEF IsRequest, Blank
    <2> QED BY <1>15, <2>1, MountedKeeps DEF Open
  <1>16. CASE Reload
    BY <1>16, MountedKeeps DEF Reload, QueryInvariant
  <1>17. CASE UNCHANGED vars
    BY <1>17, OthersKeep DEF vars, queryState, controlVars, historyVars
  <1> QED
    BY <1>1, <1>2, <1>3, <1>4, <1>5, <1>6, <1>7, <1>8, <1>9, <1>10, <1>11, <1>12, <1>13,
       <1>14, <1>15, <1>16, <1>17 DEF Next

\* The invariant holds in every state.
THEOREM QueryInvariantHolds == Spec => []QueryInvariant
  BY QueryInit, QueryStep, PTL DEF Spec

\* A filter of jobs stays as the user selected it, whatever is answered late.
THEOREM FiltersDoFollow == Spec => []FiltersFollowTheUser
  <1>1. QueryInvariant => FiltersFollowTheUser
    BY DEF QueryInvariant, DraftInv, FiltersFollowTheUser
  <1> QED BY <1>1, QueryInvariantHolds, PTL

\* The debounce never runs towards what is asked for or answered already.
THEOREM NothingAskedTwice == Spec => []NothingIsAskedTwice
  <1>1. QueryInvariant => NothingIsAskedTwice
    BY DEF QueryInvariant, DraftInv, NothingIsAskedTwice
  <1> QED BY <1>1, QueryInvariantHolds, PTL

\* The address names the order of the rows unless it may have lost it.
THEOREM AddressDoesKeepTheSort == Spec => []AddressKeepsTheSort
  <1>1. QueryInvariant => AddressKeepsTheSort
    BY DEF QueryInvariant, SortInv, AddressKeepsTheSort
  <1> QED BY <1>1, QueryInvariantHolds, PTL

-----------------------------------------------------------------------------
(* The order of the rows, for every list.                                   *)

\* An order of places: no place is before itself, two places are one before the
\* other, and what is before a place is before all that follow it.
IsOrder(places, before) ==
    /\ \A p \in places : <<p, p>> \notin before
    /\ \A p, q \in places : p # q => <<p, q>> \in before \/ <<q, p>> \in before
    /\ \A p, q, r \in places : <<p, q>> \in before /\ <<q, r>> \in before => <<p, r>> \in before

\* The places f puts in a row are those of a set, each of them once, in an order.
Enumerates(f, places, before) ==
    /\ f \in [1..Cardinality(places) -> places]
    /\ \A p \in places : \E n \in 1..Cardinality(places) : f[n] = p
    /\ \A i, j \in 1..Cardinality(places) : i < j => <<f[i], f[j]>> \in before

\* How many places are before one.
Rank(places, before, p) == Cardinality({q \in places : <<q, p>> \in before})

\* A place has fewer before it than there are.
LEMMA RankIsBounded ==
  ASSUME NEW places, IsFiniteSet(places), NEW before, IsOrder(places, before),
         NEW p \in places
  PROVE  Rank(places, before, p) \in 0..(Cardinality(places) - 1)
  <1> DEFINE prior == {q \in places : <<q, p>> \in before}
             others == places \ {p}
  <1>1. prior \in SUBSET others
    BY DEF IsOrder
  <1>2. IsFiniteSet(others) /\ Cardinality(others) = Cardinality(places) - 1
    BY FS_RemoveElement
  <1>3. IsFiniteSet(prior) /\ Cardinality(prior) <= Cardinality(others)
    BY <1>1, <1>2, FS_Subset
  <1>4. Cardinality(prior) \in Nat /\ Cardinality(places) \in Nat
    BY <1>3, FS_CardinalityType
  <1>5. Rank(places, before, p) = Cardinality(prior)
    BY Zenon DEF Rank
  <1> HIDE DEF prior, others
  <1> QED BY <1>2, <1>3, <1>4, <1>5

\* A later place has more before it.
LEMMA RankGrows ==
  ASSUME NEW places, IsFiniteSet(places), NEW before, IsOrder(places, before),
         NEW p \in places, NEW q \in places, <<p, q>> \in before
  PROVE  Rank(places, before, p) < Rank(places, before, q)
  <1> DEFINE priorP == {r \in places : <<r, p>> \in before}
             priorQ == {r \in places : <<r, q>> \in before}
  <1>1. priorP \in SUBSET priorQ /\ p \in priorQ /\ p \notin priorP
    BY DEF IsOrder
  <1>2. priorQ \in SUBSET places
    OBVIOUS
  <1>3. IsFiniteSet(priorQ) /\ Cardinality(priorQ) \in Nat
    BY <1>2, FS_Subset, FS_CardinalityType
  <1>4. /\ Cardinality(priorP) <= Cardinality(priorQ)
        /\ Cardinality(priorP) # Cardinality(priorQ)
        /\ Cardinality(priorP) \in Nat
    <2>1. priorP # priorQ
      BY <1>1
    <2> HIDE DEF priorP, priorQ
    <2> QED BY <1>1, <1>3, <2>1, FS_Subset, FS_CardinalityType
  <1>5. Rank(places, before, p) = Cardinality(priorP)
        /\ Rank(places, before, q) = Cardinality(priorQ)
    BY Zenon DEF Rank
  <1> HIDE DEF priorP, priorQ
  <1> QED BY <1>3, <1>4, <1>5

\* Every rank is that of a place.
LEMMA RanksAreTaken ==
  ASSUME NEW places, IsFiniteSet(places), NEW before, IsOrder(places, before),
         NEW n \in 1..Cardinality(places)
  PROVE  \E p \in places : Rank(places, before, p) = n - 1
  <1> DEFINE size == Cardinality(places)
             g == [p \in places |-> Rank(places, before, p) + 1]
  <1>0. size \in Nat
    BY FS_CardinalityType
  <1>1. \A p \in places : Rank(places, before, p) \in 0..(size - 1)
    BY RankIsBounded
  <1>2. \A p, q \in places : p # q => Rank(places, before, p) # Rank(places, before, q)
    <2> SUFFICES ASSUME NEW p \in places, NEW q \in places, p # q
                 PROVE  Rank(places, before, p) # Rank(places, before, q)
      OBVIOUS
    <2>1. Rank(places, before, p) \in Nat /\ Rank(places, before, q) \in Nat
      BY <1>0, <1>1
    <2>2. <<p, q>> \in before \/ <<q, p>> \in before
      BY DEF IsOrder
    <2>3. Rank(places, before, p) < Rank(places, before, q)
          \/ Rank(places, before, q) < Rank(places, before, p)
      BY <2>2, RankGrows
    <2> QED BY <2>1, <2>3
  <1>3. g \in [places -> 1..size]
    BY <1>0, <1>1
  <1>4. g \in Injection(places, 1..size)
    <2>1. \A p, q \in places : g[p] = g[q] => p = q
      BY <1>0, <1>1, <1>2
    <2> HIDE DEF g
    <2> QED BY <1>3, <2>1 DEF Injection, IsInjective
  <1>5. IsFiniteSet(1..size) /\ Cardinality(1..size) = size
    BY <1>0, FS_Interval
  <1>6. g \in Surjection(places, 1..size)
    <2> HIDE DEF g
    <2> QED BY <1>4, <1>5, FS_Injection
  <1>7. PICK p \in places : g[p] = n
    <2> HIDE DEF g
    <2> QED BY <1>6 DEF Surjection
  <1>8. Rank(places, before, p) \in Nat /\ Rank(places, before, p) + 1 = n
    BY <1>0, <1>1, <1>7
  <1> QED BY <1>8

\* InOrder puts the places in their order.
LEMMA InOrderEnumerates ==
  ASSUME NEW places, IsFiniteSet(places), NEW before, IsOrder(places, before)
  PROVE  Enumerates(InOrder(places, before), places, before)
  <1> DEFINE size == Cardinality(places)
             f == InOrder(places, before)
  <1>0. size \in Nat
    BY FS_CardinalityType
  <1>1. f = [n \in 1..size |->
                CHOOSE p \in places : Rank(places, before, p) = n - 1]
    BY Zenon DEF InOrder, Rank
  <1>2. \A n \in 1..size : f[n] \in places /\ Rank(places, before, f[n]) = n - 1
    <2> TAKE n \in 1..size
    <2>1. f[n] = CHOOSE p \in places : Rank(places, before, p) = n - 1
      BY <1>1
    <2>2. \E p \in places : Rank(places, before, p) = n - 1
      BY RanksAreTaken
    <2> QED BY <2>1, <2>2
  <1>3. f \in [1..size -> places]
    BY <1>1, <1>2
  <1> HIDE DEF f
  <1>4. \A p \in places : \E n \in 1..size : f[n] = p
    <2> TAKE p \in places
    <2> DEFINE n == Rank(places, before, p) + 1
    <2>1. Rank(places, before, p) \in 0..(size - 1)
      BY RankIsBounded
    <2>2. n \in 1..size /\ n - 1 = Rank(places, before, p)
      BY <1>0, <2>1
    <2>3. f[n] \in places /\ Rank(places, before, f[n]) = Rank(places, before, p)
      BY <1>2, <2>2
    <2>4. f[n] = p
      <3> SUFFICES ASSUME f[n] # p PROVE FALSE
        OBVIOUS
      <3>1. <<f[n], p>> \in before \/ <<p, f[n]>> \in before
        BY <2>3 DEF IsOrder
      <3>2. Rank(places, before, f[n]) < Rank(places, before, p)
            \/ Rank(places, before, p) < Rank(places, before, f[n])
        BY <2>3, <3>1, RankGrows
      <3> QED BY <2>1, <2>3, <3>2
    <2> QED BY <2>2, <2>4
  <1>5. \A i, j \in 1..size : i < j => <<f[i], f[j]>> \in before
    <2> SUFFICES ASSUME NEW i \in 1..size, NEW j \in 1..size, i < j
                 PROVE  <<f[i], f[j]>> \in before
      OBVIOUS
    <2>1. f[i] \in places /\ f[j] \in places
          /\ Rank(places, before, f[i]) = i - 1 /\ Rank(places, before, f[j]) = j - 1
      BY <1>2
    <2>2. f[i] # f[j]
      BY <2>1
    <2>3. CASE <<f[j], f[i]>> \in before
      <3>1. Rank(places, before, f[j]) < Rank(places, before, f[i])
        BY <2>1, <2>3, RankGrows
      <3> QED BY <2>1, <3>1
    <2> QED BY <2>1, <2>2, <2>3 DEF IsOrder
  <1> QED BY <1>3, <1>4, <1>5, Zenon DEF Enumerates, f

\* The places of a list are finitely many numbers.
LEMMA PlacesAre ==
  ASSUME NEW rows, IsList(rows), NEW places \in SUBSET (DOMAIN rows)
  PROVE  /\ Len(rows) \in Nat /\ DOMAIN rows = 1..Len(rows)
         /\ Cardinality(DOMAIN rows) = Len(rows)
         /\ IsFiniteSet(places) /\ Cardinality(places) \in Nat
         /\ places \in SUBSET Nat
  <1>1. Len(rows) \in Nat /\ DOMAIN rows = 1..Len(rows)
    <2> DEFINE S == {rows[i] : i \in DOMAIN rows}
    <2>1. rows \in Seq(S)
      BY DEF IsList
    <2> HIDE DEF S
    <2> QED BY <2>1
  <1>2. IsFiniteSet(1..Len(rows)) /\ Cardinality(1..Len(rows)) = Len(rows)
    BY <1>1, FS_Interval
  <1>3. IsFiniteSet(places) /\ Cardinality(places) \in Nat
    BY <1>1, <1>2, FS_Subset, FS_CardinalityType
  <1> QED BY <1>1, <1>2, <1>3

\* The order of the list is an order.
LEMMA EarlierIsOrder ==
  ASSUME NEW places \in SUBSET Nat
  PROVE  IsOrder(places, Earlier)
  BY DEF IsOrder, Earlier

\* What compareValues puts first: a value before none, and then by the direction.
ValueBefore(l, r, direction) ==
    \/ l # Null /\ r = Null
    \/ l # Null /\ r # Null /\ (IF direction = "asc" THEN l < r ELSE l > r)

\* compareValues tells values apart, and which comes first.
LEMMA CompareIs ==
  ASSUME NEW l \in Int \cup {Null}, NEW r \in Int \cup {Null}, NEW direction
  PROVE  /\ CompareValues(l, r, direction) < 0 <=> ValueBefore(l, r, direction)
         /\ CompareValues(l, r, direction) = 0 <=> l = r
  <1>0. Null \notin Int
    BY QueryControlsAssumption
  <1>1. CASE l = r
    <2>1. CompareValues(l, r, direction) = 0
      BY <1>1 DEF CompareValues
    <2>2. ~ ValueBefore(l, r, direction)
      BY <1>0, <1>1 DEF ValueBefore
    <2> QED BY <1>1, <2>1, <2>2
  <1>2. CASE l # r /\ l = Null
    <2>1. CompareValues(l, r, direction) = 1
      BY <1>2 DEF CompareValues
    <2> QED BY <1>2, <2>1 DEF ValueBefore
  <1>3. CASE l # r /\ r = Null
    <2>1. CompareValues(l, r, direction) = -1
      BY <1>3 DEF CompareValues
    <2> QED BY <1>3, <2>1 DEF ValueBefore
  <1>4. CASE l # r /\ l # Null /\ r # Null
    <2>1. CompareValues(l, r, direction) = IF direction = "asc" THEN l - r ELSE r - l
      BY <1>4 DEF CompareValues
    <2>2. l \in Int /\ r \in Int
      BY <1>4
    <2> QED BY <1>4, <2>1, <2>2 DEF ValueBefore
  <1> QED BY <1>1, <1>2, <1>3, <1>4

\* Values are ordered, those that are missing last in both directions.
LEMMA ValuesAreOrdered ==
  ASSUME NEW x \in Int \cup {Null}, NEW y \in Int \cup {Null}, NEW z \in Int \cup {Null},
         NEW d
  PROVE  /\ ~ ValueBefore(x, x, d)
         /\ x # y => ValueBefore(x, y, d) \/ ValueBefore(y, x, d)
         /\ ValueBefore(x, y, d) /\ ValueBefore(y, z, d) => ValueBefore(x, z, d)
         /\ ValueBefore(x, y, d) => ~ ValueBefore(y, x, d)
  <1>0. Null \notin Int
    BY QueryControlsAssumption
  <1>1. CASE d = "asc"
    BY <1>0, <1>1 DEF ValueBefore
  <1>2. CASE d # "asc"
    BY <1>0, <1>2 DEF ValueBefore
  <1> QED BY <1>1, <1>2

\* A row sorts by a number or by nothing.
LEMMA ValueIs ==
  ASSUME NEW row, IsRow(row), NEW column
  PROVE  Value(row, column) \in Int \cup {Null}
  <1>1. row.name \in Int /\ row.value \in Int \cup {Null}
    BY Zenon DEF IsRow
  <1> QED BY <1>1 DEF Value

\* Which of two rows of a list is sorted before the other.
LEMMA BeforeIs ==
  ASSUME NEW rows, IsList(rows), NEW sorting, NEW i \in DOMAIN rows, NEW j \in DOMAIN rows
  PROVE  <<i, j>> \in Before(rows, sorting) <=>
            \/ ValueBefore(Value(rows[i], sorting.column), Value(rows[j], sorting.column),
                           sorting.direction)
            \/ Value(rows[i], sorting.column) = Value(rows[j], sorting.column) /\ i < j
  <1> DEFINE l == Value(rows[i], sorting.column)
             r == Value(rows[j], sorting.column)
             c == CompareValues(l, r, sorting.direction)
  <1>1. l \in Int \cup {Null} /\ r \in Int \cup {Null}
    BY ValueIs DEF IsList
  <1>2. <<i, j>> \in Before(rows, sorting) <=> c < 0 \/ (c = 0 /\ i < j)
    BY DEF Before
  <1>3. /\ c < 0 <=> ValueBefore(l, r, sorting.direction)
        /\ c = 0 <=> l = r
    <2> HIDE DEF l, r
    <2> QED BY <1>1, CompareIs DEF c
  <1> HIDE DEF c
  <1> QED BY <1>2, <1>3

\* The order of a table: that of its column, or of the list.
Order(rows, columns, sorting) ==
    IF sorting.column \notin columns THEN Earlier ELSE Before(rows, sorting)

\* It is an order.
LEMMA OrderIsOrder ==
  ASSUME NEW rows, IsList(rows), NEW columns, NEW sorting
  PROVE  IsOrder(DOMAIN rows, Order(rows, columns, sorting))
  <1>0. DOMAIN rows \in SUBSET Nat
    BY PlacesAre
  <1>1. CASE sorting.column \notin columns
    BY <1>0, <1>1, EarlierIsOrder DEF Order
  <1>2. CASE sorting.column \in columns
    <2> DEFINE v(i) == Value(rows[i], sorting.column)
               d == sorting.direction
    <2>1. \A i \in DOMAIN rows : v(i) \in Int \cup {Null}
      BY ValueIs DEF IsList
    <2>2. \A i, j \in DOMAIN rows : <<i, j>> \in Before(rows, sorting) <=>
              ValueBefore(v(i), v(j), d) \/ (v(i) = v(j) /\ i < j)
      BY BeforeIs
    <2> HIDE DEF v, d
    <2>3. ASSUME NEW i \in DOMAIN rows
          PROVE  <<i, i>> \notin Before(rows, sorting)
      <3>1. ~ ValueBefore(v(i), v(i), d)
        BY <2>1, ValuesAreOrdered
      <3>2. ~ (i < i)
        BY <1>0
      <3> QED BY <2>2, <3>1, <3>2
    <2>4. ASSUME NEW i \in DOMAIN rows, NEW j \in DOMAIN rows, i # j
          PROVE  <<i, j>> \in Before(rows, sorting) \/ <<j, i>> \in Before(rows, sorting)
      <3>1. i \in Nat /\ j \in Nat /\ (i < j \/ j < i)
        BY <1>0, <2>4
      <3>2. v(i) # v(j) => ValueBefore(v(i), v(j), d) \/ ValueBefore(v(j), v(i), d)
        BY <2>1, ValuesAreOrdered
      <3> QED BY <2>2, <3>1, <3>2
    <2>5. ASSUME NEW i \in DOMAIN rows, NEW j \in DOMAIN rows, NEW k \in DOMAIN rows,
                 <<i, j>> \in Before(rows, sorting), <<j, k>> \in Before(rows, sorting)
          PROVE  <<i, k>> \in Before(rows, sorting)
      <3>1. ValueBefore(v(i), v(j), d) /\ ValueBefore(v(j), v(k), d)
                => ValueBefore(v(i), v(k), d)
        BY <2>1, ValuesAreOrdered
      <3>2. i \in Nat /\ j \in Nat /\ k \in Nat
        BY <1>0
      <3>3. i < j /\ j < k => i < k
        BY <3>2
      <3>4. ValueBefore(v(i), v(j), d) \/ (v(i) = v(j) /\ i < j)
        BY <2>2, <2>5
      <3>5. ValueBefore(v(j), v(k), d) \/ (v(j) = v(k) /\ j < k)
        BY <2>2, <2>5
      <3>6. ValueBefore(v(i), v(k), d) \/ (v(i) = v(k) /\ i < k)
        BY <3>1, <3>3, <3>4, <3>5
      <3> QED BY <2>2, <3>6
    <2>6. IsOrder(DOMAIN rows, Before(rows, sorting))
      BY <2>3, <2>4, <2>5 DEF IsOrder
    <2> QED BY <1>2, <2>6 DEF Order
  <1> QED BY <1>1, <1>2

-----------------------------------------------------------------------------

\* The rows of a list at the places that f puts in a row.
RowsAt(rows, f, size) == [n \in 1..size |-> rows[f[n]]]

\* Rows that are arranged are the rows of their places.
LEMMA ArrangedAre ==
  ASSUME NEW rows, IsList(rows), NEW places \in SUBSET (DOMAIN rows), NEW before,
         IsOrder(places, before)
  PROVE  /\ Enumerates(InOrder(places, before), places, before)
         /\ Arranged(rows, places, before)
               = RowsAt(rows, InOrder(places, before), Cardinality(places))
  <1>1. IsFiniteSet(places)
    BY PlacesAre
  <1> QED BY <1>1, InOrderEnumerates, Zenon DEF Arranged, RowsAt

\* A row of n values is a sequence of that length.
LEMMA SequenceIs ==
  ASSUME NEW n \in Nat, NEW t, t = [k \in 1..n |-> t[k]]
  PROVE  t \in Seq({t[k] : k \in DOMAIN t}) /\ Len(t) = n
  <1> DEFINE S == {t[k] : k \in DOMAIN t}
  <1>1. DOMAIN t = 1..n
    OBVIOUS
  <1>2. \A k \in 1..n : t[k] \in S
    BY <1>1
  <1> HIDE DEF S
  <1>3. t \in [1..n -> S]
    BY <1>2
  <1>4. t \in Seq(S)
    BY <1>3, SeqDef
  <1>5. Len(t) \in Nat /\ 1..Len(t) = 1..n
    BY <1>1, <1>4, LenProperties
  <1>6. Len(t) <= n
    <2>1. Len(t) = 0 \/ Len(t) \in 1..n
      BY <1>5
    <2> QED BY <2>1
  <1>7. n <= Len(t)
    <2>1. n = 0 \/ n \in 1..Len(t)
      BY <1>5
    <2> QED BY <1>5, <2>1
  <1>8. Len(t) = n
    BY <1>5, <1>6, <1>7
  <1> QED BY <1>4, <1>8, Zenon DEF S

\* What an enumeration of places shows of a list is a list.
LEMMA EnumeratedIsList ==
  ASSUME NEW rows, IsList(rows), NEW places \in SUBSET (DOMAIN rows), NEW before, NEW f,
         Enumerates(f, places, before), IsOrder(places, before),
         NEW t, t = RowsAt(rows, f, Cardinality(places))
  PROVE  IsList(t) /\ Len(t) = Cardinality(places) /\ DOMAIN t = 1..Cardinality(places)
  <1> DEFINE size == Cardinality(places)
  <1>0. size \in Nat /\ places \in SUBSET Nat
    BY PlacesAre
  <1>1. DOMAIN t = 1..size /\ \A n \in 1..size : t[n] = rows[f[n]]
    BY DEF RowsAt
  <1>2. \A n \in 1..size : f[n] \in places
    BY DEF Enumerates
  <1>3. t \in Seq({t[n] : n \in DOMAIN t}) /\ Len(t) = size
    <2>1. t = [n \in 1..size |-> t[n]]
      BY <1>1 DEF RowsAt
    <2> HIDE DEF size
    <2> QED BY <1>0, <2>1, SequenceIs
  <1>4. \A n \in DOMAIN t : IsRow(t[n])
    <2>1. \A i \in DOMAIN rows : IsRow(rows[i])
      BY Zenon DEF IsList
    <2> QED BY <1>1, <1>2, <2>1
  <1>5. ASSUME NEW i \in DOMAIN t, NEW j \in DOMAIN t, t[i].id = t[j].id
        PROVE  i = j
    <2>1. f[i] \in places /\ f[j] \in places
      BY <1>1, <1>2
    <2>2. rows[f[i]].id = rows[f[j]].id
      BY <1>1, <1>5
    <2>3. f[i] = f[j]
      BY <2>1, <2>2 DEF IsList
    <2>4. <<f[i], f[i]>> \notin before
      BY <2>1 DEF IsOrder
    <2>5. ~ (i < j) /\ ~ (j < i)
      BY <1>1, <2>3, <2>4 DEF Enumerates
    <2>6. i \in Nat /\ j \in Nat
      BY <1>0, <1>1
    <2> QED BY <2>5, <2>6
  <1> QED BY <1>1, <1>3, <1>4, <1>5, Zenon DEF IsList

\* sortRows puts all rows in the order of the table.
LEMMA SortRowsIs ==
  ASSUME NEW rows, IsList(rows), NEW columns, NEW sorting
  PROVE  \E f : /\ Enumerates(f, DOMAIN rows, Order(rows, columns, sorting))
                /\ SortRows(rows, columns, sorting) = RowsAt(rows, f, Len(rows))
  <1>0. Len(rows) \in Nat /\ DOMAIN rows = 1..Len(rows) /\ Cardinality(DOMAIN rows) = Len(rows)
    BY PlacesAre
  <1>1. CASE sorting.column \notin columns
    <2> DEFINE f == [n \in 1..Len(rows) |-> n]
    <2>1. Enumerates(f, DOMAIN rows, Earlier)
      BY <1>0 DEF Enumerates, Earlier
    <2>2. rows = RowsAt(rows, f, Len(rows))
      <3> DEFINE S == {rows[i] : i \in DOMAIN rows}
      <3>1. rows \in Seq(S)
        BY DEF IsList
      <3> HIDE DEF S
      <3>2. rows = [n \in 1..Len(rows) |-> rows[n]]
        BY <3>1
      <3> QED BY <3>2 DEF RowsAt
    <2> HIDE DEF f
    <2> QED BY <1>1, <2>1, <2>2, Zenon DEF SortRows, Order
  <1>2. CASE sorting.column \in columns
    <2>1. Order(rows, columns, sorting) = Before(rows, sorting)
      BY <1>2 DEF Order
    <2>2. IsOrder(DOMAIN rows, Before(rows, sorting))
      BY <2>1, OrderIsOrder
    <2>3. SortRows(rows, columns, sorting) = Arranged(rows, DOMAIN rows, Before(rows, sorting))
      BY <1>2 DEF SortRows
    <2> DEFINE f == InOrder(DOMAIN rows, Before(rows, sorting))
    <2>4. /\ Enumerates(f, DOMAIN rows, Before(rows, sorting))
          /\ Arranged(rows, DOMAIN rows, Before(rows, sorting))
                = RowsAt(rows, f, Cardinality(DOMAIN rows))
      <3>1. DOMAIN rows \in SUBSET (DOMAIN rows)
        OBVIOUS
      <3> QED BY <2>2, <3>1, ArrangedAre
    <2>5. SortRows(rows, columns, sorting) = RowsAt(rows, f, Len(rows))
      BY <1>0, <2>3, <2>4
    <2> HIDE DEF f
    <2> QED BY <2>1, <2>4, <2>5
  <1> QED BY <1>1, <1>2

\* The places of a list have as many ids.
LEMMA IdsAreAsMany ==
  ASSUME NEW list, IsList(list), NEW places \in SUBSET (DOMAIN list)
  PROVE  Cardinality({list[p].id : p \in places}) = Cardinality(places)
  <1> DEFINE ids == {list[p].id : p \in places}
             g == [p \in places |-> list[p].id]
  <1>1. IsFiniteSet(places)
    BY PlacesAre
  <1>2. g \in [places -> ids] /\ \A x \in ids : \E p \in places : g[p] = x
    OBVIOUS
  <1>3. \A p, q \in places : g[p] = g[q] => p = q
    <2> SUFFICES ASSUME NEW p \in places, NEW q \in places, list[p].id = list[q].id
                 PROVE  p = q
      OBVIOUS
    <2>1. p \in DOMAIN list /\ q \in DOMAIN list
      OBVIOUS
    <2> QED BY <2>1 DEF IsList
  <1> HIDE DEF ids, g
  <1>4. g \in Surjection(places, ids)
    BY <1>2 DEF Surjection
  <1>5. g \in Injection(places, ids)
    BY <1>2, <1>3 DEF Injection, IsInjective
  <1>6. Cardinality(ids) = Cardinality(places)
    BY <1>1, <1>4, <1>5, FS_Surjection
  <1> QED BY <1>6 DEF ids

\* A row that is in a list is at the place of its id.
LEMMA PlaceIs ==
  ASSUME NEW list, IsList(list), NEW p \in DOMAIN list, NEW row, row.id = list[p].id
  PROVE  Place(list, row) = p
  <1>1. \A i \in DOMAIN list : list[i].id = row.id => i = p
    BY DEF IsList
  <1> QED BY <1>1 DEF Place

\* The row at p belongs before the one at q.
InPlace(list, lead, columns, sorting, p, q) ==
    \/ list[p].id \in lead /\ list[q].id \notin lead
    \/ /\ list[p].id \in lead <=> list[q].id \in lead
       /\ IF sorting.column \notin columns THEN p < q
          ELSE \/ Precedes(list[p], list[q], sorting.column, sorting.direction)
               \/ /\ ~ Precedes(list[q], list[p], sorting.column, sorting.direction)
                  /\ p < q

\* What f shows of a list is ordered if it puts every place once, and each where it
\* belongs.
LEMMA ShownIsOrdered ==
  ASSUME NEW list, IsList(list), NEW places \in SUBSET (DOMAIN list),
         NEW f \in [1..Cardinality(places) -> places],
         \A p \in places : \E n \in 1..Cardinality(places) : f[n] = p,
         NEW lead, NEW columns, NEW sorting,
         \A i, j \in 1..Cardinality(places) :
            i < j => InPlace(list, lead, columns, sorting, f[i], f[j]),
         NEW shown, DOMAIN shown = 1..Cardinality(places), Len(shown) = Cardinality(places),
         \A n \in 1..Cardinality(places) :
            /\ shown[n].id = list[f[n]].id
            /\ shown[n].name = list[f[n]].name
            /\ shown[n].value = list[f[n]].value
  PROVE  IsOrdered(shown, list, {list[p].id : p \in places}, lead, columns, sorting)
  <1> DEFINE size == Cardinality(places)
             ids == {list[p].id : p \in places}
  <1>1. RowIds(shown) = ids
    <2>1. \A n \in 1..size : f[n] \in places
      OBVIOUS
    <2>2. \A x \in RowIds(shown) : x \in ids
      BY <2>1 DEF RowIds
    <2>3. \A x \in ids : x \in RowIds(shown)
      BY DEF RowIds
    <2> HIDE DEF ids
    <2> QED BY <2>2, <2>3
  <1>2. Len(shown) = Cardinality(ids)
    BY IdsAreAsMany
  <1>3. ASSUME NEW n \in 1..size
        PROVE  /\ f[n] \in DOMAIN list /\ Place(list, shown[n]) = f[n]
               /\ shown[n].id = list[f[n]].id
               /\ Value(shown[n], sorting.column) = Value(list[f[n]], sorting.column)
    <2>1. f[n] \in DOMAIN list /\ shown[n].id = list[f[n]].id
      OBVIOUS
    <2>2. Place(list, shown[n]) = f[n]
      BY <2>1, PlaceIs
    <2>3. Value(shown[n], sorting.column) = Value(list[f[n]], sorting.column)
      BY DEF Value
    <2> QED BY <2>1, <2>2, <2>3
  <1>4. ASSUME NEW i \in 1..size, NEW j \in 1..size, i < j
        PROVE  \/ shown[i].id \in lead /\ shown[j].id \notin lead
               \/ /\ shown[i].id \in lead <=> shown[j].id \in lead
                  /\ IF sorting.column \notin columns
                     THEN Place(list, shown[i]) < Place(list, shown[j])
                     ELSE \/ Precedes(shown[i], shown[j], sorting.column, sorting.direction)
                          \/ /\ ~ Precedes(shown[j], shown[i], sorting.column,
                                           sorting.direction)
                             /\ Place(list, shown[i]) < Place(list, shown[j])
    <2>1. InPlace(list, lead, columns, sorting, f[i], f[j])
      BY <1>4
    <2>2. /\ Precedes(shown[i], shown[j], sorting.column, sorting.direction)
                <=> Precedes(list[f[i]], list[f[j]], sorting.column, sorting.direction)
          /\ Precedes(shown[j], shown[i], sorting.column, sorting.direction)
                <=> Precedes(list[f[j]], list[f[i]], sorting.column, sorting.direction)
      BY <1>3 DEF Precedes
    <2> QED BY <1>3, <2>1, <2>2 DEF InPlace
  <1> QED BY <1>1, <1>2, <1>4, Zenon DEF IsOrdered

\* Places in the order of the table are where they belong.
LEMMA OrderIsInPlace ==
  ASSUME NEW list, IsList(list), NEW lead, NEW columns, NEW sorting,
         NEW p \in DOMAIN list, NEW q \in DOMAIN list,
         <<p, q>> \in Order(list, columns, sorting),
         list[p].id \in lead <=> list[q].id \in lead
  PROVE  InPlace(list, lead, columns, sorting, p, q)
  <1>1. CASE sorting.column \notin columns
    BY <1>1 DEF Order, Earlier, InPlace
  <1>2. CASE sorting.column \in columns
    <2> DEFINE l == Value(list[p], sorting.column)
               r == Value(list[q], sorting.column)
               d == sorting.direction
    <2>1. l \in Int \cup {Null} /\ r \in Int \cup {Null}
      BY ValueIs DEF IsList
    <2>2. ValueBefore(l, r, d) \/ (l = r /\ p < q)
      BY <1>2, BeforeIs DEF Order
    <2>3. /\ Precedes(list[p], list[q], sorting.column, d) <=> ValueBefore(l, r, d)
          /\ Precedes(list[q], list[p], sorting.column, d) <=> ValueBefore(r, l, d)
      BY DEF Precedes, ValueBefore
    <2> HIDE DEF l, r, d
    <2>4. l = r => ~ ValueBefore(r, l, d)
      BY <2>1, ValuesAreOrdered
    <2>5. Precedes(list[p], list[q], sorting.column, d)
          \/ (~ Precedes(list[q], list[p], sorting.column, d) /\ p < q)
      BY <2>2, <2>3, <2>4
    <2> QED BY <1>2, <2>5 DEF InPlace, d
  <1> QED BY <1>1, <1>2

-----------------------------------------------------------------------------
(* The tables.                                                              *)

\* sortRows shows a list in the order of the table.
LEMMA SortedIsOrdered ==
  ASSUME NEW list, IsList(list), NEW columns, NEW sorting
  PROVE  IsOrdered(SortRows(list, columns, sorting), list, RowIds(list), {}, columns, sorting)
  <1> DEFINE shown == SortRows(list, columns, sorting)
             order == Order(list, columns, sorting)
             places == DOMAIN list
  <1>0. /\ places \in SUBSET (DOMAIN list) /\ Cardinality(places) = Len(list)
        /\ IsOrder(places, order)
    BY PlacesAre, OrderIsOrder
  <1>1. PICK f : Enumerates(f, places, order) /\ shown = RowsAt(list, f, Len(list))
    BY SortRowsIs
  <1> HIDE DEF shown, order
  <1>2. Len(shown) = Cardinality(places) /\ DOMAIN shown = 1..Cardinality(places)
    BY <1>0, <1>1, EnumeratedIsList
  <1>3. \A n \in 1..Cardinality(places) : shown[n] = list[f[n]]
    BY <1>0, <1>1 DEF RowsAt
  <1>4. ASSUME NEW i \in 1..Cardinality(places), NEW j \in 1..Cardinality(places), i < j
        PROVE  InPlace(list, {}, columns, sorting, f[i], f[j])
    <2>1. f[i] \in DOMAIN list /\ f[j] \in DOMAIN list /\ <<f[i], f[j]>> \in order
      BY <1>1, <1>4 DEF Enumerates
    <2> QED BY <2>1, OrderIsInPlace DEF order
  <1>5. IsOrdered(shown, list, {list[p].id : p \in places}, {}, columns, sorting)
    <2>1. /\ f \in [1..Cardinality(places) -> places]
          /\ \A p \in places : \E n \in 1..Cardinality(places) : f[n] = p
      BY <1>1 DEF Enumerates
    <2> QED BY <1>0, <1>2, <1>3, <1>4, <2>1, ShownIsOrdered
  <1> QED BY <1>5 DEF RowIds, shown

\* Rows that are searched and filtered before they are sorted.
LEMMA MatchingIsOrdered ==
  ASSUME NEW list, IsList(list), NEW search, NEW filters, NEW columns, NEW sorting
  PROVE  LET places == {i \in DOMAIN list :
                            list[i].name \in Contains[search] /\ filters \subseteq list[i].passes}
         IN  IsOrdered(SortRows(Matching(list, search, filters), columns, sorting), list,
                       {list[p].id : p \in places}, {}, columns, sorting)
  <1> DEFINE places == {i \in DOMAIN list :
                            list[i].name \in Contains[search] /\ filters \subseteq list[i].passes}
             found == Matching(list, search, filters)
             g == InOrder(places, Earlier)
             shown == SortRows(found, columns, sorting)
             size == Cardinality(places)
  <1>0. places \in SUBSET (DOMAIN list)
    OBVIOUS
  <1>1. found = Selected(list, places)
    BY Zenon DEF Matching
  <1> HIDE DEF places, found
  <1>2. places \in SUBSET Nat /\ IsOrder(places, Earlier) /\ size \in Nat
    BY <1>0, PlacesAre, EarlierIsOrder
  <1>3. Enumerates(g, places, Earlier) /\ found = RowsAt(list, g, size)
    BY <1>0, <1>1, <1>2, ArrangedAre DEF Selected
  <1> HIDE DEF g
  <1>4. IsList(found) /\ Len(found) = size /\ DOMAIN found = 1..size
    BY <1>0, <1>2, <1>3, EnumeratedIsList
  <1>5. Cardinality(DOMAIN found) = size
    BY <1>4, PlacesAre
  <1> DEFINE order == Order(found, columns, sorting)
  <1>6. PICK f : Enumerates(f, DOMAIN found, order) /\ shown = RowsAt(found, f, size)
    BY <1>4, SortRowsIs
  <1>7. IsOrder(DOMAIN found, order)
    BY <1>4, OrderIsOrder
  <1> HIDE DEF shown, order
  <1>8. Len(shown) = size /\ DOMAIN shown = 1..size
    <2>1. DOMAIN found \in SUBSET (DOMAIN found)
      OBVIOUS
    <2> QED BY <1>4, <1>5, <1>6, <1>7, <2>1, EnumeratedIsList
  <1>9. /\ f \in [1..size -> 1..size]
        /\ \A p \in 1..size : \E n \in 1..size : f[n] = p
        /\ \A i, j \in 1..size : i < j => <<f[i], f[j]>> \in order
    BY <1>4, <1>5, <1>6 DEF Enumerates
  <1>10. /\ g \in [1..size -> places]
         /\ \A p \in places : \E n \in 1..size : g[n] = p
         /\ \A i, j \in 1..size : i < j => <<g[i], g[j]>> \in Earlier
    BY <1>3 DEF Enumerates
  <1>11. \A n \in 1..size : found[n] = list[g[n]]
    BY <1>3 DEF RowsAt
  <1> DEFINE h == [n \in 1..size |-> g[f[n]]]
  <1>12. h \in [1..size -> places] /\ \A p \in places : \E n \in 1..size : h[n] = p
    <2>1. h \in [1..size -> places]
      BY <1>9, <1>10
    <2>2. ASSUME NEW p \in places
          PROVE  \E n \in 1..size : h[n] = p
      <3>1. PICK m \in 1..size : g[m] = p
        BY <1>10
      <3>2. PICK n \in 1..size : f[n] = m
        BY <1>9
      <3> QED BY <3>1, <3>2
    <2> QED BY <2>1, <2>2
  <1>13. \A n \in 1..size : shown[n] = list[h[n]]
    <2> TAKE n \in 1..size
    <2>1. shown[n] = found[f[n]] /\ f[n] \in 1..size
      BY <1>6, <1>9 DEF RowsAt
    <2> QED BY <1>11, <2>1
  <1>14. ASSUME NEW i \in 1..size, NEW j \in 1..size, i < j
         PROVE  InPlace(list, {}, columns, sorting, h[i], h[j])
    <2>1. f[i] \in 1..size /\ f[j] \in 1..size /\ <<f[i], f[j]>> \in order
      BY <1>9, <1>14
    <2>2. InPlace(found, {}, columns, sorting, f[i], f[j])
      BY <1>4, <2>1, OrderIsInPlace DEF order
    <2>3. found[f[i]] = list[h[i]] /\ found[f[j]] = list[h[j]]
      BY <1>11, <2>1
    <2>4. f[i] < f[j] => h[i] < h[j]
      BY <1>10, <2>1 DEF Earlier
    <2> HIDE DEF h
    <2> QED BY <2>2, <2>3, <2>4 DEF InPlace
  <1> HIDE DEF h
  <1>15. IsOrdered(shown, list, {list[p].id : p \in places}, {}, columns, sorting)
    BY <1>0, <1>8, <1>12, <1>13, <1>14, ShownIsOrdered
  <1> QED BY <1>15, Zenon DEF places, found, shown

\* Jobs that are sorted, and the reserved ones put first.
LEMMA GroupedIsOrdered ==
  ASSUME NEW list, IsList(list), NEW columns, NEW sorting
  PROVE  LET lead == {list[p].id : p \in {i \in DOMAIN list : list[i].reserved}}
         IN  IsOrdered(GroupReservedPendingJobs(SortRows(list, columns, sorting)), list,
                       RowIds(list), lead, columns, sorting)
  <1> DEFINE lead == {list[p].id : p \in {i \in DOMAIN list : list[i].reserved}}
             jobs == SortRows(list, columns, sorting)
             order == Order(list, columns, sorting)
             places == DOMAIN list
             size == Cardinality(places)
  <1>0. /\ places \in SUBSET (DOMAIN list) /\ size = Len(list) /\ size \in Nat
        /\ IsOrder(places, order)
    BY PlacesAre, OrderIsOrder
  <1>1. PICK f : Enumerates(f, places, order) /\ jobs = RowsAt(list, f, size)
    BY <1>0, SortRowsIs
  <1>2. \A p \in places : list[p].id \in lead <=> list[p].reserved
    BY DEF IsList
  <1> HIDE DEF jobs, order, lead
  <1>3. IsList(jobs) /\ Len(jobs) = size /\ DOMAIN jobs = 1..size
    BY <1>0, <1>1, EnumeratedIsList
  <1>4. \A n \in 1..size : jobs[n] = list[f[n]]
    BY <1>1 DEF RowsAt
  <1>5. /\ f \in [1..size -> places]
        /\ \A p \in places : \E n \in 1..size : f[n] = p
        /\ \A i, j \in 1..size : i < j => <<f[i], f[j]>> \in order
    BY <1>1 DEF Enumerates
  <1> DEFINE R == {i \in DOMAIN jobs : jobs[i].reserved}
             W == DOMAIN jobs \ R
             r == Cardinality(R)
             w == Cardinality(W)
             g1 == InOrder(R, Earlier)
             g2 == InOrder(W, Earlier)
             shown == GroupReservedPendingJobs(jobs)
  <1>6. R \in SUBSET (DOMAIN jobs) /\ W \in SUBSET (DOMAIN jobs)
    OBVIOUS
  <1>7. \A n \in 1..size : n \in R <=> jobs[n].reserved
    BY <1>3
  <1>8. W = 1..size \ R /\ R \in SUBSET (1..size)
    BY <1>3
  <1>9. shown = Selected(jobs, R) \o Selected(jobs, W)
    BY Zenon DEF GroupReservedPendingJobs
  <1> HIDE DEF R, W, shown
  <1>10. r \in Nat /\ w \in Nat /\ r + w = size
    <2>1. IsFiniteSet(R) /\ IsFiniteSet(W) /\ IsFiniteSet(DOMAIN jobs)
          /\ r \in Nat /\ w \in Nat /\ Cardinality(DOMAIN jobs) = size
      <3>1. DOMAIN jobs \in SUBSET (DOMAIN jobs)
        OBVIOUS
      <3> QED BY <1>3, <1>6, <3>1, PlacesAre
    <2>2. R \cap W = {} /\ R \cup W = DOMAIN jobs
      BY <1>3, <1>8
    <2>3. Cardinality(R \cup W) = Cardinality(R) + Cardinality(W) - Cardinality(R \cap W)
      BY <2>1, FS_Union
    <2>4. Cardinality(R \cap W) = 0
      BY <2>2, FS_EmptySet
    <2> QED BY <2>1, <2>2, <2>3, <2>4
  <1>11. IsOrder(R, Earlier) /\ IsOrder(W, Earlier)
    BY <1>8, EarlierIsOrder
  <1>12. /\ Enumerates(g1, R, Earlier) /\ Selected(jobs, R) = RowsAt(jobs, g1, r)
         /\ Enumerates(g2, W, Earlier) /\ Selected(jobs, W) = RowsAt(jobs, g2, w)
    BY <1>3, <1>6, <1>11, ArrangedAre DEF Selected
  <1> HIDE DEF g1, g2, r, w
  <1>13. /\ g1 \in [1..r -> R] /\ \A p \in R : \E n \in 1..r : g1[n] = p
         /\ \A i, j \in 1..r : i < j => g1[i] < g1[j]
         /\ g2 \in [1..w -> W] /\ \A p \in W : \E n \in 1..w : g2[n] = p
         /\ \A i, j \in 1..w : i < j => g2[i] < g2[j]
    BY <1>12 DEF Enumerates, Earlier, r, w
  <1>14. /\ Len(shown) = size /\ DOMAIN shown = 1..size
         /\ \A n \in 1..size : shown[n] = IF n <= r THEN jobs[g1[n]] ELSE jobs[g2[n - r]]
    <2> DEFINE s1 == RowsAt(jobs, g1, r)
               s2 == RowsAt(jobs, g2, w)
               S1 == {s1[k] : k \in DOMAIN s1}
               S2 == {s2[k] : k \in DOMAIN s2}
               S == S1 \cup S2
    <2>1. s1 = [k \in 1..r |-> s1[k]] /\ s2 = [k \in 1..w |-> s2[k]]
      BY DEF RowsAt
    <2>2. \A k \in 1..r : s1[k] = jobs[g1[k]]
      BY DEF RowsAt
    <2>3. \A k \in 1..w : s2[k] = jobs[g2[k]]
      BY DEF RowsAt
    <2> HIDE DEF s1, s2
    <2>4. s1 \in Seq(S1) /\ Len(s1) = r /\ s2 \in Seq(S2) /\ Len(s2) = w
      BY <1>10, <2>1, SequenceIs
    <2> HIDE DEF S1, S2
    <2>5. s1 \in Seq(S) /\ s2 \in Seq(S)
      BY <2>4
    <2> HIDE DEF S
    <2>6. /\ s1 \o s2 \in Seq(S) /\ Len(s1 \o s2) = r + w
          /\ \A n \in 1..(r + w) : (s1 \o s2)[n] = IF n <= r THEN s1[n] ELSE s2[n - r]
      BY <2>4, <2>5, ConcatProperties
    <2>7. shown = s1 \o s2
      BY <1>9, <1>12 DEF s1, s2
    <2>8. DOMAIN shown = 1..Len(shown)
      BY <2>6, <2>7, LenProperties
    <2>9. ASSUME NEW n \in 1..size
          PROVE  shown[n] = IF n <= r THEN jobs[g1[n]] ELSE jobs[g2[n - r]]
      <3>1. CASE n <= r
        <4>1. n \in 1..r /\ shown[n] = s1[n]
          BY <1>10, <2>6, <2>7, <3>1
        <4> QED BY <2>2, <3>1, <4>1
      <3>2. CASE ~ (n <= r)
        <4>1. n - r \in 1..w /\ shown[n] = s2[n - r]
          BY <1>10, <2>6, <2>7, <3>2
        <4> QED BY <2>3, <3>2, <4>1
      <3> QED BY <3>1, <3>2
    <2> QED BY <1>10, <2>6, <2>7, <2>8, <2>9
  <1> DEFINE g == [n \in 1..size |-> IF n <= r THEN g1[n] ELSE g2[n - r]]
             h == [n \in 1..size |-> f[g[n]]]
  <1>15. ASSUME NEW n \in 1..size
         PROVE  /\ n <= r => n \in 1..r /\ g[n] = g1[n] /\ g[n] \in R
                /\ ~ (n <= r) => n - r \in 1..w /\ g[n] = g2[n - r] /\ g[n] \in W
    <2>1. CASE n <= r
      <3>1. n \in 1..r
        BY <1>10, <2>1
      <3> QED BY <1>13, <2>1, <3>1
    <2>2. CASE ~ (n <= r)
      <3>1. n - r \in 1..w
        BY <1>10, <2>2
      <3> QED BY <1>13, <2>2, <3>1
    <2> QED BY <2>1, <2>2
  <1>16. g \in [1..size -> 1..size] /\ \A p \in 1..size : \E n \in 1..size : g[n] = p
    <2>1. \A n \in 1..size : g[n] \in 1..size
      BY <1>8, <1>15
    <2>2. ASSUME NEW p \in 1..size
          PROVE  \E n \in 1..size : g[n] = p
      <3>1. CASE p \in R
        <4>1. PICK n \in 1..r : g1[n] = p
          BY <1>13, <3>1
        <4>2. n \in 1..size /\ n <= r
          BY <1>10
        <4> QED BY <4>1, <4>2
      <3>2. CASE p \notin R
        <4>1. PICK m \in 1..w : g2[m] = p
          BY <1>8, <1>13, <3>2
        <4>2. m + r \in 1..size /\ ~ (m + r <= r) /\ (m + r) - r = m
          BY <1>10
        <4>3. g[m + r] = p
          BY <4>1, <4>2
        <4> QED BY <4>2, <4>3
      <3> QED BY <3>1, <3>2
    <2> QED BY <2>1, <2>2
  <1>17. \A n \in 1..size : shown[n] = list[h[n]]
    <2> TAKE n \in 1..size
    <2>1. shown[n] = jobs[g[n]]
      BY <1>14
    <2>2. g[n] \in 1..size
      BY <1>16
    <2> HIDE DEF g
    <2> QED BY <1>4, <2>1, <2>2
  <1>18. ASSUME NEW i \in 1..size, NEW j \in 1..size, i < j
         PROVE  \/ g[i] \in R /\ g[j] \in W
                \/ (g[i] \in R <=> g[j] \in R) /\ g[i] < g[j]
    <2>1. CASE j <= r
      <3>1. i <= r
        BY <1>10, <1>18, <2>1
      <3> QED BY <1>13, <1>15, <1>18, <2>1, <3>1
    <2>2. CASE i <= r /\ ~ (j <= r)
      BY <1>15, <2>2
    <2>3. CASE ~ (i <= r) /\ ~ (j <= r)
      <3>1. i - r < j - r
        BY <1>10, <1>18
      <3>2. g[i] < g[j] /\ g[i] \in W /\ g[j] \in W
        BY <1>13, <1>15, <2>3, <3>1
      <3> QED BY <1>8, <3>2
    <2>4. i \in Nat /\ j \in Nat
      BY <1>10
    <2> QED BY <2>1, <2>2, <2>3
  <1> HIDE DEF g
  <1>19. h \in [1..size -> places] /\ \A p \in places : \E n \in 1..size : h[n] = p
    <2>1. h \in [1..size -> places]
      BY <1>5, <1>16
    <2>2. ASSUME NEW p \in places
          PROVE  \E n \in 1..size : h[n] = p
      <3>1. PICK m \in 1..size : f[m] = p
        BY <1>5
      <3>2. PICK n \in 1..size : g[n] = m
        BY <1>16
      <3> QED BY <3>1, <3>2
    <2> QED BY <2>1, <2>2
  <1>20. ASSUME NEW i \in 1..size, NEW j \in 1..size, i < j
         PROVE  InPlace(list, lead, columns, sorting, h[i], h[j])
    <2>1. /\ g[i] \in 1..size /\ g[j] \in 1..size /\ h[i] = f[g[i]] /\ h[j] = f[g[j]]
          /\ h[i] \in places /\ h[j] \in places
      BY <1>5, <1>16
    <2> HIDE DEF h
    <2>2. /\ list[h[i]].id \in lead <=> g[i] \in R
          /\ list[h[j]].id \in lead <=> g[j] \in R
      BY <1>2, <1>4, <1>7, <2>1
    <2>3. CASE g[i] \in R /\ g[j] \in W
      BY <1>8, <2>2, <2>3 DEF InPlace
    <2>4. CASE (g[i] \in R <=> g[j] \in R) /\ g[i] < g[j]
      <3>1. <<h[i], h[j]>> \in order
        BY <1>5, <2>1, <2>4
      <3> QED BY <2>1, <2>2, <2>4, <3>1, OrderIsInPlace DEF order
    <2> QED BY <1>18, <1>20, <2>3, <2>4
  <1> HIDE DEF h
  <1>21. IsOrdered(shown, list, {list[p].id : p \in places}, lead, columns, sorting)
    <2>1. DOMAIN shown = 1..size /\ Len(shown) = size
      BY <1>14
    <2>2. \A n \in 1..size : /\ shown[n].id = list[h[n]].id
                             /\ shown[n].name = list[h[n]].name
                             /\ shown[n].value = list[h[n]].value
      BY <1>17
    <2>3. \A i, j \in 1..size : i < j => InPlace(list, lead, columns, sorting, h[i], h[j])
      BY <1>20
    <2>4. places \in SUBSET (DOMAIN list) /\ h \in [1..size -> places]
      BY <1>0, <1>19
    <2>5. \A p \in places : \E n \in 1..size : h[n] = p
      BY <1>19
    <2> HIDE DEF places
    <2> QED BY <2>1, <2>2, <2>3, <2>4, <2>5, ShownIsOrdered
  <1>22. IsOrdered(shown, list, RowIds(list), lead, columns, sorting)
    BY <1>21 DEF RowIds
  <1> QED BY <1>22, Zenon DEF lead, jobs, shown

\* A row whose parts are replaced keeps the rest.
LEMMA PartsReplaced ==
  ASSUME NEW row, IsRow(row), NEW parts, NEW t, t = [row EXCEPT !.parts = parts]
  PROVE  t.id = row.id /\ t.name = row.name /\ t.value = row.value /\ t.parts = parts
  BY DEF IsRow

\* The pools of the dashboard, and the queues of each.
LEMMA WorkloadIsOrdered ==
  ASSUME NEW list, IsList(list), \A p \in DOMAIN list : IsList(list[p].parts),
         NEW columns, NEW sorting,
         NEW shown, shown = WorkloadTable(list, columns, sorting)
  PROVE  /\ IsOrdered(shown, list, RowIds(list), {}, columns, sorting)
         /\ \A i \in DOMAIN shown : \A j \in DOMAIN list :
               shown[i].id = list[j].id =>
                  IsOrdered(shown[i].parts, list[j].parts, RowIds(list[j].parts), {},
                            columns, sorting)
  <1> DEFINE items == SortRows(list, columns, sorting)
             order == Order(list, columns, sorting)
             places == DOMAIN list
             size == Cardinality(places)
  <1>0. /\ places \in SUBSET (DOMAIN list) /\ size = Len(list) /\ size \in Nat
        /\ IsOrder(places, order)
    BY PlacesAre, OrderIsOrder
  <1>1. PICK f : Enumerates(f, places, order) /\ items = RowsAt(list, f, size)
    BY <1>0, SortRowsIs
  <1>2. shown = [i \in DOMAIN items |-> WorkloadRows(items[i], columns, sorting)]
    BY Zenon DEF WorkloadTable
  <1> HIDE DEF items, order
  <1>3. DOMAIN items = 1..size /\ \A n \in 1..size : items[n] = list[f[n]]
    BY <1>1 DEF RowsAt
  <1>4. /\ f \in [1..size -> places]
        /\ \A p \in places : \E n \in 1..size : f[n] = p
        /\ \A i, j \in 1..size : i < j => <<f[i], f[j]>> \in order
    BY <1>1 DEF Enumerates
  <1>5. DOMAIN shown = 1..size /\ Len(shown) = size
    <2>1. shown = [i \in 1..size |-> shown[i]]
      BY <1>2, <1>3
    <2> QED BY <1>0, <2>1, SequenceIs
  <1>6. ASSUME NEW n \in 1..size
        PROVE  /\ shown[n].id = list[f[n]].id /\ shown[n].name = list[f[n]].name
               /\ shown[n].value = list[f[n]].value
               /\ shown[n].parts = SortRows(list[f[n]].parts, columns, sorting)
    <2>1. f[n] \in places /\ IsRow(list[f[n]])
      BY <1>4 DEF IsList
    <2>2. shown[n] = [list[f[n]] EXCEPT
                        !.parts = SortRows(list[f[n]].parts, columns, sorting)]
      BY <1>2, <1>3 DEF WorkloadRows
    <2> QED BY <2>1, <2>2, PartsReplaced
  <1>7. IsOrdered(shown, list, {list[p].id : p \in places}, {}, columns, sorting)
    <2>1. ASSUME NEW i \in 1..size, NEW j \in 1..size, i < j
          PROVE  InPlace(list, {}, columns, sorting, f[i], f[j])
      <3>1. f[i] \in places /\ f[j] \in places /\ <<f[i], f[j]>> \in order
        BY <1>4, <2>1
      <3> QED BY <3>1, OrderIsInPlace DEF order
    <2>2. \A n \in 1..size : /\ shown[n].id = list[f[n]].id
                             /\ shown[n].name = list[f[n]].name
                             /\ shown[n].value = list[f[n]].value
      BY <1>6
    <2>3. /\ places \in SUBSET (DOMAIN list) /\ f \in [1..size -> places]
          /\ \A p \in places : \E n \in 1..size : f[n] = p
      BY <1>0, <1>4
    <2> QED BY <1>5, <2>1, <2>2, <2>3, ShownIsOrdered
  <1>8. ASSUME NEW i \in DOMAIN shown, NEW j \in DOMAIN list, shown[i].id = list[j].id
        PROVE  IsOrdered(shown[i].parts, list[j].parts, RowIds(list[j].parts), {},
                         columns, sorting)
    <2>1. f[i] \in places /\ list[f[i]].id = list[j].id
      BY <1>4, <1>5, <1>6, <1>8
    <2>2. f[i] = j
      BY <2>1 DEF IsList
    <2>3. shown[i].parts = SortRows(list[j].parts, columns, sorting)
      BY <1>5, <1>6, <2>2
    <2> QED BY <2>3, SortedIsOrdered
  <1> QED BY <1>7, <1>8 DEF RowIds

\* The instances keep their order; the supervisors of each are sorted.
LEMMA SupervisorsAreOrdered ==
  ASSUME NEW list, IsList(list), \A p \in DOMAIN list : IsList(list[p].parts),
         NEW columns, NEW sorting,
         NEW shown, shown = SupervisorsTable(list, columns, sorting)
  PROVE  /\ IsOrdered(shown, list, RowIds(list), {}, {}, sorting)
         /\ \A i \in DOMAIN shown : \A j \in DOMAIN list :
               shown[i].id = list[j].id =>
                  IsOrdered(shown[i].parts, list[j].parts, RowIds(list[j].parts), {},
                            columns, sorting)
  <1> DEFINE places == DOMAIN list
             size == Cardinality(places)
             f == [n \in 1..size |-> n]
  <1>0. /\ places \in SUBSET (DOMAIN list) /\ size \in Nat /\ places = 1..size
        /\ places \in SUBSET Nat
    BY PlacesAre
  <1>1. /\ f \in [1..size -> places] /\ \A n \in 1..size : f[n] = n
        /\ \A p \in places : \E n \in 1..size : f[n] = p
    BY <1>0
  <1> HIDE DEF f
  <1>2. DOMAIN shown = 1..size /\ Len(shown) = size
    <2>1. shown = [i \in 1..size |-> shown[i]]
      BY <1>0 DEF SupervisorsTable
    <2> QED BY <1>0, <2>1, SequenceIs
  <1>3. ASSUME NEW n \in 1..size
        PROVE  /\ shown[n].id = list[n].id /\ shown[n].name = list[n].name
               /\ shown[n].value = list[n].value
               /\ shown[n].parts = SortRows(list[n].parts, columns, sorting)
    <2>1. IsRow(list[n])
      BY <1>0 DEF IsList
    <2>2. shown[n] = [list[n] EXCEPT !.parts = SortRows(list[n].parts, columns, sorting)]
      BY <1>0 DEF SupervisorsTable, HorizonInstance
    <2> QED BY <2>1, <2>2, PartsReplaced
  <1>4. IsOrdered(shown, list, {list[p].id : p \in places}, {}, {}, sorting)
    <2>1. \A i, j \in 1..size : i < j => InPlace(list, {}, {}, sorting, f[i], f[j])
      BY <1>1 DEF InPlace
    <2>2. \A n \in 1..size : /\ shown[n].id = list[f[n]].id
                             /\ shown[n].name = list[f[n]].name
                             /\ shown[n].value = list[f[n]].value
      BY <1>1, <1>3
    <2>3. /\ places \in SUBSET (DOMAIN list) /\ f \in [1..size -> places]
          /\ \A p \in places : \E n \in 1..size : f[n] = p
      BY <1>0, <1>1
    <2> QED BY <1>2, <2>1, <2>2, <2>3, ShownIsOrdered
  <1>5. ASSUME NEW i \in DOMAIN shown, NEW j \in DOMAIN list, shown[i].id = list[j].id
        PROVE  IsOrdered(shown[i].parts, list[j].parts, RowIds(list[j].parts), {},
                         columns, sorting)
    <2>1. i \in DOMAIN list /\ list[i].id = list[j].id
      BY <1>0, <1>2, <1>3, <1>5
    <2>2. i = j
      BY <2>1 DEF IsList
    <2>3. shown[i].parts = SortRows(list[j].parts, columns, sorting)
      BY <1>2, <1>3, <2>2
    <2> QED BY <2>3, SortedIsOrdered
  <1> QED BY <1>4, <1>5 DEF RowIds

\* Whatever the user has typed, selected and sorted, every page but that of the
\* batches shows every row it should and no other, in the order that was asked for
\* (use-sortable-rows.ts, grouped-pending-jobs.ts, index.tsx of queues and metrics).
THEOREM RowsAreShownInOrder == Spec => []RowsAreInOrder
  <1>1. QueryInvariant => RowsAreInOrder
    <2> SUFFICES ASSUME page \in Pages, page # "batches", NEW list \in Samples
                 PROVE  LET shown == Table(page, list, draft, sort)
                            matching == IF page \notin Searched \cap Local THEN RowIds(list)
                                ELSE {list[i].id : i \in {j \in DOMAIN list :
                                        /\ list[j].name \in Contains[Trim[draft.search]]
                                        /\ draft.filters \subseteq list[j].passes}}
                            lead == {list[i].id : i \in {j \in DOMAIN list :
                                        page = "pending" /\ list[j].reserved}}
                            columns == SortColumns[page]
                            parted == page \in {"workload", "supervisors"}
                        IN  /\ IsOrdered(shown, list, matching, lead,
                                IF page = "supervisors" THEN {} ELSE columns, sort)
                            /\ parted => \A i \in DOMAIN shown : \A j \in DOMAIN list :
                                  shown[i].id = list[j].id =>
                                    IsOrdered(shown[i].parts, list[j].parts,
                                              RowIds(list[j].parts), {}, columns, sort)
      BY Zenon DEF QueryInvariant, RowsAreInOrder
    <2> DEFINE shown == Table(page, list, draft, sort)
               lead == {list[i].id : i \in {j \in DOMAIN list :
                                        page = "pending" /\ list[j].reserved}}
               columns == SortColumns[page]
    <2>1. IsList(list) /\ \A i \in DOMAIN list : IsList(list[i].parts)
      BY QueryControlsAssumption
    <2>2. page # "pending" => lead = {}
      OBVIOUS
    <2>3. page \in Searched \cap Local <=> page \in {"queues", "metrics"}
      BY DEF Searched, Local, Pages, View, JobsContent, FailedJobsIndex, BatchesIndexContent,
             LocalTable
    <2>4. CASE page = "pending"
      <3>1. shown = GroupReservedPendingJobs(SortRows(list, columns, sort))
        BY <2>4 DEF Table, PendingJobTable
      <3>2. lead = {list[p].id : p \in {i \in DOMAIN list : list[i].reserved}}
        BY <2>4
      <3>3. IsOrdered(shown, list, RowIds(list), lead, columns, sort)
        BY <2>1, <3>1, <3>2, GroupedIsOrdered
      <3> HIDE DEF shown, lead, columns
      <3> QED BY <2>3, <2>4, <3>3 DEF shown, lead, columns
    <2>5. CASE page \in {"completed", "failed", "tags"}
      <3>1. shown = SortRows(list, columns, sort)
        BY <2>5 DEF Table, JobTable, FailedJobTable, MonitoredTagsTable
      <3>2. IsOrdered(shown, list, RowIds(list), lead, columns, sort)
        BY <2>1, <2>2, <2>5, <3>1, SortedIsOrdered
      <3> QED BY <2>3, <2>5, <3>2
    <2>6. CASE page \in {"queues", "metrics"}
      <3>1. shown = SortRows(Matching(list, Trim[draft.search], draft.filters), columns, sort)
        BY <2>6 DEF Table, QueuesIndex, QueueTable, MetricsIndex, MetricsTable
      <3>2. IsOrdered(shown, list,
                      {list[i].id : i \in {j \in DOMAIN list :
                                        /\ list[j].name \in Contains[Trim[draft.search]]
                                        /\ draft.filters \subseteq list[j].passes}},
                      lead, columns, sort)
        <4>1. lead = {}
          BY <2>2, <2>6
        <4> HIDE DEF lead, columns
        <4>2. IsOrdered(SortRows(Matching(list, Trim[draft.search], draft.filters),
                                 columns, sort), list,
                        {list[i].id : i \in {j \in DOMAIN list :
                                        /\ list[j].name \in Contains[Trim[draft.search]]
                                        /\ draft.filters \subseteq list[j].passes}},
                        {}, columns, sort)
          BY <2>1, MatchingIsOrdered, Zenon
        <4> QED BY <3>1, <4>1, <4>2, Zenon
      <3> QED BY <2>3, <2>6, <3>2
    <2>7. CASE page = "workload"
      <3>1. shown = WorkloadTable(list, columns, sort)
        BY <2>7 DEF Table
      <3> HIDE DEF shown
      <3>2. /\ IsOrdered(shown, list, RowIds(list), {}, columns, sort)
            /\ \A i \in DOMAIN shown : \A j \in DOMAIN list :
                  shown[i].id = list[j].id =>
                    IsOrdered(shown[i].parts, list[j].parts, RowIds(list[j].parts), {},
                              columns, sort)
        BY <2>1, <3>1, WorkloadIsOrdered
      <3> QED BY <2>2, <2>3, <2>7, <3>2 DEF shown
    <2>8. CASE page = "supervisors"
      <3>1. shown = SupervisorsTable(list, columns, sort)
        BY <2>8 DEF Table
      <3> HIDE DEF shown
      <3>2. /\ IsOrdered(shown, list, RowIds(list), {}, {}, sort)
            /\ \A i \in DOMAIN shown : \A j \in DOMAIN list :
                  shown[i].id = list[j].id =>
                    IsOrdered(shown[i].parts, list[j].parts, RowIds(list[j].parts), {},
                              columns, sort)
        BY <2>1, <3>1, SupervisorsAreOrdered
      <3> QED BY <2>2, <2>3, <2>8, <3>2 DEF shown
    <2> QED BY <2>4, <2>5, <2>6, <2>7, <2>8 DEF Pages
  <1> QED BY <1>1, QueryInvariantHolds, PTL
=============================================================================
