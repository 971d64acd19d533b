---------------------------- MODULE QueuePage_proofs ----------------------------
(***************************************************************************)
(* For any queues, tabs and delayed jobs, and in any order of visits,      *)
(* refreshes and reloads: the address of the page of a queue names what    *)
(* the page shows, delayed jobs are released on time, and numbers that     *)
(* were told once stay.  One inductive invariant each: the visit and the   *)
(* late charts, the clock, and the last known number.                      *)
(***************************************************************************)
EXTENDS QueuePage, WellFoundedInduction, TLAPS

\* A visit for a part of the page is for the page that is open: what it does not
\* bring is what it was asked for in.
PartialVisit(v) ==
    /\ v.kind = "tab" => v.to.queue = queue
    /\ v.kind = "view" /\ ~ late => v.to.queue = queue /\ v.to.tab = tab

\* The inductive invariant.
PageInvariant ==
    /\ address \in Addresses
    /\ queue \in Queues /\ tab \in Tabs /\ view \in Views
    /\ visit \in Visits
    /\ awaiting \in Visits /\ awaiting.kind \in {"none", "view"}
    /\ summary.queue \in Queues
    /\ ~ late => summary.queue = queue
    /\ PartialVisit(visit)
    /\ AddressNamesWhatIsShown

\* The variables the invariant is about.
shownPage == <<queue, tab, view, address, summary, visit, awaiting, late>>

\* A summary is of the queue it was read for.
LEMMA SummaryOfQueue ==
  ASSUME NEW q, NEW s \in Summaries(q)
  PROVE  s.queue = q
  <1>1. CASE s \in [queue : {q}, available : {TRUE}, completed : Values \cup {Null}]
    BY <1>1
  <1>2. CASE s = [queue |-> q, available |-> FALSE, completed |-> Null]
    BY <1>2
  <1> QED BY <1>1, <1>2, Zenon DEF Summaries

\* An address is what it names.
LEMMA AddressIs ==
  ASSUME NEW a \in Addresses
  PROVE  /\ a = [queue |-> a.queue, tab |-> a.tab, view |-> a.view]
         /\ a.queue \in Queues /\ a.tab \in Tabs /\ a.view \in Views
  BY DEF Addresses

\* The page is opened at its address.
LEMMA PageInit == Init => PageInvariant
  <1> SUFFICES ASSUME Init PROVE PageInvariant
    OBVIOUS
  <1>1. queue \in Queues /\ tab \in Tabs /\ view \in Views
    BY QueuePageAssumption DEF Init, Views
  <1>2. address \in Addresses /\ AddressNamesWhatIsShown
    BY <1>1 DEF Init, Addresses, AddressNamesWhatIsShown
  <1>3. visit \in Visits /\ awaiting \in Visits /\ awaiting.kind \in {"none", "view"}
    BY DEF Init, Visits, NoVisit
  <1>4. PartialVisit(visit)
    BY DEF Init, PartialVisit, NoVisit
  <1>5. summary.queue = queue
    BY DEF Init
  <1> QED BY <1>1, <1>2, <1>3, <1>4, <1>5 DEF PageInvariant

\* A visit begins: the page stays what it is.
LEMMA VisitBegins ==
  ASSUME PageInvariant,
         UNCHANGED <<queue, tab, view, address, summary, awaiting, late>>,
         visit' \in Visits, PartialVisit(visit)'
  PROVE  PageInvariant'
  BY DEF PageInvariant, AddressNamesWhatIsShown

\* The address of a tab keeps the queue and the view.
LEMMA SelectTabKeeps ==
  ASSUME PageInvariant, NEW t \in Tabs, SelectTab(t)
  PROVE  PageInvariant'
  <1>1. visit' = TabVisit(t) /\ UNCHANGED <<queue, tab, view, address, summary, awaiting, late>>
    BY DEF SelectTab, Foreground, pageVars, knownVars, chartVars
  <1>2. TabVisit(t) \in Visits
    BY DEF TabVisit, Visits, Addresses, PageInvariant
  <1>3. PartialVisit(visit)'
    BY <1>1 DEF PartialVisit, TabVisit
  <1> QED BY <1>1, <1>2, <1>3, VisitBegins

\* The address of a view keeps the queue and the tab.
LEMMA SelectViewKeeps ==
  ASSUME PageInvariant, NEW v \in Views, SelectView(v)
  PROVE  PageInvariant'
  <1> DEFINE asked == ViewUrl(summary.queue, tab, v)
  <1>1. asked \in Visits /\ asked.kind = "view" /\ (~ late => PartialVisit(asked))
        /\ asked.to.queue = summary.queue /\ asked.to.tab = tab
    BY DEF ViewUrl, ViewVisit, Visits, Addresses, PageInvariant, PartialVisit
  <1>2. UNCHANGED <<queue, tab, view, address, summary, late>>
    BY DEF SelectView, pageVars, knownVars
  <1>3. CASE awaiting' = asked /\ visit' = visit
    BY <1>1, <1>2, <1>3 DEF PageInvariant, PartialVisit, AddressNamesWhatIsShown
  <1>4. CASE awaiting' = awaiting /\ visit' = asked
    <2>1. PartialVisit(visit)'
      BY <1>1, <1>2, <1>4 DEF PartialVisit, PageInvariant
    <2> QED BY <1>1, <1>2, <1>4, <2>1, VisitBegins
  <1> QED BY <1>3, <1>4 DEF SelectView, Foreground, chartVars

\* The visit for the charts is late when it meets another tab or queue.
LEMMA MetricChartLoadedKeeps ==
  ASSUME PageInvariant, MetricChartLoaded
  PROVE  PageInvariant'
  <1>1. /\ awaiting' = NoVisit
        /\ UNCHANGED <<queue, tab, view, address, summary>>
    BY DEF MetricChartLoaded, pageVars, knownVars
  <1>2. NoVisit \in Visits /\ NoVisit.kind = "none"
    BY DEF NoVisit, Visits
  <1>3. CASE awaiting = NoVisit
    <2>1. UNCHANGED <<visit, late>>
      BY <1>3 DEF MetricChartLoaded
    <2> QED BY <1>1, <1>2, <2>1 DEF PageInvariant, PartialVisit, AddressNamesWhatIsShown
  <1>4. CASE awaiting # NoVisit
    <2>1. /\ visit' = awaiting
          /\ late' = (late \/ awaiting.to.tab # tab \/ awaiting.to.queue # queue)
      BY <1>4 DEF MetricChartLoaded, Foreground
    <2>2. awaiting.kind = "view"
      BY <1>4 DEF PageInvariant, Visits, NoVisit
    <2>3. PartialVisit(visit)'
      BY <1>1, <2>1, <2>2 DEF PartialVisit
    <2> QED BY <1>1, <1>2, <2>1, <2>3 DEF PageInvariant, AddressNamesWhatIsShown
  <1> QED BY <1>3, <1>4

\* A link asks for all of the page.
LEMMA OpenKeeps ==
  ASSUME PageInvariant, NEW q \in Queues, NEW t \in Tabs, Open(q, t)
  PROVE  PageInvariant'
  <1>1. visit' = PageVisit(q, t) /\ UNCHANGED <<queue, tab, view, address, summary, awaiting, late>>
    BY DEF Open, Foreground, pageVars, knownVars, chartVars
  <1>2. PageVisit(q, t) \in Visits
    BY DEF PageVisit, Visits, Addresses, Views
  <1>3. PartialVisit(visit)'
    BY <1>1 DEF PartialVisit, PageVisit
  <1> QED BY <1>1, <1>2, <1>3, VisitBegins

\* The browser loads what the address names.
LEMMA ReloadKeeps ==
  ASSUME PageInvariant, Reload
  PROVE  PageInvariant'
  <1>1. /\ queue' = address.queue /\ tab' = address.tab /\ view' = address.view
        /\ visit' = NoVisit /\ awaiting' = NoVisit /\ late' = FALSE /\ address' = address
    BY DEF Reload, Mount
  <1>2. summary'.queue = address.queue
    BY SummaryOfQueue DEF Reload, ShowSummary
  <1>3. address \in Addresses
    BY DEF PageInvariant
  <1>4. NoVisit \in Visits /\ NoVisit.kind = "none"
    BY DEF NoVisit, Visits
  <1>5. PartialVisit(visit)'
    BY <1>1, <1>4 DEF PartialVisit
  <1>6. AddressNamesWhatIsShown'
    BY <1>1, <1>3, AddressIs DEF AddressNamesWhatIsShown
  <1> QED BY <1>1, <1>2, <1>3, <1>4, <1>5, <1>6, AddressIs DEF PageInvariant

\* What an answer brings, and what it leaves, is what its address names.
LEMMA AnswerKeeps ==
  ASSUME PageInvariant, Answer
  PROVE  PageInvariant'
  <1>1. /\ visit # NoVisit /\ visit' = NoVisit /\ address' = visit.to /\ view' = visit.to.view
        /\ UNCHANGED awaiting
    BY DEF Answer, Mount, chartVars
  <1>2. visit.to \in Addresses
    BY <1>1 DEF PageInvariant, Visits
  <1>3. visit.to = [queue |-> visit.to.queue, tab |-> visit.to.tab, view |-> visit.to.view]
        /\ visit.to.queue \in Queues /\ visit.to.tab \in Tabs /\ visit.to.view \in Views
    BY <1>2, AddressIs
  <1>4. visit' \in Visits /\ PartialVisit(visit)'
    BY <1>1 DEF NoVisit, Visits, PartialVisit
  <1>5. CASE /\ visit.kind = "tab" /\ tab' = visit.to.tab
             /\ UNCHANGED <<queue, summary, late>>
    <2>1. AddressNamesWhatIsShown'
      BY <1>1, <1>3, <1>5 DEF PageInvariant, PartialVisit, AddressNamesWhatIsShown
    <2> QED BY <1>1, <1>2, <1>3, <1>4, <1>5, <2>1 DEF PageInvariant
  <1>6. CASE /\ visit.kind = "view"
             /\ UNCHANGED <<queue, tab, summary, late>>
    <2>1. AddressNamesWhatIsShown'
      BY <1>1, <1>3, <1>6 DEF PageInvariant, PartialVisit, AddressNamesWhatIsShown
    <2> QED BY <1>1, <1>2, <1>3, <1>4, <1>6, <2>1 DEF PageInvariant
  <1>7. CASE /\ queue' = visit.to.queue /\ tab' = visit.to.tab
             /\ summary'.queue = visit.to.queue /\ late' = FALSE
    <2>1. AddressNamesWhatIsShown'
      BY <1>1, <1>3, <1>7 DEF AddressNamesWhatIsShown
    <2> QED BY <1>1, <1>2, <1>3, <1>4, <1>7, <2>1 DEF PageInvariant
  <1> QED BY <1>5, <1>6, <1>7, SummaryOfQueue DEF Answer, Mount, knownVars, ShowSummary

\* A refresh that is not discarded is for the queue of the address.
LEMMA SummaryAnswerKeeps ==
  ASSUME PageInvariant, SummaryAnswer
  PROVE  PageInvariant'
  <1>1. UNCHANGED <<queue, tab, view, address, visit, awaiting, late>>
    BY DEF SummaryAnswer, pageVars, chartVars
  <1>2. summary' = summary \/ summary'.queue = address.queue
    BY SummaryOfQueue DEF SummaryAnswer, ShowSummary, knownVars
  <1>3. summary'.queue \in Queues /\ (~ late => summary'.queue = queue)
    BY <1>2, AddressIs DEF PageInvariant, AddressNamesWhatIsShown
  <1> QED BY <1>1, <1>3 DEF PageInvariant, PartialVisit, AddressNamesWhatIsShown

\* Nobody else touches the page, its address or its visits.
LEMMA OthersKeep ==
  ASSUME PageInvariant, UNCHANGED shownPage
  PROVE  PageInvariant'
  BY DEF shownPage, PageInvariant, PartialVisit, AddressNamesWhatIsShown

\* Every step keeps the invariant.
LEMMA PageStep == PageInvariant /\ [Next]_vars => PageInvariant'
  <1> SUFFICES ASSUME PageInvariant, [Next]_vars PROVE PageInvariant'
    OBVIOUS
  <1> USE DEF shownPage, pageVars, knownVars, chartVars
  <1>1. ASSUME NEW t \in Tabs, SelectTab(t) PROVE PageInvariant'
    BY <1>1, SelectTabKeeps
  <1>2. ASSUME NEW v \in Views, SelectView(v) PROVE PageInvariant'
    BY <1>2, SelectViewKeeps
  <1>3. ASSUME NEW q \in Queues, NEW t \in Tabs, Open(q, t) PROVE PageInvariant'
    BY <1>3, OpenKeeps
  <1>4. CASE Reload
    BY <1>4, ReloadKeeps
  <1>5. CASE OnAutoLoadChange
    BY <1>5, OthersKeep DEF OnAutoLoadChange
  <1>6. CASE LoadMetricChart
    BY <1>6, OthersKeep DEF LoadMetricChart
  <1>7. CASE MetricChartLoaded
    BY <1>7, MetricChartLoadedKeeps
  <1>8. CASE Answer
    BY <1>8, AnswerKeeps
  <1>9. CASE SummaryPoll
    BY <1>9, OthersKeep DEF SummaryPoll
  <1>10. CASE SummaryAnswer
    BY <1>10, SummaryAnswerKeeps
  <1>11. CASE ActivityPoll
    BY <1>11, OthersKeep DEF ActivityPoll
  <1>12. CASE ActivityAnswer
    BY <1>12, OthersKeep DEF ActivityAnswer
  <1>17. CASE LoadNextPage
    BY <1>17, OthersKeep DEF LoadNextPage
  <1>18. ASSUME NEW a \in Addresses, NextPageAnswer(a) PROVE PageInvariant'
    BY <1>18, OthersKeep DEF NextPageAnswer
  <1>13. CASE StoredCountsExpire
    BY <1>13, OthersKeep DEF StoredCountsExpire
  <1>14. CASE ScheduledJobClock
    BY <1>14, OthersKeep DEF ScheduledJobClock
  <1>15. CASE Tick
    BY <1>15, OthersKeep DEF Tick
  <1>16. CASE UNCHANGED vars
    BY <1>16, OthersKeep DEF vars
  <1> QED
    BY <1>1, <1>2, <1>3, <1>4, <1>5, <1>6, <1>7, <1>8, <1>9, <1>10, <1>11, <1>12, <1>13,
       <1>14, <1>15, <1>16, <1>17, <1>18 DEF Next

\* The invariant holds in every state.
THEOREM PageInvariantHolds == Spec => []PageInvariant
  BY PageInit, PageStep, PTL DEF Spec

\* The address names what is shown, unless the charts arrived too late: every visit
\* that brings a part of the page names the rest of it as it is.
THEOREM AddressIsTrue == Spec => []AddressNamesWhatIsShown
  <1>1. PageInvariant => AddressNamesWhatIsShown
    BY DEF PageInvariant
  <1> QED BY <1>1, PageInvariantHolds, PTL

-----------------------------------------------------------------------------
(* Delayed jobs are released on time.                                       *)

\* The strict order of times, as a relation.
Earlier == {tt \in Nat \X Nat : tt[1] < tt[2]}

\* A nonempty set of times has an earliest one.
LEMMA EarliestExists ==
  ASSUME NEW S \in SUBSET Nat, S # {}
  PROVE  \E d \in S : \A e \in S : d <= e
  <1>1. OpToRel(<, Nat) = Earlier
    BY Zenon DEF OpToRel, Earlier
  <1>2. IsWellFoundedOn(Earlier, Nat)
    BY <1>1, NatLessThanWellFounded, Zenon
  <1>3. PICK d \in S : \A e \in S : ~ (<<e, d>> \in Earlier)
    BY <1>2, WFMin, Zenon
  <1>4. \A e \in S : d <= e
    <2> TAKE e \in S
    <2>1. <<e, d>> \notin Earlier
      BY <1>3
    <2>2. d \in Nat /\ e \in Nat
      OBVIOUS
    <2> QED BY <2>1, <2>2, SMT DEF Earlier
  <1> QED BY <1>4

\* The next release is a release that is still to come, and none comes before it.
LEMMA NextIs ==
  ASSUME NEW jobs \in SUBSET Nat, NEW at \in Nat
  PROVE  /\ NextScheduledAt(jobs, at) # Null => NextScheduledAt(jobs, at) \in Nat
         /\ \A d \in jobs : d > at =>
                /\ NextScheduledAt(jobs, at) \in Nat
                /\ NextScheduledAt(jobs, at) <= d
  <1> DEFINE later == {d \in jobs : d > at}
  <1>1. CASE later = {}
    <2>1. NextScheduledAt(jobs, at) = Null
      BY <1>1 DEF NextScheduledAt
    <2>2. \A d \in jobs : ~ (d > at)
      BY <1>1
    <2> QED BY <2>1, <2>2
  <1>2. CASE later # {}
    <2> DEFINE first == CHOOSE d \in later : \A e \in later : d <= e
    <2>1. NextScheduledAt(jobs, at) = first
      BY <1>2 DEF NextScheduledAt
    <2>2. later \in SUBSET Nat
      OBVIOUS
    <2>3. \E d \in later : \A e \in later : d <= e
      BY <1>2, <2>2, EarliestExists, Zenon
    <2>4. first \in later /\ \A e \in later : first <= e
      <3> HIDE DEF later
      <3> QED BY <2>3, Zenon
    <2>5. first \in Nat
      BY <2>2, <2>4, Zenon
    <2>6. \A d \in jobs : d > at => first <= d
      <3> HIDE DEF first
      <3> QED BY <2>4
    <2> QED BY <2>1, <2>5, <2>6, Zenon
  <1> QED BY <1>1, <1>2

\* The releases a table waits for are times.
LEMMA ScheduledAreTimes ==
  ASSUME NEW t, NEW r \in SUBSET Due
  PROVE  Scheduled(t, r) \in SUBSET Nat
  BY QueuePageAssumption DEF Scheduled

\* A clock armed for a release goes off no later than it.
LEMMA ArmedInTime ==
  ASSUME NEW next \in Nat, now \in Nat
  PROVE  Armed(next) \in Nat /\ Armed(next) <= next
  <1>1. maximumTimeout \in Nat /\ next # Null
    BY QueuePageAssumption
  <1>2. Armed(next) = IF next - now > maximumTimeout THEN now + maximumTimeout ELSE next
    BY <1>1 DEF Armed
  <1> QED BY <1>1, <1>2

\* What the clock promises of a table t of releases r that was rendered at s, if it is armed
\* for a: it goes off no later than the next release.
ArmedFor(t, r, s, a) ==
    LET next == NextScheduledAt(Scheduled(t, r), s)
    IN  next # Null => a \in Nat /\ a <= next

\* A clock armed anew keeps the promise.
LEMMA ArmedAnew ==
  ASSUME NEW t, NEW r \in SUBSET Due, now \in Nat
  PROVE  ArmedFor(t, r, now, Armed(NextScheduledAt(Scheduled(t, r), now)))
  <1> DEFINE next == NextScheduledAt(Scheduled(t, r), now)
  <1>1. next # Null => next \in Nat
    BY ScheduledAreTimes, NextIs
  <1>2. next # Null => Armed(next) \in Nat /\ Armed(next) <= next
    <2> HIDE DEF next
    <2> QED BY <1>1, ArmedInTime
  <1> QED BY <1>2, Zenon DEF ArmedFor

\* The invariant, in these words.
LEMMA ClockIs ==
  ClockInvariant <=>
    now \in Nat /\ seen \in Nat /\ due \subseteq Due /\ ArmedFor(tab, due, seen, timer)
  BY Zenon DEF ClockInvariant, ArmedFor

\* The clock is armed when the page is opened.
LEMMA ClockInit == Init => ClockInvariant
  <1> SUFFICES ASSUME Init PROVE ClockInvariant
    OBVIOUS
  <1>1. now = 0 /\ seen = 0 /\ due \subseteq Due
    BY DEF Init
  <1>2. timer = Armed(NextScheduledAt(Scheduled(tab, due), now))
    BY <1>1, Zenon DEF Init
  <1>3. ArmedFor(tab, due, now, timer)
    BY <1>1, <1>2, ArmedAnew
  <1> QED BY <1>1, <1>3, ClockIs

\* A step that arms the clock anew, for what it shows.
LEMMA ArmingKeeps ==
  ASSUME ClockInvariant, now' = now, seen' = now, due' \subseteq Due,
         timer' = Armed(NextScheduledAt(Scheduled(tab', due'), now))
  PROVE  ClockInvariant'
  <1>1. now \in Nat
    BY DEF ClockInvariant
  <1>2. ArmedFor(tab', due', now, Armed(NextScheduledAt(Scheduled(tab', due'), now)))
    BY <1>1, ArmedAnew
  <1>3. NextScheduledAt(Scheduled(tab', due'), now) # Null =>
            timer' \in Nat /\ timer' <= NextScheduledAt(Scheduled(tab', due'), now)
    BY <1>2, Zenon DEF ArmedFor
  <1> QED BY <1>1, <1>3, Zenon DEF ClockInvariant

\* A rendering arms the clock anew, or the next release is the one it is armed for.
LEMMA RenderKeeps ==
  ASSUME ClockInvariant, Render, due' \subseteq Due
  PROVE  ClockInvariant'
  <1> DEFINE next == NextScheduledAt(Scheduled(tab', due'), now)
             last == NextScheduledAt(Scheduled(tab, due), seen)
  <1>1. now' = now /\ seen' = now
    BY DEF Render
  <1>2. timer' = IF next # last \/ tab' # tab \/ queue' # queue THEN Armed(next) ELSE timer
    BY Zenon DEF Render
  <1>3. CASE timer' = Armed(next)
    BY <1>1, <1>3, ArmingKeeps
  <1>4. CASE next = last /\ timer' = timer
    <2>1. now \in Nat
      BY DEF ClockInvariant
    <2>2. last # Null => timer \in Nat /\ timer <= last
      BY Zenon DEF ClockInvariant
    <2>3. next # Null => timer' \in Nat /\ timer' <= next
      <3> HIDE DEF next, last
      <3> QED BY <1>4, <2>2
    <2> QED BY <1>1, <2>1, <2>3, Zenon DEF ClockInvariant
  <1>5. timer' = Armed(next) \/ (next = last /\ timer' = timer)
    <2> HIDE DEF next, last
    <2> QED BY <1>2
  <1> QED BY <1>3, <1>4, <1>5

\* The table and the clock stay.
LEMMA ClockStays ==
  ASSUME ClockInvariant, UNCHANGED <<tab, due, seen, timer>>, now' \in Nat
  PROVE  ClockInvariant'
  BY Zenon DEF ClockInvariant

\* Rows that are replaced or merged bring releases of delayed jobs.
LEMMA ReleasesAreDue ==
  ASSUME NEW t, due \subseteq Due, Replace(t) \/ Merge(t)
  PROVE  due' \subseteq Due
  BY DEF Replace, Merge

\* Every step keeps the invariant of the clock.
LEMMA ClockStep == ClockInvariant /\ [Next]_vars => ClockInvariant'
  <1> SUFFICES ASSUME ClockInvariant, [Next]_vars PROVE ClockInvariant'
    OBVIOUS
  <1>0. now \in Nat
    BY DEF ClockInvariant
  <1>a. ASSUME UNCHANGED <<pageVars, clockVars>> PROVE ClockInvariant'
    <2>1. UNCHANGED <<tab, due, seen, timer, now>>
      BY <1>a DEF pageVars, shownVars, clockVars
    <2> QED BY <1>0, <2>1, ClockStays
  <1>b. due \subseteq Due
    BY DEF ClockInvariant
  <1>1. ASSUME NEW t \in Tabs, SelectTab(t) PROVE ClockInvariant'
    BY <1>1, <1>a DEF SelectTab
  <1>2. ASSUME NEW v \in Views, SelectView(v) PROVE ClockInvariant'
    BY <1>2, <1>a DEF SelectView
  <1>3. ASSUME NEW q \in Queues, NEW t \in Tabs, Open(q, t) PROVE ClockInvariant'
    BY <1>3, <1>a DEF Open
  <1>4. CASE Reload
    <2>1. /\ now' = now /\ seen' = now
          /\ timer' = Armed(NextScheduledAt(Scheduled(tab', due'), now))
      BY <1>4 DEF Reload
    <2>2. due' \subseteq Due
      BY <1>4, <1>b, ReleasesAreDue DEF Reload, Mount
    <2> QED BY <2>1, <2>2, ArmingKeeps
  <1>5. CASE OnAutoLoadChange
    BY <1>5, <1>a DEF OnAutoLoadChange
  <1>6. CASE LoadMetricChart
    BY <1>6, <1>a DEF LoadMetricChart
  <1>7. CASE MetricChartLoaded
    BY <1>7, <1>a DEF MetricChartLoaded
  <1>8. CASE Answer
    <2>1. Render
      BY <1>8 DEF Answer
    <2>2. due' \subseteq Due
      BY <1>8, <1>b, ReleasesAreDue DEF Answer, Mount
    <2> QED BY <2>1, <2>2, RenderKeeps
  <1>9. CASE SummaryPoll
    BY <1>9, <1>a DEF SummaryPoll
  <1>10. CASE SummaryAnswer
    <2>1. Render \/ UNCHANGED <<pageVars, clockVars>>
      BY <1>10 DEF SummaryAnswer
    <2>2. due' = due
      BY <1>10 DEF SummaryAnswer, pageVars, shownVars
    <2> QED BY <2>1, <2>2, <1>a, <1>b, RenderKeeps
  <1>11. CASE ActivityPoll
    BY <1>11, <1>a DEF ActivityPoll
  <1>12. CASE ActivityAnswer
    <2>1. CASE UNCHANGED <<shownVars, clockVars>>
      BY <1>12, <1>a, <2>1 DEF ActivityAnswer, pageVars
    <2>2. CASE /\ Merge(activityPoll.to.tab) \/ Replace(activityPoll.to.tab)
               /\ Render
      BY <1>b, <2>2, ReleasesAreDue, RenderKeeps
    <2> QED BY <1>12, <2>1, <2>2 DEF ActivityAnswer
  <1>17. CASE LoadNextPage
    <2>1. UNCHANGED <<tab, due, seen, timer, now>>
      BY <1>17 DEF LoadNextPage, clockVars
    <2> QED BY <1>0, <2>1, ClockStays
  <1>18. ASSUME NEW a \in Addresses, NextPageAnswer(a) PROVE ClockInvariant'
    <2>1. CASE UNCHANGED <<shownVars, clockVars>>
      BY <1>18, <1>a, <2>1 DEF NextPageAnswer, pageVars
    <2>2. CASE Merge(a.tab) /\ Render
      BY <1>b, <2>2, ReleasesAreDue, RenderKeeps
    <2> QED BY <1>18, <2>1, <2>2 DEF NextPageAnswer
  <1>13. CASE StoredCountsExpire
    BY <1>13, <1>a DEF StoredCountsExpire
  <1>14. CASE ScheduledJobClock
    <2>1. /\ now' = now /\ seen' = now /\ tab' = tab /\ due' = due
          /\ timer' = Armed(NextScheduledAt(Scheduled(tab, due), now))
      BY <1>14 DEF ScheduledJobClock, pageVars, shownVars
    <2>2. timer' = Armed(NextScheduledAt(Scheduled(tab', due'), now))
      BY <2>1, Zenon
    <2> QED BY <1>b, <2>1, <2>2, ArmingKeeps
  <1>15. CASE Tick
    <2>1. now' = now + 1 /\ UNCHANGED <<tab, due, seen, timer>>
      BY <1>15 DEF Tick, pageVars, shownVars
    <2> QED BY <1>0, <2>1, ClockStays
  <1>16. CASE UNCHANGED vars
    BY <1>16, <1>a DEF vars
  <1> QED
    BY <1>1, <1>2, <1>3, <1>4, <1>5, <1>6, <1>7, <1>8, <1>9, <1>10, <1>11, <1>12, <1>13,
       <1>14, <1>15, <1>16, <1>17, <1>18 DEF Next

\* The clock is armed for the next release in every state.
THEOREM ClockInvariantHolds == Spec => []ClockInvariant
  BY ClockInit, ClockStep, PTL DEF Spec

\* No job is shown as delayed after it was released, however far away its release was
\* when the table was rendered: until the clock goes off nothing is due that was not.
THEOREM DueJobsAreReleased == Spec => []DueJobsAreShown
  <1>1. ClockInvariant => DueJobsAreShown
    <2> SUFFICES ASSUME ClockInvariant, ~ TimeoutIsDue,
                        NEW d \in Scheduled(tab, due), d <= now
                 PROVE  d <= seen
      BY Zenon DEF DueJobsAreShown
    <2> DEFINE next == NextScheduledAt(Scheduled(tab, due), seen)
    <2>1. now \in Nat /\ seen \in Nat /\ d \in Nat /\ due \subseteq Due
      BY ScheduledAreTimes DEF ClockInvariant
    <2>2. d > seen => next \in Nat /\ next <= d
      BY <2>1, ScheduledAreTimes, NextIs
    <2>3. next # Null => timer \in Nat /\ timer <= next
      BY Zenon DEF ClockInvariant
    <2>4. timer = Null \/ ~ (now >= timer)
      BY Zenon DEF TimeoutIsDue
    <2>5. Null \notin Nat
      BY QueuePageAssumption
    <2> HIDE DEF next
    <2> QED BY <2>1, <2>2, <2>3, <2>4, <2>5
  <1> QED BY <1>1, ClockInvariantHolds, PTL

-----------------------------------------------------------------------------
(* Known numbers stay.                                                      *)

\* What a summary tells is kept for its queue.
LEMMA KnownWhenShown ==
  ASSUME NEW q, NEW s, NEW last, s.available, s.completed # Null
  PROVE  LastKnown(q, s, last) = [queue |-> q, completed |-> s.completed]
  BY DEF LastKnown

\* What the page is opened with is kept.
LEMMA KnownInit == Init => KnownInvariant
  <1> SUFFICES ASSUME Init PROVE KnownInvariant
    OBVIOUS
  <1>1. edits = 0 /\ lastKnown = LastKnown(queue, summary, NothingKnown)
    BY DEF Init
  <1>2. summary.available /\ summary.completed # Null =>
            lastKnown = [queue |-> queue, completed |-> summary.completed]
    BY <1>1, KnownWhenShown
  <1> QED BY <1>1, <1>2 DEF KnownInvariant

\* A summary that is shown is kept.
LEMMA ShowSummaryKeeps ==
  ASSUME NEW q, NEW last, NEW s, ShowSummary(q, s, last), queue' = q, edits' \in Nat
  PROVE  KnownInvariant'
  <1>1. summary' = s /\ lastKnown' = LastKnown(q, s, last)
    BY DEF ShowSummary
  <1>2. summary'.available /\ summary'.completed # Null =>
            lastKnown' = [queue |-> queue', completed |-> summary'.completed]
    BY <1>1, KnownWhenShown
  <1> QED BY <1>2 DEF KnownInvariant

\* No summary is shown.
LEMMA KnownStays ==
  ASSUME KnownInvariant, UNCHANGED <<queue, summary, lastKnown>>, edits' \in Nat
  PROVE  KnownInvariant'
  BY DEF KnownInvariant

\* An action of the user is counted.
LEMMA EditCounts ==
  ASSUME edits \in Nat, Edit
  PROVE  edits' \in Nat /\ edits' # edits
  BY DEF Edit

\* Every step keeps the invariant of the numbers.
LEMMA KnownStep == KnownInvariant /\ [Next]_vars => KnownInvariant'
  <1> SUFFICES ASSUME KnownInvariant, [Next]_vars PROVE KnownInvariant'
    OBVIOUS
  <1> USE DEF pageVars, knownVars, boundVars
  <1>0. edits \in Nat
    BY DEF KnownInvariant
  <1>1. ASSUME NEW t \in Tabs, SelectTab(t) PROVE KnownInvariant'
    BY <1>0, <1>1, KnownStays, EditCounts DEF SelectTab
  <1>2. ASSUME NEW v \in Views, SelectView(v) PROVE KnownInvariant'
    BY <1>0, <1>2, KnownStays, EditCounts DEF SelectView
  <1>3. ASSUME NEW q \in Queues, NEW t \in Tabs, Open(q, t) PROVE KnownInvariant'
    BY <1>0, <1>3, KnownStays, EditCounts DEF Open
  <1>4. CASE Reload
    <2>1. Edit /\ queue' = address.queue
      BY <1>4 DEF Reload, Mount
    <2>2. PICK s \in Summaries(address.queue) : ShowSummary(address.queue, s, NothingKnown)
      BY <1>4 DEF Reload
    <2> QED BY <1>0, <2>1, <2>2, EditCounts, ShowSummaryKeeps
  <1>5. CASE OnAutoLoadChange
    BY <1>0, <1>5, KnownStays, EditCounts DEF OnAutoLoadChange
  <1>6. CASE LoadMetricChart
    BY <1>0, <1>6, KnownStays DEF LoadMetricChart
  <1>7. CASE MetricChartLoaded
    BY <1>0, <1>7, KnownStays DEF MetricChartLoaded
  <1>8. CASE Answer
    <2>1. edits' = edits
      BY <1>8 DEF Answer
    <2>2. CASE UNCHANGED <<queue, knownVars>>
      BY <1>0, <2>1, <2>2, KnownStays
    <2>3. CASE /\ queue' = visit.to.queue
               /\ \E s \in Summaries(visit.to.queue) :
                     ShowSummary(visit.to.queue, s, NothingKnown)
      <3>1. PICK s \in Summaries(visit.to.queue) :
                ShowSummary(visit.to.queue, s, NothingKnown)
        BY <2>3
      <3> QED BY <1>0, <2>1, <2>3, <3>1, ShowSummaryKeeps
    <2> QED BY <1>8, <2>2, <2>3 DEF Answer, Mount
  <1>9. CASE SummaryPoll
    BY <1>0, <1>9, KnownStays DEF SummaryPoll
  <1>10. CASE SummaryAnswer
    <2>1. queue' = queue /\ edits' = edits
      BY <1>10 DEF SummaryAnswer
    <2>2. CASE UNCHANGED knownVars
      BY <1>0, <2>1, <2>2, KnownStays
    <2>3. CASE \E s \in Summaries(summaryPoll) : ShowSummary(queue, s, lastKnown)
      <3>1. PICK s \in Summaries(summaryPoll) : ShowSummary(queue, s, lastKnown)
        BY <2>3
      <3> QED BY <1>0, <2>1, <3>1, ShowSummaryKeeps
    <2> QED BY <1>10, <2>2, <2>3 DEF SummaryAnswer
  <1>11. CASE ActivityPoll
    BY <1>0, <1>11, KnownStays DEF ActivityPoll
  <1>12. CASE ActivityAnswer
    BY <1>0, <1>12, KnownStays DEF ActivityAnswer
  <1>17. CASE LoadNextPage
    BY <1>0, <1>17, KnownStays, EditCounts DEF LoadNextPage
  <1>18. ASSUME NEW a \in Addresses, NextPageAnswer(a) PROVE KnownInvariant'
    BY <1>0, <1>18, KnownStays DEF NextPageAnswer
  <1>13. CASE StoredCountsExpire
    BY <1>0, <1>13, KnownStays DEF StoredCountsExpire
  <1>14. CASE ScheduledJobClock
    BY <1>0, <1>14, KnownStays DEF ScheduledJobClock
  <1>15. CASE Tick
    BY <1>0, <1>15, KnownStays DEF Tick
  <1>16. CASE UNCHANGED vars
    BY <1>0, <1>16, KnownStays DEF vars
  <1> QED
    BY <1>1, <1>2, <1>3, <1>4, <1>5, <1>6, <1>7, <1>8, <1>9, <1>10, <1>11, <1>12, <1>13,
       <1>14, <1>15, <1>16, <1>17, <1>18 DEF Next

\* What is told is kept in every state.
THEOREM KnownInvariantHolds == Spec => []KnownInvariant
  BY KnownInit, KnownStep, PTL DEF Spec

\* What a step promises of the completed jobs that are shown.
CompletedStay ==
    (ShownCompleted # Null /\ summary'.available /\ visit' = visit /\ edits' = edits) =>
        ShownCompleted' = IF summary'.completed # Null THEN summary'.completed
                          ELSE ShownCompleted

\* What a step promises of the navigation counts.
CountsStay == (counts /\ ~ counts') => stored # "fresh"

\* Nothing that is known changes.
LEMMA NothingChanges ==
  ASSUME UNCHANGED <<queue, knownVars>>
  PROVE  CompletedStay
  BY DEF CompletedStay, ShownCompleted, CachedSummary, knownVars

\* A refresh that tells no completed jobs leaves those that are shown.
LEMMA RefreshKeeps ==
  ASSUME KnownInvariant, NEW s, ShowSummary(queue, s, lastKnown), queue' = queue
  PROVE  CompletedStay
  <1> SUFFICES ASSUME ShownCompleted # Null, summary'.available
               PROVE  ShownCompleted' = IF summary'.completed # Null THEN summary'.completed
                                        ELSE ShownCompleted
    BY Zenon DEF CompletedStay
  <1>1. summary' = s /\ lastKnown' = LastKnown(queue, s, lastKnown)
    BY DEF ShowSummary
  <1>2. CASE summary'.completed # Null
    BY <1>2 DEF ShownCompleted
  <1>3. CASE summary'.completed = Null
    <2>1. lastKnown' = IF lastKnown.queue = queue THEN lastKnown ELSE NothingKnown
      BY <1>1, <1>3 DEF LastKnown
    <2>2. ShownCompleted' = IF lastKnown'.queue = queue THEN lastKnown'.completed ELSE Null
      BY <1>3 DEF ShownCompleted, CachedSummary
    <2>3. lastKnown.queue = queue /\ ShownCompleted = lastKnown.completed
      <3>1. summary.available
        BY DEF ShownCompleted
      <3>2. CASE summary.completed # Null
        <4>1. lastKnown = [queue |-> queue, completed |-> summary.completed]
          BY <3>1, <3>2 DEF KnownInvariant
        <4>2. ShownCompleted = summary.completed
          BY <3>1, <3>2 DEF ShownCompleted
        <4> QED BY <4>1, <4>2
      <3>3. CASE summary.completed = Null
        <4>1. ShownCompleted = CachedSummary
          BY <3>1, <3>3 DEF ShownCompleted
        <4> QED BY <4>1 DEF CachedSummary
      <3> QED BY <3>2, <3>3
    <2>4. ShownCompleted' = ShownCompleted
      BY <2>1, <2>2, <2>3
    <2> QED BY <1>3, <2>4
  <1> QED BY <1>2, <1>3

\* An action of the user, whatever it shows.
LEMMA EditPromises ==
  ASSUME KnownInvariant, Edit
  PROVE  CompletedStay
  <1>1. edits' # edits
    BY EditCounts DEF KnownInvariant
  <1> QED BY <1>1, Zenon DEF CompletedStay

\* Every step keeps both promises.
LEMMA KnownNumbersStep ==
  ASSUME KnownInvariant, [Next]_vars
  PROVE  CompletedStay /\ CountsStay
  <1> USE DEF pageVars, countVars
  <1>1. ASSUME NEW t \in Tabs, SelectTab(t) PROVE CompletedStay /\ CountsStay
    BY <1>1, EditPromises DEF SelectTab, CountsStay
  <1>2. ASSUME NEW v \in Views, SelectView(v) PROVE CompletedStay /\ CountsStay
    BY <1>2, EditPromises DEF SelectView, CountsStay
  <1>3. ASSUME NEW q \in Queues, NEW t \in Tabs, Open(q, t)
        PROVE CompletedStay /\ CountsStay
    BY <1>3, EditPromises DEF Open, CountsStay
  <1>4. CASE Reload
    <2>1. Edit /\ counts' = (stored = "fresh")
      BY <1>4 DEF Reload
    <2> QED BY <2>1, EditPromises DEF CountsStay
  <1>5. CASE OnAutoLoadChange
    BY <1>5, EditPromises DEF OnAutoLoadChange, CountsStay
  <1>6. CASE LoadMetricChart
    BY <1>6, NothingChanges DEF LoadMetricChart, CountsStay
  <1>7. CASE MetricChartLoaded
    BY <1>7, NothingChanges DEF MetricChartLoaded, CountsStay
  <1>8. CASE Answer
    <2>1. visit' # visit
      BY <1>8 DEF Answer
    <2>2. CompletedStay
      BY <2>1, Zenon DEF CompletedStay
    <2>3. counts' = TRUE \/ counts' = counts
      BY <1>8 DEF Answer, StoreNavigationCounts
    <2> QED BY <2>2, <2>3 DEF CountsStay
  <1>9. CASE SummaryPoll
    BY <1>9, NothingChanges DEF SummaryPoll, CountsStay
  <1>10. CASE SummaryAnswer
    <2>1. queue' = queue /\ (counts' = TRUE \/ counts' = counts)
      BY <1>10 DEF SummaryAnswer, StoreNavigationCounts
    <2>2. CASE UNCHANGED knownVars
      BY <2>1, <2>2, NothingChanges DEF CountsStay
    <2>3. CASE \E s \in Summaries(summaryPoll) : ShowSummary(queue, s, lastKnown)
      <3>1. PICK s \in Summaries(summaryPoll) : ShowSummary(queue, s, lastKnown)
        BY <2>3
      <3>2. CompletedStay
        BY <2>1, <3>1, RefreshKeeps
      <3> QED BY <2>1, <3>2 DEF CountsStay
    <2> QED BY <1>10, <2>2, <2>3 DEF SummaryAnswer
  <1>11. CASE ActivityPoll
    BY <1>11, NothingChanges DEF ActivityPoll, CountsStay
  <1>12. CASE ActivityAnswer
    BY <1>12, NothingChanges DEF ActivityAnswer, CountsStay
  <1>17. CASE LoadNextPage
    BY <1>17, EditPromises DEF LoadNextPage, CountsStay
  <1>18. ASSUME NEW a \in Addresses, NextPageAnswer(a) PROVE CompletedStay /\ CountsStay
    BY <1>18, NothingChanges DEF NextPageAnswer, CountsStay
  <1>13. CASE StoredCountsExpire
    BY <1>13, NothingChanges DEF StoredCountsExpire, CountsStay
  <1>14. CASE ScheduledJobClock
    BY <1>14, NothingChanges DEF ScheduledJobClock, CountsStay
  <1>15. CASE Tick
    BY <1>15, NothingChanges DEF Tick, CountsStay
  <1>16. CASE UNCHANGED vars
    BY <1>16, NothingChanges DEF vars, CountsStay
  <1> QED
    BY <1>1, <1>2, <1>3, <1>4, <1>5, <1>6, <1>7, <1>8, <1>9, <1>10, <1>11, <1>12, <1>13,
       <1>14, <1>15, <1>16, <1>17, <1>18 DEF Next

\* The completed jobs stay what they were last told to be while refreshes do not tell
\* them, and the navigation counts are forgotten only when the interface is loaded again
\* after the browser's copy has expired.
THEOREM KnownNumbersAreKept == Spec => KnownNumbersStay
  <1>1. KnownInvariant /\ [Next]_vars => CompletedStay /\ CountsStay
    BY KnownNumbersStep
  <1> QED BY <1>1, KnownInvariantHolds, PTL DEF Spec, KnownNumbersStay, CompletedStay, CountsStay
=============================================================================
