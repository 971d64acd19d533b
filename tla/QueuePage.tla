------------------------------- MODULE QueuePage -------------------------------
(***************************************************************************)
(* The page of one queue, inside the shell of the interface.  Its overview *)
(* and its activity are chosen by the view and the tab of the address, and *)
(* answered by visits that bring a part of the page each; the summary and  *)
(* the rows are refreshed in the background as well, with the address the  *)
(* refresh was sent with.  The metrics view waits for the code of its      *)
(* charts.  Once older rows were asked for, a refresh merges its rows into *)
(* those of the table instead of replacing them.  The page keeps what it   *)
(* last knew of the completed jobs, the shell what it last knew of the     *)
(* navigation counts, and a clock shows delayed jobs as released when they *)
(* are due.                                                                *)
(***************************************************************************)
EXTENDS Integers, FiniteSets

CONSTANTS
    Queues,
    Tabs,         \* tabs of the activity; "pending" lists delayed jobs
    Due,          \* when delayed jobs may be released
    Values,       \* counts of completed jobs
    Null,
    maximumTimeout, \* the longest time a browser waits
    MaxTime,      \* bound: the clock
    MaxEdits,     \* bound: actions of the user
    MaxSurprises  \* bound: summaries without what was known

ASSUME QueuePageAssumption ==
    /\ "pending" \in Tabs
    /\ Null \notin Queues \cup Values
    /\ Null \notin Nat
    /\ Due \subseteq Nat
    /\ {MaxTime, MaxEdits, MaxSurprises} \subseteq Nat
    /\ maximumTimeout \in Nat \ {0}

VARIABLES
    queue, tab, view, \* the page as it was answered
    address,          \* what the URL names
    rows,             \* the tabs the table has rows of
    long,             \* the table has more rows than a page
    due,              \* when its delayed jobs are released
    browsing,         \* refreshes keep the older rows of the table
    summary,          \* the summary as it was answered
    lastKnown,        \* the completed jobs it last told
    visit,            \* the foreground visit under way
    summaryPoll,      \* the queue of a background refresh of the summary
    activityPoll,     \* one of the rows: its address, and whether they are merged
    nextPages,        \* the addresses of requests for older rows
    chart,            \* the code of the charts
    awaiting,         \* the click on the metrics view that waits for it
    autoLoad,         \* the preference of the user
    counts, stored,   \* the shell knows the navigation counts; the browser keeps them
    now, seen, timer, \* the clock, when the rows were rendered, when they will be
    late,             \* history: a visit for the charts met another page
    edits, surprises

shownVars == <<rows, long, due, browsing>>
pageVars == <<queue, tab, view, shownVars>>
knownVars == <<summary, lastKnown>>
pollVars == <<summaryPoll, activityPoll, nextPages>>
chartVars == <<chart, awaiting>>
countVars == <<counts, stored>>
clockVars == <<now, seen, timer>>
boundVars == <<edits, surprises>>
vars == <<pageVars, address, knownVars, visit, pollVars, chartVars, autoLoad, countVars,
          clockVars, late, boundVars>>

Views == {"overview", "metrics"}
Addresses == [queue : Queues, tab : Tabs, view : Views]
Refreshes == [to : Addresses, prepend : BOOLEAN]
NoVisit == [kind |-> "none"]
Visits == {NoVisit} \cup [kind : {"tab", "view", "page"}, to : Addresses]

\* The visit a tab, a view and a link asks for; only a link asks for all of the page.
TabVisit(t) == [kind |-> "tab", to |-> [queue |-> queue, tab |-> t, view |-> view]]
ViewVisit(q, t, v) == [kind |-> "view", to |-> [queue |-> q, tab |-> t, view |-> v]]
PageVisit(q, t) == [kind |-> "page", to |-> [queue |-> q, tab |-> t, view |-> "overview"]]

-----------------------------------------------------------------------------
(* What the page shows. *)

NothingKnown == [queue |-> Null, completed |-> Null]

CachedSummary == IF lastKnown.queue = queue THEN lastKnown.completed ELSE Null

\* While the summary tells no completed jobs the last known are shown.
ShownCompleted ==
    CASE ~ summary.available      -> Null
      [] summary.available /\ summary.completed # Null -> summary.completed
      [] OTHER                    -> CachedSummary

\* Mutant of LastKnown: only the first number is kept.
LastKnownOnce(q, s, last) ==
    CASE ~ s.available -> NothingKnown
      [] s.available /\ s.completed # Null /\ last.queue # q ->
            [queue |-> q, completed |-> s.completed]
      [] OTHER -> last

LastKnown(q, s, last) ==
    CASE ~ s.available -> NothingKnown
      [] s.available /\ s.completed # Null -> [queue |-> q, completed |-> s.completed]
      [] OTHER -> IF last.queue = q THEN last ELSE NothingKnown

\* A summary tells the completed jobs, or does not while the index is prepared, or is
\* that of a queue that is not supervised.
Summaries(q) ==
    [queue : {q}, available : {TRUE}, completed : Values \cup {Null}]
        \cup {[queue |-> q, available |-> FALSE, completed |-> Null]}

ShowSummary(q, s, last) ==
    /\ summary' = s
    /\ lastKnown' = LastKnown(q, s, last)
    /\ surprises' = IF s.completed = Null THEN surprises + 1 ELSE surprises
    /\ surprises' <= MaxSurprises

\* The delayed jobs the clock waits for: those of the table of pending jobs.
Scheduled(t, releases) == IF t = "pending" THEN releases ELSE {}

NextScheduledAt(jobs, at) ==
    LET later == {d \in jobs : d > at}
    IN  IF later = {} THEN Null ELSE CHOOSE d \in later : \A e \in later : d <= e

Armed(next) ==
    IF next = Null THEN Null
    ELSE IF next - now > maximumTimeout THEN now + maximumTimeout ELSE next

\* The page is rendered: the clock is armed again when the next job is another one,
\* or the table is.
Render ==
    LET next == NextScheduledAt(Scheduled(tab', due'), now)
    IN  /\ seen' = now
        /\ timer' = IF next # NextScheduledAt(Scheduled(tab, due), seen)
                       \/ tab' # tab \/ queue' # queue
                    THEN Armed(next) ELSE timer
        /\ UNCHANGED now

-----------------------------------------------------------------------------
(* The rows of the table. *)

\* Mutant of Replace: the rows are not reset.
ReplaceWithoutReset(t) ==
    /\ rows' = rows \cup {t} /\ long' = FALSE
    /\ due' \in IF t = "pending" THEN SUBSET Due ELSE {{}}

\* Pending rows are read anew with every answer, and so are their releases.
Replace(t) ==
    /\ rows' = {t} /\ long' = FALSE
    /\ due' \in IF t = "pending" THEN SUBSET Due ELSE {{}}

\* Rows are merged by their IDs: those of another tab join the ones that are shown.
Merge(t) ==
    /\ rows' = rows \cup {t} /\ long' \in {long, TRUE}
    /\ due' \in IF t = "pending" THEN SUBSET Due ELSE {due}

\* More rows than a page are history, which refreshes keep until the scope is another.
BrowseHistory ==
    browsing' = (long' \/ (browsing /\ <<queue, tab, view>>' = <<queue, tab, view>>))

\* The page is mounted with the first rows of a tab.
Mount(q, t, v) ==
    /\ queue' = q /\ tab' = t /\ view' = v
    /\ Replace(t)
    /\ browsing' = FALSE

-----------------------------------------------------------------------------
(* Visits. *)

\* A visit interrupts the one under way and cancels background refreshes, not the
\* requests for older rows.
Foreground(v) ==
    /\ visit' = v
    /\ summaryPoll' = Null
    /\ activityPoll' = Null
    /\ UNCHANGED nextPages

Edit == edits < MaxEdits /\ edits' = edits + 1

\* The tab that is open can be asked for again.  A queue without a summary has its tabs
\* only while Horizon is stopped, which may be at any time.
SelectTab(t) ==
    /\ Edit
    /\ Foreground(TabVisit(t))
    /\ UNCHANGED <<pageVars, address, knownVars, chartVars, autoLoad, countVars, clockVars,
                   late, surprises>>

\* Mutant of ViewUrl: a view does not keep the tab.
ViewUrlWithoutTab(q, t, v) == ViewVisit(q, "pending", v)

ViewUrl(q, t, v) == ViewVisit(q, t, v)

\* The metrics view loads its charts first; the click that waits for them keeps the
\* address it was made at.
SelectView(v) ==
    /\ Edit
    /\ IF v = "metrics" /\ chart # "loaded"
       THEN /\ chart' = "loading"
            /\ awaiting' = ViewUrl(summary.queue, tab, v)
            /\ UNCHANGED <<visit, pollVars>>
       ELSE /\ Foreground(ViewUrl(summary.queue, tab, v))
            /\ UNCHANGED chartVars
    /\ UNCHANGED <<pageVars, address, knownVars, autoLoad, countVars, clockVars, late,
                   surprises>>

\* Pointing at the metrics view loads its charts.
LoadMetricChart ==
    /\ chart = "unloaded"
    /\ chart' = "loading"
    /\ UNCHANGED <<pageVars, address, knownVars, visit, pollVars, awaiting, autoLoad,
                   countVars, clockVars, late, boundVars>>

MetricChartLoaded ==
    /\ chart = "loading"
    /\ chart' = "loaded"
    /\ awaiting' = NoVisit
    /\ IF awaiting = NoVisit THEN UNCHANGED <<visit, pollVars, late>>
       ELSE /\ Foreground(awaiting)
            /\ late' = (late \/ awaiting.to.tab # tab \/ awaiting.to.queue # queue)
    /\ UNCHANGED <<pageVars, address, knownVars, autoLoad, countVars, clockVars, boundVars>>

\* A link of the lists to a queue, or of its statistics to one of its tabs.
Open(q, t) ==
    /\ q = summary.queue \/ t = "pending"
    /\ Edit
    /\ Foreground(PageVisit(q, t))
    /\ UNCHANGED <<pageVars, address, knownVars, chartVars, autoLoad, countVars, clockVars,
                   late, surprises>>

\* The browser loads the page again, also when code of it could not be loaded.
Reload ==
    /\ Edit
    /\ Mount(address.queue, address.tab, address.view)
    /\ \E s \in Summaries(address.queue) : ShowSummary(address.queue, s, NothingKnown)
    /\ visit' = NoVisit
    /\ summaryPoll' = Null
    /\ activityPoll' = Null
    /\ nextPages' = {}
    /\ chart' = "unloaded"
    /\ awaiting' = NoVisit
    /\ counts' = (stored = "fresh")
    /\ stored' = IF stored = "fresh" THEN "fresh" ELSE "none"
    /\ seen' = now
    /\ timer' = Armed(NextScheduledAt(Scheduled(tab', due'), now))
    /\ late' = FALSE
    /\ UNCHANGED <<address, autoLoad, now>>

-----------------------------------------------------------------------------
(* Answers. *)

\* The navigation counts of an answer are shown, and kept by the browser.
StoreNavigationCounts == counts' = TRUE /\ stored' = "fresh"

\* The tab brings the rows, the view and the counts, a view itself alone; a link brings
\* the page, which is mounted anew.
Answer ==
    /\ visit # NoVisit
    /\ visit' = NoVisit
    /\ address' = visit.to
    /\ \/ /\ visit.kind = "tab"
          /\ queue' = queue /\ tab' = visit.to.tab /\ view' = visit.to.view
          /\ Replace(visit.to.tab)
          /\ BrowseHistory
          /\ StoreNavigationCounts
          /\ UNCHANGED <<knownVars, surprises, late>>
       \/ /\ visit.kind = "view"
          /\ queue' = queue /\ tab' = tab /\ view' = visit.to.view
          /\ UNCHANGED <<rows, long, due>>
          /\ BrowseHistory
          /\ UNCHANGED <<knownVars, surprises, countVars, late>>
       \/ /\ visit.kind = "page"
          /\ Mount(visit.to.queue, visit.to.tab, visit.to.view)
          /\ \E s \in Summaries(visit.to.queue) :
                ShowSummary(visit.to.queue, s, NothingKnown)
          /\ late' = FALSE
          /\ UNCHANGED countVars
    /\ Render
    /\ UNCHANGED <<pollVars, chartVars, autoLoad, edits>>

-----------------------------------------------------------------------------
(* Background refreshes, also while a visit is under way. *)

SummaryPoll ==
    /\ autoLoad /\ summaryPoll = Null
    /\ summaryPoll' = address.queue
    /\ UNCHANGED <<pageVars, address, knownVars, visit, activityPoll, nextPages, chartVars,
                   autoLoad, countVars, clockVars, late, boundVars>>

\* An answer for another page is discarded.
SummaryAnswer ==
    /\ summaryPoll # Null
    /\ summaryPoll' = Null
    /\ IF summaryPoll # address.queue
       THEN UNCHANGED <<pageVars, knownVars, countVars, clockVars, boundVars>>
       ELSE /\ \E s \in Summaries(summaryPoll) : ShowSummary(queue, s, lastKnown)
            /\ StoreNavigationCounts
            /\ UNCHANGED <<pageVars, edits>>
            /\ Render
    /\ UNCHANGED <<address, visit, activityPoll, nextPages, chartVars, autoLoad, late>>

\* How its rows are shown is settled when a refresh is sent.
ActivityPoll ==
    /\ autoLoad /\ activityPoll = Null
    /\ activityPoll' = [to |-> address, prepend |-> browsing]
    /\ UNCHANGED <<pageVars, address, knownVars, visit, summaryPoll, nextPages, chartVars,
                   autoLoad, countVars, clockVars, late, boundVars>>

ActivityAnswer ==
    /\ activityPoll # Null
    /\ activityPoll' = Null
    /\ UNCHANGED <<queue, tab, view>>
    /\ IF activityPoll.to.queue # address.queue
       THEN UNCHANGED <<shownVars, clockVars>>
       ELSE /\ \/ activityPoll.prepend /\ Merge(activityPoll.to.tab)
               \/ ~ activityPoll.prepend /\ Replace(activityPoll.to.tab)
            /\ BrowseHistory
            /\ Render
    /\ UNCHANGED <<address, knownVars, visit, summaryPoll, nextPages, chartVars, autoLoad,
                   countVars, late, boundVars>>

\* The user scrolls to the end of the table.  Requests of tables that were left may still
\* be under way.
LoadNextPage ==
    /\ Edit
    /\ activityPoll' = Null
    /\ browsing' = TRUE
    /\ nextPages' = nextPages \cup {address}
    /\ UNCHANGED <<queue, tab, view, rows, long, due, address, knownVars, visit, summaryPoll,
                   chartVars, autoLoad, countVars, clockVars, late, surprises>>

\* Older rows are merged as well; the request may fail, or be for another page.
NextPageAnswer(a) ==
    /\ a \in nextPages
    /\ nextPages' = nextPages \ {a}
    /\ UNCHANGED <<queue, tab, view>>
    /\ \/ UNCHANGED <<shownVars, clockVars>>
       \/ /\ a.queue = address.queue
          /\ Merge(a.tab)
          /\ BrowseHistory
          /\ Render
    /\ UNCHANGED <<address, knownVars, visit, summaryPoll, activityPoll, chartVars, autoLoad,
                   countVars, late, boundVars>>

\* The switch of the sidebar.  Turned off, it stops the polls; an answer under way still
\* arrives.
OnAutoLoadChange ==
    /\ Edit
    /\ autoLoad' = ~ autoLoad
    /\ UNCHANGED <<pageVars, address, knownVars, visit, pollVars, chartVars, countVars,
                   clockVars, late, surprises>>

StoredCountsExpire ==
    /\ stored = "fresh"
    /\ stored' = "expired"
    /\ UNCHANGED <<pageVars, address, knownVars, visit, pollVars, chartVars, autoLoad, counts,
                   clockVars, late, boundVars>>

-----------------------------------------------------------------------------
(* The clock. *)

TimeoutIsDue == timer # Null /\ now >= timer

\* Mutant of ScheduledJobClock: the effect does not depend on the revision.
ScheduledJobClockOnce ==
    /\ TimeoutIsDue
    /\ UNCHANGED <<pageVars, now>>
    /\ seen' = now
    /\ timer' = IF NextScheduledAt(Scheduled(tab, due), now)
                     # NextScheduledAt(Scheduled(tab, due), seen)
                THEN Armed(NextScheduledAt(Scheduled(tab, due), now)) ELSE Null
    /\ UNCHANGED <<address, knownVars, visit, pollVars, chartVars, autoLoad, countVars, late,
                   boundVars>>

\* The revision arms the clock again, for the same job if its time was beyond the
\* longest wait.
ScheduledJobClock ==
    /\ TimeoutIsDue
    /\ UNCHANGED <<pageVars, now>>
    /\ seen' = now
    /\ timer' = Armed(NextScheduledAt(Scheduled(tab, due), now))
    /\ UNCHANGED <<address, knownVars, visit, pollVars, chartVars, autoLoad, countVars, late,
                   boundVars>>

\* A timeout is not overtaken by the clock.
Tick ==
    /\ now < MaxTime
    /\ ~ TimeoutIsDue
    /\ now' = now + 1
    /\ UNCHANGED <<pageVars, address, knownVars, visit, pollVars, chartVars, autoLoad,
                   countVars, seen, timer, late, boundVars>>

-----------------------------------------------------------------------------
Init ==
    /\ queue \in Queues /\ tab = "pending" /\ view = "overview"
    /\ rows = {tab} /\ long = FALSE /\ due \in SUBSET Due
    /\ browsing = FALSE
    /\ address = [queue |-> queue, tab |-> tab, view |-> view]
    /\ summary \in [queue : {queue}, available : {TRUE}, completed : Values \cup {Null}]
    /\ lastKnown = LastKnown(queue, summary, NothingKnown)
    /\ visit = NoVisit
    /\ summaryPoll = Null /\ activityPoll = Null /\ nextPages = {}
    /\ chart = "unloaded" /\ awaiting = NoVisit
    /\ autoLoad \in BOOLEAN
    /\ counts = FALSE /\ stored = "none"
    /\ now = 0 /\ seen = 0
    /\ timer = Armed(NextScheduledAt(Scheduled(tab, due), 0))
    /\ late = FALSE
    /\ edits = 0 /\ surprises = 0

Next ==
    \/ \E t \in Tabs : SelectTab(t)
    \/ \E v \in Views : SelectView(v)
    \/ \E q \in Queues, t \in Tabs : Open(q, t)
    \/ Reload \/ OnAutoLoadChange
    \/ LoadMetricChart \/ MetricChartLoaded
    \/ Answer
    \/ SummaryPoll \/ SummaryAnswer \/ ActivityPoll \/ ActivityAnswer
    \/ LoadNextPage
    \/ \E a \in Addresses : NextPageAnswer(a)
    \/ StoredCountsExpire
    \/ ScheduledJobClock \/ Tick

\* Visits that are not interrupted are answered, and polls go on.
Spec ==
    /\ Init /\ [][Next]_vars
    /\ WF_vars(Answer)
    /\ WF_vars(ActivityPoll) /\ WF_vars(ActivityAnswer)

-----------------------------------------------------------------------------
(* Properties. *)

TypeOK ==
    /\ queue \in Queues /\ tab \in Tabs /\ view \in Views
    /\ rows \subseteq Tabs /\ due \subseteq Due
    /\ address \in Addresses
    /\ summary \in UNION {Summaries(q) : q \in Queues}
    /\ lastKnown \in [queue : Queues \cup {Null}, completed : Values \cup {Null}]
    /\ {visit, awaiting} \subseteq Visits
    /\ summaryPoll \in Queues \cup {Null}
    /\ activityPoll \in Refreshes \cup {Null}
    /\ nextPages \subseteq Addresses
    /\ chart \in {"unloaded", "loading", "loaded"}
    /\ {long, browsing, autoLoad, counts, late} \subseteq BOOLEAN
    /\ stored \in {"none", "fresh", "expired"}
    /\ {now, seen} \subseteq 0..MaxTime
    /\ timer \in {Null} \cup 1..MaxTime + maximumTimeout

\* A reload, or a link that is copied, shows the queue, the tab and the view that are
\* shown, whatever visits and refreshes were interrupted, unless charts arrived when
\* another tab or queue was open: their visit names the one they were asked for in.
AddressNamesWhatIsShown ==
    ~ late => address = [queue |-> queue, tab |-> tab, view |-> view]

\* A refresh, or older rows, asked for before a tab was answered may bring rows of the tab
\* that was left; while new entries are loaded automatically they do not stay, unless
\* history is browsed: then every refresh is merged into them.
RowsReturn ==
    rows # {tab} /\ autoLoad ~> (rows = {tab} \/ browsing \/ late \/ ~ autoLoad)

\* The completed jobs stay what they were last told to be while refreshes bring an
\* available summary that does not tell them; the navigation counts are forgotten only when the
\* interface is loaded again after the browser's copy has expired.
KnownNumbersStay ==
    [][ /\ (ShownCompleted # Null /\ summary'.available /\ visit' = visit /\ edits' = edits) =>
              ShownCompleted' = IF summary'.completed # Null THEN summary'.completed
                                ELSE ShownCompleted
        /\ (counts /\ ~ counts') => stored # "fresh"
      ]_vars

\* No job is shown as delayed after it was released, however far away its release was
\* when the table was rendered.
DueJobsAreShown ==
    ~ TimeoutIsDue =>
        \A d \in Scheduled(tab, due) : d <= now => d <= seen

\* Why delayed jobs are released on time: the clock is armed at the latest for the next
\* release the rendered table does not show yet.
ClockInvariant ==
    /\ now \in Nat /\ seen \in Nat
    /\ due \subseteq Due
    /\ LET next == NextScheduledAt(Scheduled(tab, due), seen)
       IN  next # Null => timer \in Nat /\ timer <= next

\* Why known numbers stay: a number that is told is kept, for the queue it was told of.
KnownInvariant ==
    /\ edits \in Nat
    /\ summary.available /\ summary.completed # Null =>
            lastKnown = [queue |-> queue, completed |-> summary.completed]
=============================================================================
