------------------------------ MODULE ListRefresh ------------------------------
(***************************************************************************)
(* A list that refreshes itself while its user scrolls, filters and turns  *)
(* automatic loading on and off.  Polls, the reload that automatic loading *)
(* starts with, the reload of the new entries and the request for the next *)
(* page run beside each other and beside foreground visits; their answers  *)
(* arrive in any order.  Of those that replace or extend the list the hook *)
(* can cancel one, the last that it sent.                                  *)
(***************************************************************************)
EXTENDS Integers, FiniteSets

CONSTANTS
    Token,       \* query -> what the source has been -> the list's total and first ID
    MaxSource,   \* bound: changes of the source
    MaxVisits,   \* bound: foreground visits
    MaxToggles,  \* bound: uses of the automatic loading switch
    MaxPages     \* bound: pages of the list that are loaded

ASSUME ListRefreshAssumption ==
    /\ {MaxSource, MaxVisits, MaxToggles, MaxPages} \subseteq Nat
    /\ Token \in [0..MaxVisits -> [0..MaxSource -> Nat]]

VARIABLES
    source,       \* external: changes of what the list is read from
    scope,        \* the query of the page: visits that changed it
    entries,      \* the rows: the scope and source of the first page, pages loaded
    listRevision, \* the prop
    enabled,      \* the automatic loading preference
    baseline,     \* baselineRevisionRef
    browsing,     \* browsingHistoryRef
    newEntries,   \* hasNewEntries, as the hook stores it
    pollCancel,   \* pollCancelRef: the kind of request it would cancel
    request,      \* requests under way, by kind
    visit,        \* a foreground visit is under way, with the source it may read
    activeCount, failed,   \* of auto-refresh-status
    toggles

listVars == <<scope, entries, listRevision>>
refreshVars == <<enabled, baseline, browsing, newEntries, pollCancel>>
statusVars == <<activeCount, failed>>
listRefreshVars == <<source, listVars, refreshVars, request, visit, statusVars, toggles>>

Tracked == {"poll", "reload", "new"}
RequestKinds == Tracked \cup {"next"}
Modes == {"replace", "prepend", "freshness"}
None == [mode |-> "none", scope |-> 0, sent |-> 0]
NoVisit == -1
Readings == [scope : 0..MaxVisits, number : 0..MaxSource]

\* The listRevision prop of what was read: the total and the first ID, which a
\* change may leave as they were, and which two queries may share.
RevisionOf(read) == Token[read.scope][read.number]
Revisions == {RevisionOf(read) : read \in Readings}

UnderWay == {k \in RequestKinds : request[k] # None}

\* Mutant of PollMode: a list whose history is browsed is only asked whether it
\* has changed.
PollModeFreshness(on) == IF ~ on \/ browsing THEN "freshness" ELSE "replace"

\* A poll inserts rows while automatic loading is on: it replaces the list, or
\* prepends to one whose history is being browsed.
PollMode(on) ==
    IF ~ on THEN "freshness" ELSE IF browsing THEN "prepend" ELSE "replace"

Sent(mode) == [mode |-> mode, scope |-> scope, sent |-> source]

-----------------------------------------------------------------------------
(* The status of the automatic refreshes counts every tracked request once,  *)
(* from its cancel token to onCancel or onFinish, whichever comes first.     *)

\* Mutant of Settlements: a cancelled request settles in onCancel and onFinish.
SettlementsTwice(cancelled) == IF cancelled THEN 2 ELSE 1

Settlements(cancelled) == 1

SettledCount(count, ks, cancelled) ==
    LET left == count - Settlements(cancelled) * Cardinality(ks \cap Tracked) IN
    IF left > 0 THEN left ELSE 0

\* Requests of the kinds ks are cancelled and those of the kinds new are sent.
Exchange(ks, new) ==
    /\ request' = [k \in RequestKinds |->
                      IF k \in DOMAIN new THEN new[k]
                      ELSE IF k \in ks THEN None ELSE request[k]]
    /\ activeCount' = SettledCount(activeCount, ks \cap UnderWay, TRUE)
                          + Cardinality(DOMAIN new \cap Tracked)
    /\ UNCHANGED failed

\* cancelActivePoll
Cancellable == {pollCancel} \cap UnderWay

-----------------------------------------------------------------------------
(* The effect of the hook, with the values of the render it follows.         *)

Effect(on, revision, pages, newScope) ==
    /\ browsing' = IF newScope THEN pages > 1 ELSE browsing \/ pages > 1
    /\ baseline' = IF newScope \/ on THEN revision ELSE baseline
    /\ newEntries' = IF newScope \/ on THEN FALSE
                     ELSE newEntries \/ revision # baseline

\* The new-entries alert of the page.
Notice == ~ enabled /\ newEntries

\* What the switch of automatic loading says of the refreshes.
VisibleStatus ==
    IF ~ enabled THEN "idle"
    ELSE IF activeCount > 0 THEN "refreshing"
    ELSE IF failed THEN "failed" ELSE "idle"

-----------------------------------------------------------------------------
\* The timer of the poll fires: the poll before it is cancelled.
Poll ==
    /\ Exchange({"poll"}, [k \in {"poll"} |-> Sent(PollMode(enabled))])
    /\ pollCancel' = "poll"
    /\ UNCHANGED <<source, listVars, enabled, baseline, browsing, newEntries, visit, toggles>>

\* Automatic loading turned on reloads at once, and this is no poll.
Toggle ==
    /\ toggles < MaxToggles
    /\ toggles' = toggles + 1
    /\ enabled' = ~ enabled
    /\ Effect(~ enabled, listRevision, entries.pages, FALSE)
    /\ IF enabled
       THEN UNCHANGED <<request, statusVars, pollCancel>>
       ELSE /\ request["reload"] = None
            /\ Exchange({}, [k \in {"reload"} |-> Sent(PollMode(TRUE))])
            /\ pollCancel' = "reload"
    /\ UNCHANGED <<source, listVars, visit>>

\* The user asks for the new entries.
LoadNewEntries ==
    /\ Notice
    /\ request["new"] = None \/ pollCancel = "new"
    /\ Exchange(Cancellable, [k \in {"new"} |-> Sent("replace")])
    /\ pollCancel' = "new"
    /\ UNCHANGED <<source, listVars, enabled, baseline, browsing, newEntries, visit, toggles>>

\* The end of the list comes near: onBeforeNextPage, then the request.
LoadNextPage ==
    /\ entries.pages < MaxPages
    /\ request["next"] = None
    /\ browsing' = TRUE
    /\ Exchange(Cancellable, [k \in {"next"} |-> Sent("append")])
    /\ pollCancel' = "none"
    /\ UNCHANGED <<source, listVars, enabled, baseline, newEntries, visit, toggles>>

Released(k) == IF pollCancel = k THEN "none" ELSE pollCancel

\* What an answer makes of the rows.
Rows(r, read) ==
    CASE r.mode = "replace"   -> [of |-> read, pages |-> 1]
      [] r.mode = "prepend"   -> [of |-> read, pages |-> entries.pages]
      [] r.mode = "append"    -> [entries EXCEPT !.pages = @ + 1]
      [] r.mode = "freshness" -> entries

\* An answer, read at any time since the request was sent.  That of the new
\* entries settles what the list is compared with.
AnswerRequest(k) ==
    LET r == request[k] IN
    /\ r # None
    /\ \E n \in r.sent..source :
         LET read == [scope |-> r.scope, number |-> n] IN
         /\ entries' = Rows(r, read)
         /\ listRevision' = IF k = "next" THEN listRevision ELSE RevisionOf(read)
         /\ IF k # "new"
            THEN Effect(enabled, listRevision', entries'.pages, FALSE)
            ELSE /\ baseline' = RevisionOf(read)
                 /\ browsing' = FALSE
                 /\ newEntries' = FALSE
    /\ request' = [request EXCEPT ![k] = None]
    /\ activeCount' = SettledCount(activeCount, {k}, FALSE)
    /\ failed' = (failed /\ k \notin Tracked)
    /\ pollCancel' = Released(k)
    /\ UNCHANGED <<source, scope, enabled, visit, toggles>>

\* An error, or no connection: the status says so, nothing else changes.
FailRequest(k) ==
    /\ request[k] # None
    /\ request' = [request EXCEPT ![k] = None]
    /\ activeCount' = SettledCount(activeCount, {k}, FALSE)
    /\ failed' = (failed \/ k \in Tracked)
    /\ pollCancel' = Released(k)
    /\ UNCHANGED <<source, listVars, enabled, baseline, browsing, newEntries, visit, toggles>>

-----------------------------------------------------------------------------
(* A foreground visit with another query.  It cancels the polls that are     *)
(* under way when it begins, and no other request.                           *)

BeginVisit ==
    /\ visit = NoVisit
    /\ scope < MaxVisits
    /\ visit' = source
    /\ Exchange({"poll"}, [k \in {} |-> None])
    /\ pollCancel' = Released("poll")
    /\ UNCHANGED <<source, listVars, enabled, baseline, browsing, newEntries, toggles>>

EndVisit ==
    /\ visit # NoVisit
    /\ visit' = NoVisit
    /\ scope' = scope + 1
    /\ \E n \in visit..source :
          LET read == [scope |-> scope + 1, number |-> n] IN
          /\ listRevision' = RevisionOf(read)
          /\ entries' = [of |-> read, pages |-> 1]
          /\ Effect(enabled, listRevision', 1, TRUE)
    /\ UNCHANGED <<source, enabled, pollCancel, request, statusVars, toggles>>

FailVisit ==
    /\ visit # NoVisit
    /\ visit' = NoVisit
    /\ UNCHANGED <<source, listVars, refreshVars, request, statusVars, toggles>>

\* External: jobs start, end and expire.
ChangeSource ==
    /\ source < MaxSource
    /\ source' = source + 1
    /\ UNCHANGED <<listVars, refreshVars, request, visit, statusVars, toggles>>

-----------------------------------------------------------------------------
ListInit ==
    /\ source = 0
    /\ scope = 0
    /\ entries = [of |-> [scope |-> 0, number |-> 0], pages |-> 1]
    /\ listRevision = RevisionOf(entries.of)
    /\ enabled \in BOOLEAN
    /\ baseline = listRevision
    /\ browsing = FALSE
    /\ newEntries = FALSE
    /\ pollCancel = "none"
    /\ request = [k \in RequestKinds |-> None]
    /\ visit = NoVisit
    /\ activeCount = 0
    /\ failed = FALSE
    /\ toggles = 0

ListNext ==
    \/ Poll \/ Toggle \/ LoadNewEntries \/ LoadNextPage
    \/ \E k \in RequestKinds : AnswerRequest(k) \/ FailRequest(k)
    \/ BeginVisit \/ EndVisit \/ FailVisit
    \/ ChangeSource

\* The timer of the poll fires for ever, visits end, and a server that answers
\* slower than the poll interval does not do so every time: a poll that is
\* always cancelled by the next one would refresh nothing.
ListFairness ==
    /\ WF_listRefreshVars(Poll)
    /\ WF_listRefreshVars(EndVisit)
    /\ \A k \in RequestKinds : SF_listRefreshVars(AnswerRequest(k))

ListSpec == ListInit /\ [][ListNext]_listRefreshVars /\ ListFairness

-----------------------------------------------------------------------------
(* Properties. *)

ListTypeOK ==
    /\ source \in 0..MaxSource
    /\ scope \in 0..MaxVisits
    /\ entries \in [of : Readings, pages : 1..MaxPages]
    /\ listRevision \in Revisions
    /\ {enabled, browsing, newEntries, failed} \subseteq BOOLEAN
    /\ baseline \in Revisions
    /\ pollCancel \in RequestKinds \cup {"none"}
    /\ request \in [RequestKinds -> {None} \cup [mode : Modes \cup {"append"},
                                                 scope : 0..MaxVisits, sent : 0..MaxSource]]
    /\ visit \in 0..MaxSource \cup {NoVisit}
    /\ activeCount \in Nat
    /\ toggles \in 0..MaxToggles

\* The status says "refreshing" exactly while a background refresh is under
\* way, however requests overlap and are cancelled.
ActiveCountIsTrue ==
    /\ activeCount = Cardinality(UnderWay \cap Tracked)
    /\ VisibleStatus = "refreshing" <=> enabled /\ UnderWay \cap Tracked # {}

Now == [scope |-> scope, number |-> source]

\* The source has left the list behind; without automatic loading, which only
\* compares revisions, in a way that shows in the total or in the first ID.
Behind ==
    /\ entries.of # Now
    /\ enabled \/ RevisionOf(entries.of) # RevisionOf(Now)

\* As long as the automatic loading switch is left alone, a list that the source
\* has left behind is refreshed or has the notice of new entries -- also when
\* answers overtake each other or belong to a query the user has left.
ListCatchesUp ==
    (toggles = 0 /\ Behind) ~> (~ Behind \/ Notice \/ toggles > 0)
=============================================================================
