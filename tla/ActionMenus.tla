------------------------------ MODULE ActionMenus ------------------------------
(***************************************************************************)
(* The menus that act on jobs, queues, batches, tags and instances.  An    *)
(* item sends its request at once or asks in a dialog first; a menu that   *)
(* waits for its request cannot be opened.  The requests of all menus and  *)
(* the links of the page share the one foreground visit of the browser: a  *)
(* new visit interrupts the one under way.  Only the terminate command is  *)
(* sent beside it, and waits for the reload that follows it.  Meanwhile    *)
(* refreshes change what a menu may offer, and take rows and their menus   *)
(* away.                                                                   *)
(***************************************************************************)
EXTENDS Integers, FiniteSets

CONSTANTS
    Menus,        \* the places of a page that hold a menu
    Pages,        \* set of pages: menu -> its kind
    Targets,      \* connections a queue exists on
    MaxDuration,  \* longest pause the form of the pause dialog accepts
    Inputs,       \* bound: numbers typed into the form
    MaxChanges,   \* bound: refreshes that change what menus offer
    MaxRequests,  \* bound: requests sent
    NoMenu        \* the sender of a visit that is no menu's

VARIABLES
    kind,      \* menu -> kind, the page that is open
    offered,   \* menu -> the facts of its props that enable items
    mounted,   \* menus that are on the page
    dialog,    \* menu -> the action its dialog asks to confirm
    target,    \* menu -> activeTarget
    working,   \* menu -> the action it waits for
    form,      \* menu -> the pause form
    visit,     \* the foreground visit under way
    phase,     \* menu -> progress of its terminate command
    changes, requests

stateVars == <<kind, offered, mounted>>
menuVars == <<dialog, target, working, form>>
vars == <<stateVars, menuVars, visit, phase, changes, requests>>

NoAction == "none"
NoVisit == [menu |-> NoMenu, action |-> NoAction, target |-> "none", duration |-> 0]
Indefinitely == 0

-----------------------------------------------------------------------------
(* What each menu offers: an item is offered when the facts it needs hold,  *)
(* and asks for confirmation or not.                                        *)

Item(action, needs, asks) == [action |-> action, needs |-> needs, asks |-> asks]

\* Retrying and clearing a queue are in different halves of a menu that shows
\* one scope; "failed" stands for failedJobs > 0.
QueueActionItems(scope) ==
    {item \in {Item("resume", {"pausing", "paused"}, FALSE),
               Item("pause", {"pausing"}, TRUE),
               Item("clear", {"pending"}, TRUE)} : scope # "failed"}
      \cup {item \in {Item("retryFailed", {"failed"}, TRUE)} : scope # "pending"}

RetryFailedJobButton == {Item("retry", {"enabled"}, FALSE)}

FailedJobsActionsMenu ==
    {Item("retryAll", {"some", "retryable"}, FALSE),
     Item("clearAll", {"some", "clearable"}, TRUE)}

FailedJobActionsMenu ==
    {Item("retry", {"canRetry"}, FALSE), Item("remove", {}, TRUE)}

BatchPendingJobsActions ==
    {Item("retry", {"canRetry"}, TRUE), Item("cancel", {"canCancel"}, TRUE)}

BatchFailedJobsActions ==
    {Item("retry", {"some"}, FALSE), Item("clear", {"some"}, TRUE)}

BatchesActions ==
    {Item(scope, {"completeScan", "available", scope}, TRUE) :
        scope \in {"incomplete", "complete", "finished", "cancelled"}}

PendingJobActionsMenu ==
    {Item("release", {"canRelease"}, TRUE), Item("cancel", {"canCancel"}, TRUE)}

PendingJobsActions ==
    {Item("ready", {"enabled", "ready"}, TRUE),
     Item("delayed", {"enabled", "delayed"}, TRUE),
     Item("pending", {"enabled", "ready", "delayed"}, TRUE)}

QueueBatchesActions == {Item("retry", {"failed"}, TRUE)}

QueuesActions == {Item("clearAll", {"pending"}, TRUE)}

MonitoringActionsMenu ==
    {Item("retry", {"failed"}, TRUE), Item("clear", {"tracked"}, TRUE),
     Item("stop", {}, FALSE)}

HorizonInstancesActions == {Item("terminate", {"local"}, TRUE)}

Items ==
    [queue         |-> QueueActionItems("all"),
     queuePending  |-> QueueActionItems("pending"),
     queueFailed   |-> QueueActionItems("failed"),
     retryButton   |-> RetryFailedJobButton,
     failedJobs    |-> FailedJobsActionsMenu,
     failedJob     |-> FailedJobActionsMenu,
     batchPending  |-> BatchPendingJobsActions,
     batchFailed   |-> BatchFailedJobsActions,
     batches       |-> BatchesActions,
     pendingJob    |-> PendingJobActionsMenu,
     pendingJobs   |-> PendingJobsActions,
     queueBatches  |-> QueueBatchesActions,
     queues        |-> QueuesActions,
     tag           |-> MonitoringActionsMenu,
     monitoredTag  |-> MonitoringActionsMenu,
     instances     |-> HorizonInstancesActions]

Kinds == DOMAIN Items
Facts(k) == UNION {item.needs : item \in Items[k]}
Actions == UNION {{item.action : item \in Items[k]} : k \in Kinds}

ASSUME ActionMenusAssumption ==
    /\ Pages \subseteq [Menus -> Kinds]
    /\ NoMenu \notin Menus

OfferedItems(m) == {item \in Items[kind[m]] : item.needs \subseteq offered[m]}

\* These two render nothing when they have nothing to offer, and keep their
\* state.
Hidden(m) ==
    \/ kind[m] = "pendingJob" /\ OfferedItems(m) = {}
    \/ kind[m] = "batches" /\ "completeScan" \notin offered[m]

Visible(m) == m \in mounted /\ ~ Hidden(m)

Asking == {m \in Menus : Visible(m) /\ dialog[m] # NoAction}

\* Mutant of CanOpen: the trigger stays enabled while its menu works.
CanOpenWorking(m) == Visible(m) /\ Asking = {}

\* ActionMenuTrigger is disabled while its menu works; the page behind a dialog
\* is inert.
CanOpen(m) ==
    /\ Visible(m)
    /\ working[m] = NoAction
    /\ Asking = {}

\* The constraints of the duration field, which is shown for a timed pause.
Submittable(f) == f.indefinite \/ f.minutes \in 1..MaxDuration

TargetsOf(m) == IF kind[m] \in {"queue", "queuePending", "queueFailed"}
                THEN Targets ELSE {"none"}

\* The form a pause dialog opens with, from the minutes left of a timed pause,
\* which may have run out since the page was read.
PauseForm(timed, left) ==
    [indefinite |-> ~ timed,
     minutes |-> IF ~ timed THEN 1 ELSE IF left > 1 THEN left ELSE 1]

-----------------------------------------------------------------------------
(* The foreground visit.  onStart marks the menu that sends as working,      *)
(* after onFinish has released the menu whose visit it interrupts.           *)

\* Mutant of Finished: the request of one item is sent without its onFinish.
FinishedOrRetry(w) == IF visit.menu = NoMenu \/ visit.action = "retry" THEN w
                      ELSE [w EXCEPT ![visit.menu] = NoAction]

Finished(w) == IF visit.menu = NoMenu THEN w ELSE [w EXCEPT ![visit.menu] = NoAction]

Send(m, action, t, duration) ==
    /\ requests < MaxRequests
    /\ requests' = requests + 1
    /\ visit' = [menu |-> m, action |-> action, target |-> t, duration |-> duration]
    /\ working' = IF m = NoMenu THEN Finished(working)
                  ELSE [Finished(working) EXCEPT ![m] = action]

\* An item that asks opens the dialog for its target.
OpenDialog(m, item, t) ==
    /\ CanOpen(m)
    /\ item \in OfferedItems(m) /\ item.asks
    /\ dialog' = [dialog EXCEPT ![m] = item.action]
    /\ target' = [target EXCEPT ![m] = t]
    /\ IF item.action # "pause" THEN UNCHANGED form
       ELSE \E timed \in {FALSE, "paused" \in offered[m]}, left \in 0..MaxDuration :
                form' = [form EXCEPT ![m] = PauseForm(timed, left)]
    /\ UNCHANGED <<stateVars, working, visit, phase, changes, requests>>

\* An item, or a button, that does not.
RunItem(m, item, t) ==
    /\ CanOpen(m)
    /\ item \in OfferedItems(m) /\ ~ item.asks
    /\ Send(m, item.action, t, Indefinitely)
    /\ UNCHANGED <<stateVars, dialog, target, form, phase, changes>>

EditForm(m) ==
    /\ m \in Asking /\ dialog[m] = "pause"
    /\ \E indefinite \in BOOLEAN, minutes \in Inputs :
           form' = [form EXCEPT ![m] = [indefinite |-> indefinite, minutes |-> minutes]]
    /\ UNCHANGED <<stateVars, dialog, target, working, visit, phase, changes, requests>>

\* Escape and a click outside close a dialog even while its request is under way.
Dismiss(m) ==
    /\ m \in Asking
    /\ dialog' = [dialog EXCEPT ![m] = NoAction]
    /\ UNCHANGED <<stateVars, target, working, form, visit, phase, changes, requests>>

Confirm(m) ==
    /\ m \in Asking
    /\ working[m] = NoAction
    /\ kind[m] # "instances"
    /\ dialog[m] = "pause" => Submittable(form[m])
    /\ Send(m, dialog[m], target[m],
            IF dialog[m] = "pause" /\ ~ form[m].indefinite
            THEN form[m].minutes ELSE Indefinitely)
    /\ UNCHANGED <<stateVars, dialog, target, form, phase, changes>>

\* A link, a filter or a tab starts a visit of its own.
FollowLink ==
    /\ Asking = {}
    /\ Send(NoMenu, "visit", "none", Indefinitely)
    /\ UNCHANGED <<stateVars, dialog, target, form, phase, changes>>

\* setAction(null) and setScope(null) close whatever the dialog asks; the other
\* menus close the dialog of the action that succeeded.
OneDialog == {"pendingJob", "pendingJobs", "batches"}

Closed(m, action) ==
    IF dialog[m] = action \/ kind[m] \in OneDialog
    THEN [dialog EXCEPT ![m] = NoAction] ELSE dialog

\* onSuccess, then onFinish.  The page of a tag that is no longer monitored
\* visits the list instead.
Succeed ==
    /\ visit.menu # NoMenu
    /\ ~ (visit.action = "stop" /\ kind[visit.menu] = "tag")
    /\ dialog' = Closed(visit.menu, visit.action)
    /\ working' = Finished(working)
    /\ visit' = NoVisit
    /\ UNCHANGED <<stateVars, target, form, phase, changes, requests>>

Redirect ==
    /\ visit.action = "stop" /\ visit.menu # NoMenu
    /\ kind[visit.menu] = "tag"
    /\ working' = Finished(working)
    /\ visit' = [NoVisit EXCEPT !.action = "visit"]
    /\ UNCHANGED <<stateVars, dialog, target, form, phase, changes, requests>>

\* Validation, an error page or a lost connection: only onFinish.  The visit of
\* a link, or of a menu that has left, ends unseen.
FailVisit ==
    /\ visit # NoVisit
    /\ working' = Finished(working)
    /\ visit' = NoVisit
    /\ UNCHANGED <<stateVars, dialog, target, form, phase, changes, requests>>

-----------------------------------------------------------------------------
(* The terminate command of the instances menu.                              *)

SetPhase(m, from, to) == phase[m] = from /\ phase' = [phase EXCEPT ![m] = to]

Terminate(m) ==
    /\ m \in Asking
    /\ kind[m] = "instances"
    /\ working[m] = NoAction
    /\ requests < MaxRequests
    /\ requests' = requests + 1
    /\ working' = [working EXCEPT ![m] = "terminate"]
    /\ SetPhase(m, "idle", "sent")
    /\ UNCHANGED <<stateVars, dialog, target, form, visit, changes>>

\* Accepted: the dialog closes and the page reloads after commandRevalidationDelay.
TerminateAccepted(m) ==
    /\ SetPhase(m, "sent", "delayed")
    /\ dialog' = [dialog EXCEPT ![m] = NoAction]
    /\ UNCHANGED <<stateVars, target, working, form, visit, changes, requests>>

\* Refused, unreachable, or no answer within commandRequestTimeout.
TerminateFailed(m) ==
    /\ SetPhase(m, "sent", "idle")
    /\ working' = [working EXCEPT ![m] = NoAction]
    /\ UNCHANGED <<stateVars, dialog, target, form, visit, changes, requests>>

Revalidate(m) ==
    /\ SetPhase(m, "delayed", "reloading")
    /\ UNCHANGED <<stateVars, menuVars, visit, changes, requests>>

\* Mutant of Revalidated: a reload that is cancelled does not release the menu.
RevalidatedUnreleased(m) ==
    /\ SetPhase(m, "reloading", "idle")
    /\ UNCHANGED <<stateVars, menuVars, visit, changes, requests>>

\* The reload answers, fails or is cancelled: onFinish in any case.
Revalidated(m) ==
    /\ SetPhase(m, "reloading", "idle")
    /\ working' = [working EXCEPT ![m] = NoAction]
    /\ UNCHANGED <<stateVars, dialog, target, form, visit, changes, requests>>

-----------------------------------------------------------------------------
(* Refreshes of the page.                                                    *)

Change(m, fact) ==
    /\ changes < MaxChanges
    /\ changes' = changes + 1
    /\ m \in mounted
    /\ offered' = [offered EXCEPT ![m] = IF fact \in @ THEN @ \ {fact} ELSE @ \cup {fact}]
    /\ UNCHANGED <<kind, mounted, menuVars, visit, phase, requests>>

\* The row of a menu leaves the page, or the pool that shows it is collapsed:
\* its state goes, and the callbacks of its request reach nothing.
Unmount(m) ==
    /\ changes < MaxChanges
    /\ changes' = changes + 1
    /\ m \in mounted
    /\ mounted' = mounted \ {m}
    /\ dialog' = [dialog EXCEPT ![m] = NoAction]
    /\ working' = [working EXCEPT ![m] = NoAction]
    /\ visit' = IF visit.menu = m THEN [visit EXCEPT !.menu = NoMenu] ELSE visit
    /\ phase' = [phase EXCEPT ![m] = "idle"]
    /\ UNCHANGED <<kind, offered, target, form, requests>>

Mount(m) ==
    /\ m \notin mounted
    /\ mounted' = mounted \cup {m}
    /\ UNCHANGED <<kind, offered, menuVars, visit, phase, changes, requests>>

-----------------------------------------------------------------------------
Init ==
    /\ kind \in Pages
    /\ offered = [m \in Menus |-> Facts(kind[m])]
    /\ mounted = Menus
    /\ dialog = [m \in Menus |-> NoAction]
    /\ target \in [Menus -> {CHOOSE t \in Targets : TRUE}]
    /\ working = dialog
    /\ form = [m \in Menus |-> PauseForm(FALSE, 0)]
    /\ visit = NoVisit
    /\ phase = [m \in Menus |-> "idle"]
    /\ changes = 0
    /\ requests = 0

Next ==
    \/ \E m \in Menus :
          \/ \E item \in Items[kind[m]], t \in TargetsOf(m) :
                OpenDialog(m, item, t) \/ RunItem(m, item, t)
          \/ EditForm(m) \/ Dismiss(m) \/ Confirm(m)
          \/ Terminate(m) \/ TerminateAccepted(m) \/ TerminateFailed(m)
          \/ Revalidate(m) \/ Revalidated(m)
          \/ \E fact \in Facts(kind[m]) : Change(m, fact)
          \/ Unmount(m) \/ Mount(m)
    \/ FollowLink \/ Succeed \/ Redirect \/ FailVisit

\* A command is aborted after a time and a timeout fires; the reload and the
\* foreground visit end because the browser ends every request.
Fairness ==
    /\ \A m \in Menus :
          /\ WF_vars(TerminateFailed(m)) /\ WF_vars(Revalidate(m))
          /\ WF_vars(Revalidated(m))
    /\ WF_vars(FailVisit)

Spec == Init /\ [][Next]_vars /\ Fairness

-----------------------------------------------------------------------------
(* Properties. *)

Phases == {"idle", "sent", "delayed", "reloading"}

TypeOK ==
    /\ kind \in Pages
    /\ \A m \in Menus : offered[m] \subseteq Facts(kind[m])
    /\ mounted \subseteq Menus
    /\ dialog \in [Menus -> Actions \cup {NoAction}]
    /\ target \in [Menus -> Targets \cup {"none"}]
    /\ working \in [Menus -> Actions \cup {NoAction}]
    /\ form \in [Menus -> [indefinite : BOOLEAN, minutes : Int]]
    /\ visit \in [menu : Menus \cup {NoMenu}, action : Actions \cup {NoAction, "visit"},
                  target : Targets \cup {"none"}, duration : 0..MaxDuration]
    /\ phase \in [Menus -> Phases]
    /\ {changes, requests} \subseteq Nat

\* A menu that works waits for a request that will release it, and a request
\* that will has its menu working: neither another menu's visit, nor a link, a
\* refused command or a row that goes and comes back leaves it disabled.
WorkingMenusWait ==
    \A m \in Menus :
        working[m] =
            CASE visit.menu = m -> visit.action
              [] phase[m] # "idle" -> "terminate"
              [] OTHER -> NoAction

\* The success of a request closes the dialog it was confirmed in, never one the
\* user has opened since for another action or connection.
SuccessClosesItsOwnDialog ==
    [][\A m \in Menus :
          (visit.menu = m \/ phase[m] = "sent")
          /\ dialog[m] # NoAction /\ dialog'[m] = NoAction
          /\ working[m] # NoAction
          => /\ dialog[m] = working[m]
             /\ visit.menu = m => target[m] = visit.target]_vars

\* A menu that works is released, whatever becomes of its request.
MenusComeBack == \A m \in Menus : working[m] # NoAction ~> working[m] = NoAction
=============================================================================
