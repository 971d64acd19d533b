--------------------------- MODULE ActionMenus_proofs ---------------------------
(***************************************************************************)
(* For any menus of any page, and in any order of clicks, visits, answers, *)
(* refreshes and rows that come and go, a menu that works waits for the    *)
(* request that will release it, and a success closes its own dialog.      *)
(***************************************************************************)
EXTENDS ActionMenus, TLAPS

\* The menu of a visit is one that works, and its dialog, if it still asks,
\* is the one the visit was confirmed in.
VisitInv ==
    /\ visit = [menu |-> visit.menu, action |-> visit.action,
                target |-> visit.target, duration |-> visit.duration]
    /\ visit.menu \in Menus \cup {NoMenu}
    /\ visit.menu \in Menus =>
          /\ visit.action # NoAction
          /\ phase[visit.menu] = "idle"
          /\ dialog[visit.menu] # NoAction => target[visit.menu] = visit.target

\* A dialog asks about an item of its menu, and about what the menu works at.
DialogInv(m) ==
    dialog[m] # NoAction =>
        /\ \E item \in Items[kind[m]] : dialog[m] = item.action
        /\ working[m] # NoAction => dialog[m] = working[m]

\* The inductive invariant.
MenuInvariant ==
    /\ kind \in [Menus -> Kinds]
    /\ working = [m \in Menus |-> working[m]]
    /\ dialog = [m \in Menus |-> dialog[m]]
    /\ target = [m \in Menus |-> target[m]]
    /\ phase \in [Menus -> Phases]
    /\ VisitInv
    /\ WorkingMenusWait
    /\ \A m \in Menus : DialogInv(m)

\* The variables the invariant is about.
menuState == <<kind, working, dialog, target, phase, visit>>

\* Every item has an action, and instances are only terminated.
LEMMA ItemsAreNamed ==
  ASSUME NEW k \in Kinds, NEW item \in Items[k]
  PROVE  item.action # NoAction /\ (k = "instances" => item.action = "terminate")
  <1>1. k \in {"queue", "queuePending", "queueFailed", "retryButton", "failedJobs",
               "failedJob", "batchPending", "batchFailed", "batches", "pendingJob",
               "pendingJobs", "queueBatches", "queues", "tag", "monitoredTag", "instances"}
    BY DEF Kinds, Items
  <1> QED
    BY <1>1 DEF Items, Item, NoAction, QueueActionItems, RetryFailedJobButton,
       FailedJobsActionsMenu, FailedJobActionsMenu, BatchPendingJobsActions,
       BatchFailedJobsActions, BatchesActions, PendingJobActionsMenu, PendingJobsActions,
       QueueBatchesActions, QueuesActions, MonitoringActionsMenu, HorizonInstancesActions

\* What a menu that does not work is free of.
LEMMA IdleMenus ==
  ASSUME MenuInvariant, NEW m \in Menus, working[m] = NoAction
  PROVE  visit.menu # m /\ phase[m] = "idle"
  BY DEF MenuInvariant, WorkingMenusWait, VisitInv, NoAction

\* No visit has a menu.
LEMMA NoVisitIs == NoVisit.menu = NoMenu /\ NoMenu \notin Menus
  BY ActionMenusAssumption DEF NoVisit

\* A page opens with menus that do nothing.
LEMMA MenuInit == Init => MenuInvariant
  <1> SUFFICES ASSUME Init PROVE MenuInvariant
    OBVIOUS
  <1>1. kind \in [Menus -> Kinds] /\ phase \in [Menus -> Phases]
    BY ActionMenusAssumption DEF Init, Phases
  <1>2. VisitInv
    BY NoVisitIs DEF Init, VisitInv, NoVisit
  <1>3. \A m \in Menus : working[m] = NoAction /\ dialog[m] = NoAction /\ phase[m] = "idle"
    BY DEF Init
  <1>4. WorkingMenusWait
    BY <1>3, NoVisitIs DEF Init, WorkingMenusWait
  <1> QED BY <1>1, <1>2, <1>3, <1>4 DEF Init, MenuInvariant, DialogInv

\* What the end of the visit under way leaves: its menu is released.
LEMMA FinishedIs ==
  ASSUME MenuInvariant
  PROVE  /\ Finished(working) = [m \in Menus |-> IF visit.menu = m THEN NoAction ELSE working[m]]
         /\ \A m \in Menus : Finished(working)[m] =
                IF phase[m] # "idle" THEN "terminate" ELSE NoAction
  <1>1. Finished(working) = [m \in Menus |-> IF visit.menu = m THEN NoAction ELSE working[m]]
    BY ActionMenusAssumption DEF Finished, MenuInvariant, VisitInv
  <1>2. ASSUME NEW m \in Menus
        PROVE  Finished(working)[m] = IF phase[m] # "idle" THEN "terminate" ELSE NoAction
    BY <1>1 DEF MenuInvariant, WorkingMenusWait, VisitInv
  <1> QED BY <1>1, <1>2

\* A visit of a menu that may send, or of the page.
LEMMA SendKeeps ==
  ASSUME MenuInvariant, NEW m \in Menus \cup {NoMenu}, NEW action, NEW t, NEW duration,
         Send(m, action, t, duration),
         m \in Menus =>
             /\ action # NoAction /\ working[m] = NoAction
             /\ dialog[m] # NoAction => dialog[m] = action /\ target[m] = t,
         UNCHANGED <<kind, dialog, target, phase>>
  PROVE  MenuInvariant'
  <1>1. visit' = [menu |-> m, action |-> action, target |-> t, duration |-> duration]
    BY DEF Send
  <1>2. working' = [n \in Menus |-> IF n = m THEN action ELSE Finished(working)[n]]
    BY FinishedIs, ActionMenusAssumption DEF Send
  <1>3. m \in Menus => phase[m] = "idle"
    BY IdleMenus
  <1>4. VisitInv'
    BY <1>1, <1>3 DEF VisitInv
  <1>5. WorkingMenusWait'
    BY <1>1, <1>2, <1>3, FinishedIs DEF WorkingMenusWait
  <1>6. ASSUME NEW n \in Menus PROVE DialogInv(n)'
    BY <1>2, FinishedIs DEF DialogInv, MenuInvariant
  <1> QED BY <1>2, <1>4, <1>5, <1>6 DEF MenuInvariant

\* The visit ends: its menu is released, dialogs may close.
LEMMA EndKeeps ==
  ASSUME MenuInvariant,
         working' = Finished(working),
         visit' = [NoVisit EXCEPT !.action = visit'.action],
         dialog' = [m \in Menus |-> dialog'[m]],
         \A m \in Menus : dialog'[m] \in {dialog[m], NoAction},
         UNCHANGED <<kind, target, phase>>
  PROVE  MenuInvariant'
  <1>1. visit'.menu = NoMenu /\ NoMenu \notin Menus /\ VisitInv'
    BY NoVisitIs DEF NoVisit, VisitInv
  <1>2. WorkingMenusWait'
    BY <1>1, FinishedIs DEF WorkingMenusWait
  <1>3. ASSUME NEW m \in Menus PROVE DialogInv(m)'
    BY FinishedIs DEF DialogInv, MenuInvariant
  <1> QED BY <1>1, <1>2, <1>3, FinishedIs DEF MenuInvariant

\* The dialog of an item opens where nothing is asked and the menu does not work.
LEMMA OpenDialogKeeps ==
  ASSUME MenuInvariant, NEW m \in Menus, NEW item \in Items[kind[m]], NEW t,
         OpenDialog(m, item, t)
  PROVE  MenuInvariant'
  <1>1. /\ working[m] = NoAction /\ visit.menu # m
        /\ dialog' = [dialog EXCEPT ![m] = item.action]
        /\ target' = [target EXCEPT ![m] = t]
        /\ UNCHANGED <<kind, working, visit, phase>>
    BY IdleMenus DEF OpenDialog, CanOpen, stateVars
  <1>2. VisitInv'
    BY <1>1 DEF VisitInv, MenuInvariant
  <1>3. ASSUME NEW n \in Menus PROVE DialogInv(n)'
    BY <1>1 DEF DialogInv, MenuInvariant
  <1> QED BY <1>1, <1>2, <1>3 DEF MenuInvariant, WorkingMenusWait

\* An item is run where nothing is asked.
LEMMA RunItemKeeps ==
  ASSUME MenuInvariant, NEW m \in Menus, NEW item \in Items[kind[m]], NEW t,
         RunItem(m, item, t)
  PROVE  MenuInvariant'
  <1>1. working[m] = NoAction /\ dialog[m] = NoAction
    BY DEF RunItem, CanOpen, Asking
  <1>2. item.action # NoAction
    BY ItemsAreNamed DEF MenuInvariant
  <1> QED BY <1>1, <1>2, SendKeeps DEF RunItem, stateVars

\* A dialog is confirmed once.
LEMMA ConfirmKeeps ==
  ASSUME MenuInvariant, NEW m \in Menus, Confirm(m)
  PROVE  MenuInvariant'
  <1>1. working[m] = NoAction /\ dialog[m] # NoAction
    BY DEF Confirm, Asking
  <1> QED BY <1>1, SendKeeps DEF Confirm, stateVars

\* Dialogs that close, by whatever step, disturb nothing.
LEMMA DismissKeeps ==
  ASSUME MenuInvariant, NEW m \in Menus, dialog' = [dialog EXCEPT ![m] = NoAction],
         UNCHANGED <<kind, working, target, visit, phase>>
  PROVE  MenuInvariant'
  <1>1. VisitInv'
    BY DEF VisitInv, MenuInvariant
  <1>2. ASSUME NEW n \in Menus PROVE DialogInv(n)'
    BY DEF DialogInv, MenuInvariant
  <1> QED BY <1>1, <1>2 DEF MenuInvariant, WorkingMenusWait

\* Success closes dialogs, and no other step of a visit does.
LEMMA SucceedKeeps ==
  ASSUME MenuInvariant, Succeed
  PROVE  MenuInvariant'
  <1>1. /\ working' = Finished(working) /\ visit' = NoVisit
        /\ dialog' = Closed(visit.menu, visit.action)
        /\ UNCHANGED <<kind, target, phase>>
    BY DEF Succeed, stateVars
  <1>2. /\ dialog' = [m \in Menus |-> dialog'[m]]
        /\ \A m \in Menus : dialog'[m] \in {dialog[m], NoAction}
    BY <1>1 DEF Closed, MenuInvariant
  <1>3. visit' = [NoVisit EXCEPT !.action = visit'.action]
    BY <1>1 DEF NoVisit
  <1> QED BY <1>1, <1>2, <1>3, EndKeeps

\* A menu whose terminate command goes on works until it has ended.
LEMMA TerminateKeeps ==
  ASSUME MenuInvariant, NEW m \in Menus,
         Terminate(m) \/ TerminateAccepted(m) \/ TerminateFailed(m)
             \/ Revalidate(m) \/ Revalidated(m)
  PROVE  MenuInvariant'
  <1>1. UNCHANGED <<kind, target, visit>>
    BY DEF Terminate, TerminateAccepted, TerminateFailed, Revalidate, Revalidated,
           stateVars, menuVars
  <1>2. phase' = [phase EXCEPT ![m] = phase'[m]] /\ phase'[m] \in Phases
    BY DEF Terminate, TerminateAccepted, TerminateFailed, Revalidate, Revalidated, SetPhase,
           Phases, MenuInvariant
  <1>3. visit.menu # m
    <2>1. CASE Terminate(m)
      BY <2>1, IdleMenus DEF Terminate
    <2>2. CASE phase[m] # "idle"
      BY <2>2 DEF MenuInvariant, VisitInv
    <2> QED
      BY <2>1, <2>2 DEF TerminateAccepted, TerminateFailed, Revalidate, Revalidated, SetPhase
  <1>4. /\ working' = [working EXCEPT ![m] = working'[m]]
        /\ working'[m] = IF phase'[m] # "idle" THEN "terminate" ELSE NoAction
    <2>1. CASE Terminate(m)
      BY <2>1 DEF Terminate, SetPhase, MenuInvariant
    <2>2. CASE TerminateAccepted(m) \/ Revalidate(m)
      BY <1>3, <2>2 DEF TerminateAccepted, Revalidate, SetPhase, menuVars, MenuInvariant,
                        WorkingMenusWait
    <2>3. CASE TerminateFailed(m) \/ Revalidated(m)
      BY <2>3 DEF TerminateFailed, Revalidated, SetPhase, MenuInvariant
    <2> QED BY <2>1, <2>2, <2>3
  <1>5. /\ dialog' = [n \in Menus |-> dialog'[n]]
        /\ \A n \in Menus : dialog'[n] \in {dialog[n], NoAction}
    BY DEF Terminate, TerminateAccepted, TerminateFailed, Revalidate, Revalidated, menuVars,
           MenuInvariant
  <1>6. working'[m] # NoAction /\ dialog'[m] # NoAction => dialog'[m] = working'[m]
    <2>1. CASE Terminate(m)
      <3>1. dialog[m] = "terminate"
        BY <2>1, ItemsAreNamed DEF Terminate, Asking, MenuInvariant, DialogInv
      <3> QED BY <1>4, <1>5, <3>1
    <2>2. CASE phase[m] # "idle"
      <3>1. working[m] = "terminate"
        BY <1>3, <2>2 DEF MenuInvariant, WorkingMenusWait
      <3> QED BY <1>4, <1>5, <3>1 DEF MenuInvariant, DialogInv, NoAction
    <2> QED
      BY <2>1, <2>2 DEF TerminateAccepted, TerminateFailed, Revalidate, Revalidated, SetPhase
  <1>7. VisitInv'
    BY <1>1, <1>2, <1>3, <1>5 DEF VisitInv, MenuInvariant
  <1>8. WorkingMenusWait'
    <2>1. ASSUME NEW n \in Menus, n # m
          PROVE  working'[n] = working[n] /\ phase'[n] = phase[n]
      BY <1>2, <1>4, <2>1 DEF MenuInvariant
    <2>2. working'[m] = IF phase'[m] # "idle" THEN "terminate" ELSE NoAction
      BY <1>4
    <2> QED BY <1>1, <1>3, <2>1, <2>2 DEF WorkingMenusWait, MenuInvariant
  <1>9. ASSUME NEW n \in Menus PROVE DialogInv(n)'
    BY <1>1, <1>4, <1>5, <1>6 DEF DialogInv, MenuInvariant
  <1> QED BY <1>1, <1>2, <1>4, <1>5, <1>7, <1>8, <1>9 DEF MenuInvariant

\* A menu that leaves takes its state with it.
LEMMA UnmountKeeps ==
  ASSUME MenuInvariant, NEW m \in Menus, Unmount(m)
  PROVE  MenuInvariant'
  <1>1. /\ dialog' = [dialog EXCEPT ![m] = NoAction]
        /\ working' = [working EXCEPT ![m] = NoAction]
        /\ phase' = [phase EXCEPT ![m] = "idle"]
        /\ visit' = IF visit.menu = m THEN [visit EXCEPT !.menu = NoMenu] ELSE visit
        /\ UNCHANGED <<kind, target>>
    BY DEF Unmount
  <1>2. /\ visit' = [menu |-> visit'.menu, action |-> visit'.action,
                     target |-> visit'.target, duration |-> visit'.duration]
        /\ visit'.menu = IF visit.menu = m THEN NoMenu ELSE visit.menu
        /\ visit.menu # m => visit' = visit
    BY <1>1 DEF MenuInvariant, VisitInv
  <1>3. VisitInv'
    BY <1>1, <1>2, ActionMenusAssumption DEF VisitInv, MenuInvariant
  <1>4. WorkingMenusWait'
    BY <1>1, <1>2, ActionMenusAssumption DEF WorkingMenusWait, MenuInvariant
  <1>5. ASSUME NEW n \in Menus PROVE DialogInv(n)'
    BY <1>1 DEF DialogInv, MenuInvariant
  <1>6. phase' \in [Menus -> Phases]
    BY <1>1 DEF MenuInvariant, Phases
  <1> QED BY <1>1, <1>3, <1>4, <1>5, <1>6 DEF MenuInvariant

\* Nobody else touches what menus wait for.
LEMMA OthersKeep ==
  ASSUME MenuInvariant, UNCHANGED menuState
  PROVE  MenuInvariant'
  BY DEF menuState, MenuInvariant, VisitInv, DialogInv, WorkingMenusWait

\* Every step keeps the invariant.
LEMMA MenuStep == MenuInvariant /\ [Next]_vars => MenuInvariant'
  <1> SUFFICES ASSUME MenuInvariant, [Next]_vars PROVE MenuInvariant'
    OBVIOUS
  <1> USE DEF menuState, stateVars, menuVars
  <1>1. ASSUME NEW m \in Menus, NEW item \in Items[kind[m]], NEW t \in TargetsOf(m),
               OpenDialog(m, item, t) \/ RunItem(m, item, t)
        PROVE  MenuInvariant'
    BY <1>1, OpenDialogKeeps, RunItemKeeps
  <1>2. ASSUME NEW m \in Menus, EditForm(m) PROVE MenuInvariant'
    BY <1>2, OthersKeep DEF EditForm
  <1>3. ASSUME NEW m \in Menus, Dismiss(m) PROVE MenuInvariant'
    BY <1>3, DismissKeeps DEF Dismiss
  <1>4. ASSUME NEW m \in Menus, Confirm(m) PROVE MenuInvariant'
    BY <1>4, ConfirmKeeps
  <1>5. ASSUME NEW m \in Menus,
               Terminate(m) \/ TerminateAccepted(m) \/ TerminateFailed(m)
                   \/ Revalidate(m) \/ Revalidated(m)
        PROVE  MenuInvariant'
    BY <1>5, TerminateKeeps
  <1>6. ASSUME NEW m \in Menus, NEW fact, Change(m, fact) PROVE MenuInvariant'
    BY <1>6, OthersKeep DEF Change
  <1>7. ASSUME NEW m \in Menus, Unmount(m) PROVE MenuInvariant'
    BY <1>7, UnmountKeeps
  <1>8. ASSUME NEW m \in Menus, Mount(m) PROVE MenuInvariant'
    BY <1>8, OthersKeep DEF Mount
  <1>9. CASE FollowLink
    BY <1>9, SendKeeps, NoVisitIs DEF FollowLink
  <1>10. CASE Succeed
    BY <1>10, SucceedKeeps
  <1>11. CASE Redirect
    BY <1>11, EndKeeps DEF Redirect, NoVisit, MenuInvariant
  <1>12. CASE FailVisit
    BY <1>12, EndKeeps DEF FailVisit, NoVisit, MenuInvariant
  <1>13. CASE UNCHANGED vars
    BY <1>13, OthersKeep DEF vars
  <1> QED
    BY <1>1, <1>2, <1>3, <1>4, <1>5, <1>6, <1>7, <1>8, <1>9, <1>10, <1>11, <1>12, <1>13
    DEF Next

\* The invariant holds in every state.
THEOREM MenuInvariantHolds == Spec => []MenuInvariant
  BY MenuInit, MenuStep, PTL DEF Spec

\* A menu works exactly while the request is under way that will release it.
THEOREM WorkingMenusDoWait == Spec => []WorkingMenusWait
  <1>1. MenuInvariant => WorkingMenusWait
    BY DEF MenuInvariant
  <1> QED BY <1>1, MenuInvariantHolds, PTL

\* A dialog closes while its menu works only if it asks about that very request.
THEOREM SuccessClosesOwnDialog == Spec => SuccessClosesItsOwnDialog
  <1>1. ASSUME MenuInvariant, NEW m \in Menus, dialog[m] # NoAction, working[m] # NoAction
        PROVE  /\ dialog[m] = working[m]
               /\ visit.menu = m => target[m] = visit.target
    BY <1>1 DEF MenuInvariant, DialogInv, VisitInv
  <1>2. MenuInvariant => [\A m \in Menus :
          (visit.menu = m \/ phase[m] = "sent")
          /\ dialog[m] # NoAction /\ dialog'[m] = NoAction
          /\ working[m] # NoAction
          => /\ dialog[m] = working[m]
             /\ visit.menu = m => target[m] = visit.target]_vars
    BY <1>1
  <1> QED BY <1>2, MenuInvariantHolds, PTL DEF SuccessClosesItsOwnDialog
=============================================================================
