--------------------------- MODULE ProcessTransitions ---------------------------
(***************************************************************************)
(* Pausing and continuing Horizon instances and their supervisors from the *)
(* dashboard, the instances page and the tables they show.  A command is   *)
(* accepted long before Horizon obeys it, so the page keeps a transition   *)
(* for the process: until a refresh reports the requested status, until    *)
(* the command fails, or until a deadline passes.                          *)
(*                                                                         *)
(* Times are counted down in ticks, so every deadline is the time that is  *)
(* left to it; time stands still while something due competes to go first. *)
(***************************************************************************)
EXTENDS Integers, FiniteSets

CONSTANTS
    Instances,            \* Horizon masters
    Supervisors,
    MasterOf,             \* supervisor -> its instance
    AutoRefresh,          \* the user lets the page refresh by itself
    PollInterval,         \* the configured interval, 0 when polling is off
    FallbackPollInterval, \* fallbackTransitionPollInterval
    MinimumTimeout,       \* minimumTransitionTimeout
    PollAttempts,         \* transitionPollAttempts
    RequestTimeout,       \* commandRequestTimeout
    MaxTokens,            \* bound: transitions begun
    MaxChanges            \* bound: changes of the processes of Horizon

ASSUME TransitionsAssumption ==
    /\ Instances \cap Supervisors = {}
    /\ MasterOf \in [Supervisors -> Instances]
    /\ AutoRefresh \in BOOLEAN
    /\ {PollInterval, FallbackPollInterval, MinimumTimeout, PollAttempts,
        RequestTimeout, MaxTokens, MaxChanges} \subseteq Nat

VARIABLES
    process,     \* external: the status of each process of Horizon
    changes,     \* changes of them so far
    shown,       \* the page's "supervisors" prop
    answers,     \* refreshes that have read Horizon and not reached the page
    reloadDue,   \* polling has begun and the reload it begins with is not read yet
    transition,  \* transitionRef: process -> its pending transition
    rendered,    \* pendingTransitions as the page has last rendered it
    timer,       \* the expiry the timeout of the page is set to
    nextToken,
    commands,    \* requestHorizonCommand calls that wait for their response
    working      \* process -> token its row waits for, 0 when none

shownVars == <<shown, answers, reloadDue>>
hookVars  == <<transition, rendered, timer, nextToken>>
serverVars == <<process, changes>>
vars == <<serverVars, shownVars, hookVars, commands, working>>

Processes == Instances \cup Supervisors
Statuses == {"running", "paused", "inactive", "absent"}
Snapshots == [available : BOOLEAN, status : [Processes -> Statuses]]
Unavailable == [available |-> FALSE, status |-> [p \in Processes |-> "absent"]]

TransitionStatuses == {"pausing", "continuing"}
Pending == [status : TransitionStatuses, token : Nat, left : Int]
NotPending == [status |-> "none", token |-> 0, left |-> 0]
NoExpiry == MinimumTimeout + PollInterval * PollAttempts
                + FallbackPollInterval * PollAttempts + 1

Commands == [target : Processes, to : TransitionStatuses, token : Nat, left : Int]

ChildrenOf(i) == {s \in Supervisors : MasterOf[s] = i}
TargetStatus(to) == IF to = "pausing" THEN "paused" ELSE "running"
IsPending(t, p) == t[p] # NotPending
PendingIn(t) == {p \in Processes : IsPending(t, p)}

ResolvePollInterval(configured) ==
    IF configured > 0 THEN configured ELSE FallbackPollInterval

TransitionTimeout ==
    LET attempts == ResolvePollInterval(PollInterval) * PollAttempts IN
    IF attempts > MinimumTimeout THEN attempts ELSE MinimumTimeout

NextExpiry(t) ==
    IF PendingIn(t) = {} THEN NoExpiry
    ELSE CHOOSE left \in {t[p].left : p \in PendingIn(t)} :
             \A p \in PendingIn(t) : left <= t[p].left

WithoutExpired(t) ==
    [p \in Processes |-> IF IsPending(t, p) /\ t[p].left <= 0 THEN NotPending ELSE t[p]]

-----------------------------------------------------------------------------
(* What the table shows and lets the user do. *)

Row(p) == shown.status[p] # "absent"

DisplayStatus(p) ==
    LET own   == rendered[p]
        cause == IF p \in Supervisors /\ own = NotPending
                 THEN rendered[MasterOf[p]] ELSE own
    IN IF \/ cause.status = "pausing" /\ shown.status[p] = "running"
          \/ cause.status = "continuing" /\ shown.status[p] = "paused"
       THEN cause.status
       ELSE shown.status[p]

InstanceIsBusy(i) ==
    \/ IsPending(rendered, i)
    \/ \E s \in ChildrenOf(i) : shown.status[s] # "absent" /\ IsPending(rendered, s)

SupervisorIsBusy(s) ==
    IsPending(rendered, s) \/ IsPending(rendered, MasterOf[s])

\* The trigger opens its menu for an idle row whose process runs or is paused;
\* the menu offers the opposite of the status it shows.
CanCommand(p, to) ==
    /\ Row(p)
    /\ working[p] = 0
    /\ IF p \in Instances THEN ~ InstanceIsBusy(p) ELSE ~ SupervisorIsBusy(p)
    /\ DisplayStatus(p) = (IF to = "pausing" THEN "running" ELSE "paused")

\* fallbackPolling: the pages poll while a transition is pending, whether or
\* not the user lets them refresh by themselves.
ShouldPoll(t) ==
    \/ AutoRefresh /\ PollInterval > 0
    \/ PendingIn(t) # {}

-----------------------------------------------------------------------------
(* The hook. *)

Settled(snapshot, t, p) ==
    IF p \in Instances
    THEN \/ snapshot.status[p] = "absent"
         \/ \A q \in {p} \cup {s \in ChildrenOf(p) : snapshot.status[s] # "absent"} :
                snapshot.status[q] = TargetStatus(t[p].status)
    ELSE snapshot.status[p] \in {"absent", TargetStatus(t[p].status)}

Reconciled(snapshot, t) ==
    IF ~ snapshot.available THEN t
    ELSE [p \in Processes |->
             IF IsPending(t, p) /\ Settled(snapshot, t, p) THEN NotPending ELSE t[p]]

\* commitTransitions: the reference at once, the state with the next render.
Commit(t) ==
    /\ transition' = t
    /\ UNCHANGED <<rendered, timer>>

Begun(p, to) ==
    [status |-> to, token |-> nextToken + 1, left |-> TransitionTimeout]

MayBeginInstance(i) ==
    /\ ~ IsPending(transition, i)
    /\ \A s \in ChildrenOf(i) : shown.status[s] # "absent" => ~ IsPending(transition, s)

\* Mutant of MayBeginSupervisor: the instance of the supervisor is not looked at.
MayBeginSupervisorAlone(s) == ~ IsPending(transition, s)

MayBeginSupervisor(s) ==
    /\ ~ IsPending(transition, MasterOf[s])
    /\ ~ IsPending(transition, s)

MayBegin(p) ==
    IF p \in Instances THEN MayBeginInstance(p) ELSE MayBeginSupervisor(p)

\* run: the transition is taken before the request is sent.  A transition that
\* is refused sends nothing.
Start(p, to) ==
    /\ CanCommand(p, to)
    /\ MayBegin(p)
    /\ nextToken < MaxTokens
    /\ nextToken' = nextToken + 1
    /\ Commit([transition EXCEPT ![p] = Begun(p, to)])
    /\ commands' = commands \cup {[target |-> p, to |-> to,
                                   token |-> nextToken + 1, left |-> RequestTimeout]}
    /\ working' = [working EXCEPT ![p] = nextToken + 1]
    /\ UNCHANGED <<serverVars, shownVars>>

\* Mutant of FinishRow: the row is released by the newest request only.
FinishRowOfLastToken(c) ==
    working' = IF nextToken = c.token
               THEN [working EXCEPT ![c.target] = 0] ELSE working

FinishRow(c) ==
    working' = IF working[c.target] = c.token
               THEN [working EXCEPT ![c.target] = 0] ELSE working

\* Mutant of FailedCommand: the tokens are not compared.
FailedCommandOfAny(c) == [transition EXCEPT ![c.target] = NotPending]

FailedCommand(c) ==
    IF transition[c.target].token = c.token
    THEN [transition EXCEPT ![c.target] = NotPending]
    ELSE transition

\* The response arrives: an accepted command leaves its transition pending.
Succeed(c) ==
    /\ commands' = commands \ {c}
    /\ FinishRow(c)
    /\ UNCHANGED <<serverVars, shownVars, hookVars>>

\* An error response or an unreachable server.
Fail(c) ==
    /\ commands' = commands \ {c}
    /\ Commit(FailedCommand(c))
    /\ FinishRow(c)
    /\ UNCHANGED <<serverVars, shownVars, nextToken>>

\* A request that has waited RequestTimeout fails too, even if the server has
\* accepted the command meanwhile.
Abort(c) == c.left <= 0 /\ Fail(c)

\* Mutant of Render: the timeout is set for the first transition and kept.
RenderFirstExpiry ==
    /\ rendered # transition
    /\ rendered' = transition
    /\ timer' = IF PendingIn(rendered) = {} THEN NextExpiry(transition) ELSE timer
    /\ reloadDue' = (reloadDue \/ (ShouldPoll(transition) /\ ~ ShouldPoll(rendered)))
    /\ UNCHANGED <<serverVars, shown, answers, transition, nextToken, commands, working>>

\* React renders the committed transitions and, when the first deadline is a
\* different one, sets the timeout anew.  A page that begins to poll reloads.
Render ==
    /\ rendered # transition
    /\ rendered' = transition
    /\ timer' = IF NextExpiry(transition) = NextExpiry(rendered)
                THEN timer ELSE NextExpiry(transition)
    /\ reloadDue' = (reloadDue \/ (ShouldPoll(transition) /\ ~ ShouldPoll(rendered)))
    /\ UNCHANGED <<serverVars, shown, answers, transition, nextToken, commands, working>>

\* The timeout fires once; it does not set itself anew.
Expire ==
    /\ timer # NoExpiry
    /\ timer <= 0
    /\ timer' = NoExpiry
    /\ transition' = WithoutExpired(transition)
    /\ UNCHANGED <<serverVars, shownVars, rendered, nextToken, commands, working>>

-----------------------------------------------------------------------------
(* Refreshes.  A poll cancels the previous one; the reload that polling      *)
(* begins with is not cancelled, so two answers may be under way and arrive  *)
(* in either order.                                                          *)

Refresh(kind) ==
    /\ IF kind = "poll" THEN ShouldPoll(rendered) ELSE reloadDue
    /\ reloadDue' = (reloadDue /\ kind = "poll")
    /\ \E read \in {[available |-> TRUE, status |-> process], Unavailable} :
           answers' = {a \in answers : kind = "poll" => a.kind # kind}
                         \cup {[kind |-> kind, read |-> read]}
    /\ UNCHANGED <<serverVars, shown, hookVars, commands, working>>

\* The new prop renders, the effect reconciles, and the rows of processes that
\* are gone are unmounted with what they waited for.
Answer(a) ==
    /\ answers' = answers \ {a}
    /\ shown' = a.read
    /\ Commit(Reconciled(a.read, transition))
    /\ working' = [p \in Processes |->
                      IF a.read.status[p] # "absent" THEN working[p] ELSE 0]
    /\ UNCHANGED <<serverVars, reloadDue, nextToken, commands>>

-----------------------------------------------------------------------------
(* External: Horizon obeys a command, late or never; its processes also      *)
(* pause, continue, exit and start without one.                              *)

Change(p, status) ==
    /\ changes < MaxChanges
    /\ changes' = changes + 1
    /\ p \in Supervisors => process[MasterOf[p]] # "absent"
    /\ process' = [q \in Processes |->
           IF q = p \/ (status # "running" /\ q \in ChildrenOf(p) /\ process[q] # "absent")
           THEN status ELSE process[q]]
    /\ UNCHANGED <<shownVars, hookVars, commands, working>>

Older(t) == [p \in Processes |->
                IF IsPending(t, p) THEN [t[p] EXCEPT !.left = @ - 1] ELSE t[p]]

\* Time passes while nothing is due.
Tick ==
    /\ PendingIn(transition) # {} \/ commands # {}
    /\ \A p \in PendingIn(transition) : transition[p].left > 0
    /\ \A c \in commands : c.left > 0
    /\ timer # NoExpiry => timer > 0
    /\ transition' = Older(transition)
    /\ rendered' = Older(rendered)
    /\ timer' = IF timer = NoExpiry THEN timer ELSE timer - 1
    /\ commands' = {[c EXCEPT !.left = @ - 1] : c \in commands}
    /\ UNCHANGED <<serverVars, shownVars, nextToken, working>>

-----------------------------------------------------------------------------
Init ==
    /\ process \in [Processes -> {"running", "paused"}]
    /\ \A s \in Supervisors : process[MasterOf[s]] = "paused" => process[s] = "paused"
    /\ changes = 0
    /\ shown = [available |-> TRUE, status |-> process]
    /\ answers = {}
    /\ reloadDue = FALSE
    /\ transition = [p \in Processes |-> NotPending]
    /\ rendered = transition
    /\ timer = NoExpiry
    /\ nextToken = 0
    /\ commands = {}
    /\ working = [p \in Processes |-> 0]

Next ==
    \/ \E p \in Processes, to \in TransitionStatuses : Start(p, to)
    \/ \E c \in commands : Succeed(c) \/ Fail(c)
    \/ Render
    \/ Expire
    \/ \E kind \in {"poll", "reload"} : Refresh(kind)
    \/ \E a \in answers : Answer(a)
    \/ \E p \in Processes, status \in Statuses : Change(p, status)
    \/ Tick

\* The browser runs its timers and renders; clocks do not stop.
Fairness ==
    /\ WF_vars(Render)
    /\ WF_vars(Expire)
    /\ WF_vars(Tick)
    /\ WF_vars(\E c \in commands : Abort(c))

SafetySpec == Init /\ [][Next]_vars
Spec == SafetySpec /\ Fairness

-----------------------------------------------------------------------------
(* Properties. *)

TypeOK ==
    /\ process \in [Processes -> Statuses]
    /\ changes \in Nat
    /\ shown \in Snapshots
    /\ answers \subseteq [kind : {"poll", "reload"}, read : Snapshots]
    /\ reloadDue \in BOOLEAN
    /\ transition \in [Processes -> Pending \cup {NotPending}]
    /\ rendered \in [Processes -> Pending \cup {NotPending}]
    /\ timer \in Int
    /\ nextToken \in Nat
    /\ commands \subseteq Commands
    /\ working \in [Processes -> Nat]

\* An instance and a supervisor of it are never in transition together, so a
\* continue of one never races a pause of the other: onInstanceTransition and
\* onSupervisorTransition refuse on what they read from the reference, and
\* supervisors that leave the page take their transition with them.
OneTransitionPerInstance ==
    \A s \in Supervisors :
        ~ (IsPending(transition, s) /\ IsPending(transition, MasterOf[s]))

\* A transition ends because its deadline has passed, because the page has
\* learned that the status was reached or the process is gone, or because the
\* very request it was taken for has failed -- never because of the failure of
\* an older request for the same process.
TransitionsEndForAReason ==
    [][\A p \in Processes :
          IsPending(transition, p) /\ transition'[p].token # transition[p].token
          => \/ transition[p].left <= 0
             \/ shown'.available /\ Settled(shown', transition, p)
             \/ \E c \in commands \ commands' :
                    /\ c.target = p
                    /\ c.token = transition[p].token]_vars

\* Every transition ends, even when no refresh ever answers: the one timeout of
\* the page is set anew for the next deadline whichever transition ended first.
TransitionsEnd ==
    \A p \in Processes : IsPending(transition, p) ~> ~ IsPending(transition, p)

\* Every row that waits for a command is usable again.
RowsComeBack ==
    \A p \in Processes : working[p] # 0 ~> working[p] = 0
=============================================================================
