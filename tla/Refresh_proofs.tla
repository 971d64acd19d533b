----------------------------- MODULE Refresh_proofs -----------------------------
(***************************************************************************)
(* The two parts of the interface that refresh by themselves.  For any     *)
(* instances and supervisors and in any order of commands, answers and     *)
(* deadlines, an instance and a supervisor of it are never in transition   *)
(* together, and every transition ends for a reason of its own.  And for   *)
(* any list, however its requests overlap, fail and are cancelled, the     *)
(* status of its refreshes counts those that are under way.                *)
(***************************************************************************)
EXTENDS ProcessTransitions, ListRefresh, FiniteSetTheorems, TLAPS

-----------------------------------------------------------------------------
(* ProcessTransitions. *)

\* A page without supervisors shows no process.
SnapshotOK(snapshot) ==
    /\ snapshot \in Snapshots
    /\ ~ snapshot.available => \A p \in Processes : snapshot.status[p] = "absent"

\* The types that matter, and that a pending process is one the page shows,
\* unless it shows none.
TransitionInvariant ==
    /\ transition \in [Processes -> Pending \cup {NotPending}]
    /\ nextToken \in Nat
    /\ process \in [Processes -> Statuses]
    /\ SnapshotOK(shown)
    /\ \A a \in answers : SnapshotOK(a.read)
    /\ shown.available =>
          \A p \in Processes : IsPending(transition, p) => shown.status[p] # "absent"
    /\ OneTransitionPerInstance

\* The pages start without transitions.
LEMMA TransitionInit == Init => TransitionInvariant
  <1> SUFFICES ASSUME Init PROVE TransitionInvariant
    OBVIOUS
  <1>1. process \in [Processes -> Statuses]
    BY DEF Init, Statuses
  <1>2. SnapshotOK(shown)
    BY <1>1 DEF Init, SnapshotOK, Snapshots
  <1>3. \A p \in Processes : transition[p] = NotPending
    BY DEF Init
  <1>4. OneTransitionPerInstance
    BY <1>3 DEF OneTransitionPerInstance, IsPending, Processes
  <1> QED BY <1>1, <1>2, <1>3, <1>4 DEF Init, TransitionInvariant, IsPending

\* What a transition loses or what only grows older stays as it should be.
LEMMA FewerTransitions ==
  ASSUME TransitionInvariant,
         transition' \in [Processes -> Pending \cup {NotPending}],
         \A p \in Processes : IsPending(transition', p) => IsPending(transition, p),
         UNCHANGED <<nextToken, shown>>,
         process' \in [Processes -> Statuses],
         \A a \in answers' : SnapshotOK(a.read)
  PROVE  TransitionInvariant'
  <1>1. OneTransitionPerInstance'
    BY TransitionsAssumption DEF TransitionInvariant, OneTransitionPerInstance, Processes
  <1>2. SnapshotOK(shown)'
    BY DEF TransitionInvariant, SnapshotOK
  <1>3. (\A a \in answers : SnapshotOK(a.read))'
    BY DEF SnapshotOK
  <1>4. (shown.available =>
            \A p \in Processes : IsPending(transition, p) => shown.status[p] # "absent")'
    BY DEF TransitionInvariant
  <1> QED BY <1>1, <1>2, <1>3, <1>4 DEF TransitionInvariant

\* A transition is begun only where neither the process nor one it would race is pending.
LEMMA StartKeeps ==
  ASSUME TransitionInvariant, NEW p \in Processes, NEW to \in TransitionStatuses, Start(p, to)
  PROVE  TransitionInvariant'
  <1>1. TransitionTimeout \in Int
    BY TransitionsAssumption DEF TransitionTimeout, ResolvePollInterval
  <1>2. Begun(p, to) \in Pending /\ Begun(p, to) # NotPending
    BY <1>1 DEF Begun, Pending, NotPending, TransitionInvariant, TransitionStatuses
  <1>3. transition' = [transition EXCEPT ![p] = Begun(p, to)]
    BY DEF Start, Commit
  <1>4. transition' \in [Processes -> Pending \cup {NotPending}]
    BY <1>2, <1>3 DEF TransitionInvariant
  <1>5. shown.available /\ shown.status[p] # "absent"
    BY DEF Start, CanCommand, Row, TransitionInvariant, SnapshotOK
  <1>6. \A q \in Processes : IsPending(transition', q) => q = p \/ IsPending(transition, q)
    BY <1>3 DEF IsPending, TransitionInvariant
  <1>7. OneTransitionPerInstance'
    <2> SUFFICES ASSUME NEW s \in Supervisors,
                        IsPending(transition', s), IsPending(transition', MasterOf[s])
                 PROVE  FALSE
      BY DEF OneTransitionPerInstance
    <2>1. s \in Processes /\ MasterOf[s] \in Processes /\ MasterOf[s] \in Instances
          /\ s \notin Instances
      BY TransitionsAssumption DEF Processes
    <2>2. CASE p = s
      <3>1. ~ IsPending(transition, MasterOf[s])
        BY <2>1, <2>2 DEF Start, MayBegin, MayBeginSupervisor
      <3> QED BY <1>6, <2>1, <2>2, <3>1
    <2>3. CASE p = MasterOf[s]
      <3>1. ~ IsPending(transition, s)
        BY <1>5, <2>1, <2>3 DEF Start, MayBegin, MayBeginInstance, ChildrenOf, TransitionInvariant
      <3> QED BY <1>6, <2>1, <2>3, <3>1
    <2>4. CASE p # s /\ p # MasterOf[s]
      BY <1>6, <2>1, <2>4 DEF TransitionInvariant, OneTransitionPerInstance
    <2> QED BY <2>2, <2>3, <2>4
  <1>8. UNCHANGED <<shown, answers, process>> /\ nextToken' \in Nat
    BY DEF Start, shownVars, serverVars, TransitionInvariant
  <1> QED BY <1>4, <1>5, <1>6, <1>7, <1>8 DEF TransitionInvariant, SnapshotOK

\* A failed command ends the transition it was begun for and no other.
LEMMA FailKeeps ==
  ASSUME TransitionInvariant, NEW c \in commands, Fail(c)
  PROVE  TransitionInvariant'
  <1>1. /\ transition' = FailedCommand(c)
        /\ UNCHANGED <<nextToken, shown, answers, process>>
    BY DEF Fail, Commit, serverVars, shownVars
  <1>2. /\ transition' \in [Processes -> Pending \cup {NotPending}]
        /\ \A p \in Processes : IsPending(transition', p) => IsPending(transition, p)
    BY <1>1 DEF FailedCommand, IsPending, TransitionInvariant
  <1> QED BY <1>1, <1>2, FewerTransitions DEF TransitionInvariant

\* A deadline ends what has expired.
LEMMA ExpireKeeps ==
  ASSUME TransitionInvariant, Expire
  PROVE  TransitionInvariant'
  <1>1. /\ transition' = WithoutExpired(transition)
        /\ UNCHANGED <<nextToken, shown, answers, process>>
    BY DEF Expire, serverVars, shownVars
  <1>2. /\ transition' \in [Processes -> Pending \cup {NotPending}]
        /\ \A p \in Processes : IsPending(transition', p) => IsPending(transition, p)
    BY <1>1 DEF WithoutExpired, IsPending, TransitionInvariant
  <1> QED BY <1>1, <1>2, FewerTransitions DEF TransitionInvariant

\* An answer settles what it shows, and a process that is gone is settled.
LEMMA AnswerKeeps ==
  ASSUME TransitionInvariant, NEW a \in answers, Answer(a)
  PROVE  TransitionInvariant'
  <1>1. /\ transition' = Reconciled(a.read, transition)
        /\ shown' = a.read
        /\ answers' = answers \ {a}
        /\ UNCHANGED <<nextToken, process>>
    BY DEF Answer, Commit, serverVars
  <1>2. SnapshotOK(a.read)
    BY DEF TransitionInvariant
  <1>3. /\ transition' \in [Processes -> Pending \cup {NotPending}]
        /\ \A p \in Processes : IsPending(transition', p) => IsPending(transition, p)
    BY <1>1 DEF Reconciled, IsPending, TransitionInvariant
  <1>4. ASSUME shown'.available, NEW p \in Processes, IsPending(transition', p)
        PROVE  shown'.status[p] # "absent"
    <2>1. IsPending(transition, p) /\ ~ Settled(a.read, transition, p)
      BY <1>1, <1>4 DEF Reconciled, IsPending
    <2> QED BY <1>1, <2>1 DEF Settled
  <1>5. OneTransitionPerInstance'
    BY <1>3, TransitionsAssumption
    DEF TransitionInvariant, OneTransitionPerInstance, Processes
  <1> QED BY <1>1, <1>2, <1>3, <1>4, <1>5 DEF TransitionInvariant, SnapshotOK

\* Time ends no transition.
LEMMA TickKeeps ==
  ASSUME TransitionInvariant, Tick
  PROVE  TransitionInvariant'
  <1>1. /\ transition' = Older(transition)
        /\ UNCHANGED <<nextToken, shown, answers, process>>
    BY DEF Tick, serverVars, shownVars
  <1>2. \A p \in Processes : IsPending(transition, p) =>
            [transition[p] EXCEPT !.left = @ - 1] \in Pending
    BY DEF TransitionInvariant, IsPending, Pending
  <1>3. /\ transition' \in [Processes -> Pending \cup {NotPending}]
        /\ \A p \in Processes : IsPending(transition', p) => IsPending(transition, p)
    BY <1>1, <1>2 DEF Older, IsPending, TransitionInvariant
  <1> QED BY <1>1, <1>3, FewerTransitions DEF TransitionInvariant

\* A refresh reads Horizon or fails to.
LEMMA RefreshKeeps ==
  ASSUME TransitionInvariant, NEW kind \in {"poll", "reload"}, Refresh(kind)
  PROVE  TransitionInvariant'
  <1>1. UNCHANGED <<transition, nextToken, shown, process>>
    BY DEF Refresh, hookVars, serverVars
  <1>2. PICK read \in {[available |-> TRUE, status |-> process], Unavailable} :
            answers' = {a \in answers : kind = "poll" => a.kind # kind}
                          \cup {[kind |-> kind, read |-> read]}
    BY DEF Refresh
  <1>3. SnapshotOK(read)
    <2>1. CASE read = [available |-> TRUE, status |-> process]
      BY <2>1 DEF SnapshotOK, Snapshots, TransitionInvariant
    <2>2. CASE read = Unavailable
      BY <2>2 DEF SnapshotOK, Snapshots, Unavailable, Statuses
    <2> QED BY <2>1, <2>2
  <1>4. \A a \in answers' : SnapshotOK(a.read)
    BY <1>2, <1>3 DEF TransitionInvariant
  <1> QED BY <1>1, <1>4, FewerTransitions DEF TransitionInvariant

\* Nobody else touches the transitions.
LEMMA OthersKeep ==
  ASSUME TransitionInvariant,
         UNCHANGED <<transition, nextToken, shown, answers>>,
         process' \in [Processes -> Statuses]
  PROVE  TransitionInvariant'
  BY FewerTransitions DEF TransitionInvariant

\* Every step keeps the invariant.
LEMMA TransitionStep == TransitionInvariant /\ [Next]_vars => TransitionInvariant'
  <1> SUFFICES ASSUME TransitionInvariant, [Next]_vars PROVE TransitionInvariant'
    OBVIOUS
  <1>1. ASSUME NEW p \in Processes, NEW to \in TransitionStatuses, Start(p, to)
        PROVE  TransitionInvariant'
    BY <1>1, StartKeeps
  <1>2. ASSUME NEW c \in commands, Succeed(c) PROVE TransitionInvariant'
    BY <1>2, OthersKeep DEF Succeed, serverVars, shownVars, hookVars, TransitionInvariant
  <1>3. ASSUME NEW c \in commands, Fail(c) PROVE TransitionInvariant'
    BY <1>3, FailKeeps
  <1>4. CASE Render
    BY <1>4, OthersKeep DEF Render, serverVars, TransitionInvariant
  <1>5. CASE Expire
    BY <1>5, ExpireKeeps
  <1>6. ASSUME NEW kind \in {"poll", "reload"}, Refresh(kind) PROVE TransitionInvariant'
    BY <1>6, RefreshKeeps
  <1>7. ASSUME NEW a \in answers, Answer(a) PROVE TransitionInvariant'
    BY <1>7, AnswerKeeps
  <1>8. ASSUME NEW p \in Processes, NEW status \in Statuses, Change(p, status)
        PROVE  TransitionInvariant'
    <2>1. process' \in [Processes -> Statuses]
      BY <1>8 DEF Change, TransitionInvariant
    <2> QED BY <1>8, <2>1, OthersKeep DEF Change, shownVars, hookVars
  <1>9. CASE Tick
    BY <1>9, TickKeeps
  <1>10. CASE UNCHANGED vars
    BY <1>10, OthersKeep DEF vars, serverVars, shownVars, hookVars, TransitionInvariant
  <1> QED BY <1>1, <1>2, <1>3, <1>4, <1>5, <1>6, <1>7, <1>8, <1>9, <1>10 DEF Next

\* The invariant holds in every state.
THEOREM TransitionInvariantHolds == Spec => []TransitionInvariant
  BY TransitionInit, TransitionStep, PTL DEF Spec, SafetySpec

\* An instance and a supervisor of it are never in transition together: what
\* onInstanceTransition and onSupervisorTransition refuse is enough, because a
\* supervisor the page has lost is no longer pending.
THEOREM TransitionsDoNotRace == Spec => []OneTransitionPerInstance
  <1>1. TransitionInvariant => OneTransitionPerInstance
    BY DEF TransitionInvariant
  <1> QED BY <1>1, TransitionInvariantHolds, PTL

\* What may end a transition, as TransitionsEndForAReason says it.
EndsForAReason ==
    \A p \in Processes :
        IsPending(transition, p) /\ transition'[p].token # transition[p].token
        => \/ transition[p].left <= 0
           \/ shown'.available /\ Settled(shown', transition, p)
           \/ \E c \in commands \ commands' :
                  /\ c.target = p
                  /\ c.token = transition[p].token

\* Every step that ends a transition has a reason to.
LEMMA StepsHaveReasons == TransitionInvariant /\ [Next]_vars => EndsForAReason
  <1> SUFFICES ASSUME TransitionInvariant, [Next]_vars, NEW p \in Processes,
                      IsPending(transition, p), transition'[p].token # transition[p].token
               PROVE  \/ transition[p].left <= 0
                      \/ shown'.available /\ Settled(shown', transition, p)
                      \/ \E c \in commands \ commands' :
                             /\ c.target = p
                             /\ c.token = transition[p].token
    BY DEF EndsForAReason
  <1> USE DEF TransitionInvariant
  <1>1. ASSUME NEW q \in Processes, NEW to \in TransitionStatuses, Start(q, to)
        PROVE  FALSE
    <2>1. ~ IsPending(transition, q)
      BY <1>1 DEF Start, MayBegin, MayBeginInstance, MayBeginSupervisor
    <2> QED BY <1>1, <2>1 DEF Start, Commit
  <1>2. ASSUME NEW c \in commands, Fail(c)
        PROVE  \E d \in commands \ commands' : d.target = p /\ d.token = transition[p].token
    <2>1. c.target = p /\ c.token = transition[p].token
      BY <1>2 DEF Fail, Commit, FailedCommand
    <2>2. c \in commands \ commands'
      BY <1>2 DEF Fail
    <2> QED BY <2>1, <2>2
  <1>3. CASE Expire
    BY <1>3 DEF Expire, WithoutExpired
  <1>4. ASSUME NEW a \in answers, Answer(a)
        PROVE  shown'.available /\ Settled(shown', transition, p)
    <2>1. transition' = Reconciled(a.read, transition) /\ shown' = a.read
      BY <1>4 DEF Answer, Commit
    <2>2. a.read.available /\ Settled(a.read, transition, p)
      BY <2>1 DEF Reconciled
    <2> QED BY <2>1, <2>2 DEF Settled
  <1>5. CASE Tick
    <2>1. transition'[p] = [transition[p] EXCEPT !.left = @ - 1]
      BY <1>5 DEF Tick, Older
    <2>2. transition[p] \in Pending
      BY DEF IsPending
    <2> QED BY <2>1, <2>2 DEF Pending
  <1>6. ASSUME UNCHANGED transition PROVE FALSE
    BY <1>6
  <1>7. ASSUME NEW c \in commands, Succeed(c) PROVE FALSE
    BY <1>6, <1>7 DEF Succeed, hookVars
  <1>8. CASE Render
    BY <1>6, <1>8 DEF Render
  <1>9. ASSUME NEW kind \in {"poll", "reload"}, Refresh(kind) PROVE FALSE
    BY <1>6, <1>9 DEF Refresh, hookVars
  <1>10. ASSUME NEW q \in Processes, NEW status \in Statuses, Change(q, status) PROVE FALSE
    BY <1>6, <1>10 DEF Change, hookVars
  <1>11. CASE UNCHANGED vars
    BY <1>6, <1>11 DEF vars, hookVars
  <1> QED
    BY <1>1, <1>2, <1>3, <1>4, <1>5, <1>7, <1>8, <1>9, <1>10, <1>11 DEF Next

\* A transition ends at its deadline, with the answer that settles it, or with the
\* failure of its own command.
THEOREM TransitionsEndWithReason == Spec => TransitionsEndForAReason
  <1>1. TransitionInvariant /\ [Next]_vars => [EndsForAReason]_vars
    BY StepsHaveReasons
  <1>2. Spec => [][EndsForAReason]_vars
    BY <1>1, TransitionInvariantHolds, PTL DEF Spec, SafetySpec
  <1> QED BY <1>2 DEF TransitionsEndForAReason, EndsForAReason

-----------------------------------------------------------------------------
(* ListRefresh. *)

\* Why the status is true: every tracked request under way is counted, once.
StatusInvariant ==
    /\ request = [k \in RequestKinds |-> request[k]]
    /\ activeCount = Cardinality(UnderWay \cap Tracked)

\* There are finitely many requests, however many are under way.
LEMMA TrackedIsFinite ==
  ASSUME NEW S
  PROVE  IsFiniteSet(S \cap Tracked) /\ Cardinality(S \cap Tracked) \in Nat
  <1>1. IsFiniteSet({"poll"}) /\ IsFiniteSet({"reload"}) /\ IsFiniteSet({"new"})
    BY FS_Singleton
  <1>2. IsFiniteSet(({"poll"} \cup {"reload"}) \cup {"new"})
    BY <1>1, FS_Union
  <1>3. Tracked = ({"poll"} \cup {"reload"}) \cup {"new"}
    BY DEF Tracked
  <1>4. IsFiniteSet(Tracked)
    BY <1>2, <1>3
  <1>5. S \cap Tracked \in SUBSET Tracked
    OBVIOUS
  <1> QED BY <1>4, <1>5, FS_Subset, FS_CardinalityType

\* Requests that end are no longer counted, and no other.
LEMMA SettledCountIs ==
  ASSUME NEW S, NEW ks, NEW cancelled, ks \cap Tracked \subseteq S
  PROVE  SettledCount(Cardinality(S \cap Tracked), ks, cancelled)
            = Cardinality((S \ ks) \cap Tracked)
  <1> DEFINE all == S \cap Tracked
             ended == ks \cap Tracked
             left == (S \ ks) \cap Tracked
  <1>1. IsFiniteSet(all) /\ Cardinality(all) \in Nat /\ Cardinality(ended) \in Nat
        /\ Cardinality(left) \in Nat
    BY TrackedIsFinite
  <1>2. Cardinality(all \ ended) = Cardinality(all) - Cardinality(all \cap ended)
    BY <1>1, FS_Difference
  <1>3. all \ ended = left /\ all \cap ended = ended
    OBVIOUS
  <1>4. Cardinality(left) = Cardinality(all) - Cardinality(ended)
    BY <1>2, <1>3
  <1>5. SettledCount(Cardinality(all), ks, cancelled)
            = IF Cardinality(all) - 1 * Cardinality(ended) > 0
              THEN Cardinality(all) - 1 * Cardinality(ended) ELSE 0
    BY DEF SettledCount, Settlements
  <1> HIDE DEF all, ended, left
  <1>6. SettledCount(Cardinality(all), ks, cancelled) = Cardinality(left)
    BY <1>1, <1>4, <1>5
  <1> QED BY <1>6 DEF all, left

\* Requests that begin are counted, each of them once.
LEMMA BegunAreCounted ==
  ASSUME NEW S, NEW begun, S \cap begun = {}
  PROVE  Cardinality((S \cup begun) \cap Tracked)
            = Cardinality(S \cap Tracked) + Cardinality(begun \cap Tracked)
  <1> DEFINE T == S \cap Tracked
             B == begun \cap Tracked
  <1>1. IsFiniteSet(T) /\ IsFiniteSet(B) /\ Cardinality(T) \in Nat /\ Cardinality(B) \in Nat
    BY TrackedIsFinite
  <1>2. Cardinality(T \cup B) = Cardinality(T) + Cardinality(B) - Cardinality(T \cap B)
    BY <1>1, FS_Union
  <1>3. T \cap B = {} /\ T \cup B = (S \cup begun) \cap Tracked
    OBVIOUS
  <1>4. Cardinality(T \cap B) = 0
    BY <1>3, FS_EmptySet
  <1> HIDE DEF T, B
  <1>5. Cardinality(T \cup B) = Cardinality(T) + Cardinality(B)
    BY <1>1, <1>2, <1>4
  <1> QED BY <1>3, <1>5 DEF T, B

\* What is sent is a request.
LEMMA SentIsRequest ==
  /\ \A on : Sent(PollMode(on)) # None
  /\ Sent("append") # None /\ Sent("replace") # None
  BY DEF Sent, None, PollMode

\* Cancelled requests are replaced by those that are sent, none of which is under way
\* beside them.
LEMMA ExchangeKeeps ==
  ASSUME StatusInvariant, NEW ks, NEW new, Exchange(ks, new),
         DOMAIN new \subseteq RequestKinds, \A k \in DOMAIN new : new[k] # None,
         DOMAIN new \cap (UnderWay \ ks) = {}
  PROVE  StatusInvariant'
  <1> DEFINE begun == DOMAIN new
             stay == UnderWay \ ks
  <1>1. request' = [k \in RequestKinds |->
                       IF k \in begun THEN new[k] ELSE IF k \in ks THEN None ELSE request[k]]
    BY DEF Exchange
  <1>2. request' = [k \in RequestKinds |-> request'[k]]
    BY <1>1
  <1>3. UnderWay' = stay \cup begun
    BY <1>1 DEF UnderWay
  <1>4. activeCount' = SettledCount(activeCount, ks \cap UnderWay, TRUE)
                           + Cardinality(begun \cap Tracked)
    BY DEF Exchange
  <1>5. SettledCount(activeCount, ks \cap UnderWay, TRUE) = Cardinality(stay \cap Tracked)
    <2>1. (ks \cap UnderWay) \cap Tracked \subseteq UnderWay
          /\ UnderWay \ (ks \cap UnderWay) = stay
      OBVIOUS
    <2>2. activeCount = Cardinality(UnderWay \cap Tracked)
      BY DEF StatusInvariant
    <2> QED BY <2>1, <2>2, SettledCountIs
  <1>6. Cardinality((stay \cup begun) \cap Tracked)
            = Cardinality(stay \cap Tracked) + Cardinality(begun \cap Tracked)
    BY BegunAreCounted
  <1>7. activeCount' = Cardinality(UnderWay' \cap Tracked)
    <2> HIDE DEF begun, stay
    <2> QED BY <1>3, <1>4, <1>5, <1>6
  <1> QED BY <1>2, <1>7 DEF StatusInvariant, Tracked

\* A request of kind k is sent instead of those of the kinds ks.
LEMMA OneIsSent ==
  ASSUME StatusInvariant, NEW ks, NEW k \in RequestKinds, NEW new,
         DOMAIN new = {k}, new[k] # None, Exchange(ks, new), request[k] = None \/ k \in ks
  PROVE  StatusInvariant'
  <1>1. {k} \cap (UnderWay \ ks) = {}
    BY DEF UnderWay
  <1> QED BY <1>1, ExchangeKeeps

\* A request ends.
LEMMA EndKeeps ==
  ASSUME StatusInvariant, NEW k \in RequestKinds, request[k] # None,
         request' = [request EXCEPT ![k] = None],
         activeCount' = SettledCount(activeCount, {k}, FALSE)
  PROVE  StatusInvariant'
  <1>1. request' = [x \in RequestKinds |-> IF x = k THEN None ELSE request[x]]
    BY DEF StatusInvariant
  <1>2. request' = [x \in RequestKinds |-> request'[x]]
    BY <1>1
  <1>3. UnderWay' = UnderWay \ {k}
    BY <1>1 DEF UnderWay
  <1>4. {k} \cap Tracked \subseteq UnderWay
    BY DEF UnderWay
  <1>5. activeCount = Cardinality(UnderWay \cap Tracked)
    BY DEF StatusInvariant
  <1>6. activeCount' = Cardinality((UnderWay \ {k}) \cap Tracked)
    BY <1>4, <1>5, SettledCountIs
  <1> QED BY <1>2, <1>3, <1>6 DEF StatusInvariant, Tracked

\* No request begins or ends.
LEMMA RequestsStay ==
  ASSUME StatusInvariant, UNCHANGED <<request, activeCount>>
  PROVE  StatusInvariant'
  BY DEF StatusInvariant, UnderWay, Tracked

\* No request is under way at first.
LEMMA StatusInit == ListInit => StatusInvariant
  <1> SUFFICES ASSUME ListInit PROVE StatusInvariant
    OBVIOUS
  <1>1. request = [k \in RequestKinds |-> None] /\ activeCount = 0
    BY DEF ListInit
  <1>2. UnderWay \cap Tracked = {}
    BY <1>1 DEF UnderWay
  <1> QED BY <1>1, <1>2, FS_EmptySet DEF StatusInvariant

\* Every step keeps the count.
LEMMA StatusStep == StatusInvariant /\ [ListNext]_listRefreshVars => StatusInvariant'
  <1> SUFFICES ASSUME StatusInvariant, [ListNext]_listRefreshVars PROVE StatusInvariant'
    OBVIOUS
  <1>0. Tracked \subseteq RequestKinds /\ "next" \in RequestKinds
        /\ "poll" \in Tracked /\ "reload" \in Tracked /\ "new" \in Tracked
    BY DEF RequestKinds, Tracked
  <1>1. CASE Poll
    <2> DEFINE new == [k \in {"poll"} |-> Sent(PollMode(enabled))]
    <2>1. Exchange({"poll"}, new)
      BY <1>1 DEF Poll
    <2>2. DOMAIN new = {"poll"} /\ new["poll"] # None
      BY SentIsRequest
    <2> HIDE DEF new
    <2> QED BY <1>0, <2>1, <2>2, OneIsSent
  <1>2. CASE Toggle
    <2>1. CASE enabled
      BY <1>2, <2>1, RequestsStay DEF Toggle, statusVars
    <2>2. CASE ~ enabled
      <3> DEFINE new == [k \in {"reload"} |-> Sent(PollMode(TRUE))]
      <3>1. request["reload"] = None /\ Exchange({}, new)
        BY <1>2, <2>2 DEF Toggle
      <3>2. DOMAIN new = {"reload"} /\ new["reload"] # None
        BY SentIsRequest
      <3> HIDE DEF new
      <3> QED BY <1>0, <3>1, <3>2, OneIsSent
    <2> QED BY <2>1, <2>2
  <1>3. CASE LoadNewEntries
    <2> DEFINE new == [k \in {"new"} |-> Sent("replace")]
    <2>1. Exchange(Cancellable, new) /\ (request["new"] = None \/ pollCancel = "new")
      BY <1>3 DEF LoadNewEntries
    <2>2. request["new"] = None \/ "new" \in Cancellable
      BY <1>0, <2>1 DEF Cancellable, UnderWay
    <2>3. DOMAIN new = {"new"} /\ new["new"] # None
      BY SentIsRequest
    <2> HIDE DEF new
    <2> QED BY <1>0, <2>1, <2>2, <2>3, OneIsSent
  <1>4. CASE LoadNextPage
    <2> DEFINE new == [k \in {"next"} |-> Sent("append")]
    <2>1. Exchange(Cancellable, new) /\ request["next"] = None
      BY <1>4 DEF LoadNextPage
    <2>2. DOMAIN new = {"next"} /\ new["next"] # None
      BY SentIsRequest
    <2> HIDE DEF new
    <2> QED BY <1>0, <2>1, <2>2, OneIsSent
  <1>5. ASSUME NEW k \in RequestKinds, AnswerRequest(k) PROVE StatusInvariant'
    BY <1>5, EndKeeps DEF AnswerRequest
  <1>6. ASSUME NEW k \in RequestKinds, FailRequest(k) PROVE StatusInvariant'
    BY <1>6, EndKeeps DEF FailRequest
  <1>7. CASE BeginVisit
    <2>1. Exchange({"poll"}, [k \in {} |-> None])
      BY <1>7 DEF BeginVisit
    <2>2. DOMAIN [k \in {} |-> None] = {}
      OBVIOUS
    <2> QED BY <2>1, <2>2, ExchangeKeeps
  <1>8. CASE EndVisit
    BY <1>8, RequestsStay DEF EndVisit, statusVars
  <1>9. CASE FailVisit
    BY <1>9, RequestsStay DEF FailVisit, statusVars
  <1>10. CASE ChangeSource
    BY <1>10, RequestsStay DEF ChangeSource, statusVars
  <1>11. CASE UNCHANGED listRefreshVars
    BY <1>11, RequestsStay DEF listRefreshVars, statusVars
  <1> QED
    BY <1>1, <1>2, <1>3, <1>4, <1>5, <1>6, <1>7, <1>8, <1>9, <1>10, <1>11 DEF ListNext

\* The count is that of the requests under way in every state.
THEOREM StatusInvariantHolds == ListSpec => []StatusInvariant
  BY StatusInit, StatusStep, PTL DEF ListSpec

\* The status says "refreshing" exactly while a background refresh is under way, however
\* requests overlap and are cancelled.
THEOREM ActiveCountHolds == ListSpec => []ActiveCountIsTrue
  <1>1. StatusInvariant => ActiveCountIsTrue
    <2> SUFFICES ASSUME StatusInvariant PROVE ActiveCountIsTrue
      OBVIOUS
    <2>1. activeCount = Cardinality(UnderWay \cap Tracked)
      BY DEF StatusInvariant
    <2>2. activeCount \in Nat /\ (activeCount = 0 <=> UnderWay \cap Tracked = {})
      BY <2>1, TrackedIsFinite, FS_EmptySet
    <2>3. VisibleStatus = "refreshing" <=> enabled /\ activeCount > 0
      BY DEF VisibleStatus
    <2> QED BY <2>1, <2>2, <2>3 DEF ActiveCountIsTrue
  <1> QED BY <1>1, StatusInvariantHolds, PTL
=============================================================================
