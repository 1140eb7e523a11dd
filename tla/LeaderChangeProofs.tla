-------------------------- MODULE LeaderChangeProofs --------------------------
(***************************************************************************)
(* Two processes of the operator on one cluster keep the invariants of     *)
(* one, its lifecycle and its append-only history, for every value of the  *)
(* constants.                                                              *)
(*                                                                         *)
(* A step of a process is a step of Reconciler on its own copies, so what  *)
(* LifecycleProofs says of such a step holds of it.  What has to be shown  *)
(* is that the step leaves the other process its invariant, although it    *)
(* writes the object, the Service and the databases under it.              *)
(***************************************************************************)
EXTENDS LeaderChange, TLAPS

AP == INSTANCE LifecycleProofs
    WITH cache <- cacheA, cacheFresh <- cacheFreshA, pc <- pcA, local <- localA,
         localFresh <- localFreshA, seen <- seenA, svcCache <- svcCacheA,
         written <- 0, copied <- {}, own <- 0, now <- 0,
         MaxWrites <- 0, MaxTime <- 0, AdminPatches <- FALSE
BP == INSTANCE LifecycleProofs
    WITH cache <- cacheB, cacheFresh <- cacheFreshB, pc <- pcB, local <- localB,
         localFresh <- localFreshB, seen <- seenB, svcCache <- svcCacheB,
         written <- 0, copied <- {}, own <- 0, now <- 0,
         MaxWrites <- 0, MaxTime <- 0, AdminPatches <- FALSE

-----------------------------------------------------------------------------
(* A and AP, B and BP are instances of the same definitions with the same  *)
(* substitution; the names are all expanded to show it.                    *)

LEMMA HandlerOfA == A!Handler => AP!Handler
BY DEF A!Instances, A!PodName, A!ConditionTypes, A!NeverFailedOver, A!NewResource,
       A!checkReplicationStatus, A!noStatus, A!executeHealthChecks,
       A!instanceHealthy, A!conditionStatus, A!SetCondition, A!instanceCondition,
       A!replicationActive, A!primaryFailCount, A!intervalElapsed,
       A!failoverInProgress, A!isFailoverAllowed, A!shouldFailover, A!resource,
       A!service, A!pods, A!database, A!data, A!NothingSeen, A!Disturb, A!Continue,
       A!Store, A!Write, A!StatusUpdate, A!UpdateConditions, A!Proceed, A!Fail,
       A!PhaseHandler, A!Dispatch, A!bothReady, A!serving, A!Start,
       A!InitializeStatus, A!reconcileStatefulSets, A!reconcileClusterService,
       A!replicationConfigured, A!reconcileReplication, A!ReadMasterStatus,
       A!StopSlave, A!ChangeMaster, A!StartSlave, A!RecordReplication,
       A!checkPrimary, A!checkSecondary, A!CheckPrimary, A!CheckSecondary,
       A!CheckReplication, A!HandlePrimaryFailure, A!TriggerFailover, A!healthPhase,
       A!RecordPhase, A!RecordLag, A!FailoverCheck, A!FailoverAbort, A!connectable,
       A!FailoverConnect, A!StopReplication, A!Promote, A!PromoteSecondaryToPrimary,
       A!UpdateServicesAfterFailover, A!afterFailover, A!RecordFailover,
       A!oldPrimaryName, A!oldPrimaryMayAnswer, A!oldPrimaryAnswers,
       A!HandleRecovery, A!Handler, AP!Instances, AP!PodName, AP!ConditionTypes,
       AP!NeverFailedOver, AP!NewResource, AP!checkReplicationStatus, AP!noStatus,
       AP!executeHealthChecks, AP!instanceHealthy, AP!conditionStatus,
       AP!SetCondition, AP!instanceCondition, AP!replicationActive,
       AP!primaryFailCount, AP!intervalElapsed, AP!failoverInProgress,
       AP!isFailoverAllowed, AP!shouldFailover, AP!resource, AP!service, AP!pods,
       AP!database, AP!data, AP!NothingSeen, AP!Disturb, AP!Continue, AP!Store,
       AP!Write, AP!StatusUpdate, AP!UpdateConditions, AP!Proceed, AP!Fail,
       AP!PhaseHandler, AP!Dispatch, AP!bothReady, AP!serving, AP!Start,
       AP!InitializeStatus, AP!reconcileStatefulSets, AP!reconcileClusterService,
       AP!replicationConfigured, AP!reconcileReplication, AP!ReadMasterStatus,
       AP!StopSlave, AP!ChangeMaster, AP!StartSlave, AP!RecordReplication,
       AP!checkPrimary, AP!checkSecondary, AP!CheckPrimary, AP!CheckSecondary,
       AP!CheckReplication, AP!HandlePrimaryFailure, AP!TriggerFailover,
       AP!healthPhase, AP!RecordPhase, AP!RecordLag, AP!FailoverCheck,
       AP!FailoverAbort, AP!connectable, AP!FailoverConnect, AP!StopReplication,
       AP!Promote, AP!PromoteSecondaryToPrimary, AP!UpdateServicesAfterFailover,
       AP!afterFailover, AP!RecordFailover, AP!oldPrimaryName,
       AP!oldPrimaryMayAnswer, AP!oldPrimaryAnswers, AP!HandleRecovery, AP!Handler

LEMMA EnvironmentOfA ==
    ASSUME A!CacheSync \/ A!SvcCacheSync \/ A!Crash \/ A!SlaveBreaks
      \/ A!UserEdit \/ A!ManualFailover
      \/ (\E i \in Instances : A!ReadySync(i) \/ A!InstanceFails(i) \/ A!InstanceReturns(i))
    PROVE  AP!Environment
BY DEF A!ConditionTypes, A!NeverFailedOver, A!NewResource, A!checkReplicationStatus,
       A!executeHealthChecks, A!instanceHealthy, A!SetCondition, A!intervalElapsed,
       A!failoverInProgress, A!resource, A!handler, A!service, A!pods, A!database,
       A!data, A!NothingSeen, A!Disturb, A!Continue, A!serving, A!checkSecondary,
       A!CacheSync, A!SvcCacheSync, A!ReadySync, A!Crash, A!InstanceFails,
       A!InstanceReturns, A!SlaveBreaks, A!Supersede, A!UserEdit, A!ManualFailover,
       AP!ConditionTypes, AP!NeverFailedOver, AP!NewResource,
       AP!checkReplicationStatus, AP!executeHealthChecks, AP!instanceHealthy,
       AP!SetCondition, AP!intervalElapsed, AP!failoverInProgress, AP!resource,
       AP!handler, AP!service, AP!pods, AP!database, AP!data, AP!NothingSeen,
       AP!Disturb, AP!Continue, AP!serving, AP!checkSecondary, AP!CacheSync,
       AP!SvcCacheSync, AP!ReadySync, AP!Crash, AP!InstanceFails,
       AP!InstanceReturns, AP!SlaveBreaks, AP!Supersede, AP!UserEdit,
       AP!ManualFailover, AP!Environment, Instances, AP!Instances

LEMMA HandlerOfB == B!Handler => BP!Handler
BY DEF B!Instances, B!PodName, B!ConditionTypes, B!NeverFailedOver, B!NewResource,
       B!checkReplicationStatus, B!noStatus, B!executeHealthChecks,
       B!instanceHealthy, B!conditionStatus, B!SetCondition, B!instanceCondition,
       B!replicationActive, B!primaryFailCount, B!intervalElapsed,
       B!failoverInProgress, B!isFailoverAllowed, B!shouldFailover, B!resource,
       B!service, B!pods, B!database, B!data, B!NothingSeen, B!Disturb, B!Continue,
       B!Store, B!Write, B!StatusUpdate, B!UpdateConditions, B!Proceed, B!Fail,
       B!PhaseHandler, B!Dispatch, B!bothReady, B!serving, B!Start,
       B!InitializeStatus, B!reconcileStatefulSets, B!reconcileClusterService,
       B!replicationConfigured, B!reconcileReplication, B!ReadMasterStatus,
       B!StopSlave, B!ChangeMaster, B!StartSlave, B!RecordReplication,
       B!checkPrimary, B!checkSecondary, B!CheckPrimary, B!CheckSecondary,
       B!CheckReplication, B!HandlePrimaryFailure, B!TriggerFailover, B!healthPhase,
       B!RecordPhase, B!RecordLag, B!FailoverCheck, B!FailoverAbort, B!connectable,
       B!FailoverConnect, B!StopReplication, B!Promote, B!PromoteSecondaryToPrimary,
       B!UpdateServicesAfterFailover, B!afterFailover, B!RecordFailover,
       B!oldPrimaryName, B!oldPrimaryMayAnswer, B!oldPrimaryAnswers,
       B!HandleRecovery, B!Handler, BP!Instances, BP!PodName, BP!ConditionTypes,
       BP!NeverFailedOver, BP!NewResource, BP!checkReplicationStatus, BP!noStatus,
       BP!executeHealthChecks, BP!instanceHealthy, BP!conditionStatus,
       BP!SetCondition, BP!instanceCondition, BP!replicationActive,
       BP!primaryFailCount, BP!intervalElapsed, BP!failoverInProgress,
       BP!isFailoverAllowed, BP!shouldFailover, BP!resource, BP!service, BP!pods,
       BP!database, BP!data, BP!NothingSeen, BP!Disturb, BP!Continue, BP!Store,
       BP!Write, BP!StatusUpdate, BP!UpdateConditions, BP!Proceed, BP!Fail,
       BP!PhaseHandler, BP!Dispatch, BP!bothReady, BP!serving, BP!Start,
       BP!InitializeStatus, BP!reconcileStatefulSets, BP!reconcileClusterService,
       BP!replicationConfigured, BP!reconcileReplication, BP!ReadMasterStatus,
       BP!StopSlave, BP!ChangeMaster, BP!StartSlave, BP!RecordReplication,
       BP!checkPrimary, BP!checkSecondary, BP!CheckPrimary, BP!CheckSecondary,
       BP!CheckReplication, BP!HandlePrimaryFailure, BP!TriggerFailover,
       BP!healthPhase, BP!RecordPhase, BP!RecordLag, BP!FailoverCheck,
       BP!FailoverAbort, BP!connectable, BP!FailoverConnect, BP!StopReplication,
       BP!Promote, BP!PromoteSecondaryToPrimary, BP!UpdateServicesAfterFailover,
       BP!afterFailover, BP!RecordFailover, BP!oldPrimaryName,
       BP!oldPrimaryMayAnswer, BP!oldPrimaryAnswers, BP!HandleRecovery, BP!Handler

LEMMA EnvironmentOfB ==
    ASSUME B!CacheSync \/ B!SvcCacheSync \/ B!Crash
    PROVE  BP!Environment
BY DEF B!ConditionTypes, B!NeverFailedOver, B!NewResource, B!resource, B!handler,
       B!service, B!pods, B!database, B!data, B!NothingSeen, B!Disturb, B!Continue,
       B!CacheSync, B!SvcCacheSync, B!Crash, BP!ConditionTypes, BP!NeverFailedOver,
       BP!NewResource, BP!resource, BP!handler, BP!service, BP!pods, BP!database,
       BP!data, BP!NothingSeen, BP!Disturb, BP!Continue, BP!CacheSync,
       BP!SvcCacheSync, BP!Crash, BP!Environment, Instances, BP!Instances

-----------------------------------------------------------------------------
(* The inductive invariant.                                                *)

(* What is invariant of one process on its own.                            *)
ProcessA == AP!TypeOK /\ AP!Inv /\ AP!OnlyPromotedServes /\ AP!PromotionInv
ProcessB == BP!TypeOK /\ BP!Inv /\ BP!OnlyPromotedServes /\ BP!PromotionInv

(* Of both; without the lease A has no cached object to start from.        *)
ProcessesInv ==
    /\ leader \in {"A", "B"}
    /\ ProcessA /\ ProcessB
    /\ leader = "B" => ~cacheFreshA

(* A step of a process keeps what is invariant of it.                      *)
LEMMA StepOfA ==
    ASSUME ProcessA, AP!Handler \/ AP!Environment
    PROVE  /\ ProcessA'
           /\ AP!HistoryStep /\ AP!NamesStep /\ AP!UnrecordedStays
           /\ [AP!Lifecycle!LifecycleNext]_(AP!Lifecycle!lifecycle)
           /\ promoted' >= promoted
           /\ Len(server'.history) >= Len(server.history)
<1> USE SpecAssumption, ProcessesAssumption DEF LagValues, AP!LagValues
<1>1. [AP!Next]_(AP!vars)
  BY DEF AP!Next
<1>2. AP!TypeOK'
  BY <1>1, AP!NextType DEF ProcessA
<1>3. AP!Inv'
  BY <1>1, AP!NextInv DEF ProcessA
<1>4. AP!OnlyPromotedServes'
  BY <1>1, AP!ServesInv DEF ProcessA
<1>5. AP!HistoryStep /\ AP!NamesStep
  BY <1>1, AP!ObjectStep DEF ProcessA
<1>6. [AP!Lifecycle!LifecycleNext]_(AP!Lifecycle!lifecycle)
  BY <1>1, AP!NextMaps DEF ProcessA
<1>10. AP!UnrecordedStays
  BY <1>6, AP!UnrecordedStep DEF ProcessA
<1>8. Len(server'.history) >= Len(server.history)
  BY <1>5, AP!HistoryLengthStep DEF ProcessA
<1>9. AP!PromotionInv'
  BY <1>1, <1>2, <1>3, AP!NextPromotion DEF ProcessA
<1>7. promoted' >= promoted
  <2>1. CASE AP!Handler
    BY <2>1, AP!HandlerKeeps DEF ProcessA
  <2>2. CASE AP!Environment
    <3>1. UNCHANGED promoted
      BY <2>2, AP!EnvironmentKeeps
    <3> QED
      BY <3>1 DEF ProcessA, AP!TypeOK
  <2> QED
    BY <2>1, <2>2
<1> QED
  BY <1>2, <1>3, <1>4, <1>5, <1>6, <1>7, <1>8, <1>9, <1>10 DEF ProcessA

LEMMA StepOfB ==
    ASSUME ProcessB, BP!Handler \/ BP!Environment
    PROVE  /\ ProcessB'
           /\ BP!HistoryStep /\ BP!NamesStep /\ BP!UnrecordedStays
           /\ [BP!Lifecycle!LifecycleNext]_(BP!Lifecycle!lifecycle)
           /\ promoted' >= promoted
           /\ Len(server'.history) >= Len(server.history)
<1> USE SpecAssumption, ProcessesAssumption DEF LagValues, BP!LagValues
<1>1. [BP!Next]_(BP!vars)
  BY DEF BP!Next
<1>2. BP!TypeOK'
  BY <1>1, BP!NextType DEF ProcessB
<1>3. BP!Inv'
  BY <1>1, BP!NextInv DEF ProcessB
<1>4. BP!OnlyPromotedServes'
  BY <1>1, BP!ServesInv DEF ProcessB
<1>5. BP!HistoryStep /\ BP!NamesStep
  BY <1>1, BP!ObjectStep DEF ProcessB
<1>6. [BP!Lifecycle!LifecycleNext]_(BP!Lifecycle!lifecycle)
  BY <1>1, BP!NextMaps DEF ProcessB
<1>10. BP!UnrecordedStays
  BY <1>6, BP!UnrecordedStep DEF ProcessB
<1>8. Len(server'.history) >= Len(server.history)
  BY <1>5, BP!HistoryLengthStep DEF ProcessB
<1>9. BP!PromotionInv'
  BY <1>1, <1>2, <1>3, BP!NextPromotion DEF ProcessB
<1>7. promoted' >= promoted
  <2>1. CASE BP!Handler
    BY <2>1, BP!HandlerKeeps DEF ProcessB
  <2>2. CASE BP!Environment
    <3>1. UNCHANGED promoted
      BY <2>2, BP!EnvironmentKeeps
    <3> QED
      BY <3>1 DEF ProcessB, BP!TypeOK
  <2> QED
    BY <2>1, <2>2
<1> QED
  BY <1>2, <1>3, <1>4, <1>5, <1>6, <1>7, <1>8, <1>9, <1>10 DEF ProcessB

LEMMA SameTypes ==
    /\ AP!Resources = BP!Resources /\ AP!Selectors = BP!Selectors
    /\ AP!Instances = BP!Instances /\ AP!Reachability = BP!Reachability
    /\ AP!SlaveStates = BP!SlaveStates
BY DEF AP!Resources, AP!Phases, AP!Names, AP!ConditionTypes, AP!ConditionStatus,
       AP!FailoverTimes, AP!FailoverEvents, AP!LagValues, AP!Selectors, AP!Instances,
       AP!Reachability, AP!SlaveStates,
       BP!Resources, BP!Phases, BP!Names, BP!ConditionTypes, BP!ConditionStatus,
       BP!FailoverTimes, BP!FailoverEvents, BP!LagValues, BP!Selectors, BP!Instances,
       BP!Reachability, BP!SlaveStates

(* So does a step of the other: it makes copies stale, never fresh, writes *)
(* only objects, Services and databases that are invariant of it, and      *)
(* takes no promotion back.                                                *)
LEMMA SparesB ==
    ASSUME ProcessB, ProcessA', promoted' >= promoted, AP!UnrecordedStays,
           Len(server'.history) >= Len(server.history),
           UNCHANGED <<cacheB, pcB, localB, seenB, svcCacheB>>,
           cacheFreshB' \in BOOLEAN, cacheFreshB' => cacheFreshB /\ server' = server,
           localFreshB' \in BOOLEAN, localFreshB' => localFreshB /\ server' = server
    PROVE  ProcessB'
<1> USE DEF ProcessB, ProcessA
<1>1. BP!TypeOK'
  BY SameTypes DEF BP!TypeOK, AP!TypeOK
<1>2. BP!Inv'
  <2>1. BP!FreshCopiesAgree'
    BY DEF BP!Inv, BP!FreshCopiesAgree, BP!Agree
  <2>2. BP!HandlerMatchesPhase'
    BY DEF BP!Inv, BP!HandlerMatchesPhase, BP!PhaseFits, BP!HealthLabels, BP!FailoverLabels
  <2>3. BP!PromotedBeforeRecord'
    <3>1. promoted \in Nat /\ promoted' \in Nat /\ Len(localB.history) \in Nat
      BY DEF BP!TypeOK, AP!TypeOK, BP!Resources, BP!FailoverEvents
    <3> QED
      BY <3>1 DEF BP!Inv, BP!PromotedBeforeRecord
  <2>4. BP!RecoveringIsPromoted'
    BY DEF AP!Inv, AP!RecoveringIsPromoted, BP!RecoveringIsPromoted
  <2> QED
    BY <2>1, <2>2, <2>3, <2>4 DEF BP!Inv
<1>3. BP!OnlyPromotedServes'
  <2>1. promoted \in Nat /\ promoted' \in Nat
    BY DEF BP!TypeOK, AP!TypeOK
  <2> QED
    BY <2>1 DEF BP!OnlyPromotedServes, AP!OnlyPromotedServes
<1>4. BP!PromotionInv'
  <2>1. /\ Len(server.history) \in Nat /\ Len(server'.history) \in Nat
        /\ Len(cacheB.history) \in Nat /\ Len(localB.history) \in Nat
    BY DEF BP!TypeOK, AP!TypeOK, BP!Resources, BP!FailoverEvents,
           AP!Resources, AP!FailoverEvents
  <2>2. BP!CopiesNotAhead'
    BY <2>1 DEF BP!PromotionInv, BP!CopiesNotAhead, BP!NotAhead, BP!Unrecorded,
                AP!UnrecordedStays, AP!Unrecorded
  <2>3. BP!PromotionShows'
    BY DEF AP!PromotionInv, AP!PromotionShows, BP!PromotionShows
  <2> QED
    BY <2>2, <2>3 DEF BP!PromotionInv
<1> QED
  BY <1>1, <1>2, <1>3, <1>4

LEMMA SparesA ==
    ASSUME ProcessA, ProcessB', promoted' >= promoted, BP!UnrecordedStays,
           Len(server'.history) >= Len(server.history),
           UNCHANGED <<cacheA, pcA, localA, seenA, svcCacheA>>,
           cacheFreshA' \in BOOLEAN, cacheFreshA' => cacheFreshA /\ server' = server,
           localFreshA' \in BOOLEAN, localFreshA' => localFreshA /\ server' = server
    PROVE  ProcessA'
<1> USE DEF ProcessA, ProcessB
<1>1. AP!TypeOK'
  BY SameTypes DEF AP!TypeOK, BP!TypeOK
<1>2. AP!Inv'
  <2>1. AP!FreshCopiesAgree'
    BY DEF AP!Inv, AP!FreshCopiesAgree, AP!Agree
  <2>2. AP!HandlerMatchesPhase'
    BY DEF AP!Inv, AP!HandlerMatchesPhase, AP!PhaseFits, AP!HealthLabels, AP!FailoverLabels
  <2>3. AP!PromotedBeforeRecord'
    <3>1. promoted \in Nat /\ promoted' \in Nat /\ Len(localA.history) \in Nat
      BY DEF AP!TypeOK, BP!TypeOK, AP!Resources, AP!FailoverEvents
    <3> QED
      BY <3>1 DEF AP!Inv, AP!PromotedBeforeRecord
  <2>4. AP!RecoveringIsPromoted'
    BY DEF BP!Inv, BP!RecoveringIsPromoted, AP!RecoveringIsPromoted
  <2> QED
    BY <2>1, <2>2, <2>3, <2>4 DEF AP!Inv
<1>3. AP!OnlyPromotedServes'
  <2>1. promoted \in Nat /\ promoted' \in Nat
    BY DEF AP!TypeOK, BP!TypeOK
  <2> QED
    BY <2>1 DEF AP!OnlyPromotedServes, BP!OnlyPromotedServes
<1>4. AP!PromotionInv'
  <2>1. /\ Len(server.history) \in Nat /\ Len(server'.history) \in Nat
        /\ Len(cacheA.history) \in Nat /\ Len(localA.history) \in Nat
    BY DEF AP!TypeOK, BP!TypeOK, AP!Resources, AP!FailoverEvents,
           BP!Resources, BP!FailoverEvents
  <2>2. AP!CopiesNotAhead'
    BY <2>1 DEF AP!PromotionInv, AP!CopiesNotAhead, AP!NotAhead, AP!Unrecorded,
                BP!UnrecordedStays, BP!Unrecorded
  <2>3. AP!PromotionShows'
    BY DEF BP!PromotionInv, BP!PromotionShows, AP!PromotionShows
  <2> QED
    BY <2>2, <2>3 DEF AP!PromotionInv
<1> QED
  BY <1>1, <1>2, <1>3, <1>4

-----------------------------------------------------------------------------
(* The inductive invariant holds initially and after every step.           *)

LEMMA InitResources ==
    /\ NewResource \in AP!Resources /\ NewResource.phase = ""
    /\ RunningResource \in AP!Resources /\ RunningResource.phase = "Running"
    /\ FailoverResource \in AP!Resources /\ FailoverResource.phase = "Failover"
    /\ NewResource.history = << >> /\ RunningResource.history = << >>
    /\ FailoverResource.history = << >>
<1> USE DEF NewResource, ConditionTypes, NeverFailedOver, AP!Resources, AP!Phases, AP!Names,
        AP!ConditionTypes, AP!ConditionStatus, AP!FailoverTimes, AP!FailoverEvents,
        AP!LagValues
<1>1. /\ NewResource \in AP!Resources /\ NewResource.phase = ""
      /\ NewResource.history = << >>
  OBVIOUS
<1>2. /\ RunningResource \in AP!Resources /\ RunningResource.phase = "Running"
      /\ RunningResource.history = << >>
  <2> DEFINE conditions == [c \in ConditionTypes |-> "True"]
  <2>1. conditions \in [AP!ConditionTypes -> AP!ConditionStatus]
    OBVIOUS
  <2>2. PodName("primary") \in AP!Names /\ PodName("secondary") \in AP!Names
    BY DEF PodName
  <2> HIDE DEF conditions
  <2> QED
    BY <1>1, <2>1, <2>2 DEF RunningResource
<1>3. /\ FailoverResource \in AP!Resources /\ FailoverResource.phase = "Failover"
      /\ FailoverResource.history = << >>
  <2> HIDE DEF RunningResource
  <2> QED
    BY <1>2 DEF FailoverResource, SetCondition
<1> QED
  BY <1>1, <1>2, <1>3

LEMMA InitProcesses == Init => ProcessesInv
<1> SUFFICES ASSUME Init PROVE ProcessesInv
  OBVIOUS
<1>0. Len(server.history) = 0 /\ Len(NewResource.history) = 0
  <2>1. server.history = << >> /\ NewResource.history = << >>
    BY InitResources DEF Init
  <2>2. Len(<< >>) = 0
    OBVIOUS
  <2> QED
    BY <2>1, <2>2, Zenon
<1>1. /\ server \in AP!Resources /\ server.phase # "Recovering"
      /\ NewResource \in AP!Resources /\ NewResource.phase = ""
  BY InitResources DEF Init
<1>2. ProcessA
  <2>1. AP!TypeOK
    <3>1. server \in AP!Resources /\ NewResource \in AP!Resources
      BY <1>1, SameTypes
    <3>2. seenA \in AP!Observations /\ pcA \in AP!Labels
      BY DEF Init, A!NothingSeen, AP!Observations, AP!LagValues, AP!Labels
    <3>3. up \in [AP!Instances -> AP!Reachability] /\ ready \in [AP!Instances -> BOOLEAN]
      BY DEF Init, Instances, AP!Instances, AP!Reachability
    <3>4. disturbances \in 0 .. MaxDisturbances
      BY ProcessesAssumption DEF Init
    <3> QED
      BY <3>1, <3>2, <3>3, <3>4 DEF Init, AP!TypeOK, AP!Selectors, AP!SlaveStates
  <2>2. AP!Inv
    <3>1. AP!FreshCopiesAgree
      BY DEF Init, AP!FreshCopiesAgree
    <3>2. AP!HandlerMatchesPhase /\ AP!PromotedBeforeRecord
      BY DEF Init, AP!HandlerMatchesPhase, AP!PromotedBeforeRecord, AP!PhaseFits,
             AP!HealthLabels, AP!FailoverLabels
    <3>3. AP!RecoveringIsPromoted
      BY <1>1 DEF AP!RecoveringIsPromoted
    <3> QED
      BY <3>1, <3>2, <3>3 DEF AP!Inv
  <2>3. AP!OnlyPromotedServes
    BY DEF Init, AP!OnlyPromotedServes
  <2>4. AP!PromotionInv
    <3>1. cacheA = server /\ localA = NewResource /\ promoted = 0
      BY DEF Init
    <3>2. NewResource.phase # "Failover"
      BY <1>1
    <3>3. AP!NotAhead(NewResource) /\ AP!NotAhead(server)
      BY <1>0, <3>2 DEF AP!NotAhead, AP!Unrecorded
    <3>4. AP!PromotionShows
      BY <1>0, <3>1 DEF AP!PromotionShows
    <3> QED
      BY <3>1, <3>3, <3>4 DEF AP!PromotionInv, AP!CopiesNotAhead
  <2> QED
    BY <2>1, <2>2, <2>3, <2>4 DEF ProcessA
<1>3. ProcessB
  <2>1. BP!TypeOK
    <3>1. server \in BP!Resources /\ NewResource \in BP!Resources
      BY <1>1, SameTypes
    <3>2. seenB \in BP!Observations /\ pcB \in BP!Labels
      BY DEF Init, B!NothingSeen, BP!Observations, BP!LagValues, BP!Labels
    <3>3. up \in [BP!Instances -> BP!Reachability] /\ ready \in [BP!Instances -> BOOLEAN]
      BY DEF Init, Instances, BP!Instances, BP!Reachability
    <3>4. disturbances \in 0 .. MaxDisturbances
      BY ProcessesAssumption DEF Init
    <3> QED
      BY <3>1, <3>2, <3>3, <3>4 DEF Init, BP!TypeOK, BP!Selectors, BP!SlaveStates
  <2>2. BP!Inv
    <3>1. BP!FreshCopiesAgree
      BY DEF Init, BP!FreshCopiesAgree
    <3>2. BP!HandlerMatchesPhase /\ BP!PromotedBeforeRecord
      BY DEF Init, BP!HandlerMatchesPhase, BP!PromotedBeforeRecord, BP!PhaseFits,
             BP!HealthLabels, BP!FailoverLabels
    <3>3. BP!RecoveringIsPromoted
      BY <1>1 DEF BP!RecoveringIsPromoted
    <3> QED
      BY <3>1, <3>2, <3>3 DEF BP!Inv
  <2>3. BP!OnlyPromotedServes
    BY DEF Init, BP!OnlyPromotedServes
  <2>4. BP!PromotionInv
    <3>1. cacheB = NewResource /\ localB = NewResource /\ promoted = 0
      BY DEF Init
    <3>2. NewResource.phase # "Failover"
      BY <1>1
    <3>3. BP!NotAhead(NewResource) /\ BP!NotAhead(server)
      BY <1>0, <3>2 DEF BP!NotAhead, BP!Unrecorded
    <3>4. BP!PromotionShows
      BY <1>0, <3>1 DEF BP!PromotionShows
    <3> QED
      BY <3>1, <3>3, <3>4 DEF BP!PromotionInv, BP!CopiesNotAhead
  <2> QED
    BY <2>1, <2>2, <2>3, <2>4 DEF ProcessB
<1> QED
  BY <1>2, <1>3 DEF Init, ProcessesInv

(* What a step of either process, or of the environment, may do to the     *)
(* stored object.                                                          *)
ObjectFollows ==
    /\ AP!HistoryStep
    /\ AP!NamesStep
    /\ [AP!Lifecycle!LifecycleNext]_(AP!Lifecycle!lifecycle)

LEMMA ByA ==
    ASSUME ProcessesInv, AP!Handler \/ AP!Environment,
           UNCHANGED <<leader, cacheB, pcB, localB, seenB, svcCacheB>>,
           cacheFreshB' \in BOOLEAN, cacheFreshB' => cacheFreshB /\ server' = server,
           localFreshB' \in BOOLEAN, localFreshB' => localFreshB /\ server' = server,
           leader = "B" /\ cacheFreshA' => cacheFreshA
    PROVE  ProcessesInv' /\ ObjectFollows
BY StepOfA, SparesB DEF ProcessesInv, ObjectFollows

LEMMA ByB ==
    ASSUME ProcessesInv, BP!Handler \/ BP!Environment,
           UNCHANGED <<leader, cacheA, cacheFreshA, pcA, localA, seenA, svcCacheA>>,
           cacheFreshA => server' = server,
           localFreshA' \in BOOLEAN, localFreshA' => localFreshA /\ server' = server
    PROVE  ProcessesInv' /\ ObjectFollows
<1>1. /\ ProcessB' /\ BP!HistoryStep /\ BP!NamesStep /\ promoted' >= promoted
      /\ BP!UnrecordedStays
      /\ Len(server'.history) >= Len(server.history)
      /\ [BP!Lifecycle!LifecycleNext]_(BP!Lifecycle!lifecycle)
  BY StepOfB DEF ProcessesInv
<1>2. ProcessA'
  BY <1>1, SparesA DEF ProcessesInv, ProcessA, AP!TypeOK
<1>3. AP!HistoryStep /\ AP!NamesStep
  BY <1>1 DEF AP!HistoryStep, BP!HistoryStep, AP!FailoverEvents, BP!FailoverEvents,
              AP!Names, BP!Names, AP!NamesStep, BP!NamesStep
<1>4. [AP!Lifecycle!LifecycleNext]_(AP!Lifecycle!lifecycle)
  BY <1>1
  DEF AP!Lifecycle!LifecycleNext, AP!Lifecycle!lifecycle,
      AP!Lifecycle!Initialize, AP!Lifecycle!BecomeReady, AP!Lifecycle!Degrade,
      AP!Lifecycle!Heal, AP!Lifecycle!StartFailover,
      AP!Lifecycle!AbortFailover, AP!Lifecycle!CompleteFailover,
      AP!Lifecycle!Recover, AP!Lifecycle!Pass, AP!Lifecycle!Move,
      BP!Lifecycle!LifecycleNext, BP!Lifecycle!lifecycle,
      BP!Lifecycle!Initialize, BP!Lifecycle!BecomeReady, BP!Lifecycle!Degrade,
      BP!Lifecycle!Heal, BP!Lifecycle!StartFailover,
      BP!Lifecycle!AbortFailover, BP!Lifecycle!CompleteFailover,
      BP!Lifecycle!Recover, BP!Lifecycle!Pass, BP!Lifecycle!Move
<1> QED
  BY <1>1, <1>2, <1>3, <1>4 DEF ProcessesInv, ObjectFollows

(* New copies of the objects in the caches of a process.                   *)
LEMMA ResyncA ==
    ASSUME ProcessA, UNCHANGED <<cluster, pcA, localA, localFreshA, seenA>>,
           cacheA' \in AP!Resources, cacheFreshA' \in BOOLEAN,
           cacheFreshA' => cacheA' = server, svcCacheA' \in {svc, svcCacheA},
           AP!NotAhead(cacheA')
    PROVE  ProcessA'
<1> USE DEF ProcessA, cluster
<1>1. AP!TypeOK'
  BY DEF AP!TypeOK
<1>2. AP!Inv'
  BY DEF AP!Inv, AP!FreshCopiesAgree, AP!Agree, AP!HandlerMatchesPhase, AP!PhaseFits,
         AP!PromotedBeforeRecord, AP!RecoveringIsPromoted
<1>3. AP!OnlyPromotedServes'
  BY DEF AP!OnlyPromotedServes
<1>4. AP!PromotionInv'
  BY DEF AP!PromotionInv, AP!CopiesNotAhead, AP!NotAhead, AP!PromotionShows
<1> QED
  BY <1>1, <1>2, <1>3, <1>4

LEMMA ResyncB ==
    ASSUME ProcessB, UNCHANGED <<cluster, pcB, localB, localFreshB, seenB>>,
           cacheB' \in BP!Resources, cacheFreshB' \in BOOLEAN,
           cacheFreshB' => cacheB' = server, svcCacheB' \in {svc, svcCacheB},
           BP!NotAhead(cacheB')
    PROVE  ProcessB'
<1> USE DEF ProcessB, cluster
<1>1. BP!TypeOK'
  BY DEF BP!TypeOK
<1>2. BP!Inv'
  BY DEF BP!Inv, BP!FreshCopiesAgree, BP!Agree, BP!HandlerMatchesPhase, BP!PhaseFits,
         BP!PromotedBeforeRecord, BP!RecoveringIsPromoted
<1>3. BP!OnlyPromotedServes'
  BY DEF BP!OnlyPromotedServes
<1>4. BP!PromotionInv'
  BY DEF BP!PromotionInv, BP!CopiesNotAhead, BP!NotAhead, BP!PromotionShows
<1> QED
  BY <1>1, <1>2, <1>3, <1>4

LEMMA ObjectStays ==
    ASSUME server' = server
    PROVE  ObjectFollows
BY DEF ObjectFollows, AP!HistoryStep, AP!NamesStep, AP!Lifecycle!lifecycle

LEMMA NextProcesses ==
    ASSUME ProcessesInv, [Next]_vars
    PROVE  ProcessesInv' /\ ObjectFollows
<1> USE DEF processA, processB
<1>0. /\ cacheFreshA \in BOOLEAN /\ localFreshA \in BOOLEAN
      /\ cacheFreshB \in BOOLEAN /\ localFreshB \in BOOLEAN
  BY DEF ProcessesInv, ProcessA, ProcessB, AP!TypeOK, BP!TypeOK
<1>1. CASE ChangeLeader
  <2>1. UNCHANGED cluster /\ UNCHANGED server
    BY <1>1 DEF ChangeLeader, cluster
  <2>2. server \in BP!Resources /\ NewResource \in AP!Resources
    BY InitResources DEF ProcessesInv, ProcessB, BP!TypeOK
  <2>3. AP!NotAhead(NewResource)
    <3>1. Len(<< >>) = 0
      OBVIOUS
    <3>2. Len(NewResource.history) = 0
      BY <3>1, InitResources, Zenon
    <3>3. NewResource.phase # "Failover"
      BY InitResources
    <3>4. Len(server.history) \in Nat
      BY <2>2 DEF BP!Resources
    <3> QED
      BY <3>2, <3>3, <3>4 DEF AP!NotAhead
  <2>4. BP!NotAhead(server)
    BY <2>2 DEF BP!Resources, BP!NotAhead, BP!Unrecorded
  <2>5. ProcessA' /\ ProcessB'
    BY <1>1, <2>1, <2>2, <2>3, <2>4, ResyncA, ResyncB DEF ChangeLeader, ProcessesInv
  <2> QED
    BY <1>1, <2>1, <2>5, ObjectStays DEF ChangeLeader, ProcessesInv
<1>2. CASE HandlerA
  <2>1. AP!Handler
    BY <1>2, HandlerOfA DEF HandlerA
  <2>2. cacheFreshA' => cacheFreshA
    BY <2>1, AP!HandlerKeeps, SpecAssumption, ProcessesAssumption
    DEF ProcessesInv, ProcessA, LagValues, AP!LagValues
  <2> QED
    BY <1>0, <1>2, <2>1, <2>2, ByA DEF HandlerA, OutdatesB
<1>3. CASE HandlerB
  <2>1. BP!Handler
    BY <1>3, HandlerOfB DEF HandlerB
  <2> QED
    BY <1>0, <1>3, <2>1, ByB DEF HandlerB, OutdatesA, ProcessesInv
<1>4. CASE CacheSyncA \/ SvcCacheSyncA \/ CrashA \/ Databases
           \/ \E i \in Instances : ReadySync(i)
  <2>1. AP!Environment
    BY <1>4, EnvironmentOfA DEF CacheSyncA, SvcCacheSyncA, CrashA, Databases, ReadySync
  <2>2. UNCHANGED <<leader, processB, server>>
    BY <1>4 DEF CacheSyncA, SvcCacheSyncA, CrashA, Databases, ReadySync, A!CacheSync,
                A!SvcCacheSync, A!Crash, A!SlaveBreaks, A!InstanceFails,
                A!InstanceReturns, A!ReadySync, A!resource
  <2>3. leader = "B" /\ cacheFreshA' => cacheFreshA
    BY <1>4 DEF CacheSyncA, SvcCacheSyncA, CrashA, Databases, ReadySync,
                A!SvcCacheSync, A!Crash, A!SlaveBreaks, A!InstanceFails,
                A!InstanceReturns, A!ReadySync, A!resource
  <2> QED
    BY <1>0, <2>1, <2>2, <2>3, ByA
<1>5. CASE CacheSyncB \/ SvcCacheSyncB \/ CrashB
  <2>1. BP!Environment
    BY <1>5, EnvironmentOfB DEF CacheSyncB, SvcCacheSyncB, CrashB
  <2>2. UNCHANGED <<leader, processA, server>>
    BY <1>5 DEF CacheSyncB, SvcCacheSyncB, CrashB, B!CacheSync, B!SvcCacheSync, B!Crash,
                B!resource
  <2> QED
    BY <1>0, <2>1, <2>2, ByB
<1>6. CASE OtherClients
  <2>1. AP!Environment
    BY <1>6, EnvironmentOfA DEF OtherClients
  <2>2. ~cacheFreshA'
    BY <1>6 DEF OtherClients, A!UserEdit, A!ManualFailover, A!Supersede
  <2> QED
    BY <1>6, <2>1, <2>2, ByA DEF OtherClients
<1>7. CASE UNCHANGED vars
  <2>1. UNCHANGED <<leader, cluster, server, processA, processB>>
    BY <1>7 DEF vars, cluster
  <2>2. /\ cacheA \in AP!Resources /\ (cacheFreshA => cacheA = server)
        /\ cacheB \in BP!Resources /\ (cacheFreshB => cacheB = server)
        /\ AP!NotAhead(cacheA) /\ BP!NotAhead(cacheB)
    BY DEF ProcessesInv, ProcessA, ProcessB, AP!TypeOK, BP!TypeOK, AP!Inv, BP!Inv,
           AP!FreshCopiesAgree, BP!FreshCopiesAgree, AP!PromotionInv, BP!PromotionInv,
           AP!CopiesNotAhead, BP!CopiesNotAhead
  <2>3. ProcessA' /\ ProcessB'
    BY <1>0, <2>1, <2>2, ResyncA, ResyncB DEF ProcessesInv
  <2> QED
    BY <2>1, <2>3, ObjectStays DEF ProcessesInv
<1> QED
  BY <1>1, <1>2, <1>3, <1>4, <1>5, <1>6, <1>7 DEF Next

-----------------------------------------------------------------------------
(* The theorems.                                                           *)

(* Both processes keep what is invariant of one on its own: whichever of   *)
(* them writes, it decided on the stored object, in the phase of its       *)
(* handler, and records only a failover that was promoted.                 *)
THEOREM BothProcesses == Spec => []ProcessesInv
<1>1. ProcessesInv /\ [Next]_vars => ProcessesInv'
  BY NextProcesses
<1> QED
  BY <1>1, InitProcesses, PTL DEF Spec

(* Two processes are type-correct.                                         *)
THEOREM ProcessesTypeCorrect == Spec => []TypeOK
<1>1. AP!TypeOK => A!TypeOK
  BY DEF AP!TypeOK, AP!Phases, AP!Instances, AP!Names, AP!ConditionTypes,
         AP!ConditionStatus, AP!LagValues, AP!FailoverTimes, AP!FailoverEvents,
         AP!Resources, AP!Reachability, AP!SlaveStates, AP!Labels, AP!Selectors,
         AP!Observations, A!TypeOK, A!Phases, A!Instances, A!Names,
         A!ConditionTypes, A!ConditionStatus, A!LagValues, A!FailoverTimes,
         A!FailoverEvents, A!Resources, A!Reachability, A!SlaveStates, A!Labels,
         A!Selectors, A!Observations
<1>2. BP!TypeOK => B!TypeOK
  BY DEF BP!TypeOK, BP!Phases, BP!Instances, BP!Names, BP!ConditionTypes,
         BP!ConditionStatus, BP!LagValues, BP!FailoverTimes, BP!FailoverEvents,
         BP!Resources, BP!Reachability, BP!SlaveStates, BP!Labels, BP!Selectors,
         BP!Observations, B!TypeOK, B!Phases, B!Instances, B!Names,
         B!ConditionTypes, B!ConditionStatus, B!LagValues, B!FailoverTimes,
         B!FailoverEvents, B!Resources, B!Reachability, B!SlaveStates, B!Labels,
         B!Selectors, B!Observations
<1>3. ProcessesInv => TypeOK
  BY <1>1, <1>2 DEF ProcessesInv, ProcessA, ProcessB, TypeOK
<1> QED
  BY <1>3, BothProcesses, PTL

(* The status shows the last promotion of either process, also while both  *)
(* run a failover on copies of different age.                              *)
THEOREM PromotionShowsForBoth == Spec => []PromotionShows
<1>1. ProcessesInv => PromotionShows
  BY DEF ProcessesInv, ProcessA, AP!PromotionInv, AP!PromotionShows,
         PromotionShows, A!PromotionShows
<1> QED
  BY <1>1, BothProcesses, PTL

(* Neither process sends clients to the secondary before a promotion.      *)
THEOREM PromotedServesBoth == Spec => []OnlyPromotedServes
<1>1. ProcessesInv => OnlyPromotedServes
  BY DEF ProcessesInv, ProcessA, ProcessB, AP!OnlyPromotedServes, BP!OnlyPromotedServes,
         OnlyPromotedServes, A!OnlyPromotedServes, B!OnlyPromotedServes
<1> QED
  BY <1>1, BothProcesses, PTL

(* The steps of both together take the object through its lifecycle.       *)
THEOREM LifecycleFollowed == Spec => FollowsLifecycle
<1>1. ProcessesInv /\ [Next]_vars => [A!Lifecycle!LifecycleNext]_(A!Lifecycle!lifecycle)
  <2> SUFFICES ASSUME ProcessesInv, [Next]_vars
               PROVE  [A!Lifecycle!LifecycleNext]_(A!Lifecycle!lifecycle)
    OBVIOUS
  <2>1. [AP!Lifecycle!LifecycleNext]_(AP!Lifecycle!lifecycle)
    BY NextProcesses DEF ObjectFollows
  <2> QED
    BY <2>1
    DEF AP!Lifecycle!LifecycleNext, AP!Lifecycle!lifecycle,
        AP!Lifecycle!Initialize, AP!Lifecycle!BecomeReady, AP!Lifecycle!Degrade,
        AP!Lifecycle!Heal, AP!Lifecycle!StartFailover,
        AP!Lifecycle!AbortFailover, AP!Lifecycle!CompleteFailover,
        AP!Lifecycle!Recover, AP!Lifecycle!Pass, AP!Lifecycle!Move,
        A!Lifecycle!LifecycleNext, A!Lifecycle!lifecycle,
        A!Lifecycle!Initialize, A!Lifecycle!BecomeReady, A!Lifecycle!Degrade,
        A!Lifecycle!Heal, A!Lifecycle!StartFailover, A!Lifecycle!AbortFailover,
        A!Lifecycle!CompleteFailover, A!Lifecycle!Recover, A!Lifecycle!Pass,
        A!Lifecycle!Move
<1> QED
  BY <1>1, BothProcesses, PTL DEF Spec, FollowsLifecycle

(* Neither process erases, repeats or overwrites an event of the history.  *)
THEOREM HistoryGrowsForBoth == Spec => HistoryAppendOnly
<1>1. ProcessesInv /\ [Next]_vars
        => [server'.history = server.history
            \/ /\ server.phase = "Failover" /\ server'.phase = "Recovering"
               /\ \E e \in A!FailoverEvents : server'.history = Append(server.history, e)]_(A!vars)
  BY NextProcesses DEF ObjectFollows, AP!HistoryStep, AP!FailoverEvents, AP!Names,
     A!FailoverEvents, A!Names
<1> QED
  BY <1>1, BothProcesses, PTL DEF Spec, HistoryAppendOnly, A!HistoryAppendOnly
(* No update of either process loses the pod names: one keeps what another *)
(* has stored, or replaces it as a record or a recovery says.              *)
NamesKept ==
    [][\/ /\ server'.currentPrimary = server.currentPrimary
          /\ server'.currentSecondary = server.currentSecondary
       \/ server.currentPrimary = "" /\ server.currentSecondary = ""
       \/ /\ Len(server'.history) = Len(server.history) + 1
          /\ server'.currentPrimary = server.currentSecondary
       \/ /\ server.phase = "Recovering" /\ server'.phase = "Running"
          /\ server'.currentPrimary = server.currentPrimary
          /\ server'.currentSecondary = server.history[Len(server.history)].oldPrimary]_vars

(* An update that is stored was made from a copy with the stored names,    *)
(* whichever process made it.                                              *)
THEOREM NamesKeptByBoth == Spec => NamesKept
<1>1. ProcessesInv /\ [Next]_vars => [AP!NamesStep]_vars
  BY NextProcesses DEF ObjectFollows
<1>2. NamesKept <=> [][AP!NamesStep]_vars
  BY DEF NamesKept, AP!NamesStep
<1> QED
  BY <1>1, <1>2, BothProcesses, PTL DEF Spec

(* A write from an older copy is refused, and a handler with a current one *)
(* of a failing cluster writes its conditions at most.                     *)
THEOREM FailingLeftByNeither == Spec => FailingIsLeftByOthers
<1>1. ASSUME ProcessesInv, [Next]_vars, server.phase = "Failing", server'.phase # "Failing"
      PROVE  OtherClients /\ A!ManualFailover
  <2> USE SpecAssumption, ProcessesAssumption DEF LagValues
  <2>1. ~HandlerA
    BY <1>1, HandlerOfA, AP!HandlerKeepsFailing
    DEF HandlerA, ProcessesInv, ProcessA, AP!LagValues
  <2>2. ~HandlerB
    BY <1>1, HandlerOfB, BP!HandlerKeepsFailing
    DEF HandlerB, ProcessesInv, ProcessB, BP!LagValues
  <2>3. ~UNCHANGED server
    BY <1>1
  <2>4. ~(ChangeLeader \/ CacheSyncA \/ SvcCacheSyncA \/ CrashA \/ CacheSyncB
          \/ SvcCacheSyncB \/ CrashB \/ Databases \/ \E i \in Instances : ReadySync(i))
    BY <2>3
    DEF ChangeLeader, cluster, CacheSyncA, SvcCacheSyncA, CrashA, CacheSyncB, SvcCacheSyncB,
        CrashB, Databases, ReadySync, A!CacheSync, A!SvcCacheSync, A!Crash, A!SlaveBreaks,
        A!InstanceFails, A!InstanceReturns, A!ReadySync, A!resource, B!CacheSync,
        B!SvcCacheSync, B!Crash, B!resource
  <2>5. OtherClients
    BY <1>1, <2>1, <2>2, <2>3, <2>4 DEF Next, vars, cluster
  <2>6. ~A!UserEdit
    BY <2>3 DEF A!UserEdit, A!Supersede
  <2> QED
    BY <2>5, <2>6 DEF OtherClients
<1>2. ProcessesInv /\ [Next]_vars
        => [server.phase = "Failing" /\ server'.phase # "Failing"
               => OtherClients /\ A!ManualFailover]_vars
  BY <1>1
<1> QED
  BY <1>2, BothProcesses, PTL DEF Spec, FailingIsLeftByOthers

===============================================================================
