------------------------- MODULE ReconcilerTypeProofs -------------------------
(***************************************************************************)
(* Type correctness of the reconciliation loop, for every value of the     *)
(* constants, and the lemmas on single steps it rests on.                  *)
(***************************************************************************)
EXTENDS ReconcilerProperties, TLAPS

-----------------------------------------------------------------------------
(* The object and the request that writes it.                              *)

(* A new object, and every single-field update the loop makes, is a        *)
(* resource.                                                               *)
LEMMA NewResourceType == NewResource \in Resources
BY DEF NewResource, Resources, Phases, Names, ConditionTypes, ConditionStatus,
       FailoverTimes, NeverFailedOver, FailoverEvents, LagValues

LEMMA PhaseUpdateType ==
    ASSUME NEW cr \in Resources, NEW p \in Phases
    PROVE  /\ [cr EXCEPT !.phase = p] \in Resources
           /\ [cr EXCEPT !.phase = p].phase = p
BY DEF Resources

LEMMA CountUpdateType ==
    ASSUME NEW cr \in Resources, NEW n \in Nat
    PROVE  [cr EXCEPT !.failCount = n] \in Resources
BY DEF Resources

LEMMA LagUpdateType ==
    ASSUME NEW cr \in Resources, NEW l \in LagValues
    PROVE  [cr EXCEPT !.lag = l] \in Resources
BY DEF Resources

LEMMA ConditionUpdateType ==
    ASSUME NEW cr \in Resources, NEW t \in ConditionTypes, NEW s \in ConditionStatus
    PROVE  SetCondition(cr, t, s) \in Resources
BY DEF Resources, SetCondition

LEMMA FailoverUpdateType ==
    ASSUME NEW cr \in Resources, now \in Nat
    PROVE  afterFailover(cr) \in Resources
<1> DEFINE e == [oldPrimary |-> cr.currentPrimary, newPrimary |-> cr.currentSecondary]
           h == Append(cr.history, e)
           t == [never |-> FALSE, at |-> now]
<1>1. e \in FailoverEvents
  BY DEF Resources, FailoverEvents
<1>2. h \in Seq(FailoverEvents)
  <2>1. cr.history \in Seq(FailoverEvents)
    BY DEF Resources
  <2> HIDE DEF e
  <2> QED
    BY <1>1, <2>1
<1>3. t \in FailoverTimes
  BY DEF FailoverTimes
<1>4. afterFailover(cr) =
        [cr EXCEPT !.phase = "Recovering", !.lastFailover = t,
                   !.currentPrimary = cr.currentSecondary,
                   !.currentSecondary = "", !.history = h]
  BY DEF afterFailover, Resources
<1> HIDE DEF h, t
<1> QED
  BY <1>2, <1>3, <1>4 DEF Resources, Phases, Names

-----------------------------------------------------------------------------
(* Type correctness, in the part the handler's steps write and the rest.   *)

LoopType ==
    /\ server \in Resources /\ cache \in Resources /\ local \in Resources
    /\ cacheFresh \in BOOLEAN /\ localFresh \in BOOLEAN
    /\ pc \in Labels /\ seen \in Observations
    /\ disturbances \in 0 .. MaxDisturbances

WorldType ==
    /\ svc \in Selectors /\ svcCache \in Selectors
    /\ up \in [Instances -> Reachability] /\ ready \in [Instances -> BOOLEAN]
    /\ readOnly \in BOOLEAN /\ slave \in SlaveStates /\ slavePos \in Nat
    /\ written \in Nat /\ copied \subseteq Nat /\ own \in Nat
    /\ now \in Nat
    /\ promoted \in Nat

LEMMA TypeParts == TypeOK <=> LoopType /\ WorldType
BY DEF TypeOK, LoopType, WorldType

LEMMA NothingSeenType == NothingSeen \in Observations
BY DEF NothingSeen, Observations, LagValues

LEMMA DisturbType ==
    ASSUME disturbances \in 0 .. MaxDisturbances, Disturb
    PROVE  disturbances' \in 0 .. MaxDisturbances
BY BoundsAssumption DEF Disturb

(* Going on with typed data leaves the handler typed.                      *)
LEMMA ContinueType ==
    ASSUME NEW label \in Labels, NEW cr \in Resources, NEW fresh \in BOOLEAN,
           NEW obs \in Observations, Continue(label, cr, fresh, obs)
    PROVE  pc' \in Labels /\ local' \in Resources /\ localFresh' \in BOOLEAN
           /\ seen' \in Observations
BY NewResourceType, NothingSeenType DEF Continue

LEMMA GoOnType ==
    ASSUME LoopType, NEW label \in Labels, NEW obs \in Observations,
           Continue(label, local, localFresh, obs),
           UNCHANGED <<resource, disturbances>>
    PROVE  LoopType'
<1>1. pc' \in Labels /\ local' \in Resources /\ localFresh' \in BOOLEAN
      /\ seen' \in Observations
  BY ContinueType DEF LoopType
<1> QED
  BY <1>1 DEF LoopType, resource

LEMMA ProceedType ==
    ASSUME LoopType, NEW label \in Labels, Proceed(label)
    PROVE  LoopType'
BY GoOnType DEF Proceed, LoopType

LEMMA FailType ==
    ASSUME LoopType, NEW label \in Labels, Fail(label)
    PROVE  LoopType'
<1>1. Continue(label, local, localFresh, seen) /\ UNCHANGED resource /\ Disturb
  BY DEF Fail
<1>2. pc' \in Labels /\ local' \in Resources /\ localFresh' \in BOOLEAN
      /\ seen' \in Observations
  BY <1>1, ContinueType DEF LoopType
<1> QED
  BY <1>1, <1>2, DisturbType DEF LoopType, resource

(* A request keeps the object, its copies and the handler typed.           *)
LEMMA WriteType ==
    ASSUME LoopType, NEW stored \in Resources, NEW cr \in Resources,
           NEW obs \in Observations, NEW ok \in Labels, NEW fail \in Labels,
           Write(stored, cr, obs, ok, fail)
    PROVE  LoopType'
<1>1. ASSUME Store(stored)
      PROVE  server' \in Resources /\ cache' \in Resources /\ cacheFresh' \in BOOLEAN
  BY <1>1 DEF Store, LoopType
<1>2. CASE Store(stored) /\ Continue(ok, stored, TRUE, obs) /\ UNCHANGED disturbances
  <2>1. pc' \in Labels /\ local' \in Resources /\ localFresh' \in BOOLEAN
        /\ seen' \in Observations
    BY <1>2, ContinueType
  <2> QED
    BY <1>1, <1>2, <2>1 DEF LoopType
<1>3. CASE Continue(fail, cr, FALSE, obs) /\ UNCHANGED <<resource, disturbances>>
  <2>1. pc' \in Labels /\ local' \in Resources /\ localFresh' \in BOOLEAN
        /\ seen' \in Observations
    BY <1>3, ContinueType
  <2> QED
    BY <1>3, <2>1 DEF LoopType, resource
<1>4. CASE Disturb /\ Continue(fail, cr, localFresh, obs) /\ UNCHANGED resource
  <2>1. pc' \in Labels /\ local' \in Resources /\ localFresh' \in BOOLEAN
        /\ seen' \in Observations
    BY <1>4, ContinueType DEF LoopType
  <2> QED
    BY <1>4, <2>1, DisturbType DEF LoopType, resource
<1>5. CASE Disturb /\ Store(stored) /\ Continue(fail, cr, stored = server, obs)
  <2>1. pc' \in Labels /\ local' \in Resources /\ localFresh' \in BOOLEAN
        /\ seen' \in Observations
    BY <1>5, ContinueType DEF LoopType
  <2> QED
    BY <1>1, <1>5, <2>1, DisturbType DEF LoopType
<1> QED
  BY <1>2, <1>3, <1>4, <1>5 DEF Write

LEMMA StatusUpdateType ==
    ASSUME LoopType, NEW cr \in Resources, NEW obs \in Observations,
           NEW ok \in Labels, NEW fail \in Labels, StatusUpdate(cr, obs, ok, fail)
    PROVE  LoopType'
<1>1. server.failCount \in Nat
  BY DEF LoopType, Resources
<1>2. [cr EXCEPT !.failCount = server.failCount] \in Resources
  BY <1>1, CountUpdateType
<1> QED
  BY <1>2, WriteType DEF StatusUpdate

LEMMA UpdateConditionsType ==
    ASSUME LoopType, NEW cr \in Resources, NEW obs \in Observations,
           NEW next \in Labels, UpdateConditions(cr, obs, next)
    PROVE  LoopType'
<1>1. CASE cr = local
  BY <1>1, GoOnType DEF UpdateConditions
<1>2. CASE cr # local
  BY <1>2, StatusUpdateType DEF UpdateConditions
<1> QED
  BY <1>1, <1>2

(* What the steps go on with is typed.                                     *)
LEMMA DispatchType == Dispatch \in Labels
BY DEF Dispatch, PhaseHandler, Labels

LEMMA CheckTypes ==
    ASSUME NEW lag \in Lags
    PROVE  /\ checkPrimary.healthy \in BOOLEAN /\ checkPrimary.err \in BOOLEAN
           /\ checkSecondary(lag).healthy \in BOOLEAN
           /\ checkSecondary(lag).err \in BOOLEAN
           /\ checkSecondary(lag).lag \in LagValues
BY BoundsAssumption
DEF checkPrimary, checkSecondary, executeHealthChecks, checkReplicationStatus, noStatus,
    serving, LagValues

LEMMA InstanceConditionType ==
    ASSUME NEW cr \in Resources, NEW t \in ConditionTypes, NEW check
    PROVE  instanceCondition(cr, t, check) \in Resources
<1>1. conditionStatus(check.healthy) \in ConditionStatus
  BY DEF conditionStatus, ConditionStatus
<1> QED
  BY <1>1, ConditionUpdateType DEF instanceCondition

LEMMA FailCountType ==
    ASSUME NEW b \in BOOLEAN, NEW n \in Nat
    PROVE  primaryFailCount(b, n) \in Nat
BY SpecAssumption DEF primaryFailCount

LEMMA ReconcileType ==
    ASSUME LoopType, WorldType
    PROVE  /\ Start => LoopType' /\ WorldType'
           /\ InitializeStatus => LoopType' /\ WorldType'
           /\ reconcileStatefulSets => LoopType' /\ WorldType'
           /\ reconcileClusterService => LoopType' /\ WorldType'
           /\ reconcileReplication => LoopType' /\ WorldType'
<1> USE DEF service, pods, database, data
<1>1. ASSUME Start PROVE LoopType' /\ WorldType'
  <2>1. "statefulsets" \in Labels
    BY DEF Labels
  <2>2. pc' \in Labels /\ local' \in Resources /\ localFresh' \in BOOLEAN
        /\ seen' \in Observations
    BY <1>1, <2>1, ContinueType, NothingSeenType DEF Start, LoopType
  <2> QED
    BY <1>1, <2>2 DEF Start, LoopType, WorldType, resource
<1>2. ASSUME InitializeStatus PROVE LoopType' /\ WorldType'
  <2>1. [local EXCEPT !.phase = "Initializing"] \in Resources
    BY PhaseUpdateType DEF LoopType, Phases
  <2>2. LoopType'
    BY <1>2, <2>1, StatusUpdateType DEF InitializeStatus, LoopType, Labels
  <2> QED
    BY <1>2, <2>2 DEF InitializeStatus, WorldType
<1>3. ASSUME reconcileStatefulSets PROVE LoopType' /\ WorldType'
  <2>1. [local EXCEPT !.phase = "Running"] \in Resources
    BY PhaseUpdateType DEF LoopType, Phases
  <2>2. "services" \in Labels /\ "idle" \in Labels /\ seen \in Observations
    BY DEF Labels, LoopType
  <2>3. LoopType'
    BY <1>3, <2>1, <2>2, StatusUpdateType, ProceedType DEF reconcileStatefulSets
  <2> QED
    BY <1>3, <2>3 DEF reconcileStatefulSets, WorldType
<1>4. ASSUME reconcileClusterService PROVE LoopType' /\ WorldType'
  <2>1. "idle" \in Labels /\ "replication" \in Labels
    BY DEF Labels
  <2>2. LoopType'
    BY <1>4, <2>1, ProceedType, FailType DEF reconcileClusterService
  <2> QED
    BY <1>4, <2>2 DEF reconcileClusterService, WorldType, Selectors
<1>5. ASSUME reconcileReplication PROVE LoopType' /\ WorldType'
  <2>1. "setupMaster" \in Labels
    BY DEF Labels
  <2>2. LoopType'
    BY <1>5, <2>1, DispatchType, ProceedType DEF reconcileReplication
  <2> QED
    BY <1>5, <2>2 DEF reconcileReplication, WorldType
<1> QED
  BY <1>1, <1>2, <1>3, <1>4, <1>5

LEMMA SetupReplicationType ==
    ASSUME LoopType, WorldType
    PROVE  /\ ReadMasterStatus => LoopType' /\ WorldType'
           /\ StopSlave => LoopType' /\ WorldType'
           /\ ChangeMaster => LoopType' /\ WorldType'
           /\ StartSlave => LoopType' /\ WorldType'
           /\ RecordReplication => LoopType' /\ WorldType'
<1> USE DEF service, pods, database, data
<1>0. /\ "setupStop" \in Labels /\ "setupChange" \in Labels /\ "setupStart" \in Labels
      /\ "recordReplication" \in Labels /\ "idle" \in Labels
  BY DEF Labels
<1>1. ASSUME ReadMasterStatus PROVE LoopType' /\ WorldType'
  <2>1. [seen EXCEPT !.binlogPos = written] \in Observations
    BY DEF LoopType, WorldType, Observations
  <2>2. ASSUME Continue("setupStop", local, localFresh, [seen EXCEPT !.binlogPos = written]),
               UNCHANGED <<resource, disturbances>>
        PROVE  LoopType'
    BY <1>0, <2>1, <2>2, GoOnType DEF LoopType
  <2>3. LoopType'
    BY <1>1, <2>2, DispatchType, ProceedType, FailType DEF ReadMasterStatus
  <2> QED
    BY <1>1, <2>3 DEF ReadMasterStatus, WorldType
<1>2. ASSUME StopSlave PROVE LoopType' /\ WorldType'
  <2>1. LoopType'
    BY <1>0, <1>2, DispatchType, ProceedType, FailType DEF StopSlave
  <2> QED
    BY <1>2, <2>1 DEF StopSlave, WorldType, SlaveStates
<1>3. ASSUME ChangeMaster PROVE LoopType' /\ WorldType'
  <2>1. LoopType'
    BY <1>0, <1>3, DispatchType, ProceedType, FailType DEF ChangeMaster
  <2>2. seen.binlogPos \in Nat
    BY DEF LoopType, Observations
  <2> QED
    BY <1>3, <2>1, <2>2 DEF ChangeMaster, WorldType, SlaveStates
<1>4. ASSUME StartSlave PROVE LoopType' /\ WorldType'
  <2>1. LoopType'
    BY <1>0, <1>4, DispatchType, ProceedType, FailType DEF StartSlave
  <2> QED
    BY <1>4, <2>1 DEF StartSlave, WorldType, SlaveStates
<1>5. ASSUME RecordReplication PROVE LoopType' /\ WorldType'
  <2>1. SetCondition(local, "ReplicationActive", "True") \in Resources
    BY ConditionUpdateType DEF LoopType, ConditionTypes, ConditionStatus
  <2>2. seen \in Observations
    BY DEF LoopType
  <2>3. LoopType'
    BY <1>0, <1>5, <2>1, <2>2, DispatchType, StatusUpdateType DEF RecordReplication
  <2> QED
    BY <1>5, <2>3 DEF RecordReplication, WorldType
<1> QED
  BY <1>1, <1>2, <1>3, <1>4, <1>5

LEMMA CheckHealthType ==
    ASSUME LoopType, WorldType
    PROVE  /\ CheckPrimary => LoopType' /\ WorldType'
           /\ CheckSecondary => LoopType' /\ WorldType'
           /\ CheckReplication => LoopType' /\ WorldType'
           /\ HandlePrimaryFailure => LoopType' /\ WorldType'
           /\ TriggerFailover => LoopType' /\ WorldType'
           /\ RecordPhase => LoopType' /\ WorldType'
           /\ RecordLag => LoopType' /\ WorldType'
<1> USE DEF service, pods, database, data
<1>0. /\ "checkSecondary" \in Labels /\ "checkReplication" \in Labels /\ "decide" \in Labels
      /\ "triggerFailover" \in Labels /\ "recordLag" \in Labels /\ "idle" \in Labels
      /\ local \in Resources /\ seen \in Observations /\ server \in Resources
  BY DEF Labels, LoopType
<1>1. ASSUME CheckPrimary PROVE LoopType' /\ WorldType'
  <2> DEFINE b == instanceHealthy(checkPrimary)
  <2>1. b \in BOOLEAN
    BY DEF instanceHealthy
  <2>2. [seen EXCEPT !.primary = b] \in Observations
    BY <1>0, <2>1 DEF Observations
  <2>3. instanceCondition(local, "PrimaryReady", checkPrimary) \in Resources
    BY <1>0, InstanceConditionType DEF ConditionTypes
  <2>4. LoopType'
    BY <1>0, <1>1, <2>2, <2>3, UpdateConditionsType DEF CheckPrimary
  <2> QED
    BY <1>1, <2>4 DEF CheckPrimary, WorldType
<1>2. ASSUME CheckSecondary PROVE LoopType' /\ WorldType'
  <2>1. PICK lag \in Lags :
          UpdateConditions(instanceCondition(local, "SecondaryReady", checkSecondary(lag)),
              [seen EXCEPT !.secondary = instanceHealthy(checkSecondary(lag)),
                           !.lag = checkSecondary(lag).lag], "checkReplication")
    BY <1>2 DEF CheckSecondary
  <2>2. instanceHealthy(checkSecondary(lag)) \in BOOLEAN
    BY DEF instanceHealthy
  <2>3. [seen EXCEPT !.secondary = instanceHealthy(checkSecondary(lag)),
                     !.lag = checkSecondary(lag).lag] \in Observations
    BY <1>0, <2>2, CheckTypes DEF Observations
  <2>4. instanceCondition(local, "SecondaryReady", checkSecondary(lag)) \in Resources
    BY <1>0, InstanceConditionType DEF ConditionTypes
  <2>5. LoopType'
    BY <1>0, <2>1, <2>3, <2>4, UpdateConditionsType
  <2> QED
    BY <1>2, <2>5 DEF CheckSecondary, WorldType
<1>3. ASSUME CheckReplication PROVE LoopType' /\ WorldType'
  <2> DEFINE s == conditionStatus(replicationActive(seen.secondary, seen.lag))
  <2>1. s \in ConditionStatus
    BY DEF conditionStatus, ConditionStatus
  <2>2. SetCondition(local, "ReplicationActive", s) \in Resources
    BY <1>0, <2>1, ConditionUpdateType DEF ConditionTypes
  <2>3. LoopType'
    BY <1>0, <1>3, <2>2, UpdateConditionsType DEF CheckReplication
  <2> QED
    BY <1>3, <2>3 DEF CheckReplication, WorldType
<1>4. ASSUME HandlePrimaryFailure PROVE LoopType' /\ WorldType'
  <2> DEFINE count == primaryFailCount(FALSE, local.failCount)
             obs == [seen EXCEPT !.count = count]
  <2>1. count \in Nat
    BY <1>0, FailCountType DEF Resources
  <2>2. obs \in Observations
    BY <1>0, <2>1 DEF Observations
  <2>3. [server EXCEPT !.failCount = count] \in Resources
    BY <1>0, <2>1, CountUpdateType
  <2>4. \/ Write([server EXCEPT !.failCount = count], local, obs, "triggerFailover", "idle")
        \/ /\ Continue("triggerFailover", local, localFresh, obs)
           /\ UNCHANGED <<resource, disturbances>>
    BY <1>4 DEF HandlePrimaryFailure
  <2>5. LoopType'
    <3> HIDE DEF count, obs
    <3> QED
      BY <1>0, <2>2, <2>3, <2>4, WriteType, GoOnType
  <2> QED
    BY <1>4, <2>5 DEF HandlePrimaryFailure, WorldType
<1>5. ASSUME TriggerFailover PROVE LoopType' /\ WorldType'
  <2>1. [local EXCEPT !.phase = "Failover"] \in Resources
    BY <1>0, PhaseUpdateType DEF Phases
  <2>2. LoopType'
    BY <1>0, <1>5, <2>1, StatusUpdateType, ProceedType DEF TriggerFailover
  <2> QED
    BY <1>5, <2>2 DEF TriggerFailover, WorldType
<1>6. ASSUME RecordPhase PROVE LoopType' /\ WorldType'
  <2>1. [local EXCEPT !.phase = healthPhase] \in Resources
    BY <1>0, PhaseUpdateType DEF Phases, healthPhase
  <2>2. LoopType'
    BY <1>0, <1>6, <2>1, StatusUpdateType, ProceedType DEF RecordPhase
  <2> QED
    BY <1>6, <2>2 DEF RecordPhase, WorldType
<1>7. ASSUME RecordLag PROVE LoopType' /\ WorldType'
  <2>1. [local EXCEPT !.lag = seen.lag] \in Resources
    BY <1>0, LagUpdateType DEF Observations
  <2>2. LoopType'
    BY <1>0, <1>7, <2>1, StatusUpdateType DEF RecordLag
  <2> QED
    BY <1>7, <2>2 DEF RecordLag, WorldType
<1> QED
  BY <1>1, <1>2, <1>3, <1>4, <1>5, <1>6, <1>7

LEMMA OldPrimaryNameType ==
    ASSUME local \in Resources
    PROVE  oldPrimaryName \in Names
<1>1. local.history \in Seq(FailoverEvents)
  BY DEF Resources
<1>2. local.history # << >> => local.history[Len(local.history)] \in FailoverEvents
  BY <1>1
<1> QED
  BY <1>2 DEF oldPrimaryName, Names, FailoverEvents

LEMMA FailoverType ==
    ASSUME LoopType, WorldType
    PROVE  /\ FailoverCheck => LoopType' /\ WorldType'
           /\ FailoverAbort => LoopType' /\ WorldType'
           /\ FailoverConnect => LoopType' /\ WorldType'
           /\ StopReplication => LoopType' /\ WorldType'
           /\ PromoteSecondaryToPrimary => LoopType' /\ WorldType'
           /\ UpdateServicesAfterFailover => LoopType' /\ WorldType'
           /\ RecordFailover => LoopType' /\ WorldType'
           /\ HandleRecovery => LoopType' /\ WorldType'
<1> USE DEF service, pods, database, data
<1>0. /\ "failoverConnect" \in Labels /\ "failoverAbort" \in Labels
      /\ "failoverStop" \in Labels /\ "failoverPromote" \in Labels
      /\ "failoverService" \in Labels /\ "failoverRecord" \in Labels /\ "idle" \in Labels
      /\ local \in Resources /\ seen \in Observations /\ server \in Resources
  BY DEF Labels, LoopType
<1>1. ASSUME FailoverCheck PROVE LoopType' /\ WorldType'
  <2>1. PICK lag \in Lags :
          UpdateConditions(instanceCondition(local, "SecondaryReady", checkSecondary(lag)), seen,
              IF instanceHealthy(checkSecondary(lag)) THEN "failoverConnect" ELSE "failoverAbort")
    BY <1>1 DEF FailoverCheck
  <2>2. instanceCondition(local, "SecondaryReady", checkSecondary(lag)) \in Resources
    BY <1>0, InstanceConditionType DEF ConditionTypes
  <2>3. LoopType'
    BY <1>0, <2>1, <2>2, UpdateConditionsType
  <2> QED
    BY <1>1, <2>3 DEF FailoverCheck, WorldType
<1>2. ASSUME FailoverAbort PROVE LoopType' /\ WorldType'
  <2>1. [local EXCEPT !.phase = "Failing"] \in Resources
    BY <1>0, PhaseUpdateType DEF Phases
  <2>2. LoopType'
    BY <1>0, <1>2, <2>1, StatusUpdateType DEF FailoverAbort
  <2> QED
    BY <1>2, <2>2 DEF FailoverAbort, WorldType
<1>3. ASSUME FailoverConnect PROVE LoopType' /\ WorldType'
  <2>1. LoopType'
    BY <1>0, <1>3, ProceedType, FailType DEF FailoverConnect
  <2> QED
    BY <1>3, <2>1 DEF FailoverConnect, WorldType
<1>4. ASSUME StopReplication PROVE LoopType' /\ WorldType'
  <2>1. LoopType'
    BY <1>0, <1>4, ProceedType, FailType DEF StopReplication
  <2>2. slave' \in SlaveStates
    BY <1>4 DEF StopReplication, WorldType, SlaveStates
  <2> QED
    BY <1>4, <2>1, <2>2 DEF StopReplication, WorldType
<1>5. ASSUME PromoteSecondaryToPrimary PROVE LoopType' /\ WorldType'
  <2>1. LoopType'
    BY <1>0, <1>5, ProceedType, FailType DEF PromoteSecondaryToPrimary
  <2>2. Len(local.history) \in Nat
    BY <1>0 DEF Resources
  <2>3. readOnly' \in BOOLEAN /\ promoted' \in Nat
    BY <1>5, <2>2, SpecAssumption DEF PromoteSecondaryToPrimary, Promote, WorldType
  <2> QED
    BY <1>5, <2>1, <2>3 DEF PromoteSecondaryToPrimary, WorldType
<1>6. ASSUME UpdateServicesAfterFailover PROVE LoopType' /\ WorldType'
  <2>1. LoopType'
    BY <1>0, <1>6, ProceedType, FailType DEF UpdateServicesAfterFailover
  <2>2. svc' \in Selectors
    BY <1>6 DEF UpdateServicesAfterFailover, WorldType, Selectors
  <2> QED
    BY <1>6, <2>1, <2>2 DEF UpdateServicesAfterFailover, WorldType
<1>7. ASSUME RecordFailover PROVE LoopType' /\ WorldType'
  <2>1. [afterFailover(local) EXCEPT !.failCount = 0] \in Resources
    BY <1>0, FailoverUpdateType, CountUpdateType DEF WorldType
  <2>2. LoopType'
    BY <1>0, <1>7, <2>1, StatusUpdateType DEF RecordFailover
  <2> QED
    BY <1>7, <2>2 DEF RecordFailover, WorldType
<1>8. ASSUME HandleRecovery PROVE LoopType' /\ WorldType'
  <2> DEFINE cr == [local EXCEPT !.currentSecondary = oldPrimaryName, !.phase = "Running"]
  <2>1. oldPrimaryName \in Names
    BY <1>0, OldPrimaryNameType
  <2>2. cr \in Resources
    BY <1>0, <2>1 DEF Resources, Phases
  <2>3. LoopType'
    BY <1>0, <1>8, <2>2, StatusUpdateType, ProceedType DEF HandleRecovery
  <2> QED
    BY <1>8, <2>3 DEF HandleRecovery, WorldType
<1> QED
  BY <1>1, <1>2, <1>3, <1>4, <1>5, <1>6, <1>7, <1>8

LEMMA EnvironmentType ==
    ASSUME LoopType, WorldType, Environment
    PROVE  LoopType' /\ WorldType'
<1> USE DEF resource, handler, service, pods, database, data
<1>1. CASE CacheSync \/ SvcCacheSync \/ Tick \/ Replicate \/ ClientWrite
  <2>1. LoopType'
    BY <1>1 DEF CacheSync, SvcCacheSync, Tick, Replicate, ClientWrite, LoopType
  <2>2. CASE CacheSync \/ SvcCacheSync
    BY <2>1, <2>2 DEF CacheSync, SvcCacheSync, WorldType
  <2>3. CASE Tick
    BY <2>1, <2>3 DEF Tick, WorldType
  <2>4. CASE Replicate
    BY <2>1, <2>4 DEF Replicate, WorldType
  <2>5. CASE ClientWrite
    BY <2>1, <2>5 DEF ClientWrite, WorldType
  <2> QED
    BY <1>1, <2>2, <2>3, <2>4, <2>5
<1>2. CASE Crash
  <2>1. "idle" \in Labels /\ local \in Resources /\ seen \in Observations
    BY DEF Labels, LoopType
  <2>2. pc' \in Labels /\ local' \in Resources /\ localFresh' \in BOOLEAN
        /\ seen' \in Observations
    BY <1>2, <2>1, ContinueType DEF Crash
  <2> QED
    BY <1>2, <2>2, DisturbType DEF Crash, LoopType, WorldType
<1>3. CASE SlaveBreaks
  BY <1>3, DisturbType DEF SlaveBreaks, LoopType, WorldType, SlaveStates
<1>4. CASE UserEdit
  BY <1>4, DisturbType DEF UserEdit, Supersede, LoopType, WorldType
<1>5. CASE AdminNames
  <2>1. server' \in Resources
    BY <1>5 DEF AdminNames, Supersede, LoopType, Resources, Names, PodName
  <2> QED
    BY <1>5, <2>1 DEF AdminNames, Supersede, LoopType, WorldType
<1>6. CASE ManualFailover
  <2>1. SetCondition(server, "SecondaryReady", "True") \in Resources
    BY ConditionUpdateType DEF LoopType, ConditionTypes, ConditionStatus
  <2>2. server' \in Resources
    BY <1>6, <2>1, PhaseUpdateType DEF ManualFailover, Supersede, Phases
  <2> QED
    BY <1>6, <2>2, DisturbType DEF ManualFailover, Supersede, LoopType, WorldType
<1>7. ASSUME NEW i \in Instances, ReadySync(i) \/ InstanceFails(i) \/ InstanceReturns(i)
      PROVE  LoopType' /\ WorldType'
  <2>1. CASE ReadySync(i)
    BY <2>1 DEF ReadySync, LoopType, WorldType, serving
  <2>2. CASE InstanceFails(i)
    <3>1. up' \in [Instances -> Reachability]
      BY <2>2 DEF InstanceFails, WorldType, Reachability
    <3> QED
      BY <2>2, <3>1, DisturbType DEF InstanceFails, LoopType, WorldType
  <2>3. CASE InstanceReturns(i)
    <3>1. up' \in [Instances -> Reachability] /\ readOnly' \in BOOLEAN /\ slave' \in SlaveStates
      BY <2>3 DEF InstanceReturns, WorldType, Reachability, SlaveStates
    <3> QED
      BY <2>3, <3>1 DEF InstanceReturns, LoopType, WorldType
  <2> QED
    BY <1>7, <2>1, <2>2, <2>3
<1> QED
  BY <1>1, <1>2, <1>3, <1>4, <1>5, <1>6, <1>7 DEF Environment

LEMMA StutterType ==
    ASSUME TypeOK, UNCHANGED vars
    PROVE  TypeOK'
BY DEF TypeOK, vars, resource, handler, service, pods, database, data

LEMMA InitType == Init => TypeOK
<1> SUFFICES ASSUME Init PROVE TypeOK
  OBVIOUS
<1>1. LoopType
  <2>1. 0 \in 0 .. MaxDisturbances
    BY BoundsAssumption
  <2>2. "idle" \in Labels
    BY DEF Labels
  <2> QED
    BY <2>1, <2>2, NewResourceType, NothingSeenType DEF Init, LoopType
<1>2. WorldType
  BY DEF Init, WorldType, Selectors, Reachability, SlaveStates
<1> QED
  BY <1>1, <1>2, TypeParts

LEMMA NextType ==
    ASSUME TypeOK, [Next]_vars
    PROVE  TypeOK'
<1>1. LoopType /\ WorldType
  BY TypeParts
<1>2. CASE Handler
  <2>1. LoopType' /\ WorldType'
    BY <1>1, <1>2, ReconcileType, SetupReplicationType, CheckHealthType, FailoverType
    DEF Handler
  <2> QED
    BY <2>1 DEF TypeOK, LoopType, WorldType
<1>3. CASE Environment
  <2>1. LoopType' /\ WorldType'
    BY <1>1, <1>3, EnvironmentType
  <2> QED
    BY <2>1 DEF TypeOK, LoopType, WorldType
<1> QED
  BY <1>2, <1>3, StutterType DEF Next

(* The loop is type-correct: every object it stores or holds is one of the *)
(* API's, whatever step it is interrupted at.                              *)
THEOREM TypeCorrect == Spec => []TypeOK
<1>1. TypeOK /\ [Next]_vars => TypeOK'
  BY NextType
<1> QED
  BY <1>1, InitType, PTL DEF Spec
=============================================================================
