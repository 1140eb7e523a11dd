---------------------------- MODULE LifecycleProofs ----------------------------
(***************************************************************************)
(* The loop implements PhaseLifecycle, its history of failovers is         *)
(* append-only, the status shows every promotion, failovers keep their     *)
(* interval and no update of the pod names is lost, for every value of the *)
(* constants: all of it follows from what one step may do to the stored    *)
(* object under the inductive invariant.                                   *)
(***************************************************************************)
EXTENDS ReconcilerProofs

-----------------------------------------------------------------------------
(* What a step of the handler may do to the stored object.                 *)

PhaseMove(from, to) ==
    /\ server.phase \in from
    /\ Agree([server EXCEPT !.phase = to], server')

FailoverRecorded ==
    /\ server.phase = "Failover"
    /\ Agree(afterFailover(server), server')

Recovered ==
    /\ server.phase = "Recovering"
    /\ Agree([server EXCEPT !.phase = "Running",
                            !.currentSecondary = server.history[Len(server.history)].oldPrimary],
             server')

HandlerEffect ==
    \/ Agree(server, server')
    \/ PhaseMove({""}, "Initializing")
    \/ PhaseMove({"Initializing"}, "Running")
    \/ PhaseMove({"Running"}, "Degraded")
    \/ PhaseMove({"Degraded"}, "Running")
    \/ PhaseMove({"Running", "Degraded"}, "Failover")
       /\ intervalElapsed(server.lastFailover, now)
    \/ PhaseMove({"Failover"}, "Failing")
    \/ FailoverRecorded
    \/ Recovered

(* A status update is refused, or its object agreed with the stored one    *)
(* before the handler changed it and is what is stored after it.           *)
LEMMA StatusUpdateEffect ==
    ASSUME Inv, NEW cr \in Resources, NEW obs, NEW ok, NEW fail,
           StatusUpdate(cr, obs, ok, fail)
    PROVE  server' = server \/ (Agree(local, server) /\ Agree(cr, server'))
<1>1. Agree(cr, [cr EXCEPT !.failCount = server.failCount])
  BY StoredStatus
<1>2. server' = server \/ (localFresh /\ server' = [cr EXCEPT !.failCount = server.failCount])
  BY DEF StatusUpdate, Write, Store, resource
<1> QED
  BY <1>1, <1>2 DEF Inv, FreshCopiesAgree

LEMMA UnchangedEffect ==
    ASSUME server' = server
    PROVE  HandlerEffect
BY DEF HandlerEffect, Agree

(* A status update of nothing but the phase moves the stored phase.        *)
LEMMA PhaseUpdateEffect ==
    ASSUME Inv, TypeOK, NEW p \in Phases, NEW obs, NEW ok, NEW fail,
           StatusUpdate([local EXCEPT !.phase = p], obs, ok, fail)
    PROVE  server' = server
           \/ (Agree(local, server) /\ Agree([server EXCEPT !.phase = p], server'))
<1>1. local \in Resources /\ server \in Resources
  BY DEF TypeOK
<1>2. [local EXCEPT !.phase = p] \in Resources
  BY <1>1, PhaseUpdateType
<1>3. server' = server
      \/ (Agree(local, server) /\ Agree([local EXCEPT !.phase = p], server'))
  BY <1>2, StatusUpdateEffect
<1>4. Agree(local, server) =>
        Agree([server EXCEPT !.phase = p], [local EXCEPT !.phase = p])
  BY <1>1 DEF Agree, Resources
<1> QED
  BY <1>3, <1>4 DEF Agree

LEMMA UpdateConditionsEffect ==
    ASSUME Inv, NEW cr \in Resources, Agree(cr, local), NEW obs, NEW next,
           UpdateConditions(cr, obs, next)
    PROVE  HandlerEffect
<1>1. server' = server \/ (Agree(local, server) /\ Agree(cr, server'))
  BY StatusUpdateEffect DEF UpdateConditions, resource
<1> QED
  BY <1>1, UnchangedEffect DEF HandlerEffect, Agree

LEMMA HandlerStep ==
    ASSUME Inv, TypeOK, Handler
    PROVE  HandlerEffect /\ UNCHANGED now
<1>0. local \in Resources /\ server \in Resources
  BY DEF TypeOK
<1>1. CASE Start \/ reconcileClusterService \/ reconcileReplication \/ ReadMasterStatus
           \/ StopSlave \/ ChangeMaster \/ StartSlave \/ FailoverConnect
           \/ StopReplication \/ PromoteSecondaryToPrimary \/ UpdateServicesAfterFailover
  BY <1>1, UnchangedEffect
  DEF Start, reconcileClusterService, reconcileReplication, ReadMasterStatus, StopSlave,
      ChangeMaster, StartSlave, FailoverConnect, StopReplication,
      PromoteSecondaryToPrimary, UpdateServicesAfterFailover, Proceed, Fail, resource
<1>2. CASE InitializeStatus
  <2>1. server' = server \/ (Agree(local, server)
                             /\ Agree([server EXCEPT !.phase = "Initializing"], server'))
    BY <1>2, PhaseUpdateEffect DEF InitializeStatus, Phases
  <2> QED
    BY <1>2, <2>1, UnchangedEffect
    DEF InitializeStatus, HandlerEffect, PhaseMove, Agree
<1>3. CASE reconcileStatefulSets
  <2>1. server' = server \/ (Agree(local, server) /\ local.phase = "Initializing"
                             /\ Agree([server EXCEPT !.phase = "Running"], server'))
    BY <1>3, PhaseUpdateEffect DEF reconcileStatefulSets, Phases, Proceed, resource
  <2> QED
    BY <1>3, <2>1, UnchangedEffect
    DEF reconcileStatefulSets, HandlerEffect, PhaseMove, Agree
<1>4. CASE RecordReplication
  <2> DEFINE cr == SetCondition(local, "ReplicationActive", "True")
  <2>1. cr \in Resources /\ Agree(cr, local)
    BY <1>0, ConditionUpdateType, ConditionsAgree DEF ConditionTypes, ConditionStatus
  <2>2. server' = server \/ (Agree(local, server) /\ Agree(cr, server'))
    BY <1>4, <2>1, StatusUpdateEffect DEF RecordReplication
  <2> HIDE DEF cr
  <2>3. HandlerEffect
    BY <2>1, <2>2, UnchangedEffect DEF HandlerEffect, Agree
  <2> QED
    BY <1>4, <2>3 DEF RecordReplication
<1>a. ASSUME NEW t \in ConditionTypes, NEW check
      PROVE  /\ instanceCondition(local, t, check) \in Resources
             /\ Agree(instanceCondition(local, t, check), local)
  BY <1>0, InstanceConditionType, ConditionsAgree DEF instanceCondition, Agree
<1>5. CASE CheckPrimary
  BY <1>5, <1>a, UpdateConditionsEffect DEF CheckPrimary, ConditionTypes
<1>6. CASE CheckSecondary
  <2>1. PICK lag \in Lags :
          UpdateConditions(instanceCondition(local, "SecondaryReady", checkSecondary(lag)),
              [seen EXCEPT !.secondary = instanceHealthy(checkSecondary(lag)),
                           !.lag = checkSecondary(lag).lag], "checkReplication")
    BY <1>6 DEF CheckSecondary
  <2> QED
    BY <1>6, <1>a, <2>1, UpdateConditionsEffect DEF CheckSecondary, ConditionTypes
<1>7. CASE CheckReplication
  <2> DEFINE s == conditionStatus(replicationActive(seen.secondary, seen.lag))
  <2>1. s \in ConditionStatus
    BY DEF conditionStatus, ConditionStatus
  <2>2. /\ SetCondition(local, "ReplicationActive", s) \in Resources
        /\ Agree(SetCondition(local, "ReplicationActive", s), local)
    BY <1>0, <2>1, ConditionUpdateType, ConditionsAgree DEF ConditionTypes
  <2> QED
    BY <1>7, <2>2, UpdateConditionsEffect DEF CheckReplication
<1>8. CASE HandlePrimaryFailure
  <2> DEFINE count == primaryFailCount(FALSE, local.failCount)
  <2>1. Agree(server, [server EXCEPT !.failCount = count])
    BY <1>0, StoredStatus
  <2>2. server' = server \/ server' = [server EXCEPT !.failCount = count]
    BY <1>8 DEF HandlePrimaryFailure, Write, Store, resource
  <2> QED
    BY <1>8, <2>1, <2>2, UnchangedEffect DEF HandlerEffect, HandlePrimaryFailure
<1>9. CASE TriggerFailover
  <2>1. server' = server
        \/ (/\ Agree(local, server) /\ isFailoverAllowed(local, now)
            /\ Agree([server EXCEPT !.phase = "Failover"], server'))
    BY <1>9, PhaseUpdateEffect
    DEF TriggerFailover, Phases, Proceed, resource, shouldFailover
  <2>2. local.phase \in {"Running", "Degraded"}
    BY <1>9, LabelPhase DEF TriggerFailover, HealthLabels
  <2> QED
    BY <1>9, <2>1, <2>2, UnchangedEffect
    DEF TriggerFailover, HandlerEffect, PhaseMove, Agree, isFailoverAllowed
<1>10. CASE RecordPhase
  <2>1. healthPhase \in {"Running", "Degraded"} /\ healthPhase \in Phases
    BY DEF healthPhase, Phases
  <2>2. server' = server
        \/ (/\ Agree(local, server) /\ local.phase # healthPhase
            /\ Agree([server EXCEPT !.phase = healthPhase], server'))
    BY <1>10, <2>1, PhaseUpdateEffect DEF RecordPhase, Proceed, resource
  <2>3. local.phase \in {"Running", "Degraded"}
    BY <1>10, LabelPhase DEF RecordPhase, HealthLabels
  <2> QED
    BY <1>10, <2>1, <2>2, <2>3, UnchangedEffect
    DEF RecordPhase, HandlerEffect, PhaseMove, Agree
<1>11. CASE RecordLag
  <2> DEFINE cr == [local EXCEPT !.lag = seen.lag]
  <2>1. cr \in Resources
    BY <1>0, LagUpdateType DEF TypeOK, Observations
  <2>2. Agree(cr, local)
    BY <1>0 DEF Agree, Resources
  <2>3. server' = server \/ (Agree(local, server) /\ Agree(cr, server'))
    BY <1>11, <2>1, StatusUpdateEffect DEF RecordLag
  <2> HIDE DEF cr
  <2>4. HandlerEffect
    BY <2>2, <2>3, UnchangedEffect DEF HandlerEffect, Agree
  <2> QED
    BY <1>11, <2>4 DEF RecordLag
<1>12. CASE FailoverCheck
  <2>1. PICK lag \in Lags :
          UpdateConditions(instanceCondition(local, "SecondaryReady", checkSecondary(lag)), seen,
              IF instanceHealthy(checkSecondary(lag)) THEN "failoverConnect" ELSE "failoverAbort")
    BY <1>12 DEF FailoverCheck
  <2> QED
    BY <1>12, <1>a, <2>1, UpdateConditionsEffect DEF FailoverCheck, ConditionTypes
<1>13. CASE FailoverAbort
  <2>1. server' = server \/ (Agree(local, server)
                             /\ Agree([server EXCEPT !.phase = "Failing"], server'))
    BY <1>13, PhaseUpdateEffect DEF FailoverAbort, Phases
  <2>2. local.phase = "Failover"
    BY <1>13, LabelPhase DEF FailoverAbort, FailoverLabels
  <2> QED
    BY <1>13, <2>1, <2>2, UnchangedEffect
    DEF FailoverAbort, HandlerEffect, PhaseMove, Agree
<1>14. CASE RecordFailover
  <2> DEFINE cr == [afterFailover(local) EXCEPT !.failCount = 0]
  <2>1. afterFailover(local) \in Resources
    BY <1>0, FailoverUpdateType DEF TypeOK
  <2>2. cr \in Resources /\ Agree(afterFailover(local), cr)
    BY <2>1, CountUpdateType, StoredStatus
  <2>3. server' = server \/ (Agree(local, server) /\ Agree(cr, server'))
    BY <1>14, <2>2, StatusUpdateEffect DEF RecordFailover
  <2>4. Agree(local, server) => Agree(afterFailover(local), afterFailover(server))
    BY <1>0 DEF Agree, afterFailover, Resources
  <2>5. local.phase = "Failover"
    BY <1>14, LabelPhase DEF RecordFailover, FailoverLabels
  <2> HIDE DEF cr
  <2>6. HandlerEffect
    BY <2>2, <2>3, <2>4, <2>5, UnchangedEffect DEF HandlerEffect, FailoverRecorded, Agree
  <2> QED
    BY <1>14, <2>6 DEF RecordFailover
<1>15. CASE HandleRecovery
  <2> DEFINE cr == [local EXCEPT !.currentSecondary = oldPrimaryName, !.phase = "Running"]
  <2>1. cr \in Resources
    BY <1>0, OldPrimaryNameType DEF Resources, Phases
  <2>2. oldPrimaryMayAnswer => oldPrimaryName = local.history[Len(local.history)].oldPrimary
    BY DEF oldPrimaryMayAnswer, oldPrimaryName, PodName
  <2>3. server' = server
        \/ (oldPrimaryMayAnswer /\ Agree(local, server) /\ Agree(cr, server'))
    BY <1>15, <2>1, StatusUpdateEffect DEF HandleRecovery, Proceed, resource
  <2>4. local.phase = "Recovering"
    BY <1>15, LabelPhase DEF HandleRecovery
  <2>5. ASSUME oldPrimaryMayAnswer, Agree(local, server), Agree(cr, server') PROVE Recovered
    BY <1>0, <2>2, <2>4, <2>5 DEF Recovered, Agree, Resources
  <2>6. HandlerEffect
    BY <2>3, <2>5, UnchangedEffect DEF HandlerEffect
  <2> QED
    BY <1>15, <2>6 DEF HandleRecovery
<1> QED
  BY <1>1, <1>2, <1>3, <1>4, <1>5, <1>6, <1>7, <1>8, <1>9, <1>10, <1>11, <1>12, <1>13,
     <1>14, <1>15 DEF Handler

-----------------------------------------------------------------------------
(* What a step of the handler leaves as it was: it makes no stale copy of  *)
(* the informer fresh, and takes no promotion back.                        *)

LEMMA HandlerKeeps ==
    ASSUME TypeOK, Handler
    PROVE  promoted' >= promoted /\ (cacheFresh' => cacheFresh)
<1>0. promoted \in Nat /\ Len(local.history) \in Nat
  BY DEF TypeOK, Resources
<1>1. ASSUME NEW stored, NEW cr, NEW obs, NEW ok, NEW fail,
             Write(stored, cr, obs, ok, fail)
      PROVE  cacheFresh' => cacheFresh
  BY <1>1 DEF Write, Store, resource
<1>2. ASSUME NEW label, Proceed(label) \/ Fail(label) PROVE cacheFresh' => cacheFresh
  BY <1>2 DEF Proceed, Fail, resource
<1>3. ASSUME NEW cr, NEW obs, NEW ok, NEW fail, StatusUpdate(cr, obs, ok, fail)
      PROVE  cacheFresh' => cacheFresh
  BY <1>1, <1>3 DEF StatusUpdate
<1>4. ASSUME NEW cr, NEW obs, NEW next, UpdateConditions(cr, obs, next)
      PROVE  cacheFresh' => cacheFresh
  BY <1>3, <1>4 DEF UpdateConditions, resource
<1>5. CASE Start \/ InitializeStatus \/ reconcileStatefulSets
           \/ reconcileClusterService \/ reconcileReplication
  <2>1. UNCHANGED promoted
    BY <1>5 DEF Start, InitializeStatus, reconcileStatefulSets, reconcileClusterService,
                reconcileReplication
  <2>2. CASE Start
    BY <1>0, <2>1, <2>2 DEF Start, resource
  <2>3. CASE InitializeStatus
    <3>1. StatusUpdate([local EXCEPT !.phase = "Initializing"], seen, "idle", "idle")
      BY <2>3 DEF InitializeStatus
    <3> QED
      BY <1>0, <1>3, <2>1, <3>1
  <2>4. CASE reconcileStatefulSets
    <3>1. StatusUpdate([local EXCEPT !.phase = "Running"], seen, "services", "idle")
          \/ Proceed("services")
      BY <2>4 DEF reconcileStatefulSets
    <3> QED
      BY <1>0, <1>2, <1>3, <2>1, <3>1
  <2>5. CASE reconcileClusterService \/ reconcileReplication
    BY <1>0, <1>2, <2>1, <2>5 DEF reconcileClusterService, reconcileReplication
  <2> QED
    BY <1>5, <2>2, <2>3, <2>4, <2>5
<1>6. CASE ReadMasterStatus \/ StopSlave \/ ChangeMaster \/ StartSlave \/ RecordReplication
  BY <1>0, <1>2, <1>3, <1>6
  DEF ReadMasterStatus, StopSlave, ChangeMaster, StartSlave, RecordReplication, resource
<1>7. CASE CheckPrimary \/ CheckSecondary \/ CheckReplication \/ FailoverCheck
  <2>1. UNCHANGED promoted
    BY <1>7 DEF CheckPrimary, CheckSecondary, CheckReplication, FailoverCheck
  <2>2. \E cr, obs, next : UpdateConditions(cr, obs, next)
    BY <1>7 DEF CheckPrimary, CheckSecondary, CheckReplication, FailoverCheck
  <2> QED
    BY <1>0, <1>4, <2>1, <2>2
<1>8. CASE HandlePrimaryFailure \/ TriggerFailover \/ RecordPhase \/ RecordLag
  BY <1>0, <1>1, <1>2, <1>3, <1>8
  DEF HandlePrimaryFailure, TriggerFailover, RecordPhase, RecordLag, resource
<1>9. CASE FailoverAbort \/ FailoverConnect \/ StopReplication
           \/ UpdateServicesAfterFailover \/ RecordFailover \/ HandleRecovery
  BY <1>0, <1>2, <1>3, <1>9
  DEF FailoverAbort, FailoverConnect, StopReplication, UpdateServicesAfterFailover,
      RecordFailover, HandleRecovery
<1>10. CASE PromoteSecondaryToPrimary
  <2>1. cacheFresh' => cacheFresh
    BY <1>2, <1>10 DEF PromoteSecondaryToPrimary
  <2>2. promoted' >= promoted
    BY <1>0, <1>10 DEF PromoteSecondaryToPrimary, Promote
  <2> QED
    BY <2>1, <2>2
<1> QED
  BY <1>5, <1>6, <1>7, <1>8, <1>9, <1>10 DEF Handler

(* Only a handler promotes.                                                *)
LEMMA EnvironmentKeeps ==
    ASSUME Environment
    PROVE  UNCHANGED promoted
BY DEF Environment, CacheSync, SvcCacheSync, Crash, SlaveBreaks, ClientWrite, Replicate, Tick,
       UserEdit, AdminNames, ManualFailover, ReadySync, InstanceFails, InstanceReturns

-----------------------------------------------------------------------------
(* What a step of the environment may do to it.                            *)

NamesFilledIn ==
    /\ server.currentPrimary = "" /\ server.currentSecondary = ""
    /\ server'.phase = server.phase
    /\ server'.history = server.history
    /\ server'.lastFailover = server.lastFailover

StartedByHand ==
    /\ PhaseMove({"", "Initializing", "Running", "Degraded", "Failing"}, "Failover")
    /\ intervalElapsed(server.lastFailover, now)

LEMMA EnvironmentStep ==
    ASSUME TypeOK, Environment
    PROVE  \/ server' = server /\ UNCHANGED now
           \/ server' = server /\ now' = now + 1
           \/ NamesFilledIn /\ UNCHANGED now
           \/ StartedByHand /\ UNCHANGED now
<1>0. server \in Resources
  BY DEF TypeOK
<1>1. CASE CacheSync \/ SvcCacheSync \/ Crash \/ SlaveBreaks \/ ClientWrite \/ Replicate
           \/ UserEdit
  BY <1>1 DEF CacheSync, SvcCacheSync, Crash, SlaveBreaks, ClientWrite, Replicate,
              UserEdit, Supersede, resource
<1>2. CASE Tick
  BY <1>2 DEF Tick, resource
<1>3. CASE AdminNames
  BY <1>0, <1>3 DEF AdminNames, Supersede, NamesFilledIn, Resources
<1>4. CASE ManualFailover
  <2> DEFINE cr == SetCondition(server, "SecondaryReady", "True")
  <2>1. cr \in Resources /\ Agree(cr, server)
    BY <1>0, ConditionUpdateType, ConditionsAgree DEF ConditionTypes, ConditionStatus
  <2>2. server' = [cr EXCEPT !.phase = "Failover"]
    BY <1>4 DEF ManualFailover, Supersede
  <2> HIDE DEF cr
  <2>3. Agree([server EXCEPT !.phase = "Failover"], server')
    BY <1>0, <2>1, <2>2 DEF Agree, Resources
  <2>4. server.phase \in {"", "Initializing", "Running", "Degraded", "Failing"}
    BY <1>0, <1>4 DEF ManualFailover, failoverInProgress, Resources, Phases
  <2> QED
    BY <1>4, <2>3, <2>4 DEF ManualFailover, StartedByHand, PhaseMove
<1>5. CASE \E i \in Instances : ReadySync(i) \/ InstanceFails(i) \/ InstanceReturns(i)
  BY <1>5 DEF ReadySync, InstanceFails, InstanceReturns, resource
<1> QED
  BY <1>1, <1>2, <1>3, <1>4, <1>5 DEF Environment

-----------------------------------------------------------------------------
(* The refinement.                                                         *)

LEMMA LifecycleInitially == Init => Lifecycle!LifecycleInit
<1> SUFFICES ASSUME Init PROVE Lifecycle!LifecycleInit
  OBVIOUS
<1>1. /\ server.phase = ""
      /\ server.history = << >>
      /\ server.lastFailover = [never |-> TRUE, at |-> 0]
  BY DEF Init, NewResource, NeverFailedOver
<1>2. now = 0
  BY DEF Init
<1>3. Len(server.history) = 0
  <2>1. Len(<< >>) = 0
    OBVIOUS
  <2> QED
    BY <1>1, <2>1, Zenon
<1> QED
  BY <1>1, <1>2, <1>3 DEF Lifecycle!LifecycleInit

LEMMA PhaseMoveMaps ==
    ASSUME TypeOK, NEW from, NEW to, PhaseMove(from, to), UNCHANGED now
    PROVE  Lifecycle!Move(from, to)
BY DEF TypeOK, Resources, PhaseMove, Agree, Lifecycle!Move

LEMMA RecordMaps ==
    ASSUME TypeOK, FailoverRecorded, UNCHANGED now
    PROVE  Lifecycle!CompleteFailover
<1>1. server \in Resources /\ server.history \in Seq(FailoverEvents)
  BY DEF TypeOK, Resources
<1>2. PICK e \in FailoverEvents : afterFailover(server).history = Append(server.history, e)
  <2> DEFINE e == [oldPrimary |-> server.currentPrimary, newPrimary |-> server.currentSecondary]
  <2>1. e \in FailoverEvents
    BY <1>1 DEF Resources, FailoverEvents
  <2>2. afterFailover(server).history = Append(server.history, e)
    BY <1>1 DEF afterFailover, Resources
  <2> QED
    BY <2>1, <2>2
<1>3. Len(server'.history) = Len(server.history) + 1
  BY <1>1, <1>2 DEF FailoverRecorded, Agree
<1>4. /\ server'.phase = "Recovering"
      /\ server'.lastFailover = [never |-> FALSE, at |-> now]
  BY <1>1 DEF FailoverRecorded, Agree, afterFailover, Resources
<1> QED
  BY <1>3, <1>4 DEF FailoverRecorded, Lifecycle!CompleteFailover

LEMMA RecoveredMaps ==
    ASSUME TypeOK, Recovered, UNCHANGED now
    PROVE  Lifecycle!Recover
BY DEF TypeOK, Resources, Recovered, Agree, Lifecycle!Recover, Lifecycle!Move

LEMMA StutterMaps ==
    ASSUME server'.phase = server.phase, server'.history = server.history,
           server'.lastFailover = server.lastFailover, UNCHANGED now
    PROVE  UNCHANGED Lifecycle!lifecycle
BY DEF Lifecycle!lifecycle

LEMMA HandlerMaps ==
    ASSUME TypeOK, HandlerEffect, UNCHANGED now
    PROVE  [Lifecycle!LifecycleNext]_(Lifecycle!lifecycle)
<1>1. CASE Agree(server, server')
  BY <1>1, StutterMaps DEF Agree
<1>2. CASE PhaseMove({""}, "Initializing")
  BY <1>2, PhaseMoveMaps DEF Lifecycle!LifecycleNext, Lifecycle!Initialize
<1>3. CASE PhaseMove({"Initializing"}, "Running")
  BY <1>3, PhaseMoveMaps DEF Lifecycle!LifecycleNext, Lifecycle!BecomeReady
<1>4. CASE PhaseMove({"Running"}, "Degraded")
  BY <1>4, PhaseMoveMaps DEF Lifecycle!LifecycleNext, Lifecycle!Degrade
<1>5. CASE PhaseMove({"Degraded"}, "Running")
  BY <1>5, PhaseMoveMaps DEF Lifecycle!LifecycleNext, Lifecycle!Heal
<1>6. CASE PhaseMove({"Running", "Degraded"}, "Failover")
           /\ intervalElapsed(server.lastFailover, now)
  <2>1. PhaseMove({"", "Initializing", "Running", "Degraded", "Failing"}, "Failover")
    BY <1>6 DEF PhaseMove
  <2> QED
    BY <1>6, <2>1, PhaseMoveMaps
    DEF intervalElapsed, Lifecycle!LifecycleNext, Lifecycle!StartFailover
<1>7. CASE PhaseMove({"Failover"}, "Failing")
  BY <1>7, PhaseMoveMaps DEF Lifecycle!LifecycleNext, Lifecycle!AbortFailover
<1>8. CASE FailoverRecorded
  BY <1>8, RecordMaps DEF Lifecycle!LifecycleNext
<1>9. CASE Recovered
  BY <1>9, RecoveredMaps DEF Lifecycle!LifecycleNext
<1> QED
  BY <1>1, <1>2, <1>3, <1>4, <1>5, <1>6, <1>7, <1>8, <1>9 DEF HandlerEffect

LEMMA EnvironmentMaps ==
    ASSUME TypeOK, Environment
    PROVE  [Lifecycle!LifecycleNext]_(Lifecycle!lifecycle)
<1>1. CASE server' = server /\ UNCHANGED now
  BY <1>1, StutterMaps
<1>2. CASE server' = server /\ now' = now + 1
  BY <1>2 DEF Lifecycle!LifecycleNext, Lifecycle!Pass
<1>3. CASE NamesFilledIn /\ UNCHANGED now
  BY <1>3, StutterMaps DEF NamesFilledIn
<1>4. CASE StartedByHand /\ UNCHANGED now
  BY <1>4, PhaseMoveMaps
  DEF StartedByHand, intervalElapsed, Lifecycle!LifecycleNext, Lifecycle!StartFailover
<1> QED
  BY <1>1, <1>2, <1>3, <1>4, EnvironmentStep

LEMMA NextMaps ==
    ASSUME TypeOK, Inv, [Next]_vars
    PROVE  [Lifecycle!LifecycleNext]_(Lifecycle!lifecycle)
<1>1. CASE Handler
  BY <1>1, HandlerStep, HandlerMaps
<1>2. CASE Environment
  BY <1>2, EnvironmentMaps
<1>3. CASE UNCHANGED vars
  BY <1>3, StutterMaps DEF vars, resource
<1> QED
  BY <1>1, <1>2, <1>3 DEF Next

(* The stored status follows PhaseLifecycle, through every interleaving of *)
(* the loop with failures, stale copies and other clients.                 *)
THEOREM Refinement == Spec => RefinesLifecycle
<1>1. TypeOK /\ Inv /\ [Next]_vars => [Lifecycle!LifecycleNext]_(Lifecycle!lifecycle)
  BY NextMaps
<1> QED
  BY <1>1, LifecycleInitially, TypeCorrect, Invariance, PTL
  DEF Spec, RefinesLifecycle, Lifecycle!LifecycleSpec

-----------------------------------------------------------------------------
(* Properties of one step of the stored object.                            *)

LEMMA RecordAppends ==
    ASSUME TypeOK, FailoverRecorded
    PROVE  /\ server'.phase = "Recovering"
           /\ \E e \in FailoverEvents : server'.history = Append(server.history, e)
           /\ Len(server'.history) = Len(server.history) + 1
           /\ server'.currentPrimary = server.currentSecondary
<1>1. server \in Resources /\ server.history \in Seq(FailoverEvents)
  BY DEF TypeOK, Resources
<1> DEFINE e == [oldPrimary |-> server.currentPrimary, newPrimary |-> server.currentSecondary]
<1>2. e \in FailoverEvents
  BY <1>1 DEF Resources, FailoverEvents
<1>3. server'.history = Append(server.history, e)
  BY <1>1 DEF FailoverRecorded, Agree, afterFailover, Resources
<1>4. server'.phase = "Recovering" /\ server'.currentPrimary = server.currentSecondary
  BY <1>1 DEF FailoverRecorded, Agree, afterFailover, Resources
<1> HIDE DEF e
<1>5. Len(server'.history) = Len(server.history) + 1
  BY <1>1, <1>2, <1>3
<1> QED
  BY <1>2, <1>3, <1>4, <1>5

HistoryStep ==
    \/ server'.history = server.history
    \/ /\ server.phase = "Failover" /\ server'.phase = "Recovering"
       /\ \E e \in FailoverEvents : server'.history = Append(server.history, e)

NamesStep ==
    \/ /\ server'.currentPrimary = server.currentPrimary
       /\ server'.currentSecondary = server.currentSecondary
    \/ server.currentPrimary = "" /\ server.currentSecondary = ""
    \/ /\ Len(server'.history) = Len(server.history) + 1
       /\ server'.currentPrimary = server.currentSecondary
    \/ /\ server.phase = "Recovering" /\ server'.phase = "Running"
       /\ server'.currentPrimary = server.currentPrimary
       /\ server'.currentSecondary = server.history[Len(server.history)].oldPrimary

LEMMA ObjectStep ==
    ASSUME TypeOK, Inv, [Next]_vars
    PROVE  HistoryStep /\ NamesStep
<1>0. server \in Resources
  BY DEF TypeOK
<1>1. ASSUME NEW from, NEW to, PhaseMove(from, to) PROVE HistoryStep /\ NamesStep
  BY <1>0, <1>1 DEF PhaseMove, Agree, Resources, HistoryStep, NamesStep
<1>2. ASSUME Agree(server, server') PROVE HistoryStep /\ NamesStep
  BY <1>2 DEF Agree, HistoryStep, NamesStep
<1>3. CASE Handler
  <2>1. CASE FailoverRecorded
    BY <2>1, RecordAppends DEF FailoverRecorded, HistoryStep, NamesStep
  <2>2. CASE Recovered
    BY <1>0, <2>2 DEF Recovered, Agree, Resources, HistoryStep, NamesStep
  <2> QED
    BY <1>1, <1>2, <1>3, <2>1, <2>2, HandlerStep DEF HandlerEffect
<1>4. CASE Environment
  BY <1>1, <1>2, <1>4, EnvironmentStep
  DEF NamesFilledIn, StartedByHand, HistoryStep, NamesStep
<1>5. CASE UNCHANGED vars
  BY <1>2, <1>5 DEF vars, resource, Agree
<1> QED
  BY <1>3, <1>4, <1>5 DEF Next

(* No update erases or repeats an event of the history, and one is added   *)
(* only by the write that ends a failover.                                 *)
THEOREM HistoryGrows == Spec => HistoryAppendOnly
<1>1. TypeOK /\ Inv /\ [Next]_vars
        => [server'.history = server.history
            \/ /\ server.phase = "Failover" /\ server'.phase = "Recovering"
               /\ \E e \in FailoverEvents : server'.history = Append(server.history, e)]_vars
  BY ObjectStep DEF HistoryStep
<1> QED
  BY <1>1, TypeCorrect, Invariance, PTL DEF Spec, HistoryAppendOnly

(* No handler takes the stored object out of the phase Failing.            *)
LEMMA HandlerKeepsFailing ==
    ASSUME TypeOK, Inv, Handler, server.phase = "Failing"
    PROVE  server'.phase = "Failing"
<1> SUFFICES ASSUME server'.phase # "Failing" PROVE FALSE
  OBVIOUS
<1>1. ASSUME NEW from, NEW to, PhaseMove(from, to), "Failing" \notin from PROVE FALSE
  BY <1>1 DEF PhaseMove
<1>2. ~Agree(server, server') /\ ~FailoverRecorded /\ ~Recovered
  BY DEF Agree, FailoverRecorded, Recovered
<1> QED
  BY <1>1, <1>2, HandlerStep DEF HandlerEffect

(* Nothing but a manual failover leaves the phase Failing.                 *)
THEOREM FailingLeftByHand == Spec => FailingIsLeftByHand
<1>1. ASSUME TypeOK, Inv, [Next]_vars, server.phase = "Failing", server'.phase # "Failing"
      PROVE  ManualFailover
  <2>1. ~UNCHANGED server
    BY <1>1
  <2>2. ~Handler
    BY <1>1, HandlerKeepsFailing
  <2>3. CASE CacheSync \/ SvcCacheSync \/ Crash \/ SlaveBreaks \/ ClientWrite
             \/ Replicate \/ Tick \/ UserEdit
    BY <2>1, <2>3 DEF CacheSync, SvcCacheSync, Crash, SlaveBreaks, ClientWrite, Replicate,
                      Tick, UserEdit, Supersede, resource
  <2>4. CASE AdminNames
    BY <1>1, <2>4 DEF AdminNames
  <2>5. CASE \E i \in Instances : ReadySync(i) \/ InstanceFails(i) \/ InstanceReturns(i)
    BY <2>1, <2>5 DEF ReadySync, InstanceFails, InstanceReturns, resource
  <2> QED
    BY <1>1, <2>1, <2>2, <2>3, <2>4, <2>5 DEF Next, Environment, vars, resource
<1>2. TypeOK /\ Inv /\ [Next]_vars
        => [server.phase = "Failing" /\ server'.phase # "Failing" => ManualFailover]_vars
  BY <1>1
<1> QED
  BY <1>2, TypeCorrect, Invariance, PTL DEF Spec, FailingIsLeftByHand

(* No update of the loop loses the pod names another client has stored.    *)
THEOREM NamesKept == Spec => NoLostUpdate
<1>1. TypeOK /\ Inv /\ [Next]_vars => [NamesStep]_vars
  BY ObjectStep
<1>2. NoLostUpdate <=> [][NamesStep]_vars
  BY DEF NoLostUpdate, NamesStep
<1> QED
  BY <1>1, <1>2, TypeCorrect, Invariance, PTL DEF Spec

(* From one recorded failover to the next passes the minimum interval,     *)
(* whoever started it and however stale the copies were.                   *)
FailoversApart ==
    [][\/ server'.lastFailover = server.lastFailover
       \/ server.lastFailover.never
       \/ server'.lastFailover.at >= server.lastFailover.at + MinimumInterval]_vars

(* A failover that runs was started after the interval.                    *)
StartedInTime == server.phase = "Failover" => intervalElapsed(server.lastFailover, now)

(* The interval between two recorded failovers follows from the refinement *)
(* of PhaseLifecycle: one is started only after the interval, and what it  *)
(* records is the time of its end.                                         *)
THEOREM IntervalBetweenFailovers == Spec => FailoversApart
<1>1. Init => StartedInTime
  BY LifecycleInitially DEF StartedInTime, Lifecycle!LifecycleInit
<1> USE DEF StartedInTime, intervalElapsed
<1>2. ASSUME TypeOK, Inv, StartedInTime, [Next]_vars
      PROVE  /\ StartedInTime'
             /\ \/ server'.lastFailover = server.lastFailover
                \/ server.lastFailover.never
                \/ server'.lastFailover.at >= server.lastFailover.at + MinimumInterval
  <2>1. /\ server.lastFailover \in FailoverTimes
        /\ now \in Nat /\ MinimumInterval \in Nat
    BY <1>2, SpecAssumption DEF TypeOK, Resources
  <2>2. [Lifecycle!LifecycleNext]_(Lifecycle!lifecycle)
    BY <1>2, NextMaps
  <2>3. CASE Lifecycle!CompleteFailover
    BY <1>2, <2>1, <2>3 DEF Lifecycle!CompleteFailover
  <2>4. CASE Lifecycle!Pass
    BY <1>2, <2>1, <2>4 DEF Lifecycle!Pass, FailoverTimes
  <2>5. CASE Lifecycle!StartFailover
    BY <1>2, <2>1, <2>5 DEF Lifecycle!StartFailover, Lifecycle!Move
  <2>6. CASE \/ Lifecycle!Initialize \/ Lifecycle!BecomeReady \/ Lifecycle!Degrade
             \/ Lifecycle!Heal \/ Lifecycle!AbortFailover \/ Lifecycle!Recover
             \/ UNCHANGED Lifecycle!lifecycle
    BY <1>2, <2>6
    DEF Lifecycle!Initialize, Lifecycle!BecomeReady, Lifecycle!Degrade, Lifecycle!Heal,
        Lifecycle!AbortFailover, Lifecycle!Recover, Lifecycle!Move, Lifecycle!lifecycle
  <2> QED
    BY <2>2, <2>3, <2>4, <2>5, <2>6 DEF Lifecycle!LifecycleNext
<1>3. TypeOK /\ Inv /\ StartedInTime /\ [Next]_vars => StartedInTime'
  BY <1>2
<1>4. TypeOK /\ Inv /\ StartedInTime /\ [Next]_vars
        => [\/ server'.lastFailover = server.lastFailover
            \/ server.lastFailover.never
            \/ server'.lastFailover.at >= server.lastFailover.at + MinimumInterval]_vars
  BY <1>2
<1> QED
  BY <1>1, <1>3, <1>4, TypeCorrect, Invariance, PTL DEF Spec, FailoversApart

-----------------------------------------------------------------------------
(* Promotions and what the status shows of them.                           *)

(* The phases of a failover that has no event in the history.              *)
Unrecorded == {"Failover", "Failing"}

(* A copy has no more failovers than the stored object, and a copy in the  *)
(* phase Failover is of a failover that is in progress or was given up, or *)
(* was recorded since.                                                     *)
NotAhead(copy) ==
    /\ Len(copy.history) <= Len(server.history)
    /\ copy.phase = "Failover" /\ Len(copy.history) = Len(server.history)
         => server.phase \in Unrecorded

CopiesNotAhead == NotAhead(cache) /\ NotAhead(local)

(* The copy new runs no failover that the copy old does not run.           *)
TakenFrom(new, old) ==
    /\ new.history = old.history
    /\ new.phase = "Failover" => old.phase = "Failover"

NoFailover(copy) == copy.history = << >> /\ copy.phase # "Failover"

(* What a step may do to the copies.                                       *)
CopiesStep ==
    /\ TakenFrom(cache', cache) \/ TakenFrom(cache', server')
    /\ TakenFrom(local', local) \/ TakenFrom(local', cache) \/ NoFailover(local')

LEMMA ContinueCopies ==
    ASSUME NEW label, NEW cr, NEW fresh, NEW obs, Continue(label, cr, fresh, obs)
    PROVE  TakenFrom(local', cr) \/ NoFailover(local')
BY DEF Continue, NewResource, TakenFrom, NoFailover

LEMMA SameCopies ==
    ASSUME UNCHANGED cache
    PROVE  TakenFrom(cache', cache)
BY DEF TakenFrom

LEMMA WriteCopies ==
    ASSUME NEW stored, NEW cr, NEW obs, NEW ok, NEW fail,
           Write(stored, cr, obs, ok, fail),
           ok = "idle" \/ (localFresh => TakenFrom(stored, local)),
           fail = "idle" \/ TakenFrom(cr, local)
    PROVE  CopiesStep
<1>1. TakenFrom(cache', cache)
  BY SameCopies DEF Write, Store, resource
<1> USE DEF Continue, NewResource, CopiesStep, TakenFrom, NoFailover
<1>2. CASE Store(stored) /\ Continue(ok, stored, TRUE, obs)
  BY <1>1, <1>2 DEF Store
<1>3. CASE Continue(fail, cr, FALSE, obs)
  BY <1>1, <1>3
<1>4. CASE Continue(fail, cr, localFresh, obs)
  BY <1>1, <1>4
<1>5. CASE Continue(fail, cr, stored = server, obs)
  BY <1>1, <1>5
<1> QED
  BY <1>2, <1>3, <1>4, <1>5 DEF Write

LEMMA StatusUpdateCopies ==
    ASSUME NEW cr \in Resources, NEW obs, NEW ok, NEW fail,
           StatusUpdate(cr, obs, ok, fail),
           TakenFrom(cr, local) \/ (ok = "idle" /\ fail = "idle")
    PROVE  CopiesStep
<1> DEFINE stored == [cr EXCEPT !.failCount = server.failCount]
<1>1. TakenFrom(cr, local) => TakenFrom(stored, local)
  BY DEF Resources, TakenFrom
<1>2. Write(stored, cr, obs, ok, fail)
  BY DEF StatusUpdate
<1> HIDE DEF stored
<1> QED
  BY <1>1, <1>2, WriteCopies

LEMMA UpdateConditionsCopies ==
    ASSUME NEW cr \in Resources, Agree(cr, local), NEW obs, NEW next,
           UpdateConditions(cr, obs, next)
    PROVE  CopiesStep
<1>1. CASE cr = local
  BY <1>1, ContinueCopies, SameCopies DEF UpdateConditions, resource, CopiesStep
<1>2. CASE cr # local
  <2>1. TakenFrom(cr, local)
    BY DEF Agree, TakenFrom
  <2> QED
    BY <1>2, <2>1, StatusUpdateCopies DEF UpdateConditions
<1> QED
  BY <1>1, <1>2

LEMMA ProceedCopies ==
    ASSUME NEW label, Proceed(label) \/ Fail(label)
    PROVE  CopiesStep
BY ContinueCopies, SameCopies DEF Proceed, Fail, resource, CopiesStep

(* A promotion takes the number after the history of the handler's copy,   *)
(* which is in the phase Failover.                                         *)
PromotionStep ==
    \/ promoted' = promoted
    \/ promoted' = Len(local.history) + 1 /\ local.phase = "Failover"

LEMMA HandlerCopies ==
    ASSUME TypeOK, Inv, Handler
    PROVE  CopiesStep /\ PromotionStep
<1>0. local \in Resources /\ server \in Resources
  BY DEF TypeOK
<1> USE DEF PromotionStep
<1>1. CASE Start
  BY <1>1, ContinueCopies, SameCopies DEF Start, resource, CopiesStep
<1>2. CASE reconcileClusterService \/ reconcileReplication \/ StopSlave \/ ChangeMaster
           \/ StartSlave \/ FailoverConnect \/ StopReplication
           \/ UpdateServicesAfterFailover
  BY <1>2, ProceedCopies
  DEF reconcileClusterService, reconcileReplication, StopSlave, ChangeMaster, StartSlave,
      FailoverConnect, StopReplication, UpdateServicesAfterFailover
<1>3. CASE ReadMasterStatus
  <2>1. PromotionStep
    BY <1>3 DEF ReadMasterStatus
  <2>2. CASE \E label : Proceed(label) \/ Fail(label)
    BY <2>1, <2>2, ProceedCopies
  <2>3. CASE Continue("setupStop", local, localFresh, [seen EXCEPT !.binlogPos = written])
             /\ UNCHANGED resource
    BY <2>1, <2>3, ContinueCopies, SameCopies DEF resource, CopiesStep
  <2> QED
    BY <1>3, <2>2, <2>3 DEF ReadMasterStatus, resource
<1>4. CASE PromoteSecondaryToPrimary
  <2>1. CopiesStep
    BY <1>4, ProceedCopies DEF PromoteSecondaryToPrimary
  <2>2. local.phase = "Failover"
    BY <1>4, LabelPhase DEF PromoteSecondaryToPrimary, FailoverLabels
  <2> QED
    BY <1>4, <2>1, <2>2 DEF PromoteSecondaryToPrimary, Promote
<1>5. ASSUME NEW p \in Phases
      PROVE  /\ [local EXCEPT !.phase = p] \in Resources
             /\ p # "Failover" => TakenFrom([local EXCEPT !.phase = p], local)
  BY <1>0, PhaseUpdateType DEF Resources, TakenFrom
<1>6. CASE InitializeStatus
  <2>1. StatusUpdate([local EXCEPT !.phase = "Initializing"], seen, "idle", "idle")
    BY <1>6 DEF InitializeStatus
  <2> QED
    BY <1>5, <1>6, <2>1, StatusUpdateCopies DEF InitializeStatus, Phases
<1>7. CASE reconcileStatefulSets
  <2>1. StatusUpdate([local EXCEPT !.phase = "Running"], seen, "services", "idle")
        \/ Proceed("services")
    BY <1>7 DEF reconcileStatefulSets
  <2> QED
    BY <1>5, <1>7, <2>1, StatusUpdateCopies, ProceedCopies DEF reconcileStatefulSets, Phases
<1>8. CASE RecordReplication
  <2> DEFINE cr == SetCondition(local, "ReplicationActive", "True")
  <2>1. cr \in Resources /\ Agree(cr, local)
    BY <1>0, ConditionUpdateType, ConditionsAgree DEF ConditionTypes, ConditionStatus
  <2>2. StatusUpdate(cr, seen, Dispatch, "idle")
    BY <1>8 DEF RecordReplication
  <2> HIDE DEF cr
  <2> QED
    BY <1>8, <2>1, <2>2, StatusUpdateCopies DEF RecordReplication, Agree, TakenFrom
<1>9. CASE CheckPrimary \/ CheckSecondary \/ CheckReplication \/ FailoverCheck
  <2>1. UNCHANGED promoted
    BY <1>9 DEF CheckPrimary, CheckSecondary, CheckReplication, FailoverCheck
  <2>2. ASSUME NEW t \in ConditionTypes, NEW check
        PROVE  /\ instanceCondition(local, t, check) \in Resources
               /\ Agree(instanceCondition(local, t, check), local)
    BY <1>0, InstanceConditionType, ConditionsAgree DEF instanceCondition, Agree
  <2>3. CASE CheckPrimary
    BY <2>1, <2>2, <2>3, UpdateConditionsCopies DEF CheckPrimary, ConditionTypes
  <2>4. CASE CheckSecondary
    <3>1. PICK lag \in Lags :
            UpdateConditions(instanceCondition(local, "SecondaryReady", checkSecondary(lag)),
                [seen EXCEPT !.secondary = instanceHealthy(checkSecondary(lag)),
                             !.lag = checkSecondary(lag).lag], "checkReplication")
      BY <2>4 DEF CheckSecondary
    <3> QED
      BY <2>1, <2>2, <3>1, UpdateConditionsCopies DEF ConditionTypes
  <2>5. CASE CheckReplication
    <3> DEFINE s == conditionStatus(replicationActive(seen.secondary, seen.lag))
    <3>1. s \in ConditionStatus
      BY DEF conditionStatus, ConditionStatus
    <3>2. /\ SetCondition(local, "ReplicationActive", s) \in Resources
          /\ Agree(SetCondition(local, "ReplicationActive", s), local)
      BY <1>0, <3>1, ConditionUpdateType, ConditionsAgree DEF ConditionTypes
    <3> QED
      BY <2>1, <2>5, <3>2, UpdateConditionsCopies DEF CheckReplication
  <2>6. CASE FailoverCheck
    <3>1. PICK lag \in Lags :
            UpdateConditions(instanceCondition(local, "SecondaryReady", checkSecondary(lag)),
                seen, IF instanceHealthy(checkSecondary(lag)) THEN "failoverConnect"
                                                              ELSE "failoverAbort")
      BY <2>6 DEF FailoverCheck
    <3> QED
      BY <2>1, <2>2, <3>1, UpdateConditionsCopies DEF ConditionTypes
  <2> QED
    BY <1>9, <2>3, <2>4, <2>5, <2>6
<1>10. CASE HandlePrimaryFailure
  <2> DEFINE count  == primaryFailCount(FALSE, local.failCount)
             obs    == [seen EXCEPT !.count = count]
             stored == [server EXCEPT !.failCount = count]
  <2>1. TakenFrom(stored, server) /\ TakenFrom(local, local)
    BY <1>0 DEF Resources, TakenFrom
  <2>2. localFresh => TakenFrom(stored, local)
    BY <2>1 DEF Inv, FreshCopiesAgree, Agree, TakenFrom
  <2>3. Write(stored, local, obs, "triggerFailover", "idle")
        \/ (Continue("triggerFailover", local, localFresh, obs) /\ UNCHANGED resource)
    BY <1>10 DEF HandlePrimaryFailure
  <2>4. UNCHANGED promoted
    BY <1>10 DEF HandlePrimaryFailure
  <2> HIDE DEF obs, stored
  <2> QED
    BY <2>1, <2>2, <2>3, <2>4, WriteCopies, ContinueCopies, SameCopies
    DEF resource, CopiesStep
<1>11. CASE TriggerFailover
  <2>1. StatusUpdate([local EXCEPT !.phase = "Failover"], seen, "idle", "idle")
        \/ Proceed("idle")
    BY <1>11 DEF TriggerFailover
  <2> QED
    BY <1>5, <1>11, <2>1, StatusUpdateCopies, ProceedCopies DEF TriggerFailover, Phases
<1>12. CASE RecordPhase
  <2>1. healthPhase \in Phases /\ healthPhase # "Failover"
    BY DEF healthPhase, Phases
  <2>2. \E label : \/ Proceed(label)
                   \/ StatusUpdate([local EXCEPT !.phase = healthPhase], seen, label, "idle")
    BY <1>12 DEF RecordPhase
  <2> QED
    BY <1>5, <1>12, <2>1, <2>2, StatusUpdateCopies, ProceedCopies DEF RecordPhase
<1>13. CASE RecordLag
  <2> DEFINE cr == [local EXCEPT !.lag = seen.lag]
  <2>1. cr \in Resources
    BY <1>0, LagUpdateType DEF TypeOK, Observations
  <2>2. StatusUpdate(cr, seen, "idle", "idle")
    BY <1>13 DEF RecordLag
  <2> HIDE DEF cr
  <2> QED
    BY <1>13, <2>1, <2>2, StatusUpdateCopies DEF RecordLag
<1>14. CASE FailoverAbort
  <2>1. StatusUpdate([local EXCEPT !.phase = "Failing"], seen, "idle", "idle")
    BY <1>14 DEF FailoverAbort
  <2> QED
    BY <1>5, <1>14, <2>1, StatusUpdateCopies DEF FailoverAbort, Phases
<1>15. CASE RecordFailover
  <2> DEFINE cr == [afterFailover(local) EXCEPT !.failCount = 0]
  <2>1. afterFailover(local) \in Resources
    BY <1>0, FailoverUpdateType DEF TypeOK
  <2>2. cr \in Resources
    BY <2>1, CountUpdateType
  <2>3. StatusUpdate(cr, seen, "idle", "idle")
    BY <1>15 DEF RecordFailover
  <2> HIDE DEF cr
  <2> QED
    BY <1>15, <2>2, <2>3, StatusUpdateCopies DEF RecordFailover
<1>16. CASE HandleRecovery
  <2> DEFINE cr == [local EXCEPT !.currentSecondary = oldPrimaryName, !.phase = "Running"]
  <2>1. cr \in Resources
    BY <1>0, OldPrimaryNameType DEF Resources, Phases
  <2>2. StatusUpdate(cr, seen, "idle", "idle") \/ Proceed("idle")
    BY <1>16 DEF HandleRecovery
  <2> HIDE DEF cr
  <2> QED
    BY <1>16, <2>1, <2>2, StatusUpdateCopies, ProceedCopies DEF HandleRecovery
<1> QED
  BY <1>1, <1>2, <1>3, <1>4, <1>6, <1>7, <1>8, <1>9, <1>10, <1>11, <1>12, <1>13, <1>14,
     <1>15, <1>16 DEF Handler

(* The environment refreshes the copy of the informer, or drops the one of *)
(* the handler.                                                            *)
LEMMA EnvironmentCopies ==
    ASSUME Environment
    PROVE  CopiesStep /\ PromotionStep
<1>1. PromotionStep
  BY EnvironmentKeeps DEF PromotionStep
<1>2. CASE CacheSync
  BY <1>1, <1>2 DEF CacheSync, handler, CopiesStep, TakenFrom
<1>3. CASE Crash
  <2>1. Continue("idle", local, FALSE, seen) /\ UNCHANGED resource
    BY <1>3 DEF Crash
  <2> QED
    BY <1>1, <2>1, ContinueCopies, SameCopies DEF resource, CopiesStep
<1>4. CASE SvcCacheSync \/ SlaveBreaks \/ ClientWrite \/ Replicate \/ Tick
           \/ \E i \in Instances : ReadySync(i) \/ InstanceFails(i) \/ InstanceReturns(i)
  BY <1>1, <1>4
  DEF SvcCacheSync, SlaveBreaks, ClientWrite, Replicate, Tick, ReadySync, InstanceFails,
      InstanceReturns, resource, handler, CopiesStep, TakenFrom
<1>5. CASE UserEdit \/ AdminNames \/ ManualFailover
  BY <1>1, <1>5 DEF UserEdit, AdminNames, ManualFailover, Supersede, CopiesStep, TakenFrom
<1> QED
  BY <1>2, <1>3, <1>4, <1>5 DEF Environment

(* The object leaves the phases of an unrecorded failover only with the    *)
(* record.                                                                 *)
UnrecordedStays ==
    server.phase \in Unrecorded /\ Len(server'.history) = Len(server.history)
        => server'.phase \in Unrecorded

LEMMA UnrecordedStep ==
    ASSUME TypeOK, [Lifecycle!LifecycleNext]_(Lifecycle!lifecycle)
    PROVE  UnrecordedStays
<1>1. Len(server.history) \in Nat
  BY DEF TypeOK, Resources
<1>2. CASE Lifecycle!CompleteFailover
  BY <1>1, <1>2 DEF Lifecycle!CompleteFailover, UnrecordedStays
<1> QED
  BY <1>2
  DEF Lifecycle!LifecycleNext, Lifecycle!lifecycle, Lifecycle!Initialize,
      Lifecycle!BecomeReady, Lifecycle!Degrade, Lifecycle!Heal, Lifecycle!StartFailover,
      Lifecycle!AbortFailover, Lifecycle!Recover, Lifecycle!Pass, Lifecycle!Move,
      UnrecordedStays, Unrecorded

(* A handler may still run a failover on an older copy.  It promotes for   *)
(* one that the status shows only because no copy is ahead of the stored   *)
(* object, and the record follows the promotion because the history grows  *)
(* only into the phase Recovering, where Inv has the promotion.            *)
PromotionInv == CopiesNotAhead /\ PromotionShows

LEMMA HistoryLengths ==
    ASSUME TypeOK
    PROVE  /\ Len(server.history) \in Nat /\ Len(cache.history) \in Nat
           /\ Len(local.history) \in Nat /\ promoted \in Nat
BY DEF TypeOK, Resources

LEMMA HistoryLengthStep ==
    ASSUME TypeOK, HistoryStep
    PROVE  Len(server'.history) >= Len(server.history)
<1>1. server.history \in Seq(FailoverEvents)
  BY DEF TypeOK, Resources
<1>2. \A e \in FailoverEvents :
          Len(Append(server.history, e)) = Len(server.history) + 1
  BY <1>1
<1> QED
  BY <1>2, HistoryLengths DEF HistoryStep

LEMMA NextPromotion ==
    ASSUME TypeOK, TypeOK', Inv, Inv', PromotionInv, [Next]_vars
    PROVE  PromotionInv'
<1>1. CopiesStep /\ PromotionStep
  <2>1. CASE UNCHANGED vars
    BY <2>1 DEF vars, resource, handler, CopiesStep, TakenFrom, PromotionStep
  <2> QED
    BY <2>1, HandlerCopies, EnvironmentCopies DEF Next
<1>2. HistoryStep /\ Len(server'.history) >= Len(server.history)
  BY ObjectStep, HistoryLengthStep
<1>3. UnrecordedStays
  BY NextMaps, UnrecordedStep
<1>4. promoted' >= promoted
  <2>1. CASE UNCHANGED promoted
    BY <2>1, HistoryLengths
  <2> QED
    BY <2>1, HandlerKeeps, EnvironmentKeeps DEF Next, vars
<1>5. /\ Len(server'.history) \in Nat /\ promoted' \in Nat
      /\ Len(cache'.history) \in Nat /\ Len(local'.history) \in Nat
  <2>1. \A cr \in Resources : Len(cr.history) \in Nat
    BY DEF Resources
  <2> QED
    BY <2>1 DEF TypeOK
<1>6. CopiesNotAhead'
  <2>1. ASSUME NEW new, NEW old, TakenFrom(new, old), NotAhead(old), Len(old.history) \in Nat
        PROVE  /\ Len(new.history) <= Len(server'.history)
               /\ new.phase = "Failover" /\ Len(new.history) = Len(server'.history)
                    => server'.phase \in Unrecorded
    BY <1>2, <1>3, <1>5, <2>1, HistoryLengths DEF TakenFrom, NotAhead, UnrecordedStays
  <2>2. NotAhead(cache)'
    <3>1. CASE TakenFrom(cache', cache)
      BY <2>1, <3>1, HistoryLengths DEF PromotionInv, CopiesNotAhead, NotAhead
    <3>2. CASE TakenFrom(cache', server')
      BY <1>5, <3>2 DEF TakenFrom, NotAhead, Unrecorded
    <3> QED
      BY <1>1, <3>1, <3>2 DEF CopiesStep
  <2>3. NotAhead(local)'
    <3>1. CASE TakenFrom(local', local) \/ TakenFrom(local', cache)
      BY <2>1, <3>1, HistoryLengths DEF PromotionInv, CopiesNotAhead, NotAhead
    <3>2. CASE NoFailover(local')
      <4>1. Len(<< >>) = 0
        OBVIOUS
      <4>2. Len(local'.history) = 0
        BY <3>2, <4>1, Zenon DEF NoFailover
      <4> QED
        BY <1>5, <3>2, <4>2 DEF NoFailover, NotAhead
    <3> QED
      BY <1>1, <3>1, <3>2 DEF CopiesStep
  <2> QED
    BY <2>2, <2>3 DEF CopiesNotAhead
<1>7. promoted' >= Len(server'.history)
  <2>1. CASE server'.history = server.history
    BY <1>4, <1>5, <2>1, HistoryLengths DEF PromotionInv, PromotionShows
  <2>2. CASE server'.phase = "Recovering"
    BY <2>2 DEF Inv, RecoveringIsPromoted
  <2> QED
    BY <1>2, <2>1, <2>2 DEF HistoryStep
<1>8. PromotionShows'
  <2> SUFFICES ASSUME promoted' # Len(server'.history)
               PROVE  /\ promoted' = Len(server'.history) + 1
                      /\ server'.phase \in Unrecorded
    BY DEF PromotionShows, Unrecorded
  <2>1. promoted' > Len(server'.history)
    BY <1>5, <1>7
  <2>2. CASE promoted' = promoted
    BY <1>2, <1>3, <1>5, <2>1, <2>2, HistoryLengths
    DEF PromotionInv, PromotionShows, UnrecordedStays, Unrecorded
  <2>3. CASE promoted' = Len(local.history) + 1 /\ local.phase = "Failover"
    BY <1>2, <1>3, <1>5, <2>1, <2>3, HistoryLengths
    DEF PromotionInv, CopiesNotAhead, NotAhead, UnrecordedStays
  <2> QED
    BY <1>1, <2>2, <2>3 DEF PromotionStep
<1> QED
  BY <1>6, <1>8 DEF PromotionInv

(* The stored status shows the last promotion, whatever conflicts, lost    *)
(* answers, crashes and manual failovers came between: it is that of the   *)
(* last failover of the history, or its failover is in progress or was     *)
(* given up.                                                               *)
THEOREM PromotionAlwaysShows == Spec => []PromotionShows
<1>1. Init => PromotionInv
  <2> SUFFICES ASSUME Init PROVE PromotionInv
    OBVIOUS
  <2>1. Len(<< >>) = 0
    OBVIOUS
  <2>2. server.history = << >> /\ cache.history = << >> /\ local.history = << >>
    BY DEF Init, NewResource
  <2>3. Len(server.history) = 0 /\ Len(cache.history) = 0 /\ Len(local.history) = 0
    BY <2>1, <2>2, Zenon
  <2>4. cache.phase # "Failover" /\ local.phase # "Failover" /\ promoted = 0
    BY DEF Init, NewResource
  <2> QED
    BY <2>3, <2>4 DEF PromotionInv, CopiesNotAhead, NotAhead, PromotionShows
<1>2. TypeOK /\ TypeOK' /\ Inv /\ Inv' /\ PromotionInv /\ [Next]_vars => PromotionInv'
  BY NextPromotion
<1>3. PromotionInv => PromotionShows
  BY DEF PromotionInv
<1> QED
  BY <1>1, <1>2, <1>3, TypeCorrect, Invariance, PTL DEF Spec

=============================================================================
