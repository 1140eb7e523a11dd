--------------------------- MODULE ReconcilerProofs ---------------------------
(***************************************************************************)
(* The invariants of the reconciliation loop, its append-only history and  *)
(* its refinement of PhaseLifecycle, for every value of the constants.     *)
(***************************************************************************)
EXTENDS ReconcilerTypeProofs

(* A cluster in phase Recovering was promoted for the failover it recorded *)
(* last.                                                                   *)
RecoveringIsPromoted ==
    server.phase = "Recovering" => promoted >= Len(server.history)

(* The inductive invariant.  What a handler decides rests on its copy of   *)
(* the object (FreshCopiesAgree); which handler runs rests on its phase    *)
(* (HandlerMatchesPhase); and a failover is recorded by a handler that has *)
(* promoted for it (PromotedBeforeRecord).                                 *)
Inv ==
    /\ FreshCopiesAgree
    /\ HandlerMatchesPhase
    /\ PromotedBeforeRecord
    /\ RecoveringIsPromoted

-----------------------------------------------------------------------------
(* Steps of the handler.                                                   *)

(* A step that writes nothing keeps the invariant when it goes on at a     *)
(* label of the phase, and at a record only after a promotion.             *)
LEMMA GoOnInv ==
    ASSUME Inv, LoopType, promoted \in Nat, promoted' \in Nat,
           NEW label, NEW obs,
           Continue(label, local, localFresh, obs), UNCHANGED resource,
           promoted' >= promoted,
           PhaseFits(label, local),
           label \in {"failoverService", "failoverRecord"} =>
               promoted' > Len(local.history)
    PROVE  Inv'
<1> USE DEF Continue, resource
<1>1. FreshCopiesAgree'
  BY DEF Inv, FreshCopiesAgree, Agree
<1>2. HandlerMatchesPhase'
  BY DEF HandlerMatchesPhase, PhaseFits, HealthLabels, FailoverLabels
<1>3. PromotedBeforeRecord'
  BY DEF PromotedBeforeRecord
<1>4. RecoveringIsPromoted'
  <2>1. Len(server.history) \in Nat
    BY DEF LoopType, Resources
  <2> QED
    BY <2>1 DEF Inv, RecoveringIsPromoted
<1> QED
  BY <1>1, <1>2, <1>3, <1>4 DEF Inv

LEMMA ProceedInv ==
    ASSUME Inv, LoopType, promoted \in Nat, promoted' \in Nat, NEW label,
           Proceed(label) \/ Fail(label),
           promoted' >= promoted,
           PhaseFits(label, local),
           label \in {"failoverService", "failoverRecord"} =>
               promoted' > Len(local.history)
    PROVE  Inv'
BY GoOnInv DEF Proceed, Fail

(* A request keeps the invariant when the objects it leaves in the API     *)
(* server and in memory do.                                                *)
LEMMA WriteInv ==
    ASSUME Inv, UNCHANGED promoted,
           NEW stored, NEW cr, NEW obs, NEW ok, NEW fail,
           Write(stored, cr, obs, ok, fail),
           PhaseFits(ok, stored), PhaseFits(fail, cr),
           fail = "idle" \/ (Agree(cr, stored) /\ Agree(cr, local)),
           ok \notin {"failoverService", "failoverRecord"},
           fail \notin {"failoverService", "failoverRecord"},
           localFresh /\ stored.phase = "Recovering" => promoted >= Len(stored.history)
    PROVE  Inv'
<1> USE DEF Continue, resource, Store
<1>1. FreshCopiesAgree'
  <2> USE DEF Inv, FreshCopiesAgree
  <2>1. CASE Store(stored) /\ Continue(ok, stored, TRUE, obs)
    BY <2>1 DEF Agree
  <2>2. CASE Continue(fail, cr, FALSE, obs) /\ UNCHANGED resource
    BY <2>2
  <2>3. CASE Continue(fail, cr, localFresh, obs) /\ UNCHANGED resource
    BY <2>3 DEF Agree
  <2>4. CASE Store(stored) /\ Continue(fail, cr, stored = server, obs)
    BY <2>4 DEF Agree
  <2> QED
    BY <2>1, <2>2, <2>3, <2>4 DEF Write
<1>2. HandlerMatchesPhase'
  BY DEF HandlerMatchesPhase, PhaseFits, HealthLabels, FailoverLabels, Write
<1>3. PromotedBeforeRecord'
  BY DEF PromotedBeforeRecord, Write
<1>4. RecoveringIsPromoted'
  BY DEF Inv, RecoveringIsPromoted, Write
<1> QED
  BY <1>1, <1>2, <1>3, <1>4 DEF Inv

(* The stored object of a status update has the fields of the one sent.    *)
LEMMA StoredStatus ==
    ASSUME NEW cr \in Resources, NEW n
    PROVE  Agree(cr, [cr EXCEPT !.failCount = n])
BY DEF Agree, Resources

LEMMA StatusUpdateInv ==
    ASSUME Inv, UNCHANGED promoted,
           NEW cr \in Resources, NEW obs, NEW ok, NEW fail,
           StatusUpdate(cr, obs, ok, fail),
           PhaseFits(ok, cr), PhaseFits(fail, cr),
           fail = "idle" \/ Agree(cr, local),
           ok \notin {"failoverService", "failoverRecord"},
           fail \notin {"failoverService", "failoverRecord"},
           localFresh /\ cr.phase = "Recovering" => promoted >= Len(cr.history)
    PROVE  Inv'
<1> DEFINE stored == [cr EXCEPT !.failCount = server.failCount]
<1>1. Agree(cr, stored)
  BY StoredStatus
<1>2. Write(stored, cr, obs, ok, fail)
  BY DEF StatusUpdate
<1>3. PhaseFits(ok, stored)
  BY <1>1 DEF PhaseFits, Agree
<1>4. localFresh /\ stored.phase = "Recovering" => promoted >= Len(stored.history)
  BY <1>1 DEF Agree
<1> HIDE DEF stored
<1> QED
  BY <1>1, <1>2, <1>3, <1>4, WriteInv

(* An update of the conditions changes nothing the invariant looks at.     *)
LEMMA ConditionsAgree ==
    ASSUME NEW cr \in Resources, NEW t, NEW s
    PROVE  Agree(SetCondition(cr, t, s), cr)
BY DEF Agree, SetCondition, Resources

LEMMA AgreeingUpdateInv ==
    ASSUME Inv, LoopType, UNCHANGED promoted,
           NEW cr \in Resources, NEW obs, NEW ok, NEW fail,
           StatusUpdate(cr, obs, ok, fail), Agree(cr, local),
           PhaseFits(ok, local), PhaseFits(fail, local),
           ok \notin {"failoverService", "failoverRecord"},
           fail \notin {"failoverService", "failoverRecord"}
    PROVE  Inv'
<1>1. PhaseFits(ok, cr) /\ PhaseFits(fail, cr)
  BY DEF PhaseFits, Agree
<1>2. localFresh /\ cr.phase = "Recovering" => promoted >= Len(cr.history)
  BY DEF Inv, FreshCopiesAgree, RecoveringIsPromoted, Agree
<1> QED
  BY <1>1, <1>2, StatusUpdateInv

LEMMA UpdateConditionsInv ==
    ASSUME Inv, LoopType, promoted \in Nat, UNCHANGED promoted,
           NEW cr \in Resources, NEW obs, NEW next,
           UpdateConditions(cr, obs, next), Agree(cr, local),
           PhaseFits(next, local),
           next \notin {"failoverService", "failoverRecord"}
    PROVE  Inv'
<1>1. CASE cr = local
  BY <1>1, GoOnInv DEF UpdateConditions
<1>2. CASE cr # local
  BY <1>2, AgreeingUpdateInv DEF UpdateConditions
<1> QED
  BY <1>1, <1>2

-----------------------------------------------------------------------------
(* The actions.                                                            *)

(* Where reconcileReplication and the end of its errors go on.             *)
LEMMA DispatchFits ==
    ASSUME NEW cr
    PROVE  /\ PhaseFits(PhaseHandler(cr.phase), cr)
           /\ PhaseHandler(cr.phase) \notin {"failoverService", "failoverRecord"}
BY DEF PhaseFits, PhaseHandler, HealthLabels, FailoverLabels

LEMMA IdleFits ==
    ASSUME NEW cr
    PROVE  /\ PhaseFits("idle", cr) /\ PhaseFits("services", cr)
           /\ PhaseFits("replication", cr) /\ PhaseFits("statefulsets", cr)
           /\ PhaseFits("setupMaster", cr) /\ PhaseFits("setupStop", cr)
           /\ PhaseFits("setupChange", cr) /\ PhaseFits("setupStart", cr)
           /\ PhaseFits("recordReplication", cr)
BY DEF PhaseFits, HealthLabels, FailoverLabels

(* The phase of the object in memory at the labels of a phase handler.     *)
LEMMA LabelPhase ==
    ASSUME Inv
    PROVE  /\ pc \in HealthLabels => local.phase \in {"Running", "Degraded"}
           /\ pc \in FailoverLabels => local.phase = "Failover"
           /\ pc = "recovery" => local.phase = "Recovering"
BY DEF Inv, HandlerMatchesPhase, PhaseFits

LEMMA ReconcileInv ==
    ASSUME Inv, TypeOK
    PROVE  /\ Start => Inv'
           /\ InitializeStatus => Inv'
           /\ reconcileStatefulSets => Inv'
           /\ reconcileClusterService => Inv'
           /\ reconcileReplication => Inv'
<1>0. LoopType /\ promoted \in Nat /\ local \in Resources
  BY TypeParts DEF LoopType, WorldType
<1>1. ASSUME Start PROVE Inv'
  BY <1>1, IdleFits DEF Start, Continue, resource, Inv, FreshCopiesAgree, Agree,
     HandlerMatchesPhase, PromotedBeforeRecord, RecoveringIsPromoted
<1>2. ASSUME InitializeStatus PROVE Inv'
  <2> DEFINE cr == [local EXCEPT !.phase = "Initializing"]
  <2>1. cr \in Resources /\ cr.phase = "Initializing"
    BY <1>0, PhaseUpdateType DEF Phases
  <2>2. StatusUpdate(cr, seen, "idle", "idle") /\ UNCHANGED promoted
    BY <1>2 DEF InitializeStatus
  <2> HIDE DEF cr
  <2> QED
    BY <2>1, <2>2, IdleFits, StatusUpdateInv
<1>3. ASSUME reconcileStatefulSets PROVE Inv'
  <2> DEFINE cr == [local EXCEPT !.phase = "Running"]
  <2>1. cr \in Resources /\ cr.phase = "Running"
    BY <1>0, PhaseUpdateType DEF Phases
  <2>2. StatusUpdate(cr, seen, "services", "idle") \/ Proceed("services")
    BY <1>3 DEF reconcileStatefulSets
  <2>3. UNCHANGED promoted
    BY <1>3 DEF reconcileStatefulSets
  <2> HIDE DEF cr
  <2> QED
    BY <1>0, <2>1, <2>2, <2>3, IdleFits, StatusUpdateInv, ProceedInv
<1>4. ASSUME reconcileClusterService PROVE Inv'
  BY <1>0, <1>4, IdleFits, ProceedInv DEF reconcileClusterService
<1>5. ASSUME reconcileReplication PROVE Inv'
  BY <1>0, <1>5, IdleFits, DispatchFits, ProceedInv DEF reconcileReplication, Dispatch
<1> QED
  BY <1>1, <1>2, <1>3, <1>4, <1>5

LEMMA SetupReplicationInv ==
    ASSUME Inv, TypeOK
    PROVE  /\ ReadMasterStatus => Inv'
           /\ StopSlave => Inv'
           /\ ChangeMaster => Inv'
           /\ StartSlave => Inv'
           /\ RecordReplication => Inv'
<1>0. LoopType /\ promoted \in Nat /\ local \in Resources
  BY TypeParts DEF LoopType, WorldType
<1>1. ASSUME ReadMasterStatus PROVE Inv'
  BY <1>0, <1>1, IdleFits, DispatchFits, ProceedInv, GoOnInv
  DEF ReadMasterStatus, Dispatch
<1>2. ASSUME StopSlave PROVE Inv'
  BY <1>0, <1>2, IdleFits, DispatchFits, ProceedInv DEF StopSlave, Dispatch
<1>3. ASSUME ChangeMaster PROVE Inv'
  BY <1>0, <1>3, IdleFits, DispatchFits, ProceedInv DEF ChangeMaster, Dispatch
<1>4. ASSUME StartSlave PROVE Inv'
  BY <1>0, <1>4, IdleFits, DispatchFits, ProceedInv DEF StartSlave, Dispatch
<1>5. ASSUME RecordReplication PROVE Inv'
  <2> DEFINE cr == SetCondition(local, "ReplicationActive", "True")
  <2>1. cr \in Resources /\ Agree(cr, local)
    BY <1>0, ConditionUpdateType, ConditionsAgree DEF ConditionTypes, ConditionStatus
  <2>2. StatusUpdate(cr, seen, Dispatch, "idle") /\ UNCHANGED promoted
    BY <1>5 DEF RecordReplication
  <2> HIDE DEF cr
  <2> QED
    BY <1>0, <2>1, <2>2, IdleFits, DispatchFits, AgreeingUpdateInv DEF Dispatch
<1> QED
  BY <1>1, <1>2, <1>3, <1>4, <1>5

LEMMA CheckHealthInv ==
    ASSUME Inv, TypeOK
    PROVE  /\ CheckPrimary => Inv'
           /\ CheckSecondary => Inv'
           /\ CheckReplication => Inv'
           /\ HandlePrimaryFailure => Inv'
           /\ TriggerFailover => Inv'
           /\ RecordPhase => Inv'
           /\ RecordLag => Inv'
<1>0. /\ LoopType /\ promoted \in Nat
      /\ local \in Resources /\ server \in Resources /\ seen \in Observations
  BY TypeParts DEF LoopType, WorldType
<1>a. ASSUME pc \in HealthLabels, NEW label \in HealthLabels
      PROVE  /\ PhaseFits(label, local)
             /\ label \notin {"failoverService", "failoverRecord"}
  BY <1>a, LabelPhase DEF PhaseFits, HealthLabels, FailoverLabels
<1>b. ASSUME NEW t \in ConditionTypes, NEW check
      PROVE  /\ instanceCondition(local, t, check) \in Resources
             /\ Agree(instanceCondition(local, t, check), local)
  BY <1>0, InstanceConditionType, ConditionsAgree DEF instanceCondition, Agree
<1>1. ASSUME CheckPrimary PROVE Inv'
  <2>1. PhaseFits("checkSecondary", local)
    BY <1>1, <1>a DEF CheckPrimary, HealthLabels
  <2> QED
    BY <1>0, <1>1, <1>b, <2>1, UpdateConditionsInv DEF CheckPrimary, ConditionTypes
<1>2. ASSUME CheckSecondary PROVE Inv'
  <2>1. PhaseFits("checkReplication", local)
    BY <1>2, <1>a DEF CheckSecondary, HealthLabels
  <2>2. PICK lag \in Lags :
          UpdateConditions(instanceCondition(local, "SecondaryReady", checkSecondary(lag)),
              [seen EXCEPT !.secondary = instanceHealthy(checkSecondary(lag)),
                           !.lag = checkSecondary(lag).lag], "checkReplication")
    BY <1>2 DEF CheckSecondary
  <2> QED
    BY <1>0, <1>2, <1>b, <2>1, <2>2, UpdateConditionsInv
    DEF CheckSecondary, ConditionTypes
<1>3. ASSUME CheckReplication PROVE Inv'
  <2> DEFINE s == conditionStatus(replicationActive(seen.secondary, seen.lag))
             cr == SetCondition(local, "ReplicationActive", s)
  <2>1. PhaseFits("decide", local)
    BY <1>3, <1>a DEF CheckReplication, HealthLabels
  <2>2. s \in ConditionStatus
    BY DEF conditionStatus, ConditionStatus
  <2>3. cr \in Resources /\ Agree(cr, local)
    BY <1>0, <2>2, ConditionUpdateType, ConditionsAgree DEF ConditionTypes
  <2> QED
    BY <1>0, <1>3, <2>1, <2>3, UpdateConditionsInv DEF CheckReplication
<1>4. ASSUME HandlePrimaryFailure PROVE Inv'
  <2> DEFINE count == primaryFailCount(FALSE, local.failCount)
             obs == [seen EXCEPT !.count = count]
             stored == [server EXCEPT !.failCount = count]
  <2>1. PhaseFits("triggerFailover", local)
    BY <1>4, <1>a DEF HandlePrimaryFailure, HealthLabels
  <2>2. \/ Write(stored, local, obs, "triggerFailover", "idle")
        \/ /\ Continue("triggerFailover", local, localFresh, obs)
           /\ UNCHANGED resource
    BY <1>4 DEF HandlePrimaryFailure
  <2>3. UNCHANGED promoted
    BY <1>4 DEF HandlePrimaryFailure
  <2>4. Agree(server, stored)
    BY <1>0, StoredStatus
  <2> HIDE DEF count, obs, stored
  <2>5. ASSUME Continue("triggerFailover", local, localFresh, obs), UNCHANGED resource
        PROVE  Inv'
    BY <1>0, <2>1, <2>3, <2>5, GoOnInv
  <2>6. ASSUME Write(stored, local, obs, "triggerFailover", "idle"), localFresh
        PROVE  Inv'
    <3>1. PhaseFits("triggerFailover", stored)
      BY <2>1, <2>4, <2>6 DEF Inv, FreshCopiesAgree, Agree, PhaseFits
    <3>2. stored.phase = "Recovering" => promoted >= Len(stored.history)
      BY <2>4 DEF Agree, Inv, RecoveringIsPromoted
    <3> QED
      BY <2>3, <2>6, <3>1, <3>2, IdleFits, WriteInv
  <2>7. ASSUME Write(stored, local, obs, "triggerFailover", "idle"), ~localFresh
        PROVE  Inv'
    <3>1. Continue("idle", local, FALSE, obs) /\ UNCHANGED resource
      BY <2>7 DEF Write, Store, Continue
    <3> QED
      BY <2>3, <2>7, <3>1, IdleFits
      DEF Continue, resource, Inv, FreshCopiesAgree, HandlerMatchesPhase,
          PromotedBeforeRecord, RecoveringIsPromoted
  <2> QED
    BY <2>2, <2>5, <2>6, <2>7
<1>5. ASSUME TriggerFailover PROVE Inv'
  <2> DEFINE cr == [local EXCEPT !.phase = "Failover"]
  <2>1. cr \in Resources /\ cr.phase = "Failover"
    BY <1>0, PhaseUpdateType DEF Phases
  <2>2. StatusUpdate(cr, seen, "idle", "idle") \/ Proceed("idle")
    BY <1>5 DEF TriggerFailover
  <2>3. UNCHANGED promoted
    BY <1>5 DEF TriggerFailover
  <2> HIDE DEF cr
  <2> QED
    BY <1>0, <2>1, <2>2, <2>3, IdleFits, StatusUpdateInv, ProceedInv
<1>6. ASSUME RecordPhase PROVE Inv'
  <2> DEFINE cr == [local EXCEPT !.phase = healthPhase]
             next == IF seen.lag = "nil" THEN "idle" ELSE "recordLag"
  <2>1. healthPhase \in {"Running", "Degraded"}
    BY DEF healthPhase
  <2>2. cr \in Resources /\ cr.phase \in {"Running", "Degraded"}
    <3>1. healthPhase \in Phases
      BY <2>1 DEF Phases
    <3> QED
      BY <1>0, <2>1, <3>1, PhaseUpdateType
  <2>3. PhaseFits(next, cr) /\ PhaseFits(next, local)
    BY <1>6, <2>2, LabelPhase DEF RecordPhase, PhaseFits, HealthLabels, FailoverLabels
  <2>4. StatusUpdate(cr, seen, next, "idle") \/ Proceed(next)
    BY <1>6 DEF RecordPhase
  <2>5. UNCHANGED promoted /\ next \in {"idle", "recordLag"}
    BY <1>6 DEF RecordPhase
  <2> HIDE DEF cr, next
  <2> QED
    BY <1>0, <2>2, <2>3, <2>4, <2>5, IdleFits, StatusUpdateInv, ProceedInv
<1>7. ASSUME RecordLag PROVE Inv'
  <2> DEFINE cr == [local EXCEPT !.lag = seen.lag]
  <2>1. cr \in Resources
    BY <1>0, LagUpdateType DEF Observations
  <2>2. Agree(cr, local)
    BY <1>0 DEF Agree, Resources
  <2>3. StatusUpdate(cr, seen, "idle", "idle") /\ UNCHANGED promoted
    BY <1>7 DEF RecordLag
  <2> HIDE DEF cr
  <2> QED
    BY <1>0, <2>1, <2>2, <2>3, IdleFits, AgreeingUpdateInv
<1> QED
  BY <1>1, <1>2, <1>3, <1>4, <1>5, <1>6, <1>7

LEMMA FailoverInv ==
    ASSUME Inv, TypeOK
    PROVE  /\ FailoverCheck => Inv'
           /\ FailoverAbort => Inv'
           /\ FailoverConnect => Inv'
           /\ StopReplication => Inv'
           /\ PromoteSecondaryToPrimary => Inv'
           /\ UpdateServicesAfterFailover => Inv'
           /\ RecordFailover => Inv'
           /\ HandleRecovery => Inv'
<1>0. /\ LoopType /\ promoted \in Nat /\ local \in Resources /\ Len(local.history) \in Nat
  BY TypeParts DEF LoopType, WorldType, Resources
<1>a. ASSUME pc \in FailoverLabels, NEW label \in FailoverLabels
      PROVE  PhaseFits(label, local)
  BY <1>a, LabelPhase DEF PhaseFits, HealthLabels, FailoverLabels
<1>1. ASSUME FailoverCheck PROVE Inv'
  <2>1. PICK lag \in Lags :
          UpdateConditions(instanceCondition(local, "SecondaryReady", checkSecondary(lag)), seen,
              IF instanceHealthy(checkSecondary(lag)) THEN "failoverConnect" ELSE "failoverAbort")
    BY <1>1 DEF FailoverCheck
  <2> DEFINE cr == instanceCondition(local, "SecondaryReady", checkSecondary(lag))
  <2>2. cr \in Resources /\ Agree(cr, local)
    BY <1>0, InstanceConditionType, ConditionsAgree
    DEF instanceCondition, Agree, ConditionTypes
  <2>3. PhaseFits("failoverConnect", local) /\ PhaseFits("failoverAbort", local)
    BY <1>1, <1>a DEF FailoverCheck, FailoverLabels
  <2>4. UNCHANGED promoted
    BY <1>1 DEF FailoverCheck
  <2> HIDE DEF cr
  <2> QED
    BY <1>0, <2>1, <2>2, <2>3, <2>4, UpdateConditionsInv DEF cr
<1>2. ASSUME FailoverAbort PROVE Inv'
  <2> DEFINE cr == [local EXCEPT !.phase = "Failing"]
  <2>1. cr \in Resources /\ cr.phase = "Failing"
    BY <1>0, PhaseUpdateType DEF Phases
  <2>2. StatusUpdate(cr, seen, "idle", "idle") /\ UNCHANGED promoted
    BY <1>2 DEF FailoverAbort
  <2> HIDE DEF cr
  <2> QED
    BY <2>1, <2>2, IdleFits, StatusUpdateInv
<1>3. ASSUME FailoverConnect PROVE Inv'
  <2>1. PhaseFits("failoverStop", local)
    BY <1>3, <1>a DEF FailoverConnect, FailoverLabels
  <2> QED
    BY <1>0, <1>3, <2>1, IdleFits, ProceedInv DEF FailoverConnect
<1>4. ASSUME StopReplication PROVE Inv'
  <2>1. PhaseFits("failoverPromote", local)
    BY <1>4, <1>a DEF StopReplication, FailoverLabels
  <2> QED
    BY <1>0, <1>4, <2>1, ProceedInv DEF StopReplication
<1>5. ASSUME PromoteSecondaryToPrimary PROVE Inv'
  <2>1. PhaseFits("failoverService", local)
    BY <1>5, <1>a DEF PromoteSecondaryToPrimary, FailoverLabels
  <2>2. ASSUME Promote
        PROVE  promoted' \in Nat /\ promoted' >= promoted /\ promoted' > Len(local.history)
    BY <1>0, <2>2 DEF Promote
  <2> QED
    BY <1>0, <1>5, <2>1, <2>2, IdleFits, ProceedInv DEF PromoteSecondaryToPrimary
<1>6. ASSUME UpdateServicesAfterFailover PROVE Inv'
  <2>1. PhaseFits("failoverRecord", local)
    BY <1>6, <1>a DEF UpdateServicesAfterFailover, FailoverLabels
  <2>2. promoted > Len(local.history)
    BY <1>6 DEF UpdateServicesAfterFailover, Inv, PromotedBeforeRecord
  <2> QED
    BY <1>0, <1>6, <2>1, <2>2, ProceedInv DEF UpdateServicesAfterFailover
<1>7. ASSUME RecordFailover PROVE Inv'
  <2> DEFINE cr == [afterFailover(local) EXCEPT !.failCount = 0]
  <2>1. cr \in Resources
    BY <1>0, FailoverUpdateType, CountUpdateType DEF TypeOK
  <2>2. Len(cr.history) = Len(local.history) + 1
    <3>1. local.history \in Seq(FailoverEvents)
      BY <1>0 DEF Resources
    <3> QED
      BY <1>0, <3>1 DEF Resources, afterFailover
  <2>3. promoted >= Len(cr.history)
    BY <1>0, <1>7, <2>2 DEF RecordFailover, Inv, PromotedBeforeRecord
  <2>4. StatusUpdate(cr, seen, "idle", "idle") /\ UNCHANGED promoted
    BY <1>7 DEF RecordFailover
  <2> HIDE DEF cr
  <2> QED
    BY <2>1, <2>3, <2>4, IdleFits, StatusUpdateInv
<1>8. ASSUME HandleRecovery PROVE Inv'
  <2> DEFINE cr == [local EXCEPT !.currentSecondary = oldPrimaryName, !.phase = "Running"]
  <2>1. cr \in Resources
    BY <1>0, OldPrimaryNameType DEF Resources, Phases
  <2>2. cr.phase = "Running"
    BY <1>0 DEF Resources
  <2>3. StatusUpdate(cr, seen, "idle", "idle") \/ Proceed("idle")
    BY <1>8 DEF HandleRecovery
  <2>4. UNCHANGED promoted
    BY <1>8 DEF HandleRecovery
  <2> HIDE DEF cr
  <2> QED
    BY <1>0, <2>1, <2>2, <2>3, <2>4, IdleFits, StatusUpdateInv, ProceedInv
<1> QED
  BY <1>1, <1>2, <1>3, <1>4, <1>5, <1>6, <1>7, <1>8

(* The environment writes the object only through Supersede, which leaves  *)
(* no fresh copy, and never makes it Recovering.                           *)
LEMMA EnvironmentInv ==
    ASSUME Inv, TypeOK, Environment
    PROVE  Inv'
<1> USE DEF resource, handler
<1>1. CASE CacheSync
  BY <1>1 DEF CacheSync, Inv, FreshCopiesAgree, Agree, HandlerMatchesPhase,
     PromotedBeforeRecord, RecoveringIsPromoted
<1>2. CASE Crash
  BY <1>2, IdleFits DEF Crash, Continue, Inv, FreshCopiesAgree, Agree, HandlerMatchesPhase,
     PromotedBeforeRecord, RecoveringIsPromoted
<1>3. ASSUME UNCHANGED <<resource, handler, promoted>> PROVE Inv'
  BY <1>3 DEF Inv, FreshCopiesAgree, Agree, HandlerMatchesPhase, PhaseFits,
     PromotedBeforeRecord, RecoveringIsPromoted
<1>4. ASSUME NEW cr, Supersede(cr), UNCHANGED promoted,
             cr.phase = "Recovering" => promoted >= Len(cr.history)
      PROVE  Inv'
  BY <1>4 DEF Supersede, Inv, FreshCopiesAgree, HandlerMatchesPhase, PhaseFits,
     PromotedBeforeRecord, RecoveringIsPromoted
<1>5. CASE UserEdit
  BY <1>4, <1>5 DEF UserEdit, Inv, RecoveringIsPromoted
<1>6. CASE AdminNames
  <2> DEFINE cr == [server EXCEPT !.currentPrimary = PodName("primary"),
                                  !.currentSecondary = PodName("secondary")]
  <2>1. cr.phase = "Running"
    BY <1>6 DEF AdminNames, TypeOK, Resources
  <2> QED
    BY <1>4, <1>6, <2>1 DEF AdminNames
<1>7. CASE ManualFailover
  <2> DEFINE cr == [SetCondition(server, "SecondaryReady", "True") EXCEPT !.phase = "Failover"]
  <2>1. cr.phase = "Failover"
    BY ConditionUpdateType, PhaseUpdateType
    DEF TypeOK, ConditionTypes, ConditionStatus, Phases
  <2>2. Supersede(cr) /\ UNCHANGED promoted
    BY <1>7 DEF ManualFailover
  <2> HIDE DEF cr
  <2> QED
    BY <1>4, <2>1, <2>2
<1>8. CASE SvcCacheSync \/ SlaveBreaks \/ ClientWrite \/ Replicate \/ Tick
  BY <1>3, <1>8 DEF SvcCacheSync, SlaveBreaks, ClientWrite, Replicate, Tick
<1>9. CASE \E i \in Instances : ReadySync(i) \/ InstanceFails(i) \/ InstanceReturns(i)
  BY <1>3, <1>9 DEF ReadySync, InstanceFails, InstanceReturns
<1> QED
  BY <1>1, <1>2, <1>5, <1>6, <1>7, <1>8, <1>9 DEF Environment

-----------------------------------------------------------------------------
(* The invariants.                                                         *)

LEMMA InitInv == Init => Inv
<1> SUFFICES ASSUME Init PROVE Inv
  OBVIOUS
<1>1. FreshCopiesAgree
  BY DEF Init, FreshCopiesAgree
<1>2. HandlerMatchesPhase /\ PromotedBeforeRecord
  BY IdleFits DEF Init, HandlerMatchesPhase, PromotedBeforeRecord
<1>3. RecoveringIsPromoted
  BY DEF Init, RecoveringIsPromoted, NewResource
<1> QED
  BY <1>1, <1>2, <1>3 DEF Inv

LEMMA NextInv ==
    ASSUME Inv, TypeOK, [Next]_vars
    PROVE  Inv'
<1>1. CASE Handler
  BY <1>1, ReconcileInv, SetupReplicationInv, CheckHealthInv, FailoverInv DEF Handler
<1>2. CASE Environment
  BY <1>2, EnvironmentInv
<1>3. CASE UNCHANGED vars
  BY <1>3 DEF vars, resource, handler, Inv, FreshCopiesAgree, Agree,
     HandlerMatchesPhase, PhaseFits, PromotedBeforeRecord, RecoveringIsPromoted
<1> QED
  BY <1>1, <1>2, <1>3 DEF Next

(* The inductive invariant, of which the named invariants are conjuncts.   *)
THEOREM Invariance == Spec => []Inv
<1>1. TypeOK /\ Inv /\ [Next]_vars => Inv'
  BY NextInv
<1> QED
  BY <1>1, InitInv, TypeCorrect, PTL DEF Spec

(* Decisions written to the API server were made on the stored phase,      *)
(* history, names and failover time.                                       *)
THEOREM FreshCopies == Spec => []FreshCopiesAgree
<1>1. Inv => FreshCopiesAgree
  BY DEF Inv
<1> QED
  BY <1>1, Invariance, PTL

(* A phase handler runs on an object in its phase.                         *)
THEOREM HandlerFitsPhase == Spec => []HandlerMatchesPhase
<1>1. Inv => HandlerMatchesPhase
  BY DEF Inv
<1> QED
  BY <1>1, Invariance, PTL

(* A failover is recorded only after its promotion.                        *)
THEOREM PromotedFirst == Spec => []PromotedBeforeRecord
<1>1. Inv => PromotedBeforeRecord
  BY DEF Inv
<1> QED
  BY <1>1, Invariance, PTL

-----------------------------------------------------------------------------
(* Where clients are sent.                                                 *)

LEMMA ServesInv ==
    ASSUME TypeOK, Inv, OnlyPromotedServes, [Next]_vars
    PROVE  OnlyPromotedServes'
<1>0. promoted \in Nat /\ own \in Nat /\ Len(local.history) \in Nat
  BY DEF TypeOK, Resources
<1>1. ASSUME UNCHANGED <<service, own>>, promoted' = promoted PROVE OnlyPromotedServes'
  BY <1>1 DEF OnlyPromotedServes, service
<1>2. CASE Start \/ InitializeStatus \/ reconcileStatefulSets \/ reconcileReplication
           \/ ReadMasterStatus \/ StopSlave \/ ChangeMaster \/ StartSlave \/ RecordReplication
           \/ CheckPrimary \/ CheckSecondary \/ CheckReplication \/ HandlePrimaryFailure
           \/ TriggerFailover \/ RecordPhase \/ RecordLag \/ FailoverCheck \/ FailoverAbort
           \/ FailoverConnect \/ StopReplication \/ RecordFailover \/ HandleRecovery
  BY <1>1, <1>2
  DEF Start, InitializeStatus, reconcileStatefulSets, reconcileReplication, ReadMasterStatus,
      StopSlave, ChangeMaster, StartSlave, RecordReplication, CheckPrimary, CheckSecondary,
      CheckReplication, HandlePrimaryFailure, TriggerFailover, RecordPhase, RecordLag,
      FailoverCheck, FailoverAbort, FailoverConnect, StopReplication, RecordFailover,
      HandleRecovery, data
<1>3. CASE reconcileClusterService
  BY <1>3 DEF reconcileClusterService, OnlyPromotedServes, data
<1>4. CASE PromoteSecondaryToPrimary
  <2>1. UNCHANGED <<service, own>>
    BY <1>4 DEF PromoteSecondaryToPrimary, data
  <2>2. promoted' = promoted \/ promoted' > 0
    BY <1>0, <1>4 DEF PromoteSecondaryToPrimary, Promote
  <2> QED
    BY <2>1, <2>2 DEF OnlyPromotedServes, service
<1>5. CASE UpdateServicesAfterFailover
  <2>1. promoted > 0
    BY <1>0, <1>5 DEF UpdateServicesAfterFailover, Inv, PromotedBeforeRecord
  <2> QED
    BY <1>5, <2>1 DEF UpdateServicesAfterFailover, OnlyPromotedServes
<1>6. CASE SvcCacheSync
  BY <1>6 DEF SvcCacheSync, OnlyPromotedServes, data
<1>7. CASE ClientWrite
  BY <1>7 DEF ClientWrite, OnlyPromotedServes, service
<1>8. CASE CacheSync \/ Crash \/ SlaveBreaks \/ Replicate \/ Tick \/ UserEdit \/ AdminNames
           \/ ManualFailover
           \/ \E i \in Instances : ReadySync(i) \/ InstanceFails(i) \/ InstanceReturns(i)
  BY <1>1, <1>8
  DEF CacheSync, Crash, SlaveBreaks, Replicate, Tick, UserEdit, AdminNames, ManualFailover,
      ReadySync, InstanceFails, InstanceReturns, data
<1>9. CASE UNCHANGED vars
  BY <1>1, <1>9 DEF vars, data
<1> QED
  BY <1>2, <1>3, <1>4, <1>5, <1>6, <1>7, <1>8, <1>9 DEF Next, Handler, Environment

(* Clients are sent to the secondary, and it accepts a transaction, only   *)
(* after a promotion.                                                      *)
THEOREM PromotedServes == Spec => []OnlyPromotedServes
<1>1. Init => OnlyPromotedServes
  BY DEF Init, OnlyPromotedServes
<1>2. TypeOK /\ Inv /\ OnlyPromotedServes /\ [Next]_vars => OnlyPromotedServes'
  BY ServesInv
<1> QED
  BY <1>1, <1>2, TypeCorrect, Invariance, PTL DEF Spec
=============================================================================
