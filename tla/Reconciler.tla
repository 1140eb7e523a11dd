------------------------------ MODULE Reconciler ------------------------------
(***************************************************************************)
(* The reconciliation loop of the MariaDBHA controller: one worker runs    *)
(* Reconcile on one MariaDBHA object, against an informer cache that lags  *)
(* behind the API server, two MariaDB instances that fail and return, and  *)
(* SQL statements and API writes that fail or are applied without answer.  *)
(*                                                                         *)
(*  - pc names the next call of the handler; each label is one API write   *)
(*    or one SQL session, so that a crash or a step of the environment     *)
(*    falls between any two of them.                                       *)
(*  - A resource version is abstracted by a freshness bit: a write of an   *)
(*    object succeeds iff the copy is of the stored version.  For the      *)
(*    Service, which never returns to an earlier value under one cached    *)
(*    copy, equality of the values says the same.                          *)
(*  - The StatefulSets, ConfigMaps and the other Services exist already.   *)
(*  - disturbances counts what need not happen at all: failed or lost      *)
(*    calls, crashes of the operator, failures of instances, edits.        *)
(***************************************************************************)
EXTENDS HealthCheck

CONSTANTS
    MaxTime,          \* bound on the clock
    MaxWrites,        \* bound on the transactions of clients
    MaxDisturbances,  \* bound on failures and outside interventions
    Lags,             \* lags a running slave reports: a subset of LagValues
    PersistCounts,    \* does handlePrimaryFailure update the annotations?
    ScanFits,         \* does SHOW MASTER STATUS return the two columns scanned?
    AdminPatches      \* does an administrator fill in the pod names of the status?

ASSUME BoundsAssumption ==
    /\ MaxTime \in Nat
    /\ MaxWrites \in Nat
    /\ MaxDisturbances \in Nat
    /\ Lags \subseteq LagValues \ {"nil"}
    /\ PersistCounts \in BOOLEAN
    /\ ScanFits \in BOOLEAN
    /\ AdminPatches \in BOOLEAN

VARIABLES
    server,        \* the stored MariaDBHA object
    cache,         \* the informer's copy
    cacheFresh,    \* is the informer's copy of the stored version?
    pc,            \* next step of the handler; "idle" between two reconciles
    local,         \* the handler's object in memory
    localFresh,    \* does it carry the stored resource version?
    seen,          \* the handler's other variables: results of its checks
    svc,           \* selector of the client Service
    svcCache,      \* the informer's copy of it
    up,            \* reachability of each instance
    ready,         \* readiness of each StatefulSet, as the informer has it
    readOnly,      \* global read_only on the secondary instance
    slave,         \* its slave threads
    slavePos,      \* the position of the primary's binlog they reached
    written,       \* number of transactions in the primary's binlog
    copied,        \* which of them the secondary instance has
    own,           \* number of client transactions the secondary accepted
    now,           \* clock
    disturbances,  \* disturbances so far
    promoted       \* history: the failover the secondary was last promoted for,
                   \* numbered as the promoting handler's copy numbers it

resource == <<server, cache, cacheFresh>>
handler  == <<pc, local, localFresh, seen>>
service  == <<svc, svcCache>>
pods     == <<up, ready>>
database == <<readOnly, slave, slavePos>>
data     == <<written, copied, own>>
vars     == <<resource, handler, service, pods, database, data,
              now, disturbances, promoted>>

Labels == {"idle", "statefulsets", "services", "replication", "setupMaster",
           "setupStop", "setupChange", "setupStart", "recordReplication",
           "checkPrimary", "checkSecondary", "checkReplication", "decide",
           "triggerFailover", "recordLag", "failoverCheck", "failoverAbort",
           "failoverConnect", "failoverStop", "failoverPromote",
           "failoverService", "failoverRecord", "recovery"}

Selectors == {"none", "primary", "secondary"}

Observations == [primary : BOOLEAN, secondary : BOOLEAN, lag : LagValues,
                 count : Nat, binlogPos : Nat]
NothingSeen == [primary |-> FALSE, secondary |-> FALSE, lag |-> "nil",
                count |-> 0, binlogPos |-> 0]

TypeOK ==
    /\ server \in Resources /\ cache \in Resources /\ local \in Resources
    /\ cacheFresh \in BOOLEAN /\ localFresh \in BOOLEAN
    /\ pc \in Labels /\ seen \in Observations
    /\ svc \in Selectors /\ svcCache \in Selectors
    /\ up \in [Instances -> Reachability] /\ ready \in [Instances -> BOOLEAN]
    /\ readOnly \in BOOLEAN /\ slave \in SlaveStates /\ slavePos \in Nat
    /\ written \in Nat /\ copied \subseteq Nat /\ own \in Nat
    /\ now \in Nat /\ disturbances \in 0 .. MaxDisturbances
    /\ promoted \in Nat

(* Both pods have started, no Service is there and the object was just     *)
(* created; the secondary's my.cnf has read_only = ON.                     *)
Init ==
    /\ server = NewResource /\ cache = NewResource /\ cacheFresh = TRUE
    /\ pc = "idle" /\ local = NewResource /\ localFresh = FALSE
    /\ seen = NothingSeen
    /\ svc = "none" /\ svcCache = "none"
    /\ up = [i \in Instances |-> "serving"]
    /\ ready = [i \in Instances |-> FALSE]
    /\ readOnly = TRUE /\ slave = "none" /\ slavePos = 0
    /\ written = 0 /\ copied = {} /\ own = 0
    /\ now = 0 /\ disturbances = 0
    /\ promoted = 0

-----------------------------------------------------------------------------
(* Steps of the handler and writes of the object.                          *)

Disturb ==
    /\ disturbances < MaxDisturbances
    /\ disturbances' = disturbances + 1

(* The handler goes on at label with this object and these observations;   *)
(* a handler that returns drops them.                                      *)
Continue(label, cr, fresh, obs) ==
    /\ pc' = label
    /\ local' = IF label = "idle" THEN NewResource ELSE cr
    /\ localFresh' = (label # "idle" /\ fresh)
    /\ seen' = IF label = "idle" THEN NothingSeen ELSE obs

(* Mutant: the update carries no resource version, the last write wins.    *)
StoreLastWriteWins(stored) ==
    /\ server' = stored
    /\ cacheFresh' = (cacheFresh /\ stored = server)
    /\ UNCHANGED cache

(* One update request: stored is what the API server keeps of it.  It is   *)
(* accepted, refused as a conflict, fails, or is applied and its answer    *)
(* is lost.  A client decodes the answer into its object, and keeps its    *)
(* own changes when there is none.                                         *)
Store(stored) ==
    /\ localFresh
    /\ server' = stored
    /\ cacheFresh' = (cacheFresh /\ stored = server)
    /\ UNCHANGED cache

Write(stored, cr, obs, ok, fail) ==
    \/ /\ Store(stored)
       /\ Continue(ok, stored, TRUE, obs)
       /\ UNCHANGED disturbances
    \/ /\ ~localFresh
       /\ Continue(fail, cr, FALSE, obs)
       /\ UNCHANGED <<resource, disturbances>>
    \/ /\ Disturb
       /\ Continue(fail, cr, localFresh, obs)
       /\ UNCHANGED resource
    \/ /\ Disturb
       /\ Store(stored)
       /\ Continue(fail, cr, stored = server, obs)

(* Status().Update: the status subresource ignores the annotations.        *)
StatusUpdate(cr, obs, ok, fail) ==
    Write([cr EXCEPT !.failCount = server.failCount], cr, obs, ok, fail)

(* No request when nothing changed; a failed request is only logged.       *)
UpdateConditions(cr, obs, next) ==
    IF cr = local
    THEN Continue(next, local, localFresh, obs) /\ UNCHANGED <<resource, disturbances>>
    ELSE StatusUpdate(cr, obs, next, next)

(* A step without a request.                                               *)
Proceed(label) ==
    Continue(label, local, localFresh, seen) /\ UNCHANGED <<resource, disturbances>>

(* A call that fails, after which the handler goes on at label.            *)
Fail(label) ==
    Disturb /\ Continue(label, local, localFresh, seen) /\ UNCHANGED resource

(* Mutant: what is neither a failover nor a recovery has its health        *)
(* checked.                                                                *)
PhaseHandlerByDefault(phase) ==
    IF phase = "Failover" THEN "failoverCheck"
    ELSE IF phase = "Recovering" THEN "recovery"
    ELSE "checkPrimary"

(* The phase handler Reconcile calls after reconcileReplication.           *)
PhaseHandler(phase) ==
    IF phase \in {"Running", "Degraded"} THEN "checkPrimary"
    ELSE IF phase = "Failover" THEN "failoverCheck"
    ELSE IF phase = "Recovering" THEN "recovery"
    ELSE "idle"

Dispatch == PhaseHandler(local.phase)

bothReady == ready["primary"] /\ ready["secondary"]
serving(i) == up[i] = "serving"
-----------------------------------------------------------------------------
(* Reconcile up to the phase handlers.                                     *)

(* Mutant: the informer's copy is sent with the stored version.            *)
StartWithStoredVersion ==
    /\ pc = "idle"
    /\ Continue("statefulsets", cache, TRUE, NothingSeen)
    /\ UNCHANGED <<resource, service, pods, database, data, now, disturbances, promoted>>

Start ==
    /\ pc = "idle"
    /\ Continue("statefulsets", cache, cacheFresh, NothingSeen)
    /\ UNCHANGED <<resource, service, pods, database, data, now, disturbances, promoted>>

InitializeStatus ==
    /\ pc = "statefulsets"
    /\ local.phase = ""
    /\ StatusUpdate([local EXCEPT !.phase = "Initializing"], seen, "idle", "idle")
    /\ UNCHANGED <<service, pods, database, data, now, promoted>>

reconcileStatefulSets ==
    /\ pc = "statefulsets"
    /\ local.phase # ""
    /\ IF bothReady /\ local.phase = "Initializing"
       THEN StatusUpdate([local EXCEPT !.phase = "Running"], seen, "services", "idle")
       ELSE Proceed("services")
    /\ UNCHANGED <<service, pods, database, data, now, promoted>>

(* The client Service is created, or its selector set back to the role     *)
(* primary; either way Reconcile returns and is queued again.              *)
reconcileClusterService ==
    /\ pc = "services"
    /\ \/ /\ svcCache # "primary"
          /\ svc' = IF svc = svcCache THEN "primary" ELSE svc
          /\ Proceed("idle")
       \/ /\ svcCache = "primary"
          /\ Proceed("replication")
          /\ UNCHANGED svc
       \/ Fail("idle") /\ UNCHANGED svc
    /\ UNCHANGED <<svcCache, pods, database, data, now, promoted>>

(* Mutant: any ReplicationActive condition counts as configured.           *)
replicationConfiguredOnce == local.conditions["ReplicationActive"] # "absent"

replicationConfigured == local.conditions["ReplicationActive"] = "True"

reconcileReplication ==
    /\ pc = "replication"
    /\ IF bothReady /\ ~replicationConfigured /\ \A i \in Instances : up[i] # "absent"
       THEN Proceed("setupMaster")
       ELSE Proceed(Dispatch)
    /\ UNCHANGED <<service, pods, database, data, now, promoted>>

-----------------------------------------------------------------------------
(* setupReplication.  Every error is an event and Reconcile goes on.       *)

ReadMasterStatus ==
    /\ pc = "setupMaster"
    /\ \/ /\ serving("primary") /\ ScanFits
          /\ Continue("setupStop", local, localFresh, [seen EXCEPT !.binlogPos = written])
          /\ UNCHANGED <<resource, disturbances>>
       \/ ~(serving("primary") /\ ScanFits) /\ Proceed(Dispatch)
       \/ Fail(Dispatch)
    /\ UNCHANGED <<service, pods, database, data, now, promoted>>

(* A failed STOP SLAVE is ignored, a failed connection is not.             *)
StopSlave ==
    /\ pc = "setupStop"
    /\ \/ /\ serving("secondary")
          /\ slave' = IF slave = "started" THEN "stopped" ELSE slave
          /\ Proceed("setupChange")
       \/ serving("secondary") /\ Fail("setupChange") /\ UNCHANGED slave
       \/ ~serving("secondary") /\ Proceed(Dispatch) /\ UNCHANGED slave
    /\ UNCHANGED <<service, pods, readOnly, slavePos, data, now, promoted>>

(* A statement that fails may have been executed, its answer lost.         *)
ChangeMaster ==
    /\ pc = "setupChange"
    /\ \/ /\ serving("secondary") /\ slave # "started"
          /\ slave' = "stopped" /\ slavePos' = seen.binlogPos
          /\ Proceed("setupStart") \/ Fail(Dispatch)
       \/ /\ ~(serving("secondary") /\ slave # "started")
          /\ Proceed(Dispatch)
          /\ UNCHANGED <<slave, slavePos>>
       \/ Fail(Dispatch) /\ UNCHANGED <<slave, slavePos>>
    /\ UNCHANGED <<service, pods, readOnly, data, now, promoted>>

StartSlave ==
    /\ pc = "setupStart"
    /\ \/ /\ serving("secondary")
          /\ slave' = "started"
          /\ Proceed("recordReplication") \/ Fail(Dispatch)
       \/ ~serving("secondary") /\ Proceed(Dispatch) /\ UNCHANGED slave
       \/ Fail(Dispatch) /\ UNCHANGED slave
    /\ UNCHANGED <<service, pods, readOnly, slavePos, data, now, promoted>>

RecordReplication ==
    /\ pc = "recordReplication"
    /\ StatusUpdate(SetCondition(local, "ReplicationActive", "True"), seen,
                    Dispatch, "idle")
    /\ UNCHANGED <<service, pods, database, data, now, promoted>>

-----------------------------------------------------------------------------
(* checkHealth: performCompleteHealthCheck, then the decisions on it.      *)

checkPrimary == executeHealthChecks(TRUE, up["primary"], noStatus)

checkSecondary(lag) ==
    executeHealthChecks(FALSE, up["secondary"],
        checkReplicationStatus(slave, serving("primary"), lag))

CheckPrimary ==
    /\ pc = "checkPrimary"
    /\ UpdateConditions(instanceCondition(local, "PrimaryReady", checkPrimary),
           [seen EXCEPT !.primary = instanceHealthy(checkPrimary)], "checkSecondary")
    /\ UNCHANGED <<service, pods, database, data, now, promoted>>

CheckSecondary ==
    /\ pc = "checkSecondary"
    /\ \E lag \in Lags :
         LET check == checkSecondary(lag)
         IN  UpdateConditions(instanceCondition(local, "SecondaryReady", check),
                 [seen EXCEPT !.secondary = instanceHealthy(check), !.lag = check.lag],
                 "checkReplication")
    /\ UNCHANGED <<service, pods, database, data, now, promoted>>

CheckReplication ==
    /\ pc = "checkReplication"
    /\ UpdateConditions(
           SetCondition(local, "ReplicationActive",
               conditionStatus(replicationActive(seen.secondary, seen.lag))),
           seen, "decide")
    /\ UNCHANGED <<service, pods, database, data, now, promoted>>

(* The first half of handlePrimaryFailure: the count, and perhaps its      *)
(* update, which stores the annotations and leaves the status alone.       *)
HandlePrimaryFailure ==
    /\ pc = "decide"
    /\ ~seen.primary
    /\ LET count == primaryFailCount(FALSE, local.failCount)
           obs == [seen EXCEPT !.count = count]
       IN  IF PersistCounts
           THEN Write([server EXCEPT !.failCount = count], local, obs,
                      "triggerFailover", "idle")
           ELSE /\ Continue("triggerFailover", local, localFresh, obs)
                /\ UNCHANGED <<resource, disturbances>>
    /\ UNCHANGED <<service, pods, database, data, now, promoted>>

TriggerFailover ==
    /\ pc = "triggerFailover"
    /\ IF shouldFailover(local, seen.count, now)
       THEN StatusUpdate([local EXCEPT !.phase = "Failover"], seen, "idle", "idle")
       ELSE Proceed("idle")
    /\ UNCHANGED <<service, pods, database, data, now, promoted>>

(* Mutant: a phase that is not one of the API's.                           *)
healthPhaseUnknown ==
    IF replicationActive(seen.secondary, seen.lag) THEN "Running" ELSE "Unhealthy"

healthPhase ==
    IF replicationActive(seen.secondary, seen.lag) THEN "Running" ELSE "Degraded"

RecordPhase ==
    /\ pc = "decide"
    /\ seen.primary
    /\ LET next == IF seen.lag = "nil" THEN "idle" ELSE "recordLag"
       IN  IF local.phase = healthPhase
           THEN Proceed(next)
           ELSE StatusUpdate([local EXCEPT !.phase = healthPhase], seen, next, "idle")
    /\ UNCHANGED <<service, pods, database, data, now, promoted>>

RecordLag ==
    /\ pc = "recordLag"
    /\ StatusUpdate([local EXCEPT !.lag = seen.lag], seen, "idle", "idle")
    /\ UNCHANGED <<service, pods, database, data, now, promoted>>

-----------------------------------------------------------------------------
(* handleFailover.                                                         *)

FailoverCheck ==
    /\ pc = "failoverCheck"
    /\ \E lag \in Lags :
         LET check == checkSecondary(lag)
         IN  UpdateConditions(instanceCondition(local, "SecondaryReady", check), seen,
                 IF instanceHealthy(check) THEN "failoverConnect" ELSE "failoverAbort")
    /\ UNCHANGED <<service, pods, database, data, now, promoted>>

(* Mutant: the phase Failing is set in memory and not written.             *)
FailoverAbortInMemory ==
    /\ pc = "failoverAbort"
    /\ Proceed("idle")
    /\ UNCHANGED <<service, pods, database, data, now, promoted>>

(* Mutant: after a failover that was given up the cluster is watched again.*)
FailoverAbortDegraded ==
    /\ pc = "failoverAbort"
    /\ StatusUpdate([local EXCEPT !.phase = "Degraded"], seen, "idle", "idle")
    /\ UNCHANGED <<service, pods, database, data, now, promoted>>

(* The error of this update is only logged.                                *)
FailoverAbort ==
    /\ pc = "failoverAbort"
    /\ StatusUpdate([local EXCEPT !.phase = "Failing"], seen, "idle", "idle")
    /\ UNCHANGED <<service, pods, database, data, now, promoted>>

(* The connection info needs the pod; a safe promotion needs a status row. *)
connectable ==
    /\ up["secondary"] # "absent"
    /\ SafePromotion => serving("secondary") /\ slave # "none"

FailoverConnect ==
    /\ pc = "failoverConnect"
    /\ \/ connectable /\ Proceed("failoverStop")
       \/ ~connectable /\ Proceed("idle")
       \/ Fail("idle")
    /\ UNCHANGED <<service, pods, database, data, now, promoted>>

(* stopReplication: STOP REPLICA then RESET SLAVE ALL; whatever fails, the *)
(* failover goes on.                                                       *)
StopReplication ==
    /\ pc = "failoverStop"
    /\ \/ serving("secondary") /\ slave' = "none" /\ Proceed("failoverPromote")
       \/ ~serving("secondary") /\ Proceed("failoverPromote") /\ UNCHANGED slave
       \/ /\ serving("secondary")
          /\ Fail("failoverPromote")
          /\ slave' \in {slave, IF slave = "started" THEN "stopped" ELSE slave}
    /\ UNCHANGED <<service, pods, readOnly, slavePos, data, now, promoted>>

(* The promotions of one failover share its number: its retries, and those *)
(* of handlers that still run it on an older copy.                         *)
Promote ==
    /\ readOnly' = ReadOnlyMode
    /\ promoted' = IF promoted > Len(local.history) THEN promoted
                   ELSE Len(local.history) + 1

(* Mutant: a failed promotion is only logged, like the steps around it.    *)
PromotionErrorLogged ==
    /\ pc = "failoverPromote"
    /\ \/ serving("secondary") /\ Promote /\ Proceed("failoverService")
       \/ ~serving("secondary") /\ Proceed("failoverService")
          /\ UNCHANGED <<readOnly, promoted>>
    /\ UNCHANGED <<service, pods, slave, slavePos, data, now>>

(* A failed SET GLOBAL ends the attempt; it may have been executed.        *)
PromoteSecondaryToPrimary ==
    /\ pc = "failoverPromote"
    /\ \/ serving("secondary") /\ Promote /\ Proceed("failoverService")
       \/ ~serving("secondary") /\ Proceed("idle") /\ UNCHANGED <<readOnly, promoted>>
       \/ Fail("idle") /\ UNCHANGED <<readOnly, promoted>>
       \/ serving("secondary") /\ Promote /\ Fail("idle")
    /\ UNCHANGED <<service, pods, slave, slavePos, data, now>>

(* The selector becomes the labels of the secondary's pod.  A Service or a *)
(* pod that is not found and a refused update do not stop the failover.    *)
UpdateServicesAfterFailover ==
    /\ pc = "failoverService"
    /\ \/ /\ svc' = IF svcCache # "none" /\ svc = svcCache /\ up["secondary"] # "absent"
                    THEN "secondary" ELSE svc
          /\ Proceed("failoverRecord")
       \/ Fail("failoverRecord") /\ svc' \in {svc, IF svc = svcCache /\ svc # "none"
                                                   THEN "secondary" ELSE svc}
    /\ UNCHANGED <<svcCache, pods, database, data, now, promoted>>

afterFailover(cr) ==
    [cr EXCEPT !.phase = "Recovering",
               !.lastFailover = [never |-> FALSE, at |-> now],
               !.currentPrimary = cr.currentSecondary,
               !.currentSecondary = "",
               !.history = Append(@, [oldPrimary |-> cr.currentPrimary,
                                      newPrimary |-> cr.currentSecondary])]

(* The counters are reset in memory only: the update ignores them.         *)
RecordFailover ==
    /\ pc = "failoverRecord"
    /\ StatusUpdate([afterFailover(local) EXCEPT !.failCount = 0], seen, "idle", "idle")
    /\ UNCHANGED <<service, pods, database, data, now, promoted>>

-----------------------------------------------------------------------------
(* handleRecovery.  configureAsSecondary and createNewSecondary are stubs. *)

(* Mutant: the name is looked for in the status, where the failover has    *)
(* replaced it.                                                            *)
oldPrimaryOfStatus == local.currentSecondary

oldPrimaryName ==
    IF local.history = << >> THEN ""
    ELSE local.history[Len(local.history)].oldPrimary

(* The pod of the recorded name exists and the primary instance has an     *)
(* address; an instance that is unreachable may still accept a connection. *)
oldPrimaryMayAnswer ==
    /\ \E i \in Instances : PodName(i) = oldPrimaryName /\ up[i] # "absent"
    /\ up["primary"] # "absent"

oldPrimaryAnswers == oldPrimaryMayAnswer /\ serving("primary")

HandleRecovery ==
    /\ pc = "recovery"
    /\ \/ /\ oldPrimaryMayAnswer /\ AutomaticFailback
          /\ StatusUpdate([local EXCEPT !.currentSecondary = oldPrimaryName,
                                        !.phase = "Running"], seen, "idle", "idle")
       \/ ~(oldPrimaryAnswers /\ AutomaticFailback) /\ Proceed("idle")
    /\ UNCHANGED <<service, pods, database, data, now, promoted>>

Handler ==
    \/ Start \/ InitializeStatus \/ reconcileStatefulSets
    \/ reconcileClusterService \/ reconcileReplication
    \/ ReadMasterStatus \/ StopSlave \/ ChangeMaster \/ StartSlave \/ RecordReplication
    \/ CheckPrimary \/ CheckSecondary \/ CheckReplication
    \/ HandlePrimaryFailure \/ TriggerFailover \/ RecordPhase \/ RecordLag
    \/ FailoverCheck \/ FailoverAbort \/ FailoverConnect \/ StopReplication
    \/ PromoteSecondaryToPrimary \/ UpdateServicesAfterFailover \/ RecordFailover
    \/ HandleRecovery

-----------------------------------------------------------------------------
(* The environment.                                                        *)

CacheSync ==
    /\ ~cacheFresh
    /\ cache' = server /\ cacheFresh' = TRUE
    /\ UNCHANGED <<server, handler, service, pods, database, data, now, disturbances, promoted>>

SvcCacheSync ==
    /\ svcCache # svc
    /\ svcCache' = svc
    /\ UNCHANGED <<resource, handler, svc, pods, database, data, now, disturbances, promoted>>

ReadySync(i) ==
    /\ ready[i] # serving(i)
    /\ ready' = [ready EXCEPT ![i] = serving(i)]
    /\ UNCHANGED <<resource, handler, service, up, database, data, now, disturbances, promoted>>

(* The operator's pod dies: what the handler had in memory is lost.        *)
Crash ==
    /\ pc # "idle"
    /\ Disturb
    /\ Continue("idle", local, FALSE, seen)
    /\ UNCHANGED <<resource, service, pods, database, data, now, promoted>>

InstanceFails(i) ==
    /\ serving(i)
    /\ Disturb
    /\ \E r \in {"unreachable", "absent"} : up' = [up EXCEPT ![i] = r]
    /\ UNCHANGED <<resource, handler, service, ready, database, data, now, promoted>>

(* A pod that was gone starts from its files: my.cnf sets read_only on the *)
(* secondary again, and a configured slave starts by itself.               *)
InstanceReturns(i) ==
    /\ ~serving(i)
    /\ up' = [up EXCEPT ![i] = "serving"]
    /\ IF i = "secondary" /\ up[i] = "absent"
       THEN /\ readOnly' = TRUE
            /\ slave' = IF slave = "none" THEN "none" ELSE "started"
       ELSE UNCHANGED <<readOnly, slave>>
    /\ UNCHANGED <<resource, handler, service, ready, slavePos, data, now,
                   disturbances, promoted>>

SlaveBreaks ==
    /\ slave = "started"
    /\ Disturb
    /\ slave' = "stopped"
    /\ UNCHANGED <<resource, handler, service, pods, readOnly, slavePos, data, now, promoted>>

(* A client that connects through the Service writes one transaction.      *)
ClientWrite ==
    /\ written + own < MaxWrites
    /\ \/ /\ svc = "primary" /\ serving("primary")
          /\ written' = written + 1 /\ UNCHANGED own
       \/ /\ svc = "secondary" /\ serving("secondary") /\ ~readOnly
          /\ own' = own + 1 /\ UNCHANGED written
    /\ UNCHANGED <<resource, handler, service, pods, database, copied, now,
                   disturbances, promoted>>

Replicate ==
    /\ slave = "started" /\ serving("primary") /\ serving("secondary")
    /\ slavePos < written
    /\ slavePos' = slavePos + 1
    /\ copied' = copied \cup {slavePos + 1}
    /\ UNCHANGED <<resource, handler, service, pods, readOnly, slave, written, own, now,
                   disturbances, promoted>>

Tick ==
    /\ now < MaxTime
    /\ now' = now + 1
    /\ UNCHANGED <<resource, handler, service, pods, database, data, disturbances, promoted>>

(* Another client stores a new version of the object: every copy of it     *)
(* that was read before is stale.                                          *)
Supersede(cr) ==
    /\ server' = cr
    /\ cacheFresh' = FALSE /\ localFresh' = FALSE
    /\ UNCHANGED <<cache, pc, local, seen>>

UserEdit ==
    /\ Disturb
    /\ Supersede(server)
    /\ UNCHANGED <<service, pods, database, data, now, promoted>>

(* Nothing in the operator sets the names before a failover copies them;   *)
(* an administrator may, on a cluster that runs and has not failed over.   *)
AdminNames ==
    /\ AdminPatches
    /\ server.phase = "Running" /\ server.history = << >>
    /\ server.currentPrimary = "" /\ server.currentSecondary = ""
    /\ Supersede([server EXCEPT !.currentPrimary = PodName("primary"),
                                !.currentSecondary = PodName("secondary")])
    /\ UNCHANGED <<service, pods, database, data, now, disturbances, promoted>>

(* ManualFailover on a current copy of the object; a copy that is stale by *)
(* the time of its last update is refused and changes nothing.             *)
ManualFailover ==
    /\ ~failoverInProgress(server)
    /\ intervalElapsed(server.lastFailover, now)
    /\ instanceHealthy(checkSecondary("low"))
    /\ Disturb
    /\ Supersede([SetCondition(server, "SecondaryReady", "True")
                      EXCEPT !.phase = "Failover"])
    /\ UNCHANGED <<service, pods, database, data, now, promoted>>

Environment ==
    \/ CacheSync \/ SvcCacheSync \/ Crash \/ SlaveBreaks \/ ClientWrite \/ Replicate
    \/ Tick \/ UserEdit \/ AdminNames \/ ManualFailover
    \/ \E i \in Instances : ReadySync(i) \/ InstanceFails(i) \/ InstanceReturns(i)

Next == Handler \/ Environment

Spec == Init /\ [][Next]_vars

(* The work queue runs Reconcile again after every return, each call       *)
(* returns, and the informers and the kubelet's probes catch up.           *)
Fairness ==
    /\ WF_vars(Handler)
    /\ WF_vars(CacheSync) /\ WF_vars(SvcCacheSync)
    /\ \A i \in Instances : WF_vars(ReadySync(i))

FairSpec == Spec /\ Fairness
=============================================================================
