----------------------------- MODULE MCReconciler -----------------------------
(***************************************************************************)
(* The properties only TLC checks: liveness under the fairness of the work *)
(* queue and the informers, and the statements of the repository's docs,   *)
(* comments and tests that the code contradicts.                           *)
(***************************************************************************)
EXTENDS ReconcilerProperties

(* The operator has just failed over from a primary that is gone, in a     *)
(* cluster whose pod names are known.                                      *)
RecoveringResource ==
    [NewResource EXCEPT
        !.phase = "Recovering",
        !.currentPrimary = PodName("secondary"),
        !.conditions = [c \in ConditionTypes |->
                           IF c = "ReplicationActive" THEN "False" ELSE "True"],
        !.lastFailover = [never |-> FALSE, at |-> 0],
        !.history = << [oldPrimary |-> PodName("primary"),
                        newPrimary |-> PodName("secondary")] >>,
        !.lag = "low",
        !.failCount = FailureThreshold]

RecoveryInit ==
    /\ server = RecoveringResource /\ cache = server /\ cacheFresh = TRUE
    /\ pc = "idle" /\ local = NewResource /\ localFresh = FALSE /\ seen = NothingSeen
    /\ svc = "secondary" /\ svcCache = "secondary"
    /\ up = [primary |-> "absent", secondary |-> "serving"]
    /\ ready = [primary |-> FALSE, secondary |-> TRUE]
    /\ readOnly = ReadOnlyMode /\ slave = "none" /\ slavePos = 0
    /\ written = 0 /\ copied = {} /\ own = 0
    /\ now = 0 /\ disturbances = 0 /\ promoted = 1

LiveSpec == (Init \/ RecoveryInit) /\ [][Next]_vars /\ Fairness

allServing == \A i \in Instances : serving(i)

(* A failover that was started is concluded, by a recovery or as Failing,  *)
(* even if requests fail, the operator restarts or the secondary is lost   *)
(* in the middle of it.                                                    *)
FailoverConcludes ==
    server.phase = "Failover" ~> server.phase # "Failover"

(* If the instances stay up, the cluster is Running and stays so, or is    *)
(* after a failover: a broken replication or a degraded phase heals.       *)
HealthyClusterSettles ==
    <>[]allServing =>
        <>[](server.phase \in {"Running", "Failing", "Recovering"})

(* If the primary is down for good and the cluster is watched, a failover  *)
(* starts, unless the last one is too recent.                              *)
PrimaryFailureDetected ==
    /\ server.phase \in {"Running", "Degraded"} /\ ~serving("primary")
    /\ intervalElapsed(server.lastFailover, now)
    ~> serving("primary") \/ server.phase \notin {"Running", "Degraded"}

(* If the instances stay up, a recovery ends in Running when the failover  *)
(* recorded which primary it replaced: the old primary is found again      *)
(* whatever failed, conflicted or crashed while it was away.               *)
RecoveryEnds ==
    <>[]allServing =>
        (server.phase = "Recovering" /\ server.history[Len(server.history)].oldPrimary # ""
            ~> server.phase # "Recovering")

-----------------------------------------------------------------------------
(* Statements of the repository that the code contradicts.                 *)

(* failover.go:99: the services point to the new primary.  Once a failover *)
(* is recorded the selector stays on the promoted secondary.               *)
ServiceFollowsPrimary ==
    [][server.phase = "Recovering" /\ svc = "secondary" => svc' = "secondary"]_vars

(* controller.go:519: everything works when the cluster is Running.  What  *)
(* the slave has passed by is on the secondary.                            *)
NoReplicationGap ==
    server.phase = "Running" /\ slave = "started" => 1 .. slavePos \subseteq copied

(* failover.go:81: replication is stopped on the secondary that becomes    *)
(* primary.  Once its failover is recorded, an instance whose slave        *)
(* configuration was reset is not made a slave again.                      *)
PromotedStaysDetached ==
    [][server.history # << >> /\ slave = "none" => slave' = "none"]_vars

(* controller.go:306: the replication is configured.                       *)
ReplicationConfigured ==
    <>[]allServing => <>(slave = "started")
=============================================================================
