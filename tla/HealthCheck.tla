----------------------------- MODULE HealthCheck -----------------------------
(***************************************************************************)
(* The decisions of health_check.go and of isFailoverAllowed as operators  *)
(* on what the controller observes: the reachability of an instance, the   *)
(* state of the replication slave and the recorded status.                 *)
(***************************************************************************)
EXTENDS MariaDBHA

(* serving: TCP connect and SELECT 1 succeed.  unreachable: the pod has an *)
(* IP and one of them fails.  absent: no pod, or a pod without an IP.      *)
Reachability == {"serving", "unreachable", "absent"}

(* The slave threads of the secondary: no CHANGE MASTER in force,          *)
(* configured but stopped, or started.                                     *)
SlaveStates == {"none", "stopped", "started"}

-----------------------------------------------------------------------------
(* checkReplicationStatus: an error without a status row; otherwise        *)
(* whether both threads run, and the lag, NULL when they do not.           *)
checkReplicationStatus(slave, connected, lag) ==
    [err     |-> slave = "none",
     running |-> slave = "started" /\ connected,
     lag     |-> IF slave = "started" /\ connected THEN lag ELSE "nil"]

(* The primary has no replication status to check.                         *)
noStatus == checkReplicationStatus("none", FALSE, "nil")

(* executeHealthChecks, as (healthy, lag, err).  The branches for stopped  *)
(* threads and for a lag above the maximum return what the last one does.  *)
executeHealthChecks(isPrimary, reach, status) ==
    [healthy |-> reach = "serving",
     lag     |-> IF reach = "serving" /\ ~isPrimary THEN status.lag ELSE "nil",
     err     |-> \/ reach = "absent"
                 \/ reach = "serving" /\ ~isPrimary /\ status.err]

(* checkInstanceHealth returns no error: a failed check is an unhealthy    *)
(* instance, and then the condition is left alone.                         *)
instanceHealthy(check) == check.healthy /\ ~check.err

conditionStatus(b) == IF b THEN "True" ELSE "False"

SetCondition(cr, type, status) ==
    [cr EXCEPT !.conditions = [@ EXCEPT ![type] = status]]

instanceCondition(cr, type, check) ==
    IF check.err THEN cr
    ELSE SetCondition(cr, type, conditionStatus(check.healthy))

replicationActive(secondaryHealthy, lag) == secondaryHealthy /\ lag # "nil"

-----------------------------------------------------------------------------
(* The failure count performCompleteHealthCheck reports and stores in the  *)
(* annotation of the object in memory.  It saturates at the threshold,     *)
(* beyond which nothing tells two counts apart.                            *)
primaryFailCount(primaryHealthy, stored) ==
    IF primaryHealthy THEN 0
    ELSE IF stored < FailureThreshold THEN stored + 1 ELSE FailureThreshold

intervalElapsed(last, now) == last.never \/ now >= last.at + MinimumInterval

failoverInProgress(cr) == cr.phase \in {"Failover", "Recovering"}

(* Mutant: the minimum interval is forgotten.                              *)
isFailoverAllowedAnyTime(cr, now) == AutomaticFailover /\ ~failoverInProgress(cr)

isFailoverAllowed(cr, now) ==
    /\ AutomaticFailover
    /\ ~failoverInProgress(cr)
    /\ intervalElapsed(cr.lastFailover, now)

(* Mutant: the threshold has to be exceeded.                               *)
shouldFailoverAbove(cr, count, now) ==
    count > FailureThreshold /\ isFailoverAllowed(cr, now)

(* handlePrimaryFailure is not part of the source: its call site says it   *)
(* increments the count and compares it with the threshold, and            *)
(* isFailoverAllowed is the guard written for it.                          *)
shouldFailover(cr, count, now) ==
    count >= FailureThreshold /\ isFailoverAllowed(cr, now)
=============================================================================
