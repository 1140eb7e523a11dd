------------------------------ MODULE MariaDBHA ------------------------------
(***************************************************************************)
(* The custom resource of the operator: the part of MariaDBHA.Spec that    *)
(* the controller reads as constants, and MariaDBHA.Status (plus the       *)
(* failure-count annotation) as a record.  Pod names, conditions and       *)
(* phases keep the names of the Go code; timestamps are ticks.             *)
(***************************************************************************)
EXTENDS Naturals, Sequences

CONSTANTS
    AutomaticFailover,   \* spec.replication.automaticFailover
    FailureThreshold,    \* spec.failover.failureDetection.failureThresholdCount
    MinimumInterval,     \* spec.failover.minimumIntervalSeconds, in ticks
    SafePromotion,       \* spec.failover.promotionStrategy = "safe"
    ReadOnlyMode,        \* spec.failover.readOnlyMode
    AutomaticFailback    \* spec.failover.automaticFailback

ASSUME SpecAssumption ==
    /\ AutomaticFailover \in BOOLEAN
    /\ FailureThreshold \in Nat \ {0}
    /\ MinimumInterval \in Nat
    /\ SafePromotion \in BOOLEAN
    /\ ReadOnlyMode \in BOOLEAN
    /\ AutomaticFailback \in BOOLEAN

(* "" is the phase of an object whose status was never written.            *)
Phases == {"", "Initializing", "Running", "Failing", "Failover",
           "Recovering", "Degraded"}

Instances == {"primary", "secondary"}      \* one StatefulSet of one pod each

PodName(i) == IF i = "primary" THEN "primary-0" ELSE "secondary-0"

(* Values of status.currentPrimary and status.currentSecondary.            *)
Names == {"", "primary-0", "secondary-0"}

ConditionTypes == {"PrimaryReady", "SecondaryReady", "ReplicationActive"}
ConditionStatus == {"absent", "True", "False"}

(* Seconds_Behind_Master as the controller tells it apart: NULL, at most   *)
(* spec.replication.maxLagSeconds, or above it.                            *)
LagValues == {"nil", "low", "high"}

(* status.lastFailoverTime: "nil" is encoded as never = TRUE.              *)
FailoverTimes == [never : BOOLEAN, at : Nat]
NeverFailedOver == [never |-> TRUE, at |-> 0]

FailoverEvents == [oldPrimary : Names, newPrimary : Names]

Resources ==
    [phase            : Phases,
     currentPrimary   : Names,
     currentSecondary : Names,
     conditions       : [ConditionTypes -> ConditionStatus],
     lastFailover     : FailoverTimes,
     history          : Seq(FailoverEvents),
     lag              : LagValues,
     failCount        : Nat]      \* annotation primary-fail-count; absent is 0

(* What kubectl apply creates: a spec and an empty status.                 *)
NewResource ==
    [phase            |-> "",
     currentPrimary   |-> "",
     currentSecondary |-> "",
     conditions       |-> [c \in ConditionTypes |-> "absent"],
     lastFailover     |-> NeverFailedOver,
     history          |-> << >>,
     lag              |-> "nil",
     failCount        |-> 0]
=============================================================================
