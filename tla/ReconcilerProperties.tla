------------------------- MODULE ReconcilerProperties -------------------------
(***************************************************************************)
(* What the reconciliation loop guarantees, whatever the interleaving of   *)
(* its steps with caches, failures and other clients of the API server.    *)
(***************************************************************************)
EXTENDS Reconciler

Lifecycle == INSTANCE PhaseLifecycle
    WITH phase <- server.phase, failovers <- Len(server.history),
         last <- server.lastFailover, clock <- now

(* The stored status follows the lifecycle of PhaseLifecycle: no handler   *)
(* running on a stale copy, no lost answer and no retry takes the object   *)
(* through another change of phase, starts a failover before the minimum   *)
(* interval, or ends one without recording it.                             *)
RefinesLifecycle == Lifecycle!LifecycleSpec

(* An object in memory that carries the stored resource version has the    *)
(* stored phase, history, names and failover time, so every decision that  *)
(* is then written was made on them.  An informer copy of the stored       *)
(* version is the stored object.                                           *)
Agree(cr1, cr2) ==
    /\ cr1.phase = cr2.phase
    /\ cr1.history = cr2.history
    /\ cr1.lastFailover = cr2.lastFailover
    /\ cr1.currentPrimary = cr2.currentPrimary
    /\ cr1.currentSecondary = cr2.currentSecondary

FreshCopiesAgree ==
    /\ cacheFresh => cache = server
    /\ localFresh => Agree(local, server)

HealthLabels == {"checkPrimary", "checkSecondary", "checkReplication", "decide",
                 "triggerFailover", "recordLag"}
FailoverLabels == {"failoverCheck", "failoverAbort", "failoverConnect", "failoverStop",
                   "failoverPromote", "failoverService", "failoverRecord"}

(* A phase handler only ever runs on an object in its phase: no write in   *)
(* the middle of a health check, a failover or a recovery, and no answer   *)
(* decoded into the object, changes the phase under it.                    *)
PhaseFits(label, cr) ==
    /\ label \in HealthLabels => cr.phase \in {"Running", "Degraded"}
    /\ label \in FailoverLabels => cr.phase = "Failover"
    /\ label = "recovery" => cr.phase = "Recovering"

HandlerMatchesPhase == PhaseFits(pc, local)

(* Once the promotion statement has succeeded, and until handleFailover    *)
(* has written its record, the promotion is that of the failover the       *)
(* object in memory is about to record.                                    *)
PromotedBeforeRecord ==
    pc \in {"failoverService", "failoverRecord"} => promoted > Len(local.history)

(* The stored status never hides a promotion (failover.go, steps 5 to 7).  *)
(* The failover the secondary was last promoted for is the last one of the *)
(* history, or it is not recorded yet and the phase still says so: it is   *)
(* in progress, or was given up.  So a failover of the history was         *)
(* promoted for, and no cluster is taken for Running, Degraded or          *)
(* Recovering with an instance promoted for a failover that has no event.  *)
(* This does not count promotions: a failover may promote several times.   *)
PromotionShows ==
    \/ promoted = Len(server.history)
    \/ promoted = Len(server.history) + 1 /\ server.phase \in {"Failover", "Failing"}

(* Clients are never sent to the secondary instance, and none of its own   *)
(* transactions exists, before a promotion made it the primary.            *)
OnlyPromotedServes ==
    svc = "secondary" \/ svcCache = "secondary" \/ own > 0 => promoted > 0

(* The history of failovers only grows, by one event at a time, and only   *)
(* in the write that ends a failover: no stale or repeated status update   *)
(* erases or repeats an event.                                             *)
HistoryAppendOnly ==
    [][server'.history = server.history
       \/ /\ server.phase = "Failover" /\ server'.phase = "Recovering"
          /\ \E e \in FailoverEvents : server'.history = Append(server.history, e)]_vars

(* A cluster that gave a failover up stays in Failing until ManualFailover *)
(* is called: no reconcile in flight, repeated or begun anew after the     *)
(* aborted failover watches it, repairs its phase or fails over again.     *)
FailingIsLeftByHand ==
    [][server.phase = "Failing" /\ server'.phase # "Failing" => ManualFailover]_vars

(* The pod names change only when an administrator fills in both, when a   *)
(* failover is recorded, or when a recovery names the old primary as the   *)
(* new secondary: a concurrent status update of the loop loses none of     *)
(* these.                                                                  *)
NoLostUpdate ==
    [][\/ /\ server'.currentPrimary = server.currentPrimary
          /\ server'.currentSecondary = server.currentSecondary
       \/ server.currentPrimary = "" /\ server.currentSecondary = ""
       \/ /\ Len(server'.history) = Len(server.history) + 1
          /\ server'.currentPrimary = server.currentSecondary
       \/ /\ server.phase = "Recovering" /\ server'.phase = "Running"
          /\ server'.currentPrimary = server.currentPrimary
          /\ server'.currentSecondary = server.history[Len(server.history)].oldPrimary]_vars
=============================================================================
