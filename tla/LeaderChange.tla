----------------------------- MODULE LeaderChange -----------------------------
(***************************************************************************)
(* A change of leader between two processes of the operator.  A leader     *)
(* that stalls past its lease still finishes what its handler was doing,   *)
(* beside its successor: Reconcile holds no lease, all it has is the       *)
(* resource version of its copies.                                         *)
(*                                                                         *)
(*  - A and B are two instances of Reconciler, each with a cache and a     *)
(*    handler of its own, on one API server and one pair of instances.     *)
(*    A leads first; B fills its cache and starts when it has the lease.   *)
(*  - A write of one process makes the copies of the other stale.          *)
(*  - A Service that came back to the value of a copy is taken for the     *)
(*    version of the copy: more writes are accepted here than by the API   *)
(*    server.                                                              *)
(*  - Clients' transactions, the clock and the pod names are left out: the *)
(*    run starts where the names are known, and a recovery is final here.  *)
(***************************************************************************)
EXTENDS HealthCheck

CONSTANTS MaxDisturbances, Lags, PersistCounts, ScanFits     \* as in Reconciler

ASSUME ProcessesAssumption ==
    /\ MaxDisturbances \in Nat
    /\ Lags \subseteq LagValues \ {"nil"}
    /\ PersistCounts \in BOOLEAN
    /\ ScanFits \in BOOLEAN

VARIABLES
    leader,                                                  \* holder of the lease
    server, svc, up, ready, readOnly, slave, slavePos, disturbances, promoted,
    cacheA, cacheFreshA, pcA, localA, localFreshA, seenA, svcCacheA,
    cacheB, cacheFreshB, pcB, localB, localFreshB, seenB, svcCacheB

processA == <<cacheA, cacheFreshA, pcA, localA, localFreshA, seenA, svcCacheA>>
processB == <<cacheB, cacheFreshB, pcB, localB, localFreshB, seenB, svcCacheB>>
cluster  == <<server, svc, up, ready, readOnly, slave, slavePos, disturbances, promoted>>
vars == <<leader, cluster, processA, processB>>

A == INSTANCE ReconcilerProperties
    WITH cache <- cacheA, cacheFresh <- cacheFreshA, pc <- pcA, local <- localA,
         localFresh <- localFreshA, seen <- seenA, svcCache <- svcCacheA,
         written <- 0, copied <- {}, own <- 0, now <- 0,
         MaxWrites <- 0, MaxTime <- 0, AdminPatches <- FALSE
B == INSTANCE ReconcilerProperties
    WITH cache <- cacheB, cacheFresh <- cacheFreshB, pc <- pcB, local <- localB,
         localFresh <- localFreshB, seen <- seenB, svcCache <- svcCacheB,
         written <- 0, copied <- {}, own <- 0, now <- 0,
         MaxWrites <- 0, MaxTime <- 0, AdminPatches <- FALSE

TypeOK == leader \in {"A", "B"} /\ A!TypeOK /\ B!TypeOK

(* A watched cluster whose pod names an administrator has filled in.       *)
RunningResource ==
    [NewResource EXCEPT !.phase = "Running",
                        !.currentPrimary = PodName("primary"),
                        !.currentSecondary = PodName("secondary"),
                        !.conditions = [c \in ConditionTypes |-> "True"],
                        !.lag = "low"]

(* Its primary has failed and a failover was triggered.                    *)
FailoverResource ==
    [SetCondition(RunningResource, "PrimaryReady", "False") EXCEPT !.phase = "Failover"]

Init ==
    /\ leader = "A"
    /\ \/ server = RunningResource /\ up = [i \in Instances |-> "serving"]
       \/ /\ server = FailoverResource
          /\ up = [primary |-> "unreachable", secondary |-> "serving"]
    /\ ready = [i \in Instances |-> TRUE]
    /\ readOnly = TRUE /\ slave = "started" /\ slavePos = 0
    /\ svc = "primary" /\ disturbances = 0 /\ promoted = 0
    /\ cacheA = server /\ cacheFreshA = TRUE /\ svcCacheA = svc
    /\ pcA = "idle" /\ localA = NewResource /\ localFreshA = FALSE /\ seenA = A!NothingSeen
    /\ cacheB = NewResource /\ cacheFreshB = FALSE /\ svcCacheB = "none"
    /\ pcB = "idle" /\ localB = NewResource /\ localFreshB = FALSE /\ seenB = B!NothingSeen

-----------------------------------------------------------------------------
(* B gets the lease and lists the objects, whatever A is doing.  What A    *)
(* had cached will not be read again.                                      *)
ChangeLeader ==
    /\ leader = "A" /\ leader' = "B"
    /\ cacheB' = server /\ cacheFreshB' = TRUE /\ svcCacheB' = svc
    /\ cacheA' = NewResource /\ cacheFreshA' = FALSE
    /\ UNCHANGED <<cluster, pcA, localA, localFreshA, seenA, svcCacheA,
                   pcB, localB, localFreshB, seenB>>

(* A step of one process leaves the other's handler where it is, and makes *)
(* its copies stale if it stored a new version.                            *)
OutdatesA ==
    /\ localFreshA' = (localFreshA /\ server' = server)
    /\ UNCHANGED <<leader, cacheA, cacheFreshA, pcA, localA, seenA, svcCacheA>>

OutdatesB ==
    /\ cacheFreshB' = (cacheFreshB /\ server' = server)
    /\ localFreshB' = (localFreshB /\ server' = server)
    /\ UNCHANGED <<leader, cacheB, pcB, localB, seenB, svcCacheB>>

(* Without the lease A starts no new reconcile.                            *)
HandlerA ==
    /\ leader = "B" => pcA # "idle"
    /\ A!Handler /\ OutdatesB

(* Mutant: the successor waits until the old leader has finished.          *)
HandlerBWaits == leader = "B" /\ pcA = "idle" /\ B!Handler /\ OutdatesA

HandlerB == leader = "B" /\ B!Handler /\ OutdatesA

(* Only Start reads the cached object, every handler the cached Service.   *)
CacheSyncA == leader = "A" /\ A!CacheSync /\ UNCHANGED <<leader, processB>>
CacheSyncB == leader = "B" /\ B!CacheSync /\ UNCHANGED <<leader, processA>>
SvcCacheSyncA ==
    /\ leader = "B" => pcA # "idle"
    /\ A!SvcCacheSync
    /\ UNCHANGED <<leader, processB>>
SvcCacheSyncB == leader = "B" /\ B!SvcCacheSync /\ UNCHANGED <<leader, processA>>

CrashA == A!Crash /\ UNCHANGED <<leader, processB>>
CrashB == B!Crash /\ UNCHANGED <<leader, processA>>

ReadySync(i) == A!ReadySync(i) /\ UNCHANGED <<leader, processB>>

Databases ==
    /\ \/ A!SlaveBreaks
       \/ \E i \in Instances : A!InstanceFails(i) \/ A!InstanceReturns(i)
    /\ UNCHANGED <<leader, processB>>

(* Another client's write outdates the copies of both.                     *)
OtherClients ==
    /\ A!UserEdit \/ A!ManualFailover
    /\ cacheFreshB' = FALSE /\ localFreshB' = FALSE
    /\ UNCHANGED <<leader, cacheB, pcB, localB, seenB, svcCacheB>>

Next ==
    \/ ChangeLeader
    \/ HandlerA \/ CacheSyncA \/ SvcCacheSyncA \/ CrashA
    \/ HandlerB \/ CacheSyncB \/ SvcCacheSyncB \/ CrashB
    \/ (\E i \in Instances : ReadySync(i)) \/ Databases \/ OtherClients

Spec == Init /\ [][Next]_vars

(* The holder of the lease runs; nothing says when A, without it, takes    *)
(* its last steps, or whether the lease is ever lost.                      *)
Fairness ==
    /\ WF_vars(leader = "A" /\ HandlerA) /\ WF_vars(HandlerB)
    /\ WF_vars(CacheSyncA) /\ WF_vars(CacheSyncB)
    /\ WF_vars(leader = "A" /\ SvcCacheSyncA) /\ WF_vars(SvcCacheSyncB)
    /\ \A i \in Instances : WF_vars(ReadySync(i))

FairSpec == Spec /\ Fairness

-----------------------------------------------------------------------------
(* Two processes change the phase as one does: no two failovers for one    *)
(* failure, none that is ended twice.  The clock stands still here, so     *)
(* that the interval only forbids a second failover.                       *)
FollowsLifecycle == [][A!Lifecycle!LifecycleNext]_(A!Lifecycle!lifecycle)

(* Neither erases, repeats or overwrites the other's record of a failover. *)
HistoryAppendOnly == A!HistoryAppendOnly

(* A promotion by either of them shows in the status: it is that of the    *)
(* last failover of the history, or the phase says that one is in progress *)
(* or was given up, also while the old leader still runs a failover that   *)
(* its successor has given up or recorded.                                 *)
PromotionShows == A!PromotionShows

(* Neither sends clients to the secondary before either has promoted it.   *)
OnlyPromotedServes == A!OnlyPromotedServes /\ B!OnlyPromotedServes

(* A process of the operator, the old leader included, never takes the     *)
(* cluster out of Failing: whoever does is another client.                 *)
FailingIsLeftByOthers ==
    [][server.phase = "Failing" /\ server'.phase # "Failing"
           => OtherClients /\ A!ManualFailover]_vars

(* The failover ends although the other process may write, conflict, crash *)
(* or stop anywhere.                                                       *)
FailoverConcludes == server.phase = "Failover" ~> server.phase # "Failover"
=============================================================================
