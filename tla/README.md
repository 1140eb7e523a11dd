# Formal models of the MariaDB HA operator

TLA+ specifications of the controller in `internal/controller/`, the TLC
configurations that check them on small instances, and TLAPS proofs of their
main safety properties for every value of the constants.

The operator watches one custom resource kind, `MariaDBHA`, and keeps for each
object two single-pod StatefulSets (primary and secondary MariaDB servers), their
ConfigMaps and four Services. It configures replication, watches the health of
both servers and promotes the secondary when the primary is lost.

## 1. Inventory

### Components

| component | code | state it keeps | operations |
|---|---|---|---|
| MariaDBHA resource | `api/v1alpha1/mariadbha_types.go` | spec; status (phase, pod names, conditions, last failover, history, lag); annotations with failure counts | written through update and status-update requests |
| Reconcile | `mariadbha_controller.go:69-147` | none between two calls; an object in memory during a call | finalizer, initial status, stages in order, dispatch on the phase |
| Replication setup | `mariadbha_controller.go:257-475` | the `ReplicationActive` condition; the slave configuration of the secondary | `SHOW MASTER STATUS`, `STOP SLAVE`, `CHANGE MASTER`, `START SLAVE`, status update |
| Health checks | `mariadbha_controller.go:478-540`, `health_check.go` | conditions, phase, lag, failure counts | one check per instance, three condition updates, the decision |
| Failover and recovery | `failover.go` | phase, names, history, last failover time; `read_only` of the secondary; selector of the client Service | `handleFailover` (seven steps), `handleRecovery`, `ManualFailover`, `isFailoverAllowed` |
| StatefulSets, ConfigMaps | `statefulset.go` | the four objects | create, compare, update |
| Services | `service.go` | the four objects | create, compare selectors, update |
| Deletion | `mariadbha_controller.go:150-254` | finalizer | eight deletions, then the finalizer |
| Configuration files | `statefulset.go:490-549, 577-615` | none (pure); their result is in the ConfigMaps and, from there, in the servers | merge, generate |
| Manager process | `cmd/main.go` | the lease of the leader | flags, TLS, probes, start of controller-runtime, leader election |
| Generated code, manifests, tests | `zz_generated.deepcopy.go`, `config/`, `test/` | none | - |

`handlePrimaryFailure` and the type `HealthCheckResult` are used
(`mariadbha_controller.go:492`, `health_check.go:410`) but the repository defines
neither. They are modelled as external, from the call site and its comment.

### How they interact

Reconcile runs in one worker per process (controller-runtime's default). Leader
election leaves one process that starts reconciles, but one that loses the lease in
the middle of a handler may still finish it. Reads come from informer
caches, which lag behind the API server. Writes are requests to the API server
that carry the resource version of the copy they were made from; a write from an
old version is refused. Status updates ignore the annotations and decode the
stored object into the one in memory. The servers are reached by TCP and SQL,
one session per step. `ManualFailover` writes the phase from outside the loop;
users edit and delete objects; the garbage collector deletes what refers to an
owner that is gone.

### What is hard

Between any two requests of a handler the cache may advance or stay behind,
another client may write, a server may fail or come back, a request may fail or
be executed without an answer, and the operator may be restarted. No handler
keeps a record of the step it has reached: every retry starts from the first step,
on whatever the cache then shows. `PROJECT.json` lists these hazards at their
lines, with the properties that cover each.

### What makes the parts correct

- Status: phases change in the documented order, a failover respects the minimum
  interval and is recorded once, and no update erases what another wrote.
- Failover: what is recorded has happened (the promotion), the status hides no promotion,
  clients are not sent to a server that was not promoted, and a failover ends.
- Health: the loss of the primary is acted on, a healthy cluster settles.
- Provisioning: every object comes to what the last spec wants and never goes back;
  nothing exists without the finalizer; a deletion leaves nothing behind.
- Configuration: a file means what its spec means, and no server runs a new template
  with older parameters.
- Two processes: together they keep what one keeps.

## 2. Modules

| module | contents |
|---|---|
| `MariaDBHA` | constants for the spec, the status as a record |
| `HealthCheck` | the decisions of `health_check.go` and `isFailoverAllowed` as operators |
| `Reconciler` | the reconciliation loop with caches, servers, clients and failures |
| `PhaseLifecycle` | abstract specification of the status: phases, interval, records |
| `ReconcilerProperties` | the safety properties of `Reconciler`, the refinement mapping |
| `MCReconciler` | liveness, and statements of the docs that the code contradicts |
| `Provisioning` | creation, update and deletion of the owned objects, and its properties |
| `MCProvisioning` | liveness of the provisioning, contradicted statements |
| `LeaderChange` | two instances of `ReconcilerProperties` on one cluster, and a lease that passes from one to the other |
| `OwnedObjects` | abstract specification of the owned objects: owner, versions, release |
| `Configuration` | an edit of parameters, image, secret or replication user on its way into one server, and its properties |
| `ReconcilerTypeProofs`, `ReconcilerProofs`, `LifecycleProofs` | proofs about `Reconciler` |
| `LeaderChangeProofs` | proofs about `LeaderChange` |
| `ProvisioningProofs`, `ConfigurationProofs` | proofs about `Provisioning` and `Configuration` |

Definitions named `...LastWriteWins`, `...InMemory` and the like, commented
"Mutant", are plausible bugs: each property is checked to fail when the definition
of the code is replaced by one of them.

### Reconciler: state and actions

| variables | in the program |
|---|---|
| `server`, `cache`, `cacheFresh` | the stored MariaDBHA object, the informer's copy, and whether that copy has the stored resource version |
| `pc`, `local`, `localFresh`, `seen` | the next call of the handler, its object in memory and that object's version, results of its checks |
| `svc`, `svcCache` | the selector of the client Service, stored and cached |
| `up`, `ready` | what the checks see of each server; `ReadyReplicas` of its StatefulSet as cached |
| `readOnly`, `slave`, `slavePos` | `read_only` and the slave threads of the secondary, and their position |
| `written`, `copied`, `own` | transactions in the primary's binlog, those the secondary has, those it accepted itself |
| `now`, `disturbances` | clock; failures so far |
| `promoted` | history variable, for the properties only: the failover the secondary was last promoted for, numbered as the handler that promoted it numbers it (one more than the events in its copy). It does not count promotions: those repeated for one failover share its number |

There is an action for each SQL session and each API write, in the order of the code:
`Start`, `InitializeStatus`, `reconcileStatefulSets`, `reconcileClusterService`,
`reconcileReplication`, `ReadMasterStatus` to `RecordReplication` (the setup),
`CheckPrimary`, `CheckSecondary`, `CheckReplication`, `HandlePrimaryFailure`,
`TriggerFailover`, `RecordPhase`, `RecordLag` (checkHealth), `FailoverCheck` to
`RecordFailover` (handleFailover), `HandleRecovery`. A write (`Write`,
`StatusUpdate`) is accepted, refused as a conflict, fails, or is applied and its
answer lost. The environment steps are the caches, crashes, servers that fail and
return, clients, the clock, edits by users and `ManualFailover`.

Simplifications, each of which keeps what the properties tell apart:

- A resource version is a freshness bit. The lag is NULL, low or above the
  maximum. The failure count saturates at the threshold.
- The secondary count, events, logs, durations and requeue delays are left out: no
  decision reads the first, and any watch event may start a reconcile at once, so
  that `Start` is always enabled.
- The StatefulSets and the other Services are as wanted; `Provisioning` has them.
  On a real API server `SecondaryMissing` (below) shows that this stage may never
  be passed; `Reconciler` describes a cluster where it is.
- A pod is seen as it is; only its readiness lags. Credentials are present, and
  `now` has the resolution of the stored times.
- `handlePrimaryFailure` is two steps: the count, then, at the threshold and if
  `isFailoverAllowed`, phase Failover. `PersistCounts` says whether it stores the
  annotations; both answers are checked, the proofs cover both.
- `ScanFits` says whether `SHOW MASTER STATUS` returns the two columns that are
  scanned. TRUE is what the code assumes, FALSE is MariaDB. `AdminPatches` lets
  an administrator fill in the pod names, which nothing in the operator does before a
  failover copies them.

### Provisioning: state and actions

`cr`, `crCache` are the MariaDBHA object and its cached copy (existence,
finalizer, deletion, initialised, spec); `stored`, `cached` map each of the eight
objects to its existence, owner reference, spec and one further detail (the order
of parameters of a ConfigMap, the defaulted volumes of a StatefulSet, the selector
of a Service). `pc`, `step`, `local` are the position of the handler. `Create`, `Update`
and `Keep` follow the order of Reconcile, `Delete` that of `handleDeletion`; only after
a ConfigMap does Reconcile go on in the same call. The environment syncs informers,
crashes the operator, edits and deletes the MariaDBHA object, removes or redirects
objects, and collects garbage. `DefaultsVolumes` says whether the API server fills in
`defaultMode`; with TRUE, which is what Kubernetes does, the run
`SecondaryMissing` shows that the loop does not get past the first
StatefulSet, so the other runs use FALSE to reach what comes after. The proofs
cover both values.

`OwnedObjects` sees of this an owner (new, guarded, deleting, gone), the version of
its spec and the version each object was written for; `ownerState` and `objectSpecs`
are the mapping.

### LeaderChange: state and actions

Each process has the variables of a handler and of its caches (`processA`,
`processB`); the stored object, the Service and the servers are shared. `HandlerA`
and `HandlerB` are the handler of `Reconciler`, instantiated twice. A write by one
makes the copies of the other stale (`OutdatesA`, `OutdatesB`), as does any other
client's. The lease passes once (`ChangeLeader`), at any moment: A then begins no new
reconcile, but may take the steps that are left of the one it is in, or none, as
nothing in a handler looks at the lease. B starts with a fresh list of the
objects. `manager.yaml` starts the operator with `--leader-elect`; without it
(`main.go:61`) two processes would both go on, which is not modelled.

### Configuration: state and actions

`specs` is every version of the common and the specific configuration, `specCache`
how many of them the informer has; `cm`, `sts` and their cached copies are the two
objects of one role; `pod` is the template and the file its server was
started with. `createOrUpdateConfigMap` and `reconcileInstanceStatefulSet` follow the code,
each on a copy of its own. `generateInitScript` is the account the script creates;
`mergeMySQLConfigs` and `generateMariaDBConfig` are functions of the parameters, the
latter to the set of files that an iteration of the map may give. `effective` is what MariaDB makes of a file: the last line for an option
counts. `RollOut` is the StatefulSet controller, which replaces a pod whose template
has changed; `Restart` a restart for any other reason. `from` in an object, for the
properties only, is the version of the spec it was written for. Volumes compare as
equal here: with `defaultMode` filled in (`SecondaryMissing`) the StatefulSet is written in
every reconcile, so that what `needsUpdate` leaves out arrives on the primary after all.

## 3. Runs

### Passing

| run | question | bounds |
|---|---|---|
| `Failover` | is a cluster's first life, to detection, failover, abort or recovery, safe, with a client that writes, does the status implement `PhaseLifecycle`, and does only a manual failover leave Failing? | 2 disturbances, 1 transaction, threshold 2, no clock; 2.5 M states |
| `SecondFailover` | does a cluster whose names are filled in recover and fail over again within the rules, even if promotion skips the replication check (`immediate`)? Does the status show the last promotion: recorded, in progress or given up? | 2 disturbances, threshold 1, clock 0-1, interval 1; 3.0 M states |
| `Liveness` | do failovers and recoveries end, does a healthy cluster settle, is the loss of the primary acted on? | 2 disturbances, threshold 2, fairness, from a new cluster or from one just failed over with names filled in; 0.6 M states |
| `Provisioning` | does an edit reach every object, in any order of the parameters, do orphans or a late finalizer appear under any interleaving, does it implement `OwnedObjects`? | 2 specs, 2 orders, no disturbance, fairness; 0.4 M states |
| `ProvisioningRepairs` | is damage repaired with the finalizer in place, does a deletion clean up, all within `OwnedObjects`? | 1 spec, 1 disturbance, fairness; 0.2 M states |
| `LeaderChange` | do two processes, the old leader still in its handler, keep the lifecycle, the history and the order of promotion, record and Service, leave Failing to others, and does the failover end? | 1 disturbance, threshold 1, one change of leader, from a Running cluster or one in Failover; 0.6 M states |
| `Configuration` | does each option get the value the spec means, does a new template find its parameters, does the last edit arrive? | 2 edits, 2 options, 2 values, 2 images, 1 secret, 1 user, 1 disturbance, both roles, fairness; 0.6 M states |

Why the bounds are enough: the disturbances are what need not happen (a failed or lost
request, a crash, a server failure, an edit). One is needed to lose the primary, the
second falls into the failover that follows, at any of its steps; a threshold of 2
lets a count be interrupted. Two failovers need no third. One transaction shows
where it went. The interleavings of the informers with two specs and a
deletion exist without any disturbance, and two orders are enough for a text to
differ; damage needs one disturbance and no edit. A change of leader is itself the
disturbance that `LeaderChange` is about, one more makes it meet a failure, and with
a third process nothing new can be stale. Its clock stands still, so that the interval
of `FollowsLifecycle` only forbids a second failover there; `SecondFailover` has a clock that moves. Two edits, one common and one
specific, or one after the other, show a wrong priority and a wrong order; that three edits
matter for a value that comes back is said below. `read_only` is fixed by the
secondary's role and `sync_binlog` is a default, so the two options reach every
branch of the text. The proved properties hold without bounds.

Deadlock is checked in the runs of `MCReconciler`, `LeaderChange` and
`Configuration`. Those of `MCProvisioning` say `CHECK_DEADLOCK FALSE`: once the object
and all it owned are gone nothing is left to do.

### Fairness

`FairSpec` of `Reconciler` assumes that the handler goes on: the work queue calls
Reconcile again after each return (a requeue delay, an error with back-off, or
the watch event of its own write), and each call returns, as each request has a
timeout. It assumes that informers and readiness probes catch up. Nothing is
assumed of the servers, clients, users or the clock; a property that needs servers
to stay up says so (`<>[]allServing`). `LiveSpec` is the same from two initial
states. `LeaderChange` assumes it of the process that has the lease only: not
that the lease is ever lost, nor that the old leader gets to the end of its handler.
`Configuration` adds that the StatefulSet controller replaces pods of an old
template; no restart is assumed. `Provisioning` assumes the same of the handler
and the informers, and that the garbage collector gets to each object. Failures
are bounded by `MaxDisturbances`, which stands for their ending at some time.

### Violations

Each states what a doc, comment or test says and the code does not do.

| run | statement | what TLC shows |
|---|---|---|
| `ServiceFollowsPrimary` | `failover.go:99` the Service points to the new primary | the next reconcile resets the selector (`service.go:185`) |
| `ReplicationGap` | `mariadbha_controller.go:519` everything works | the slave starts past transactions it never got |
| `PromotedReplicates` | `failover.go:81` replication is stopped | after the record, `reconcileReplication` configures the detached server as a slave of the old primary again |
| `MasterStatusScan` | `mariadbha_controller.go:306` the replication is configured | never, with four columns |
| `SecondaryMissing` | `mariadbha_controller_test.go:153` the secondary is created | the primary is updated for ever |

Other statements met while modelling that the code does not keep. The models have
the behaviour of the code, except where accounts, the semi-synchronous mode and the
version are concerned, which they leave out; no run is spent on them.

- `mariadbha_controller.go:135`, in phase Failover: the phase is that of the informer's
  copy, so a copy from before the record of a failover leads to a second promotion, whose
  record is then refused.
- `mariadbha_types.go:244`, the history of the failovers: if the status update at the end
  of `handleFailover` fails, the next attempt starts over and may end as Failing
  (`failover.go:37`), with the secondary promoted and no event.
- `failover.go:335`, the status is updated when the new pod is ready: without a recorded
  old primary that answers, `handleRecovery` (`failover.go:325`) never leaves Recovering.
- `mariadbha_types.go:168`, consecutive failed checks: the annotations set at
  `health_check.go:491` are kept over a healthy check if `handlePrimaryFailure` stores
  them, and dropped by the next status update if it does not.
- `mariadbha_types.go:128`, maximum acceptable lag: `health_check.go:320` only logs a
  higher one, and the cluster stays Running.
- `mariadbha_types.go:226`, the pod that is primary: `failover.go:110` swaps the names at
  each failover, while the secondary's StatefulSet is promoted every time.
- `failover.go:210`, read-write mode: a restart of the promoted pod restores `read_only`
  from its file (`statefulset.go:513`).
- `statefulset.go:113`, deleted with its owner: the update at `statefulset.go:139` sends
  an object without owner reference.
- `mariadbha_controller.go:245`, everything is cleaned up: `handleDeletion` skips what the
  informer does not show yet (`mariadbha_controller.go:168`).
- `statefulset.go:477`, updated if necessary: the parameters are written in the order of
  a map iteration (`statefulset.go:524`), so an unchanged text may be rewritten.
- `mariadbha_types.go:60`, config has the priority: MariaDB takes `-` and `_` in the name of an
  option for the same, a Go map does not. With one spelling in `commonConfig` and
  another in `config`, the order of the map decides, and a default of the role is written
  although the option is given (`statefulset.go:507`).
- `mariadbha_types.go:93`, parameters to add to my.cnf: an edit of them rewrites the
  ConfigMap, and the server takes it over at its next start, which nothing asks for.
- `mariadbha_types.go:98`, the secret to connect with: an edit of it changes the wanted pod
  template, but `needsUpdate` (`statefulset.go:617`) compares image, resources and volumes,
  so it waits for an edit of one of these; annotations, node selectors and tolerations too.
  `setupReplication` reads the secret from `commonConfig` only (`mariadbha_controller.go:360`).
- `mariadbha_types.go:120`, the replication user: `init.sql` creates it on an empty data
  directory only, so after an edit `setupReplication` uses an account the primary does not have.
  Its password in the script is the text `${MARIADB_REPLICATION_PASSWORD}`
  (`statefulset.go:543`), which nothing replaces, while `setupReplication` takes the one of the secret
  (`mariadbha_controller.go:375`).
- `mariadbha_types.go:116`, the mode semisync: enabled by `SET GLOBAL`
  (`mariadbha_controller.go:424, 435`), lost with a restart of the server and not set
  again as long as `ReplicationActive` is True.
- `mariadbha_types.go:85`, the version to use: no code looks at it, the image is
  `image` or `mariadb:10.5` (`statefulset.go:184`).

An early release of the finalizer leaves work to the garbage collector, and the lost
owner reference leaves work to `handleDeletion`. That the two never leave the same
object to each other is `NoOrphans`.

`OrderedRollout` has the premise `NeverReturns`: no edit brings back parameters an
earlier one had replaced. Without it three edits break it (values a, b, a): the cached
ConfigMap still has the first a, equals what is wanted, and is not written, while the
stored one has b; the new image then starts with b until the informer catches up. TLC
finds this with `MaxEdits = 3` when the premise is left out, and no state with it.

## 4. Proofs

Everything below is checked by TLAPS without bounds, from the named
assumptions on the constants alone (`SpecAssumption`, `BoundsAssumption`, `ProcessesAssumption`,
`ProvisioningAssumption`, `ConfigurationAssumption`: types of the constants, a positive
threshold, at least one spec and one order, finite sets of options and spellings).

- `ReconcilerTypeProofs`: `TypeCorrect`. A lemma for each way of writing the object, then
  one step per action.
- `ReconcilerProofs`: the inductive invariant `Inv` and from it `FreshCopiesAgree`,
  `HandlerMatchesPhase`, `PromotedBeforeRecord` and `OnlyPromotedServes`.
  None of them is inductive alone. `Inv` has one more part,
  `RecoveringIsPromoted`: a cluster in phase Recovering was promoted for the failover
  it recorded last. That speaks of the stored object, but the write that makes it
  Recovering is made from the object in memory: one needs that a write which is
  accepted was made from a copy with the stored history (`FreshCopiesAgree`), that the
  handler is then in the phase it believes (`HandlerMatchesPhase`), and that it has
  promoted for the next event (`PromotedBeforeRecord`). `FreshCopiesAgree` in turn
  needs that every write of another client makes all copies stale.
- `LifecycleProofs`: with `Inv`, every step of `Reconciler` is a step of
  `PhaseLifecycle` or a stutter under the mapping of `ReconcilerProperties`
  (`Refinement`), and `HistoryGrows`, `NamesKept`, `FailingLeftByHand`. From the
  refinement follows `IntervalBetweenFailovers`: what is recorded is the time a
  failover ends, and it began (`StartedInTime`) after the interval of the one before.
  `PromotionAlwaysShows` is that the status hides no promotion (`PromotionShows`).
  That a failover of the history was promoted for holds because the history grows only
  into Recovering, where `Inv` has the promotion. The rest is about handlers on old
  copies, which promote again, for a failover that may be recorded or given up by then: it
  needs that no copy is ahead of the stored history, and that a copy in Failover with
  as many events as the stored object is of a failover that is not over or was given up
  (`NotAhead`); so what each step does to the copies (`CopiesStep`), and that the
  object leaves Failover and Failing only with the record (`UnrecordedStays`). How often
  a failover promotes is not bounded, and section 3 says why it can be more than once.
- `LeaderChangeProofs`: a step of a process is a step of `Reconciler` on its own copies.
  `LifecycleProofs` is instantiated for each of the two, and its lemmas about one step
  are used as they stand (`StepOfA`, `StepOfB`); that a module's instance of
  `Reconciler` and the proofs' instance of it are the same is shown by expanding both
  (`HandlerOfA`, `EnvironmentOfA` and those of B). What is new is that a step of one
  leaves the other its invariant, although it writes the object, the Service and the
  servers under it (`SparesA`, `SparesB`): it never makes a stale copy fresh
  (`HandlerKeeps`), takes no promotion back, shortens no history, leaves Failover and
  Failing only with a record, and each state it stores is invariant of the other too.
  The inductive invariant `ProcessesInv` adds that an old leader has no fresh cached
  object, from which it could start another reconcile. From it `ProcessesTypeCorrect`,
  `PromotionShowsForBoth`, `PromotedServesBoth`, `LifecycleFollowed`,
  `HistoryGrowsForBoth`, `FailingLeftByNeither` and, beyond the run, `NamesKeptByBoth`.
- `ProvisioningProofs`: `ProvisioningTypeCorrect`, `OrphanFree`, `FinalizerFirst`. The
  invariant `Safe` adds: an object without owner is a StatefulSet the informers show
  (`UnownedAreSeen`), so that `handleDeletion` does not skip it; what a copy says
  of finalizer and deletion stays true (`CopiesLag`); the branch of Reconcile was
  chosen on such a copy (`BranchFits`); the StatefulSets behind the
  current step of the deletion are not unowned (`DeletedSoFar`). With `Safe`, every
  step is one of `OwnedObjects` or a stutter (`OwnershipRefined`): that an
  object never goes back to an older spec needs that no stored object is of a
  later spec than the informer has, nor than a handler that provisions (`SpecsLag`).
- `ConfigurationProofs`: `ConfigurationTypeCorrect`, `FilePriority` and `RolloutOrdered`.
  First the algorithm: of a finite file the last line for an option exists
  (`LastExists`), so a file made of the role's lines and the given ones in any order means
  what the merged parameters and the role mean (`GeneratedMeans`). This needs one
  spelling (`Spellings = {"underscore"}`), a hypothesis of the two theorems that
  use it; with two it is false, as said above. Then the invariant `ConfigInv`: the stored
  and the cached ConfigMap are files of versions of the spec, the cached one not the
  later (`FilesGenerated`); the template and what the server runs have parameters
  at least as new (`ConfigMapFirst`). A cached file that is what is wanted is not
  written; that the stored one then means the same (`KeptMeans`) is where
  `NeverReturns` is needed.

Only model-checked: the liveness properties (`FailoverConcludes`,
`HealthyClusterSettles`, `PrimaryFailureDetected`, `RecoveryEnds`,
`ProvisioningConverges`, `DeletionCleansUp`, `ConfigurationConverges`; fairness is out of
the prover's reach), and the violations. Every invariant and every action property
a passing run checks is a theorem. That `PrimaryFailureDetected`
holds depends on `PersistCounts = TRUE`, an assumption on code the repository lacks.

## 5. Not modelled

- Persistent volume claims: the operator creates them by templates and deletes none, so
  `DeletionCleansUp` does not speak of them.
- Character sets and comments of `mariadb.cnf`, which nothing else sets.
- Details of the pod template that no comparison reads: probes, ports, tolerations.
- Semi-synchronous replication beyond the failure of its statements.
- `spec.monitoring`, `spec.backup`, `reconnectRetries`, `healthCheckIntervalSeconds`,
  `healthChecks` and the phase `MaintenanceMode`: no code reads or sets them.
- Of `cmd/main.go`, flags, TLS, probes and metrics; generated code, manifests, test utilities.
- Two processes that both believe they lead for good: leader election excludes it, if enabled.

## 6. Plan

Done: the resource, the health decisions, the reconciliation loop, its abstract
specification and refinement, provisioning and deletion with theirs, the change of leader,
the configuration of a server, and the proofs above, those of two processes included.

The set of runs is kept to twelve, a few minutes each at most: a new run takes the
place of a violation that the list of section 3 can hold as well.

Next, in this order:

1. The semi-synchronous plugins of `setupReplication` as state of the two servers.
2. Servers of `Configuration` in `Reconciler`: a restart of the promoted instance with the
   file of a secondary.
