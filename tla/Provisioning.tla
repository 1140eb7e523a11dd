----------------------------- MODULE Provisioning -----------------------------
(***************************************************************************)
(* The life of the objects the operator owns: Reconcile from the finalizer *)
(* to the Services (statefulset.go, service.go) and handleDeletion, against *)
(* informers that lag, requests that fail, crashes, edits by users and the *)
(* garbage collector of Kubernetes.                                        *)
(*                                                                         *)
(*  - Each step of the handler is one request to the API server; reads are *)
(*    served by the informers.                                             *)
(*  - A copy is of the stored version iff it has the stored value: every   *)
(*    write of the MariaDBHA object sets a field for good or raises spec.  *)
(*  - spec stands for what the comparisons of the controller look at: the  *)
(*    image, the resources and the parameters of the configuration.        *)
(*  - Status updates of other controllers, which make an update of a copy  *)
(*    fail as a conflict, are among the failed requests.                   *)
(***************************************************************************)
EXTENDS Naturals, Sequences

CONSTANTS
    MaxSpec,           \* bound on the edits of the spec by users
    MaxDisturbances,   \* bound on failed requests, crashes and stray edits
    ParameterOrders,   \* orders in which the parameters may be iterated
    DefaultsVolumes    \* does the API server default defaultMode of volumes?

ASSUME ProvisioningAssumption ==
    /\ MaxSpec \in Nat \ {0}
    /\ MaxDisturbances \in Nat
    /\ ParameterOrders # {}
    /\ DefaultsVolumes \in BOOLEAN

StatefulSets == {"sts-primary", "sts-secondary"}
ConfigMaps   == {"cm-primary", "cm-secondary"}
Headless     == {"svc-primary", "svc-secondary"}
Selecting    == {"svc-cluster", "svc-readonly"}
Objects      == StatefulSets \cup ConfigMaps \cup Headless \cup Selecting

(* The order of Reconcile, and that of handleDeletion.                     *)
Order == << "cm-primary", "sts-primary", "cm-secondary", "sts-secondary",
            "svc-primary", "svc-secondary", "svc-cluster", "svc-readonly" >>
DeletionOrder == << "sts-primary", "sts-secondary", "svc-primary", "svc-secondary",
                    "svc-cluster", "svc-readonly", "cm-primary", "cm-secondary" >>

VARIABLES
    cr,            \* the stored MariaDBHA object
    crCache,       \* the informer's copy
    stored,        \* the stored objects
    cached,        \* the informers' copies
    pc,            \* next request of the handler
    step,          \* its position in Order or DeletionOrder
    local,         \* the handler's copy of the MariaDBHA object
    disturbances

vars == <<cr, crCache, stored, cached, pc, step, local, disturbances>>

(* Once it is gone, a MariaDBHA object is not created again.               *)
CustomResources ==
    [exists : BOOLEAN, finalizer : BOOLEAN, deleting : BOOLEAN,
     initialized : BOOLEAN, spec : 1 .. MaxSpec]

(* detail is what an object has beyond the spec: the order of a ConfigMap, *)
(* the defaultMode of the volumes of a StatefulSet, a Service's selector.  *)
Details == ParameterOrders \cup {"unset", "defaulted", "role", "other"}
Absent == [exists |-> FALSE, owned |-> FALSE, spec |-> 1, detail |-> "unset"]
StoredObjects ==
    [exists : BOOLEAN, owned : BOOLEAN, spec : 1 .. MaxSpec, detail : Details]

TypeOK ==
    /\ cr \in CustomResources /\ crCache \in CustomResources
    /\ local \in CustomResources
    /\ stored \in [Objects -> StoredObjects] /\ cached \in [Objects -> StoredObjects]
    /\ pc \in {"idle", "finalizer", "status", "provision", "delete", "release"}
    /\ step \in 1 .. Len(Order)
    /\ disturbances \in 0 .. MaxDisturbances

NewCR == [exists |-> TRUE, finalizer |-> FALSE, deleting |-> FALSE,
          initialized |-> FALSE, spec |-> 1]

Init ==
    /\ cr = NewCR /\ crCache = NewCR /\ local = NewCR
    /\ stored = [o \in Objects |-> Absent] /\ cached = [o \in Objects |-> Absent]
    /\ pc = "idle" /\ step = 1
    /\ disturbances = 0

-----------------------------------------------------------------------------
(* What the controller wants of an object, and when it rewrites it.        *)

desired(o, spec, order) ==
    [exists |-> TRUE, owned |-> TRUE,
     spec   |-> IF o \in StatefulSets \cup ConfigMaps THEN spec ELSE 1,
     detail |-> IF o \in ConfigMaps THEN order
                ELSE IF o \in StatefulSets THEN "unset" ELSE "role"]

(* Mutants: a part of the object is not compared.                          *)
needsUpdateDetail(o, found, want) == o \notin Headless /\ found.detail # want.detail

needsUpdateSpec(o, found, want) == o \notin Headless /\ found.spec # want.spec

needsUpdate(o, found, want) ==
    o \notin Headless /\ (found.spec # want.spec \/ found.detail # want.detail)

(* What the API server keeps of an object.                                 *)
admitted(o, value) ==
    IF o \in StatefulSets /\ DefaultsVolumes
    THEN [value EXCEPT !.detail = "defaulted"]
    ELSE value

(* The update of a StatefulSet sends the object built for the comparison,  *)
(* without the owner reference set on creation; the other updates send the *)
(* object found.                                                           *)
updated(o, found, want) ==
    [want EXCEPT !.owned = o \notin StatefulSets /\ found.owned]

-----------------------------------------------------------------------------
(* Steps of the handler.                                                   *)

Disturb ==
    /\ disturbances < MaxDisturbances
    /\ disturbances' = disturbances + 1

Return == pc' = "idle" /\ step' = 1 /\ local' = NewCR

(* Mutant: nothing stops at the last object.                               *)
AdvanceUnbounded(last, next) ==
    pc' = pc /\ step' = step + 1 /\ local' = local

(* Go on with the next object, and after the last one with next.           *)
Advance(last, next) ==
    IF step < last
    THEN step' = step + 1 /\ UNCHANGED <<pc, local>>
    ELSE pc' = next /\ step' = 1 /\ local' = IF next = "idle" THEN NewCR ELSE local

Start ==
    /\ pc = "idle" /\ crCache.exists
    /\ pc' = IF ~crCache.finalizer THEN "finalizer"
             ELSE IF crCache.deleting THEN "delete"
             ELSE IF ~crCache.initialized THEN "status" ELSE "provision"
    /\ local' = crCache /\ step' = 1
    /\ UNCHANGED <<cr, crCache, stored, cached, disturbances>>

(* Mutant: the update carries no resource version, the last write wins.    *)
UpdateCRLastWriteWins(new) ==
    cr.exists /\ cr' = new /\ UNCHANGED disturbances

(* An update of the MariaDBHA object; a conflict or a failure is an error. *)
UpdateCR(new) ==
    \/ /\ cr = local /\ cr' = new
       /\ (UNCHANGED disturbances \/ Disturb)
    \/ cr # local /\ UNCHANGED <<cr, disturbances>>
    \/ Disturb /\ UNCHANGED cr

(* Mutant: an error is only logged and Reconcile goes on.                  *)
AddFinalizerErrorLogged ==
    /\ pc = "finalizer"
    /\ UpdateCR([local EXCEPT !.finalizer = TRUE])
    /\ pc' = "provision" /\ UNCHANGED <<step, local>>
    /\ UNCHANGED <<crCache, stored, cached>>

AddFinalizer ==
    /\ pc = "finalizer"
    /\ UpdateCR([local EXCEPT !.finalizer = TRUE])
    /\ Return
    /\ UNCHANGED <<crCache, stored, cached>>

InitializeStatus ==
    /\ pc = "status"
    /\ UpdateCR([local EXCEPT !.initialized = TRUE])
    /\ Return
    /\ UNCHANGED <<crCache, stored, cached>>

object == Order[step]
Put(o, value) == stored' = [stored EXCEPT ![o] = admitted(o, value)]

(* After a ConfigMap comes its StatefulSet; after a write of anything else *)
(* Reconcile returns and is queued again.                                  *)
Written(o) ==
    IF o \in ConfigMaps THEN Advance(Len(Order), "idle") ELSE Return

Create ==
    /\ pc = "provision" /\ ~cached[object].exists
    /\ \E order \in ParameterOrders :
         \/ /\ ~stored[object].exists
            /\ Put(object, desired(object, local.spec, order))
            /\ Written(object) /\ UNCHANGED disturbances
         \/ ~stored[object].exists /\ Disturb
            /\ Put(object, desired(object, local.spec, order)) /\ Return
         \/ stored[object].exists /\ Return /\ UNCHANGED <<stored, disturbances>>
         \/ Disturb /\ Return /\ UNCHANGED stored
    /\ UNCHANGED <<cr, crCache, cached>>

Update ==
    /\ pc = "provision" /\ cached[object].exists
    /\ \E order \in ParameterOrders :
         LET want == desired(object, local.spec, order)
             new  == updated(object, cached[object], want)
         IN  /\ needsUpdate(object, cached[object], want)
             /\ \/ /\ stored[object] = cached[object]
                   /\ Put(object, new)
                   /\ Written(object) /\ UNCHANGED disturbances
                \/ stored[object] = cached[object] /\ Disturb /\ Put(object, new) /\ Return
                \/ /\ stored[object] # cached[object]
                   /\ Return /\ UNCHANGED <<stored, disturbances>>
                \/ Disturb /\ Return /\ UNCHANGED stored
    /\ UNCHANGED <<cr, crCache, cached>>

(* The object is as wanted; after the last one Reconcile goes on to the    *)
(* replication.                                                            *)
Keep ==
    /\ pc = "provision" /\ cached[object].exists
    /\ \E order \in ParameterOrders :
         ~needsUpdate(object, cached[object], desired(object, local.spec, order))
    /\ Advance(Len(Order), "idle")
    /\ UNCHANGED <<cr, crCache, stored, cached, disturbances>>

-----------------------------------------------------------------------------
(* handleDeletion.                                                         *)

doomed == DeletionOrder[step]

(* Mutant: the StatefulSets are left to the garbage collector.             *)
DeleteAllButStatefulSets ==
    /\ pc = "delete"
    /\ stored' = IF doomed \notin StatefulSets /\ cached[doomed].exists
                 THEN [stored EXCEPT ![doomed] = Absent] ELSE stored
    /\ Advance(Len(DeletionOrder), "release")
    /\ UNCHANGED <<cr, crCache, cached, disturbances>>

(* An object that is not found is skipped, and so is a ConfigMap whose     *)
(* informer, which is started by the first read, gives an error.           *)
Delete ==
    /\ pc = "delete"
    /\ \/ /\ stored' = IF cached[doomed].exists
                       THEN [stored EXCEPT ![doomed] = Absent] ELSE stored
          /\ Advance(Len(DeletionOrder), "release") /\ UNCHANGED disturbances
       \/ /\ doomed \in ConfigMaps /\ Disturb
          /\ Advance(Len(DeletionOrder), "release") /\ UNCHANGED stored
       \/ /\ cached[doomed].exists /\ Disturb /\ Return
          /\ stored' \in {stored, [stored EXCEPT ![doomed] = Absent]}
    /\ UNCHANGED <<cr, crCache, cached>>

(* Mutant: the finalizer is removed in memory only.                        *)
RemoveFinalizerInMemory ==
    /\ pc = "release" /\ Return
    /\ UNCHANGED <<cr, crCache, stored, cached, disturbances>>

(* Without its finalizer an object that is being deleted is gone.          *)
RemoveFinalizer ==
    /\ pc = "release"
    /\ UpdateCR([local EXCEPT !.finalizer = FALSE, !.exists = FALSE])
    /\ Return
    /\ UNCHANGED <<crCache, stored, cached>>

Handler ==
    \/ Start \/ AddFinalizer \/ InitializeStatus
    \/ Create \/ Update \/ Keep
    \/ Delete \/ RemoveFinalizer

-----------------------------------------------------------------------------
(* The environment.                                                        *)

SyncCR ==
    /\ crCache # cr /\ crCache' = cr
    /\ UNCHANGED <<cr, stored, cached, pc, step, local, disturbances>>

Sync(o) ==
    /\ cached[o] # stored[o]
    /\ cached' = [cached EXCEPT ![o] = stored[o]]
    /\ UNCHANGED <<cr, crCache, stored, pc, step, local, disturbances>>

Crash ==
    /\ pc # "idle" /\ Disturb /\ Return
    /\ UNCHANGED <<cr, crCache, stored, cached>>

EditSpec ==
    /\ cr.exists /\ ~cr.deleting /\ cr.spec < MaxSpec
    /\ cr' = [cr EXCEPT !.spec = @ + 1]
    /\ UNCHANGED <<crCache, stored, cached, pc, step, local, disturbances>>

(* kubectl delete: at once without a finalizer, else the operator has to.  *)
DeleteCR ==
    /\ cr.exists /\ ~cr.deleting
    /\ cr' = IF cr.finalizer THEN [cr EXCEPT !.deleting = TRUE]
             ELSE [cr EXCEPT !.exists = FALSE]
    /\ UNCHANGED <<crCache, stored, cached, pc, step, local, disturbances>>

(* Someone deletes an object of the operator or points a Service elsewhere. *)
Tamper(o) ==
    /\ stored[o].exists /\ Disturb
    /\ \/ stored' = [stored EXCEPT ![o] = Absent]
       \/ o \in Selecting /\ stored' = [stored EXCEPT ![o].detail = "other"]
    /\ UNCHANGED <<cr, crCache, cached, pc, step, local>>

(* The garbage collector deletes what an owner that is gone owned.         *)
Collect(o) ==
    /\ ~cr.exists /\ stored[o].exists /\ stored[o].owned
    /\ stored' = [stored EXCEPT ![o] = Absent]
    /\ UNCHANGED <<cr, crCache, cached, pc, step, local, disturbances>>

Environment ==
    \/ SyncCR \/ Crash \/ EditSpec \/ DeleteCR
    \/ \E o \in Objects : Sync(o) \/ Tamper(o) \/ Collect(o)

Next == Handler \/ Environment

Spec == Init /\ [][Next]_vars

(* The work queue runs Reconcile again, and informers and the collector    *)
(* get around to every object.                                             *)
Fairness ==
    /\ WF_vars(Handler) /\ WF_vars(SyncCR)
    /\ \A o \in Objects : WF_vars(Sync(o)) /\ WF_vars(Collect(o))

FairSpec == Spec /\ Fairness

-----------------------------------------------------------------------------
(* What the life of the objects guarantees.                                *)

(* Once the MariaDBHA object is gone, whatever is left belongs to it, so   *)
(* that the garbage collector takes it: no StatefulSet whose owner         *)
(* reference an update dropped survives handleDeletion, which skips what   *)
(* its informers do not show.                                              *)
NoOrphans ==
    ~cr.exists => \A o \in Objects : stored[o].exists => stored[o].owned

(* As long as the MariaDBHA object exists, none of its objects does        *)
(* without the finalizer being stored: its deletion cannot pass by the     *)
(* operator, even if the update that adds the finalizer fails or conflicts. *)
FinalizerGuards ==
    cr.exists /\ (\E o \in Objects : stored[o].exists) => cr.finalizer

ownerState ==
    IF ~cr.exists THEN "gone"
    ELSE IF cr.deleting THEN "deleting"
    ELSE IF cr.finalizer THEN "guarded" ELSE "new"

objectSpecs == [o \in Objects |-> IF stored[o].exists THEN stored[o].spec ELSE 0]

Ownership == INSTANCE OwnedObjects
    WITH owner <- ownerState, wanted <- cr.spec, objects <- objectSpecs

(* The stored objects live as OwnedObjects says: no handler that runs on   *)
(* stale copies provides one before the finalizer is stored or after the   *)
(* owner is gone, or takes one back to an earlier spec, and a finalizer    *)
(* once stored is given up only by the release of a deletion.              *)
RefinesOwnership == Ownership!OwnedSpec
=============================================================================
