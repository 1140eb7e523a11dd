-------------------------- MODULE ProvisioningProofs --------------------------
(***************************************************************************)
(* Proofs about Provisioning: no unowned object outlives the MariaDBHA     *)
(* object, and no object exists without the finalizer being stored.        *)
(***************************************************************************)
EXTENDS Provisioning, TLAPS

(* An object without owner reference is a StatefulSet the informers show.  *)
UnownedAreSeen ==
    \A o \in Objects :
        stored[o].exists /\ ~stored[o].owned => o \in StatefulSets /\ cached[o].exists

(* What a copy says of the finalizer and of the deletion stays true of the *)
(* stored object: the finalizer as long as it exists, the deletion for     *)
(* good.  Without the object, a copy with the finalizer is of its deletion.*)
CopiesLag ==
    /\ cr.exists /\ crCache.finalizer => cr.finalizer
    /\ cr.exists /\ local.finalizer => cr.finalizer
    /\ crCache.deleting => cr.deleting
    /\ ~cr.exists /\ crCache.exists /\ crCache.finalizer => crCache.deleting

(* The branch of Reconcile that runs was chosen on a copy for which it is  *)
(* the right one, and no object is provisioned once the owner is gone.     *)
BranchFits ==
    /\ pc \in {"status", "provision", "delete", "release"} => local.finalizer
    /\ pc = "provision" => cr.exists
    /\ pc \in {"delete", "release"} => crCache.deleting

(* handleDeletion leaves no unowned StatefulSet behind the current step.   *)
DeletedSoFar ==
    /\ pc = "delete" => \A i \in 1 .. 2 :
           i < step /\ stored[DeletionOrder[i]].exists => stored[DeletionOrder[i]].owned
    /\ pc = "release" => \A o \in Objects : stored[o].exists => stored[o].owned

Safe ==
    /\ UnownedAreSeen
    /\ CopiesLag
    /\ BranchFits
    /\ DeletedSoFar
    /\ NoOrphans
    /\ FinalizerGuards

-----------------------------------------------------------------------------
(* What is requested of the API server is an object.                       *)

LEMMA OrderedObjects ==
    /\ \A i \in 1 .. 8 : Order[i] \in Objects
    /\ \A i \in 1 .. 8 : DeletionOrder[i] \in Objects
    /\ Len(Order) = 8 /\ Len(DeletionOrder) = 8
<1>1. Len(Order) = 8 /\ Len(DeletionOrder) = 8
  BY DEF Order, DeletionOrder
<1>2. \A i \in 1 .. 8 : Order[i] \in Objects
  BY DEF Order, Objects, StatefulSets, ConfigMaps, Headless, Selecting
<1>3. \A i \in 1 .. 8 : DeletionOrder[i] \in Objects
  BY DEF DeletionOrder, Objects, StatefulSets, ConfigMaps, Headless, Selecting
<1> QED BY <1>1, <1>2, <1>3

LEMMA DesiredType ==
    ASSUME NEW o \in Objects, NEW spec \in 1 .. MaxSpec, NEW order \in ParameterOrders
    PROVE  desired(o, spec, order) \in StoredObjects
BY ProvisioningAssumption DEF desired, StoredObjects, Details

LEMMA UpdatedType ==
    ASSUME NEW o \in Objects, NEW found \in StoredObjects, NEW want \in StoredObjects
    PROVE  updated(o, found, want) \in StoredObjects
BY DEF updated, StoredObjects

LEMMA AdmittedType ==
    ASSUME NEW o \in Objects, NEW value \in StoredObjects
    PROVE  /\ admitted(o, value) \in StoredObjects
           /\ admitted(o, value).owned = value.owned
BY DEF admitted, StoredObjects, Details

LEMMA AbsentType == Absent \in StoredObjects /\ ~Absent.exists
BY ProvisioningAssumption DEF Absent, StoredObjects, Details

LEMMA NewCRType == NewCR \in CustomResources
BY ProvisioningAssumption DEF NewCR, CustomResources

LEMMA CreationOwned ==
    ASSUME NEW o \in Objects, NEW spec \in 1 .. MaxSpec, NEW order \in ParameterOrders
    PROVE  admitted(o, desired(o, spec, order)).owned
<1>1. desired(o, spec, order).owned
  BY DEF desired
<1> QED BY <1>1, DesiredType, AdmittedType

LEMMA UpdateOwned ==
    ASSUME NEW o \in Objects, NEW found \in StoredObjects, NEW want \in StoredObjects,
           found.owned, o \notin StatefulSets
    PROVE  admitted(o, updated(o, found, want)).owned
<1>1. updated(o, found, want).owned
  BY DEF updated, StoredObjects
<1> QED BY <1>1, UpdatedType, AdmittedType

-----------------------------------------------------------------------------
(* Type correctness.                                                       *)

HandlerType ==
    /\ local \in CustomResources
    /\ pc \in {"idle", "finalizer", "status", "provision", "delete", "release"}
    /\ step \in 1 .. Len(Order)

LEMMA DisturbType ==
    ASSUME TypeOK, Disturb
    PROVE  disturbances' \in 0 .. MaxDisturbances
BY ProvisioningAssumption DEF TypeOK, Disturb

LEMMA ReturnType ==
    ASSUME TypeOK, Return
    PROVE  HandlerType'
BY NewCRType, OrderedObjects DEF Return, HandlerType

LEMMA AdvanceType ==
    ASSUME TypeOK, NEW next \in {"idle", "release"}, Advance(8, next)
    PROVE  HandlerType'
BY NewCRType, OrderedObjects DEF TypeOK, Advance, HandlerType

LEMMA WrittenType ==
    ASSUME TypeOK, NEW o \in Objects, Written(o)
    PROVE  HandlerType'
BY ReturnType, AdvanceType, OrderedObjects DEF Written

LEMMA UpdateCRType ==
    ASSUME TypeOK, NEW new \in CustomResources, UpdateCR(new)
    PROVE  cr' \in CustomResources /\ disturbances' \in 0 .. MaxDisturbances
BY DisturbType DEF UpdateCR, TypeOK

LEMMA PutType ==
    ASSUME TypeOK, NEW o \in Objects, NEW value \in StoredObjects, Put(o, value)
    PROVE  stored' \in [Objects -> StoredObjects]
BY AdmittedType DEF TypeOK, Put

LEMMA RemovedType ==
    ASSUME TypeOK, NEW o \in Objects
    PROVE  [stored EXCEPT ![o] = Absent] \in [Objects -> StoredObjects]
BY AbsentType DEF TypeOK

LEMMA TypeInit == Init => TypeOK
BY NewCRType, AbsentType, OrderedObjects, ProvisioningAssumption DEF Init, TypeOK

LEMMA TypeStep == TypeOK /\ [Next]_vars => TypeOK'
<1> SUFFICES ASSUME TypeOK, [Next]_vars
             PROVE  TypeOK'
  OBVIOUS
<1> USE OrderedObjects
<1>0. object \in Objects /\ doomed \in Objects
  BY DEF object, doomed, TypeOK
<1>1. CASE Start
  BY <1>1 DEF Start, TypeOK
<1>2. CASE AddFinalizer
  <2>1. [local EXCEPT !.finalizer = TRUE] \in CustomResources
    BY DEF TypeOK, CustomResources
  <2> QED BY <1>2, <2>1, UpdateCRType, ReturnType DEF AddFinalizer, TypeOK, HandlerType
<1>3. CASE InitializeStatus
  <2>1. [local EXCEPT !.initialized = TRUE] \in CustomResources
    BY DEF TypeOK, CustomResources
  <2> QED BY <1>3, <2>1, UpdateCRType, ReturnType DEF InitializeStatus, TypeOK, HandlerType
<1>4. CASE Create
  <2>1. PICK order \in ParameterOrders :
          /\ \/ Put(object, desired(object, local.spec, order)) \/ UNCHANGED stored
          /\ Written(object) \/ Return
          /\ UNCHANGED disturbances \/ Disturb
    BY <1>4 DEF Create
  <2>2. desired(object, local.spec, order) \in StoredObjects
    BY <1>0, DesiredType DEF TypeOK, CustomResources
  <2>3. stored' \in [Objects -> StoredObjects]
    BY <1>0, <2>1, <2>2, PutType DEF TypeOK
  <2>4. HandlerType'
    BY <1>0, <2>1, WrittenType, ReturnType
  <2>5. disturbances' \in 0 .. MaxDisturbances
    BY <2>1, DisturbType DEF TypeOK
  <2> QED BY <1>4, <2>3, <2>4, <2>5 DEF Create, TypeOK, HandlerType
<1>5. CASE Update
  <2>1. PICK order \in ParameterOrders :
          LET want == desired(object, local.spec, order)
              new  == updated(object, cached[object], want)
          IN  /\ Put(object, new) \/ UNCHANGED stored
              /\ Written(object) \/ Return
              /\ UNCHANGED disturbances \/ Disturb
    BY <1>5 DEF Update
  <2> DEFINE want == desired(object, local.spec, order)
             new == updated(object, cached[object], want)
  <2>2. want \in StoredObjects
    BY <1>0, DesiredType DEF TypeOK, CustomResources
  <2>3. new \in StoredObjects
    BY <1>0, <2>2, UpdatedType DEF TypeOK
  <2>4. stored' \in [Objects -> StoredObjects]
    BY <1>0, <2>1, <2>3, PutType DEF TypeOK
  <2>5. HandlerType'
    BY <1>0, <2>1, WrittenType, ReturnType
  <2>6. disturbances' \in 0 .. MaxDisturbances
    BY <2>1, DisturbType DEF TypeOK
  <2> QED BY <1>5, <2>4, <2>5, <2>6 DEF Update, TypeOK, HandlerType
<1>6. CASE Keep
  BY <1>6, AdvanceType DEF Keep, TypeOK, HandlerType
<1>7. CASE Delete
  <2>1. stored' \in [Objects -> StoredObjects]
    BY <1>0, <1>7, RemovedType DEF Delete, TypeOK
  <2>2. HandlerType'
    BY <1>7, AdvanceType, ReturnType DEF Delete
  <2>3. disturbances' \in 0 .. MaxDisturbances
    BY <1>7, DisturbType DEF Delete, TypeOK
  <2> QED BY <1>7, <2>1, <2>2, <2>3 DEF Delete, TypeOK, HandlerType
<1>8. CASE RemoveFinalizer
  <2>1. [local EXCEPT !.finalizer = FALSE, !.exists = FALSE] \in CustomResources
    BY DEF TypeOK, CustomResources
  <2> QED BY <1>8, <2>1, UpdateCRType, ReturnType DEF RemoveFinalizer, TypeOK, HandlerType
<1>9. CASE SyncCR
  BY <1>9 DEF SyncCR, TypeOK
<1>10. CASE Crash
  BY <1>10, ReturnType, DisturbType DEF Crash, TypeOK, HandlerType
<1>11. CASE EditSpec
  BY <1>11, ProvisioningAssumption DEF EditSpec, TypeOK, CustomResources
<1>12. CASE DeleteCR
  BY <1>12 DEF DeleteCR, TypeOK, CustomResources
<1>13. ASSUME NEW o \in Objects, Sync(o)
       PROVE  TypeOK'
  BY <1>13 DEF Sync, TypeOK
<1>14. ASSUME NEW o \in Objects, Tamper(o)
       PROVE  TypeOK'
  <2>1. stored' \in [Objects -> StoredObjects]
    <3>1. CASE stored' = [stored EXCEPT ![o] = Absent]
      BY <3>1, RemovedType
    <3>2. CASE stored' = [stored EXCEPT ![o].detail = "other"]
      BY <3>2 DEF TypeOK, StoredObjects, Details
    <3> QED BY <1>14, <3>1, <3>2 DEF Tamper
  <2> QED BY <1>14, <2>1, DisturbType DEF Tamper, TypeOK
<1>15. ASSUME NEW o \in Objects, Collect(o)
       PROVE  TypeOK'
  BY <1>15, RemovedType DEF Collect, TypeOK
<1>16. CASE UNCHANGED vars
  BY <1>16 DEF vars, TypeOK
<1> QED
  BY <1>1, <1>2, <1>3, <1>4, <1>5, <1>6, <1>7, <1>8, <1>9, <1>10, <1>11, <1>12,
     <1>13, <1>14, <1>15, <1>16 DEF Next, Handler, Environment

(* Type correctness of the provisioning, for every bound.                  *)
THEOREM ProvisioningTypeCorrect == Spec => []TypeOK
BY TypeInit, TypeStep, PTL DEF Spec

-----------------------------------------------------------------------------
(* The inductive invariant, one lemma for each group of steps.             *)

LEMMA StatefulSetsFirst ==
    \A o \in StatefulSets : \E i \in 1 .. 2 : DeletionOrder[i] = o
BY DEF StatefulSets, DeletionOrder

LEMMA SafeInit == Init => Safe
BY AbsentType DEF Init, Safe, UnownedAreSeen, CopiesLag, BranchFits, DeletedSoFar,
                  NoOrphans, FinalizerGuards, NewCR

(* The steps of the handler that leave the objects alone.                  *)
LEMMA StartSafe ==
    ASSUME TypeOK, Safe, Start
    PROVE  Safe'
<1>1. UnownedAreSeen' /\ NoOrphans' /\ FinalizerGuards'
  BY DEF Start, Safe, UnownedAreSeen, NoOrphans, FinalizerGuards
<1>2. CopiesLag' /\ BranchFits'
  BY DEF Start, Safe, CopiesLag, BranchFits
<1>3. DeletedSoFar'
  BY DEF Start, Safe, DeletedSoFar
<1> QED BY <1>1, <1>2, <1>3 DEF Safe

LEMMA ReturnSafe ==
    ASSUME TypeOK, Safe, Return, UNCHANGED <<cr, crCache, stored, cached>>
    PROVE  Safe'
BY DEF Return, NewCR, Safe, UnownedAreSeen, CopiesLag, BranchFits, DeletedSoFar,
       NoOrphans, FinalizerGuards

(* An update of the MariaDBHA object that keeps the finalizer or sets it.  *)
LEMMA UpdateCRSafe ==
    ASSUME TypeOK, Safe, Return, UNCHANGED <<crCache, stored, cached>>,
           NEW new \in CustomResources, UpdateCR(new),
           new.finalizer, new.deleting = local.deleting, new.exists = local.exists
    PROVE  Safe'
<1>1. CASE cr' = cr
  BY <1>1, ReturnSafe
<1>2. CASE cr' = new /\ cr = local
  BY <1>2 DEF Return, NewCR, Safe, UnownedAreSeen, CopiesLag, BranchFits, DeletedSoFar,
              NoOrphans, FinalizerGuards
<1> QED BY <1>1, <1>2 DEF UpdateCR

LEMMA RemoveFinalizerSafe ==
    ASSUME TypeOK, Safe, RemoveFinalizer
    PROVE  Safe'
<1>1. CASE cr' = cr
  BY <1>1, ReturnSafe DEF RemoveFinalizer
<1>2. CASE /\ cr = local
           /\ cr' = [local EXCEPT !.finalizer = FALSE, !.exists = FALSE]
  <2>1. ~cr'.exists /\ ~cr'.finalizer /\ cr'.deleting = cr.deleting
    BY <1>2 DEF TypeOK, CustomResources
  <2>2. crCache.deleting /\ \A o \in Objects : stored[o].exists => stored[o].owned
    BY DEF RemoveFinalizer, Safe, BranchFits, DeletedSoFar
  <2> QED BY <2>1, <2>2 DEF RemoveFinalizer, Return, NewCR, Safe, UnownedAreSeen,
             CopiesLag, BranchFits, DeletedSoFar, NoOrphans, FinalizerGuards
<1> QED BY <1>1, <1>2 DEF RemoveFinalizer, UpdateCR

(* The steps that write an object.                                         *)
LEMMA ProvisionSafe ==
    ASSUME TypeOK, Safe, pc = "provision", NEW o \in Objects,
           UNCHANGED <<cr, crCache, cached>>,
           Return \/ Written(o),
           \/ UNCHANGED stored
           \/ \E value \in StoredObjects :
                /\ Put(o, value)
                /\ \/ admitted(o, value).owned
                   \/ o \in StatefulSets /\ cached[o].exists
    PROVE  Safe'
<1>1. cr.exists /\ local.finalizer /\ cr.finalizer
  BY DEF Safe, BranchFits, CopiesLag
<1>2. UnownedAreSeen'
  BY DEF Safe, UnownedAreSeen, Put, TypeOK
<1>3. pc' \in {"idle", "provision"} /\ (pc' = "provision" => local' = local)
      /\ (local' = local \/ local' = NewCR)
  BY OrderedObjects DEF Return, Written, Advance
<1>4. CopiesLag' /\ BranchFits'
  BY <1>1, <1>3 DEF Safe, CopiesLag, BranchFits, NewCR
<1>5. DeletedSoFar' /\ NoOrphans' /\ FinalizerGuards'
  BY <1>1, <1>3 DEF DeletedSoFar, NoOrphans, FinalizerGuards
<1> QED BY <1>2, <1>4, <1>5 DEF Safe

LEMMA CreateSafe ==
    ASSUME TypeOK, Safe, Create
    PROVE  Safe'
<1>1. object \in Objects
  BY OrderedObjects DEF object, TypeOK
<1>2. PICK order \in ParameterOrders :
        /\ Put(object, desired(object, local.spec, order)) \/ UNCHANGED stored
        /\ Return \/ Written(object)
  BY DEF Create
<1>3. /\ desired(object, local.spec, order) \in StoredObjects
      /\ admitted(object, desired(object, local.spec, order)).owned
  BY <1>1, DesiredType, CreationOwned DEF TypeOK, CustomResources
<1> QED BY <1>1, <1>2, <1>3, ProvisionSafe DEF Create

LEMMA UpdateSafe ==
    ASSUME TypeOK, Safe, Update
    PROVE  Safe'
<1>1. object \in Objects
  BY OrderedObjects DEF object, TypeOK
<1>2. PICK order \in ParameterOrders :
        LET want == desired(object, local.spec, order)
            new  == updated(object, cached[object], want)
        IN  /\ \/ stored[object] = cached[object] /\ Put(object, new)
               \/ UNCHANGED stored
            /\ Return \/ Written(object)
  BY DEF Update
<1> DEFINE want == desired(object, local.spec, order)
           new == updated(object, cached[object], want)
<1>3. want \in StoredObjects /\ new \in StoredObjects
  BY <1>1, DesiredType, UpdatedType DEF TypeOK, CustomResources
<1>4. CASE UNCHANGED stored
  BY <1>1, <1>2, <1>4, ProvisionSafe DEF Update
<1>5. CASE stored[object] = cached[object] /\ Put(object, new)
  <2>1. cached[object] \in StoredObjects /\ cached[object].exists
    BY <1>1 DEF Update, TypeOK
  <2>2. CASE object \in StatefulSets
    BY <1>1, <1>2, <1>3, <1>5, <2>1, <2>2, ProvisionSafe DEF Update
  <2>3. CASE object \notin StatefulSets
    <3>1. cached[object].owned
      BY <1>1, <1>5, <2>1, <2>3 DEF Safe, UnownedAreSeen
    <3>2. admitted(object, new).owned
      BY <1>1, <1>3, <2>1, <2>3, <3>1, UpdateOwned
    <3> QED BY <1>1, <1>2, <1>3, <1>5, <3>2, ProvisionSafe DEF Update
  <2> QED BY <2>2, <2>3
<1> QED BY <1>2, <1>4, <1>5

LEMMA KeepSafe ==
    ASSUME TypeOK, Safe, Keep
    PROVE  Safe'
<1>1. pc' \in {"idle", "provision"} /\ (pc' = "provision" => local' = local)
      /\ (local' = local \/ local' = NewCR)
  BY DEF Keep, Advance
<1> QED BY <1>1 DEF Keep, NewCR, Safe, UnownedAreSeen, CopiesLag, BranchFits,
                   DeletedSoFar, NoOrphans, FinalizerGuards

(* The removal of an object, by whomever, disturbs nothing.                *)
LEMMA RemovalSafe ==
    ASSUME TypeOK, Safe, NEW o \in Objects,
           UNCHANGED <<cr, crCache, cached, pc, step, local>>,
           stored' = [stored EXCEPT ![o] = Absent]
    PROVE  Safe'
<1>1. \A p \in Objects : stored'[p].exists => stored'[p] = stored[p]
  BY AbsentType DEF TypeOK
<1>2. \A i \in 1 .. 2 : DeletionOrder[i] \in Objects
  BY OrderedObjects
<1> QED BY <1>1, <1>2 DEF Safe, UnownedAreSeen, CopiesLag, BranchFits, DeletedSoFar,
                          NoOrphans, FinalizerGuards

LEMMA DeleteSafe ==
    ASSUME TypeOK, Safe, Delete
    PROVE  Safe'
<1>1. doomed \in Objects /\ doomed = DeletionOrder[step]
  BY OrderedObjects DEF doomed, TypeOK
<1>2. \A p \in Objects : stored'[p].exists => stored'[p] = stored[p]
  BY <1>1, AbsentType DEF Delete, TypeOK
<1>3. UnownedAreSeen' /\ NoOrphans' /\ FinalizerGuards'
  BY <1>2 DEF Delete, Safe, UnownedAreSeen, NoOrphans, FinalizerGuards
<1>4. CASE Return
  <2>1. CopiesLag' /\ BranchFits' /\ DeletedSoFar'
    BY <1>4 DEF Delete, Return, NewCR, Safe, CopiesLag, BranchFits, DeletedSoFar
  <2> QED BY <1>3, <2>1 DEF Safe
<1>5. CASE Advance(8, "release")
  <2>1. local' = local /\ pc' \in {"delete", "release"}
    BY <1>5 DEF Advance, Delete
  <2>2. CopiesLag' /\ BranchFits'
    BY <2>1 DEF Delete, Safe, CopiesLag, BranchFits
  <2>3. \A i \in 1 .. 2 : i =< step /\ stored'[DeletionOrder[i]].exists =>
                            stored'[DeletionOrder[i]].owned
    <3> SUFFICES ASSUME NEW i \in 1 .. 2, i =< step, stored'[DeletionOrder[i]].exists
                 PROVE  stored'[DeletionOrder[i]].owned
      OBVIOUS
    <3>1. DeletionOrder[i] \in Objects
      BY OrderedObjects
    <3>2. stored'[DeletionOrder[i]] = stored[DeletionOrder[i]]
      BY <1>2, <3>1
    <3>3. CASE i < step
      BY <3>2, <3>3 DEF Delete, Safe, DeletedSoFar
    <3>4. CASE i = step
      <4>1. doomed \in StatefulSets
        BY <1>1, <3>4 DEF StatefulSets, DeletionOrder
      <4>2. doomed \notin ConfigMaps
        BY <4>1 DEF StatefulSets, ConfigMaps
      <4>3. CASE ~cached[doomed].exists
        BY <1>1, <3>1, <3>2, <3>4, <4>3 DEF Safe, UnownedAreSeen
      <4>4. CASE cached[doomed].exists
        <5>1. CASE stored' = [stored EXCEPT ![doomed] = Absent]
          BY <1>1, <3>4, <5>1, AbsentType DEF TypeOK
        <5>2. CASE Return
          BY <2>1, <5>2 DEF Return
        <5> QED BY <4>2, <4>4, <5>1, <5>2 DEF Delete
      <4> QED BY <4>3, <4>4
    <3> QED BY <3>3, <3>4 DEF TypeOK
  <2>4. DeletedSoFar'
    <3>1. CASE step < 8
      BY <1>5, <2>3, <3>1, OrderedObjects DEF Advance, DeletedSoFar, TypeOK, Delete
    <3>2. CASE ~(step < 8)
      <4>1. step = 8
        BY <3>2, OrderedObjects DEF TypeOK
      <4>2. \A o \in StatefulSets : stored'[o].exists => stored'[o].owned
        BY <2>3, <4>1, StatefulSetsFirst
      <4>3. pc' = "release"
        BY <1>5, <3>2 DEF Advance
      <4> QED BY <1>3, <4>2, <4>3 DEF DeletedSoFar, UnownedAreSeen
    <3> QED BY <3>1, <3>2
  <2> QED BY <1>3, <2>2, <2>4 DEF Safe
<1> QED BY <1>4, <1>5, OrderedObjects DEF Delete

(* The environment.                                                        *)
LEMMA SyncSafe ==
    ASSUME TypeOK, Safe, SyncCR \/ \E o \in Objects : Sync(o)
    PROVE  Safe'
<1>1. CASE SyncCR
  BY <1>1 DEF SyncCR, Safe, UnownedAreSeen, CopiesLag, BranchFits, DeletedSoFar,
              NoOrphans, FinalizerGuards
<1>2. ASSUME NEW o \in Objects, Sync(o)
      PROVE  Safe'
  <2>1. UnownedAreSeen'
    BY <1>2 DEF Sync, Safe, UnownedAreSeen, TypeOK
  <2> QED BY <1>2, <2>1 DEF Sync, Safe, CopiesLag, BranchFits, DeletedSoFar,
                            NoOrphans, FinalizerGuards
<1> QED BY <1>1, <1>2

LEMMA UserSafe ==
    ASSUME TypeOK, Safe, EditSpec \/ DeleteCR
    PROVE  Safe'
<1>1. /\ cr.exists /\ cr'.finalizer = cr.finalizer
      /\ cr.deleting => cr'.deleting
      /\ cr'.exists \/ ~cr.finalizer
      /\ UNCHANGED <<crCache, stored, cached, pc, step, local>>
  BY DEF EditSpec, DeleteCR, TypeOK, CustomResources
<1>2. CopiesLag' /\ BranchFits'
  BY <1>1 DEF Safe, CopiesLag, BranchFits
<1>3. UnownedAreSeen' /\ DeletedSoFar' /\ NoOrphans' /\ FinalizerGuards'
  BY <1>1 DEF Safe, UnownedAreSeen, DeletedSoFar, NoOrphans, FinalizerGuards
<1> QED BY <1>2, <1>3 DEF Safe

LEMMA TamperSafe ==
    ASSUME TypeOK, Safe, NEW o \in Objects, Tamper(o)
    PROVE  Safe'
<1>1. CASE stored' = [stored EXCEPT ![o] = Absent]
  BY <1>1, RemovalSafe DEF Tamper
<1>2. CASE stored' = [stored EXCEPT ![o].detail = "other"]
  <2>1. \A p \in Objects : /\ stored'[p].exists = stored[p].exists
                            /\ stored'[p].owned = stored[p].owned
    BY <1>2 DEF TypeOK, StoredObjects
  <2>2. \A i \in 1 .. 2 : DeletionOrder[i] \in Objects
    BY OrderedObjects
  <2> QED BY <2>1, <2>2 DEF Tamper, Safe, UnownedAreSeen, CopiesLag, BranchFits,
                            DeletedSoFar, NoOrphans, FinalizerGuards
<1> QED BY <1>1, <1>2 DEF Tamper

LEMMA SafeStep == TypeOK /\ Safe /\ [Next]_vars => Safe'
<1> SUFFICES ASSUME TypeOK, Safe, [Next]_vars
             PROVE  Safe'
  OBVIOUS
<1>1. CASE AddFinalizer
  <2>1. LET new == [local EXCEPT !.finalizer = TRUE]
        IN  /\ new \in CustomResources /\ new.finalizer
            /\ new.deleting = local.deleting /\ new.exists = local.exists
    BY DEF TypeOK, CustomResources
  <2> QED BY <1>1, <2>1, UpdateCRSafe DEF AddFinalizer
<1>2. CASE InitializeStatus
  <2>1. LET new == [local EXCEPT !.initialized = TRUE]
        IN  /\ new \in CustomResources /\ new.finalizer = local.finalizer
            /\ new.deleting = local.deleting /\ new.exists = local.exists
    BY DEF TypeOK, CustomResources
  <2>2. local.finalizer
    BY <1>2 DEF InitializeStatus, Safe, BranchFits
  <2> QED BY <1>2, <2>1, <2>2, UpdateCRSafe DEF InitializeStatus
<1>3. CASE Crash
  BY <1>3, ReturnSafe DEF Crash
<1>4. ASSUME NEW o \in Objects, Collect(o)
      PROVE  Safe'
  BY <1>4, RemovalSafe DEF Collect
<1>5. CASE UNCHANGED vars
  BY <1>5 DEF vars, Safe, UnownedAreSeen, CopiesLag, BranchFits, DeletedSoFar,
              NoOrphans, FinalizerGuards
<1> QED
  BY <1>1, <1>2, <1>3, <1>4, <1>5, StartSafe, CreateSafe, UpdateSafe, KeepSafe,
     DeleteSafe, RemoveFinalizerSafe, SyncSafe, UserSafe, TamperSafe
     DEF Next, Handler, Environment

LEMMA SafeAlways == Spec => [](TypeOK /\ Safe)
BY TypeInit, TypeStep, SafeInit, SafeStep, PTL DEF Spec

(* Whatever a MariaDBHA object leaves behind, the garbage collector takes: *)
(* a StatefulSet without owner reference does not outlive handleDeletion.  *)
THEOREM OrphanFree == Spec => []NoOrphans
<1>1. Safe => NoOrphans
  BY DEF Safe
<1> QED BY <1>1, SafeAlways, PTL

(* No object exists without the finalizer being stored, so that a deletion *)
(* always comes by handleDeletion.                                         *)
THEOREM FinalizerFirst == Spec => []FinalizerGuards
<1>1. Safe => FinalizerGuards
  BY DEF Safe
<1> QED BY <1>1, SafeAlways, PTL

-----------------------------------------------------------------------------
(* The refinement of OwnedObjects.                                         *)

(* Copies and objects lag behind the spec in the order in which it reaches *)
(* them, and a handler that provisions is ahead of every object.           *)
SpecsLag ==
    /\ local.spec =< crCache.spec /\ crCache.spec =< cr.spec
    /\ \A o \in Objects : stored[o].exists =>
           /\ stored[o].spec =< crCache.spec
           /\ pc = "provision" => stored[o].spec =< local.spec
           /\ o \notin StatefulSets \cup ConfigMaps => stored[o].spec = 1

LEMMA SpecTypes ==
    ASSUME TypeOK
    PROVE  /\ cr.spec \in 1 .. MaxSpec /\ crCache.spec \in 1 .. MaxSpec
           /\ local.spec \in 1 .. MaxSpec /\ MaxSpec \in Nat
           /\ \A o \in Objects : stored[o].spec \in 1 .. MaxSpec
BY ProvisioningAssumption DEF TypeOK, CustomResources, StoredObjects

(* What is put is of the handler's spec, or of the first one for a Service.*)
LEMMA PutSpec ==
    ASSUME TypeOK, NEW o \in Objects, NEW order \in ParameterOrders,
           NEW want, want = desired(o, local.spec, order),
           NEW value, value = want \/ value = updated(o, cached[o], want),
           Put(o, value)
    PROVE  /\ stored' \in [Objects -> StoredObjects]
           /\ stored' = [stored EXCEPT ![o] = stored'[o]]
           /\ stored'[o].exists
           /\ stored'[o].spec \in {1, local.spec}
           /\ o \notin StatefulSets \cup ConfigMaps => stored'[o].spec = 1
           /\ o \in StatefulSets \cup ConfigMaps => stored'[o].spec = local.spec
<1>1. want \in StoredObjects /\ want.exists
      /\ want.spec = (IF o \in StatefulSets \cup ConfigMaps THEN local.spec ELSE 1)
  BY SpecTypes, DesiredType DEF desired
<1>2. value \in StoredObjects /\ value.exists /\ value.spec = want.spec
  BY <1>1, UpdatedType DEF updated, TypeOK, StoredObjects
<1>3. admitted(o, value).exists = value.exists /\ admitted(o, value).spec = value.spec
  BY <1>2 DEF admitted, StoredObjects
<1>4. stored' \in [Objects -> StoredObjects]
  BY <1>2, PutType
<1>5. stored'[o] = admitted(o, value) /\ stored' = [stored EXCEPT ![o] = stored'[o]]
  BY DEF Put, TypeOK
<1> QED BY <1>1, <1>2, <1>3, <1>4, <1>5

(* A write of the handler, as the abstract specification sees it.          *)
Provided(o) ==
    /\ pc = "provision"
    /\ stored' \in [Objects -> StoredObjects]
    /\ stored' = [stored EXCEPT ![o] = stored'[o]]
    /\ stored'[o].exists
    /\ stored'[o].spec =< local.spec
    /\ o \notin StatefulSets \cup ConfigMaps => stored'[o].spec = 1
    /\ stored[o].exists => stored[o].spec =< stored'[o].spec

LEMMA ProvisionStep ==
    ASSUME TypeOK, SpecsLag, Create \/ Update
    PROVE  UNCHANGED stored \/ Provided(object)
<1>1. object \in Objects
  BY OrderedObjects DEF object, TypeOK
<1>2. CASE UNCHANGED stored
  BY <1>2
<1>3. CASE ~UNCHANGED stored
  <2>1. PICK order \in ParameterOrders :
          LET want == desired(object, local.spec, order)
          IN  \/ Put(object, want) \/ Put(object, updated(object, cached[object], want))
    BY <1>3 DEF Create, Update
  <2>2. /\ stored' \in [Objects -> StoredObjects]
        /\ stored' = [stored EXCEPT ![object] = stored'[object]]
        /\ stored'[object].exists
        /\ stored'[object].spec \in {1, local.spec}
        /\ object \notin StatefulSets \cup ConfigMaps => stored'[object].spec = 1
        /\ object \in StatefulSets \cup ConfigMaps => stored'[object].spec = local.spec
    BY <1>1, <2>1, PutSpec
  <2>3. pc = "provision"
    BY DEF Create, Update
  <2> QED BY <1>1, <2>2, <2>3, SpecTypes DEF Provided, SpecsLag
<1> QED BY <1>2, <1>3

(* What the other steps may do to the objects.                             *)
Removed(o) == stored' = [stored EXCEPT ![o] = Absent]

LEMMA RemovedObjects ==
    ASSUME TypeOK, NEW o \in Objects, Removed(o)
    PROVE  \A p \in Objects : stored'[p].exists => stored'[p] = stored[p]
BY AbsentType DEF Removed, TypeOK

LEMMA DeleteStep ==
    ASSUME TypeOK, Delete
    PROVE  UNCHANGED stored \/ Removed(doomed)
BY DEF Delete, Removed

LEMMA TamperStep ==
    ASSUME TypeOK, NEW o \in Objects, Tamper(o)
    PROVE  \/ Removed(o)
           \/ \A p \in Objects : /\ stored'[p].exists = stored[p].exists
                                   /\ stored'[p].spec = stored[p].spec
BY DEF Tamper, Removed, TypeOK, StoredObjects

(* No update of the MariaDBHA object changes its spec.                     *)
LEMMA UpdateKeepsSpec ==
    ASSUME TypeOK, AddFinalizer \/ InitializeStatus \/ RemoveFinalizer
    PROVE  cr'.spec = cr.spec
BY DEF AddFinalizer, InitializeStatus, RemoveFinalizer, UpdateCR, TypeOK, CustomResources

LEMMA HandlerGoesOn ==
    ASSUME TypeOK, Create \/ Update \/ Keep \/ Delete
    PROVE  /\ local' = local \/ local' = NewCR
           /\ pc' = "provision" => local' = local /\ pc = "provision"
BY OrderedObjects DEF Create, Update, Keep, Delete, Return, Written, Advance

LEMMA SpecsLagInit == Init => SpecsLag
BY AbsentType, ProvisioningAssumption DEF Init, SpecsLag, NewCR

LEMMA SpecsLagStep == TypeOK /\ SpecsLag /\ [Next]_vars => SpecsLag'
<1> SUFFICES ASSUME TypeOK, SpecsLag, [Next]_vars
             PROVE  SpecsLag'
  OBVIOUS
<1> USE SpecTypes
<1>0. NewCR.spec = 1
  BY DEF NewCR
<1>1. CASE Start
  BY <1>1 DEF Start, SpecsLag
<1>2. CASE AddFinalizer \/ InitializeStatus \/ RemoveFinalizer
  BY <1>0, <1>2, UpdateKeepsSpec
  DEF AddFinalizer, InitializeStatus, RemoveFinalizer, Return, SpecsLag
<1>3. CASE Create \/ Update
  <2>1. UNCHANGED <<cr, crCache>>
    BY <1>3 DEF Create, Update
  <2>2. CASE UNCHANGED stored
    BY <1>0, <1>3, <2>1, <2>2, HandlerGoesOn DEF SpecsLag
  <2>3. CASE Provided(object)
    <3>1. object \in Objects
      BY OrderedObjects DEF object, TypeOK
    <3>2. \A p \in Objects : p # object => stored'[p] = stored[p]
      BY <2>3, <3>1 DEF Provided, TypeOK
    <3>3. stored'[object].spec \in 1 .. MaxSpec
      BY <2>3, <3>1 DEF Provided, StoredObjects
    <3>4. stored'[object].spec =< local.spec /\ stored'[object].spec =< crCache.spec
          /\ (object \notin StatefulSets \cup ConfigMaps => stored'[object].spec = 1)
      BY <2>3, <3>3 DEF Provided, SpecsLag
    <3>5. /\ local'.spec =< crCache'.spec /\ crCache'.spec =< cr'.spec
          /\ pc' = "provision" => local' = local /\ pc = "provision"
      BY <1>0, <1>3, <2>1, HandlerGoesOn DEF SpecsLag
    <3>6. \A p \in Objects : stored'[p].exists =>
             /\ stored'[p].spec =< crCache.spec
             /\ pc = "provision" => stored'[p].spec =< local.spec
             /\ p \notin StatefulSets \cup ConfigMaps => stored'[p].spec = 1
      BY <3>2, <3>4 DEF SpecsLag
    <3> QED BY <2>1, <3>5, <3>6 DEF SpecsLag
  <2> QED BY <1>3, <2>2, <2>3, ProvisionStep
<1>4. CASE Keep
  BY <1>0, <1>4, HandlerGoesOn DEF Keep, SpecsLag
<1>5. CASE Delete
  <2>1. doomed \in Objects
    BY OrderedObjects DEF doomed, TypeOK
  <2>2. \A p \in Objects : stored'[p].exists => stored'[p] = stored[p]
    BY <1>5, <2>1, DeleteStep, RemovedObjects
  <2> QED BY <1>0, <1>5, <2>2, HandlerGoesOn DEF Delete, SpecsLag
<1>6. CASE SyncCR
  BY <1>6 DEF SyncCR, SpecsLag
<1>7. CASE Crash
  BY <1>0, <1>7 DEF Crash, Return, SpecsLag
<1>8. CASE EditSpec \/ DeleteCR
  <2>1. cr'.spec >= cr.spec /\ cr'.spec \in Nat
    BY <1>8 DEF EditSpec, DeleteCR, TypeOK, CustomResources
  <2> QED BY <1>8, <2>1 DEF EditSpec, DeleteCR, SpecsLag
<1>9. ASSUME NEW o \in Objects, Sync(o)
      PROVE  SpecsLag'
  BY <1>9 DEF Sync, SpecsLag
<1>10. ASSUME NEW o \in Objects, Tamper(o)
       PROVE  SpecsLag'
  BY <1>10, TamperStep, RemovedObjects DEF Tamper, SpecsLag
<1>11. ASSUME NEW o \in Objects, Collect(o)
       PROVE  SpecsLag'
  BY <1>11, RemovedObjects DEF Collect, Removed, SpecsLag
<1>12. CASE UNCHANGED vars
  BY <1>12 DEF vars, SpecsLag
<1> QED
  BY <1>1, <1>2, <1>3, <1>4, <1>5, <1>6, <1>7, <1>8, <1>9, <1>10, <1>11, <1>12
  DEF Next, Handler, Environment

LEMMA SameSpecs ==
    ASSUME \A p \in Objects : /\ stored'[p].exists = stored[p].exists
                              /\ stored[p].exists => stored'[p].spec = stored[p].spec
    PROVE  objectSpecs' = objectSpecs
BY DEF objectSpecs

LEMMA RemovedMaps ==
    ASSUME TypeOK, NEW o \in Objects, Removed(o), UNCHANGED cr
    PROVE  Ownership!Remove(o)
<1>1. objectSpecs' = [objectSpecs EXCEPT ![o] = 0]
  BY AbsentType DEF Removed, objectSpecs, TypeOK
<1>2. UNCHANGED <<ownerState, cr.spec>>
  BY DEF ownerState
<1> QED BY <1>1, <1>2 DEF Ownership!Remove

LEMMA ProvidedMaps ==
    ASSUME TypeOK, Safe, SpecsLag, NEW o \in Objects, Provided(o), UNCHANGED cr
    PROVE  Ownership!Provide(o)
<1>1. ownerState \in {"guarded", "deleting"} /\ UNCHANGED <<ownerState, cr.spec>>
  BY DEF ownerState, Provided, Safe, BranchFits, CopiesLag
<1>2. stored'[o].spec \in 1 .. cr.spec
  BY SpecTypes DEF Provided, StoredObjects, SpecsLag
<1>3. stored'[o].spec >= objectSpecs[o]
  BY <1>2, SpecTypes DEF Provided, objectSpecs
<1>4. objectSpecs' = [objectSpecs EXCEPT ![o] = stored'[o].spec]
  BY DEF Provided, objectSpecs, TypeOK
<1> QED BY <1>1, <1>2, <1>3, <1>4 DEF Ownership!Provide

LEMMA OwnershipInit == Init => Ownership!OwnedInit
BY AbsentType DEF Init, NewCR, Ownership!OwnedInit, ownerState, objectSpecs

LEMMA OwnershipStep ==
    ASSUME TypeOK, Safe, SpecsLag, [Next]_vars
    PROVE  [Ownership!OwnedNext]_(Ownership!owned)
<1> USE DEF Ownership!owned
<1>1. ASSUME UNCHANGED <<cr, stored>>
      PROVE  UNCHANGED Ownership!owned
  BY <1>1 DEF ownerState, objectSpecs
<1>2. ASSUME NEW o \in Objects, Removed(o), UNCHANGED cr
      PROVE  Ownership!OwnedNext
  BY <1>2, RemovedMaps DEF Ownership!OwnedNext
<1>3. CASE Start \/ Keep \/ SyncCR \/ Crash \/ (\E o \in Objects : Sync(o)) \/ UNCHANGED vars
  BY <1>1, <1>3 DEF Start, Keep, SyncCR, Crash, Sync, vars
<1>4. CASE AddFinalizer
  <2>1. UNCHANGED stored /\ (cr' = cr \/ cr' = [cr EXCEPT !.finalizer = TRUE])
    BY <1>4 DEF AddFinalizer, UpdateCR
  <2>2. UNCHANGED <<objectSpecs, cr.spec>>
    BY <2>1 DEF objectSpecs, TypeOK, CustomResources
  <2>3. UNCHANGED ownerState \/ (ownerState = "new" /\ ownerState' = "guarded")
    BY <2>1 DEF ownerState, TypeOK, CustomResources
  <2> QED BY <2>2, <2>3 DEF Ownership!OwnedNext, Ownership!Guard
<1>5. CASE InitializeStatus
  <2>1. UNCHANGED stored /\ (cr' = cr \/ cr' = [cr EXCEPT !.initialized = TRUE])
    BY <1>5 DEF InitializeStatus, UpdateCR
  <2>2. UNCHANGED <<ownerState, objectSpecs, cr.spec>>
    BY <2>1 DEF ownerState, objectSpecs, TypeOK, CustomResources
  <2> QED BY <2>2
<1>6. CASE RemoveFinalizer
  <2>1. UNCHANGED stored /\ (cr' = cr \/ cr' = [cr EXCEPT !.finalizer = FALSE,
                                                         !.exists = FALSE])
    BY <1>6 DEF RemoveFinalizer, UpdateCR
  <2>2. UNCHANGED <<objectSpecs, cr.spec>>
    BY <2>1 DEF objectSpecs, TypeOK, CustomResources
  <2>3. cr.deleting
    BY <1>6 DEF RemoveFinalizer, Safe, BranchFits, CopiesLag
  <2>4. UNCHANGED ownerState \/ (ownerState = "deleting" /\ ownerState' = "gone")
    BY <2>1, <2>3 DEF ownerState, TypeOK, CustomResources
  <2> QED BY <2>2, <2>4 DEF Ownership!OwnedNext, Ownership!Release
<1>7. CASE Create \/ Update
  <2>1. object \in Objects
    BY OrderedObjects DEF object, TypeOK
  <2>2. UNCHANGED cr
    BY <1>7 DEF Create, Update
  <2>3. CASE Provided(object)
    BY <2>1, <2>2, <2>3, ProvidedMaps DEF Ownership!OwnedNext
  <2> QED BY <1>1, <1>7, <2>2, <2>3, ProvisionStep
<1>8. CASE Delete
  <2>1. doomed \in Objects /\ UNCHANGED cr
    BY <1>8, OrderedObjects DEF doomed, TypeOK, Delete
  <2> QED BY <1>1, <1>2, <1>8, <2>1, DeleteStep
<1>9. CASE EditSpec
  <2>1. /\ cr.exists /\ ~cr.deleting /\ cr' = [cr EXCEPT !.spec = @ + 1]
        /\ UNCHANGED objectSpecs
    BY <1>9 DEF EditSpec, objectSpecs
  <2>2. cr'.spec = cr.spec + 1 /\ ownerState \in {"new", "guarded"} /\ UNCHANGED ownerState
    BY <2>1 DEF ownerState, TypeOK, CustomResources
  <2> QED BY <2>1, <2>2 DEF Ownership!OwnedNext, Ownership!Edit
<1>10. CASE DeleteCR
  <2>1. UNCHANGED <<objectSpecs, cr.spec>>
    BY <1>10 DEF DeleteCR, objectSpecs, TypeOK, CustomResources
  <2>2. \/ ownerState = "guarded" /\ ownerState' = "deleting"
        \/ ownerState = "new" /\ ownerState' = "gone"
    BY <1>10 DEF DeleteCR, ownerState, TypeOK, CustomResources
  <2> QED BY <2>1, <2>2 DEF Ownership!OwnedNext, Ownership!Delete, Ownership!Abandon
<1>11. ASSUME NEW o \in Objects, Tamper(o)
       PROVE  [Ownership!OwnedNext]_(Ownership!owned)
  <2>1. UNCHANGED <<cr, ownerState>>
    BY <1>11 DEF Tamper, ownerState
  <2>2. CASE Removed(o)
    BY <1>2, <2>1, <2>2
  <2>3. CASE \A p \in Objects : /\ stored'[p].exists = stored[p].exists
                                 /\ stored'[p].spec = stored[p].spec
    BY <2>1, <2>3, SameSpecs
  <2> QED BY <1>11, <2>2, <2>3, TamperStep
<1>12. ASSUME NEW o \in Objects, Collect(o)
       PROVE  [Ownership!OwnedNext]_(Ownership!owned)
  BY <1>2, <1>12 DEF Collect, Removed
<1> QED
  BY <1>3, <1>4, <1>5, <1>6, <1>7, <1>8, <1>9, <1>10, <1>11, <1>12
  DEF Next, Handler, Environment

(* The objects of a MariaDBHA object live as OwnedObjects says, through    *)
(* every interleaving of the handler with informers, failures and users.   *)
THEOREM OwnershipRefined == Spec => RefinesOwnership
<1>1. TypeOK /\ Safe /\ SpecsLag /\ [Next]_vars => [Ownership!OwnedNext]_(Ownership!owned)
  BY OwnershipStep
<1> QED
  BY <1>1, OwnershipInit, SafeAlways, SpecsLagInit, SpecsLagStep, PTL
  DEF Spec, RefinesOwnership, Ownership!OwnedSpec
=============================================================================
