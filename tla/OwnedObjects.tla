----------------------------- MODULE OwnedObjects -----------------------------
(***************************************************************************)
(* What the operator promises about the objects of a MariaDBHA object,     *)
(* without informers, requests or handlers: none before the finalizer      *)
(* guards the deletion, none that goes back to an earlier spec, none added *)
(* once the owner is gone, and a guarded owner goes only by a deletion     *)
(* that the operator releases.                                             *)
(***************************************************************************)
EXTENDS Naturals

CONSTANT Objects

VARIABLES
    owner,     \* life of the MariaDBHA object
    wanted,    \* version of its spec
    objects    \* version each object was written for; 0 if there is none

owned == <<owner, wanted, objects>>

OwnedInit ==
    /\ owner = "new" /\ wanted = 1
    /\ objects = [o \in Objects |-> 0]

Guard == owner = "new" /\ owner' = "guarded" /\ UNCHANGED <<wanted, objects>>

Edit ==
    /\ owner \in {"new", "guarded"}
    /\ wanted' = wanted + 1
    /\ UNCHANGED <<owner, objects>>

(* A handler that began before the deletion may still provide.             *)
Provide(o) ==
    /\ owner \in {"guarded", "deleting"}
    /\ \E v \in 1 .. wanted :
         v >= objects[o] /\ objects' = [objects EXCEPT ![o] = v]
    /\ UNCHANGED <<owner, wanted>>

(* By the operator, the garbage collector or anybody else.                 *)
Remove(o) ==
    /\ objects' = [objects EXCEPT ![o] = 0]
    /\ UNCHANGED <<owner, wanted>>

Delete == owner = "guarded" /\ owner' = "deleting" /\ UNCHANGED <<wanted, objects>>

Abandon == owner = "new" /\ owner' = "gone" /\ UNCHANGED <<wanted, objects>>

Release == owner = "deleting" /\ owner' = "gone" /\ UNCHANGED <<wanted, objects>>

OwnedNext ==
    \/ Guard \/ Edit \/ Delete \/ Abandon \/ Release
    \/ \E o \in Objects : Provide(o) \/ Remove(o)

OwnedSpec == OwnedInit /\ [][OwnedNext]_owned
=============================================================================
