---------------------------- MODULE MCProvisioning ----------------------------
(***************************************************************************)
(* Liveness of the provisioning, and the statements of the repository that *)
(* the code contradicts.                                                   *)
(***************************************************************************)
EXTENDS Provisioning

(* The stored objects are what the spec asks for, each in some order of    *)
(* the parameters.                                                         *)
allProvisioned ==
    \A o \in Objects : \E order \in ParameterOrders :
        LET want == desired(o, cr.spec, order)
        IN  /\ stored[o].exists
            /\ stored[o].spec = want.spec /\ stored[o].detail = want.detail

allGone == ~cr.exists /\ \A o \in Objects : ~stored[o].exists

(* A MariaDBHA object that is not deleted gets all its objects, as its     *)
(* last spec wants them, and keeps them: a failed request, a stale read or *)
(* an object removed by somebody else only delays it.                      *)
ProvisioningConverges ==
    []<>~(cr.exists /\ ~cr.deleting) \/ <>[]allProvisioned

(* A deletion leaves nothing behind, in whichever order the handler, the   *)
(* informers and the garbage collector act.                                *)
DeletionCleansUp ==
    [](cr.deleting => <>[]allGone)

-----------------------------------------------------------------------------
(* Statements of the repository that the code contradicts.                 *)

(* controller_test.go:153: the secondary's StatefulSet is created.         *)
SecondaryCreated ==
    []<>~(cr.exists /\ ~cr.deleting) \/ <>(stored["sts-secondary"].exists)
=============================================================================
