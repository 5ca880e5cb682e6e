---------------------------- MODULE MCBackOffice ----------------------------
(***************************************************************************)
(* The jobs of the suppliers, the recovery of passwords and the catalogue  *)
(* synchronisation, one scene each: they share neither state nor steps, so *)
(* one run takes them in turn.                                             *)
(***************************************************************************)
EXTENDS SupplierJobs, PasswordRecovery, CatalogSync

VARIABLE scene

officeVars == <<supplierVars, recoveryVars, syncVars, scene>>

OfficeInit ==
    /\ SupplierInit
    /\ RecoveryInit
    /\ SyncInit
    /\ scene \in {"supplier", "recovery", "sync"}

OfficeNext ==
    /\ UNCHANGED scene
    /\ \/ /\ scene = "supplier"
          /\ SupplierNext
          /\ UNCHANGED <<recoveryVars, syncVars>>
       \/ /\ scene = "recovery"
          /\ RecoveryNext
          /\ UNCHANGED <<supplierVars, syncVars>>
       \/ /\ scene = "sync"
          /\ SyncNext
          /\ UNCHANGED <<supplierVars, recoveryVars>>

(* SupplierFairness, which asks for steps of its own scene only; nothing    *)
(* that SyncFairness is about is enabled in the other scenes.               *)
SceneFairness ==
    /\ \A w \in Workers :
          WF_supplierVars(scene = "supplier" /\ (RunJobs(w) \/ Nightly(w)))
    /\ \A j \in JobIds :
          WF_supplierVars(scene = "supplier" /\ Collect(j))
    /\ WF_supplierVars(scene = "supplier" /\ LapseLease /\ Abandoned)
    /\ SyncFairness

OfficeSpec ==
    OfficeInit /\ [][OfficeNext]_officeVars /\ SceneFairness

OfficeTypeOK ==
    SupplierTypeOK /\ RecoveryTypeOK /\ SyncTypeOK

(* Every job that waits for the worker ends, and every request for a        *)
(* synchronisation that no cycle met gets its cycle.                        *)
OfficeProgress == EveryWorkerJobEnds /\ UnmetServed

---------------------------------------------------------------------------
(* Bounds of the run.                                                       *)

(* Two workers, of which one runs the nightly check, and a collector share  *)
(* one supplier.  One process stops or one lease runs out, not both.  A     *)
(* second job is queued only behind a first one of at most one row that     *)
(* ended well, or as cancelled, and with the access left alone.             *)
OfficeBound ==
    /\ stops + lapses <= 1
    /\ Status(2) # "none" =>
          /\ supplierJob[1].total <= 1
          /\ ~supplierJob[1].failed
          /\ allowed = Suppliers
          /\ Status(1) \in {"completed", "cancelled"}
=============================================================================
