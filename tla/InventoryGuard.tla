---------------------------- MODULE InventoryGuard ----------------------------
(***************************************************************************)
(* The decision of .github/scripts/inventory_guard.py: may an apply go on, *)
(* given the names the configuration declares, the addresses that          *)
(* `terraform state list` printed, whether the state file is on disk and   *)
(* whether the repository variable TF_BOOTSTRAP is "true".                 *)
(*                                                                         *)
(* Only emptiness of the two lists matters to the decision.  The guard     *)
(* counts every address: a state holding nothing but a terraform_data      *)
(* marker is populated.  The third exit code, 2 for an input that cannot   *)
(* be read, is a failed step in LabLifecycle.                              *)
(***************************************************************************)

Blocked == 1
Proceed == 0

(* The two rows in which nothing is declared: a no-op when the state is    *)
(* empty too, a tear-down with a warning when it is not.                   *)
NothingDeclared(desired) == desired = {}

(* Mutant of FirstApply: TF_BOOTSTRAP switches the guard off.              *)
BootstrapAlone(fileExists, bootstrap) == bootstrap

(* TF_BOOTSTRAP authorises one thing: the first apply, with no state file. *)
FirstApply(fileExists, bootstrap) == bootstrap /\ ~fileExists

Decide(desired, resources, fileExists, bootstrap) ==
  IF \/ NothingDeclared(desired)
     \/ resources # {}
     \/ FirstApply(fileExists, bootstrap)
  THEN Proceed
  ELSE Blocked
===============================================================================
