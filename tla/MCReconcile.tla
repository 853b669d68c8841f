------------------------------ MODULE MCReconcile ------------------------------
(* Reconcile for TLC.  In Reconcile.cfg one machine was made by hand, the  *)
(* runner: it is protected, but the defaults in variables.tf know nothing  *)
(* of that and take its id for a template's; one more id is free, and its  *)
(* own is when somebody has deleted it.  ClaimReconcile.cfg has two free   *)
(* ids and nothing made by hand: a protected guest keeps the code from 0.  *)
EXTENDS Reconcile

HandMadeNames == [i \in HandMade |-> IF i \in Protected THEN "runner" ELSE "template"]
===============================================================================
