------------------------------- MODULE ArcNames -------------------------------
(***************************************************************************)
(* Which Azure Arc machine resources a run deletes.                        *)
(*                                                                         *)
(* arc.tf keeps one terraform_data.arc_registration marker per Arc-enabled *)
(* VM: the pair of the VM's name and the name its machine registers under. *)
(* arc_registration.py reads the pairs back out of a plan or of the state; *)
(* the two extractors decide which VMs are going away and look their names *)
(* up.  A set of markers is a function from VM names to machine names,     *)
(* None where there is no marker.                                          *)
(***************************************************************************)
CONSTANT None       \* no marker, no machine, no VM: the absent value

(* Mutant of FromPlan: the planned name wins.                              *)
FromPlanAfterFirst(before, after) ==
  [v \in DOMAIN before |-> IF after[v] # None THEN after[v] ELSE before[v]]

(* from_plan: every marker of the plan, under the name it had before the   *)
(* plan where it had one.  The machine registered right now is the one to  *)
(* delete, so `before` wins over `after`.                                  *)
FromPlan(before, after) ==
  [v \in DOMAIN before |-> IF before[v] # None THEN before[v] ELSE after[v]]

(* from_state_resources: the markers as the state records them.            *)
FromState(markers) == markers

NoMarkers(mapping) == \A v \in DOMAIN mapping : mapping[v] = None

(* resolve: machine names for the VMs that are going away.  A document     *)
(* with no marker at all predates arc.tf, and a machine is then taken to   *)
(* be named after its VM; otherwise a VM without a marker has Arc disabled *)
(* and is skipped.                                                         *)
Resolve(gone, mapping) ==
  IF NoMarkers(mapping)
  THEN gone
  ELSE {mapping[v] : v \in {w \in gone : mapping[w] # None}}
===============================================================================
