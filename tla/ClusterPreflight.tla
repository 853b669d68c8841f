--------------------------- MODULE ClusterPreflight ---------------------------
(***************************************************************************)
(* preflight_cluster.py: one GET of /cluster/status before anything is     *)
(* touched, and when its answer lets an apply go on.                       *)
(*                                                                         *)
(* The Proxmox API is external.  It may answer with an HTTP error or with  *)
(* something that is not JSON ("error"), with a bare list ("list"), with   *)
(* no entries ("nothing"), or with entries, of which the one of type       *)
(* cluster says quorate 1 ("yes"), 0 ("no") or anything else ("odd"); a    *)
(* node of its own has no such entry ("none").                             *)
(***************************************************************************)
Answer == {"error", "list", "nothing", "yes", "no", "odd", "none"}

(* How the node can be: on its own, or in a cluster with or without quorum.*)
ClusterState == {"standalone", "quorate", "inquorate"}
Writable(cluster) == cluster # "inquorate"

(* What the API may say of it.  A status it gives is true.                 *)
Answers(cluster) ==
  {"error", "list", "nothing"}
    \cup (CASE cluster = "standalone" -> {"none"}
            [] cluster = "quorate" -> {"yes", "odd"}
            [] OTHER -> {"no", "odd"})

(* main() with evaluate(): the step succeeds.                              *)
(* Mutant: only a plain "no" stops the apply.                              *)
AcceptsUnlessNo(answer) == answer # "no"
Accepts(answer) == answer \in {"none", "yes"}
===============================================================================
