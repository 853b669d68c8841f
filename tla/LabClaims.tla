------------------------------- MODULE LabClaims -------------------------------
(***************************************************************************)
(* What the repository's own documents say of the jobs, stated over        *)
(* LabLifecycle.  Each claim is refuted by a behaviour of the code; the    *)
(* README tells the story of each counterexample.                          *)
(***************************************************************************)
EXTENDS MCLabLifecycle

VARIABLES
  found,     \* history: azure as the job under way found it
  lost       \* history: guests that ran on when a state file was lost

claimVars == <<vars, found, lost>>

ClaimInit == Init /\ found = azure /\ lost = {}
ClaimNext ==
  /\ Next
  /\ found' = IF pc' = "idle" THEN azure' ELSE found
  /\ lost' = IF pc = "idle" THEN lost \cup (forgotten' \ forgotten) ELSE lost
ClaimSpec == ClaimInit /\ [][ClaimNext]_claimVars

(* README.md: "Destroy removes Azure Arc resources before deleting their   *)
(* guests."  A guest that was in Azure when the destroy began, with the    *)
(* credentials to clean up, is no longer there when it is deleted.         *)
DestroyRemovesArcFirst ==
  [][kind = "destroy" /\ pc = "apply" /\ arcOn =>
       \A i \in Id : Live(i) /\ machine'[i].life = "gone" =>
         \A n \in ArcName : found[n] = i => azure[n] # i]_claimVars

(* inventory_guard.py: "An *existing* state file that lists nothing is not *)
(* a first run - it is a state that was truncated or restored empty".  The *)
(* guard stops a bootstrap only after a populated state was lost.          *)
BootstrapStoppedOnlyAfterLoss ==
  [][pc = "guard" /\ result' = "red" /\ bootstrap /\ stateFile => wiped]_claimVars

(* state-recovery.md: the guard "is what stands in the way" of building a  *)
(* second set alongside the originals, "blocked unless TF_BOOTSTRAP is     *)
(* set".  No apply sets out to build a guest beside one whose state was    *)
(* lost.                                                                   *)
SecondSetBlocked ==
  kind = "apply" /\ ~bootstrap =>
    \A i \in lost : Live(i) => Op("write", "vm", machine[i].vm) \notin todo
===============================================================================
