------------------------------- MODULE GuestBoot -------------------------------
(***************************************************************************)
(* What LabLifecycle takes the first boot of a guest to be: it ends once,  *)
(* registered in Azure Arc or not, and after that nothing registers it.    *)
(* FirstBoot shows that the two vendor-data documents keep to this.        *)
(***************************************************************************)
VARIABLES asks, registered, settled

guestVars == <<asks, registered, settled>>

Init == asks \in BOOLEAN /\ ~registered /\ ~settled

Onboards ==
  /\ ~settled /\ asks
  /\ registered' = TRUE /\ settled' = TRUE /\ UNCHANGED asks

EndsUnregistered ==
  /\ ~settled
  /\ settled' = TRUE /\ UNCHANGED <<asks, registered>>

Next == Onboards \/ EndsUnregistered

Spec == Init /\ [][Next]_guestVars
===============================================================================
