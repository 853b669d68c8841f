---------------------------------- MODULE Lab ----------------------------------
(***************************************************************************)
(* What the factory promises of its guests, whatever its jobs meet: a VM   *)
(* is one tracked guest or none; the old one is gone before the next is    *)
(* built; the lab removes tracked guests only, except where its own record *)
(* is outdated, and never takes one back that it has lost track of; no     *)
(* guest is built twice; and a guest enters Azure at most once, at the end *)
(* of its first boot.                                                      *)
(*                                                                         *)
(* There are no jobs here, no plan and no state file: LabLifecycle shows   *)
(* that all of them together keep to this.                                 *)
(***************************************************************************)
CONSTANTS VM, Guest, ArcName, None

VARIABLES
  tracked,    \* the running guest the lab knows for a VM, or None
  outdated,   \* VMs the lab takes to have a guest that is gone
  strays,     \* running guests the lab does not know
  past,       \* guests that are gone
  booting,    \* running guests whose first boot is not over
  registry    \* the guest registered in Azure under a name, or None

labVars == <<tracked, outdated, strays, past, booting, registry>>

Tracked == {tracked[v] : v \in VM} \ {None}
Unbuilt == Guest \ (Tracked \cup strays \cup past)

Init ==
  /\ tracked = [v \in VM |-> None] /\ outdated = {} /\ strays = {} /\ past = {} /\ booting = {}
  /\ registry = [n \in ArcName |-> None]

Build(v, g) ==
  /\ tracked[v] = None /\ v \notin outdated /\ g \in Unbuilt
  /\ tracked' = [tracked EXCEPT ![v] = g]
  /\ booting' = booting \cup {g}
  /\ UNCHANGED <<outdated, strays, past, registry>>

(* A build that fails halfway may leave a guest, which may or may not boot.*)
Abandon(g) ==
  /\ g \in Unbuilt
  /\ strays' = strays \cup {g}
  /\ booting' \in {booting, booting \cup {g}}
  /\ UNCHANGED <<tracked, outdated, past, registry>>

(* The lab may not notice that the guest is gone.                          *)
Remove(v) ==
  /\ tracked[v] # None
  /\ past' = past \cup {tracked[v]}
  /\ booting' = booting \ {tracked[v]}
  /\ tracked' = [tracked EXCEPT ![v] = None]
  /\ outdated' \in {outdated, outdated \cup {v}}
  /\ UNCHANGED <<strays, registry>>

(* What is removed in place of a guest that is gone is whichever took its  *)
(* place: a stray or the guest of another VM, whose record is then outdated*)
(* in turn.                                                                *)
RemoveWrong(v, g) ==
  LET owners == {w \in VM : tracked[w] = g} IN
  /\ v \in outdated /\ g \in Tracked \cup strays
  /\ past' = past \cup {g}
  /\ booting' = booting \ {g}
  /\ strays' = strays \ {g}
  /\ tracked' = [w \in VM |-> IF w \in owners THEN None ELSE tracked[w]]
  /\ outdated' \in {outdated \cup owners, (outdated \ {v}) \cup owners}
  /\ UNCHANGED registry

(* The record of some VMs is lost, or mended where it is outdated.         *)
LoseTrack(lost) ==
  /\ strays' = strays \cup ({tracked[v] : v \in lost} \ {None})
  /\ tracked' = [v \in VM |-> IF v \in lost THEN None ELSE tracked[v]]
  /\ outdated' = outdated \ lost
  /\ UNCHANGED <<past, booting, registry>>

(* First boot ends, registered under a name that is free or not at all.    *)
Boot(g) ==
  /\ g \in booting
  /\ booting' = booting \ {g}
  /\ \/ \E n \in ArcName : registry[n] = None /\ registry' = [registry EXCEPT ![n] = g]
     \/ UNCHANGED registry
  /\ UNCHANGED <<tracked, outdated, strays, past>>

Deregister(n) ==
  /\ registry[n] # None
  /\ registry' = [registry EXCEPT ![n] = None]
  /\ UNCHANGED <<tracked, outdated, strays, past, booting>>

Next ==
  \/ \E v \in VM, g \in Guest : Build(v, g)
  \/ \E g \in Guest : Abandon(g) \/ Boot(g)
  \/ \E v \in VM : Remove(v)
  \/ \E v \in VM, g \in Guest : RemoveWrong(v, g)
  \/ \E lost \in SUBSET VM : LoseTrack(lost)
  \/ \E n \in ArcName : Deregister(n)

Spec == Init /\ [][Next]_labVars

-------------------------------------------------------------------------------
(* What follows from the promise alone.                                    *)

(* Every variable keeps its type.                                          *)
LabTypeOK ==
  /\ tracked \in [VM -> Guest \cup {None}] /\ outdated \subseteq VM
  /\ strays \subseteq Guest /\ past \subseteq Guest /\ booting \subseteq Guest
  /\ registry \in [ArcName -> Guest \cup {None}]

(* A guest is at most one thing: the guest of one VM, a stray, or gone; a  *)
(* VM is tracked or its record outdated, never both; and only a guest that *)
(* runs is booting.                                                        *)
OneRole ==
  /\ \A v, w \in VM : tracked[v] = tracked[w] /\ tracked[v] # None => v = w
  /\ Tracked \cap (strays \cup past) = {} /\ strays \cap past = {}
  /\ \A v \in outdated : tracked[v] = None
  /\ booting \subseteq Tracked \cup strays

(* A guest has one name in Azure at most, and none before it has booted.   *)
OneName ==
  \A n \in ArcName : registry[n] # None =>
    /\ registry[n] \notin booting \cup Unbuilt
    /\ \A m \in ArcName : registry[m] = registry[n] => m = n

(* Gone is gone, and lost is lost: no step brings a guest back to the lab, *)
(* and while no record is outdated the lab lets every stray be.            *)
Forward ==
  /\ past \subseteq past' /\ strays \subseteq strays' \cup past'
  /\ outdated = {} => strays \subseteq strays'
  /\ booting' \ booting \subseteq Unbuilt

NoReturn == [][Forward]_labVars
===============================================================================
