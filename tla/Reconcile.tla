-------------------------------- MODULE Reconcile --------------------------------
(***************************************************************************)
(* reconcile_inventory.py beside a lab that does not stand still.          *)
(*                                                                         *)
(* The operator captures what the node has, what Terraform's state records *)
(* and what the inventory declares, one after the other; runs the tool,    *)
(* which gives every name a verdict; and follows the runbook of the rows   *)
(* that say `orphan`, whose end is qm destroy --purge.  Meanwhile applies  *)
(* build guests in steps, fail between them and leave guests behind, and   *)
(* remove what is no longer declared; somebody at the node may delete any  *)
(* guest at any time; and Proxmox hands the lowest free id to the next     *)
(* clone, whoever had it before and whatever still remembers it.           *)
(*                                                                         *)
(* Some guests were made by hand: machines on var.protected_vm_ids and the *)
(* templates.  The tool knows the two lists from its flags or, without     *)
(* them, from the defaults in variables.tf (terraform_defaults.py).        *)
(*                                                                         *)
(* The node, Terraform and the operator are external.  Of the runbook's    *)
(* three checks, that name and time match the failed run is made only as   *)
(* far as that no run is under way: the code's own view of that check is   *)
(* that it asks the reader to notice.  What follows from the other rows is *)
(* not modelled, except that an apply may come at any time.  A record whose*)
(* id another guest has got is left as it is: what applies then make of it *)
(* is LabLifecycle's.                                                      *)
(*                                                                         *)
(* Bound: the ids in Id.                                                   *)
(***************************************************************************)
EXTENDS Integers, FiniteSets

CONSTANTS
  Name,       \* what the inventory may declare
  FreeId,     \* ids that are free at first
  Protected,  \* var.protected_vm_ids as the workflows set it
  Template,   \* the two template ids, likewise
  DefaultProtected, DefaultTemplate,  \* the defaults in variables.tf
  NameOf      \* the names of the guests made by hand

HandMade == Protected \cup Template
ASSUME IdAssumption == FreeId \cup HandMade \subseteq Nat \ {0} /\ FreeId \cap HandMade = {}
ASSUME NameAssumption == DOMAIN NameOf = HandMade

Id == FreeId \cup HandMade
AnyName == Name \cup {NameOf[i] : i \in HandMade}
Listed == [name : AnyName, id : Id]

(* All that main() reads out of the capture that docs/unmanaged-vms.md     *)
(* gives, a JSON string in a string, unless the inventory is empty.        *)
Garbled == "\\"
ASSUME GarbledAssumption == Garbled \notin AnyName
Verdicts == {"managed", "pending", "missing", "protected", "orphan", "ghost", "undeclared"}

VARIABLES
  guests,     \* the guests on the node: id and name
  configured, \* ids of those whose configuration has been written
  record,     \* Terraform's state: name and id
  declared,   \* keys(local.vms)
  building,   \* {the guest an apply is creating}, or {}
  node, state, inventory,  \* the three captures
  captured,   \* which of them have been made
  rows,       \* what the tool printed
  exit,       \* its exit code; -1 before it has run
  trusted,    \* the lists it used are those in force
  target,     \* ids the operator has checked and is about to purge
  reissued,   \* ghost: those of them that a clone has been given since
  moved       \* ghost: the lab has changed since the first capture

lab     == <<guests, configured, record, declared, building>>
capture == <<node, state, inventory, captured>>
result  == <<rows, exit, trusted>>
vars    == <<lab, capture, result, target, reissued, moved>>

Names(list) == {e.name : e \in list}
Ids(list) == {e.id : e \in list}

Init ==
  /\ \E there \in SUBSET HandMade : guests = {[name |-> NameOf[i], id |-> i] : i \in there}
  /\ configured = {} /\ record = {} /\ declared = {} /\ building = {}
  /\ node = {} /\ state = {} /\ inventory = {} /\ captured = {}
  /\ rows = {} /\ exit = -1 /\ trusted = FALSE
  /\ target = {} /\ reissued = {} /\ moved = FALSE

-------------------------------------------------------------------------------
(* The lab: an apply, or somebody at the node.                             *)

LabMoves == moved' = (captured # {}) /\ UNCHANGED <<capture, result, target>>

EditInventory ==
  /\ declared' \in SUBSET Name \ {declared}
  /\ LabMoves /\ UNCHANGED <<guests, configured, record, building, reissued>>

(* No vm_id is set: Proxmox gives the clone the lowest free id.            *)
Clone ==
  /\ building = {}
  /\ \E n \in declared \ Names(record), i \in Id \ Ids(guests) :
       /\ \A j \in Id \ Ids(guests) : i <= j
       /\ building' = {[name |-> n, id |-> i]}
  /\ guests' = guests \cup building'
  /\ reissued' = reissued \cup (Ids(building') \cap target)
  /\ LabMoves /\ UNCHANGED <<configured, record, declared>>

WriteConfiguration ==
  /\ building # {} /\ building \subseteq guests
  /\ configured' = configured \cup Ids(building) /\ configured' # configured
  /\ LabMoves /\ UNCHANGED <<guests, record, declared, building, reissued>>

RecordGuest ==
  /\ building # {} /\ building \subseteq guests /\ Ids(building) \subseteq configured
  /\ record' = record \cup building /\ building' = {}
  /\ LabMoves /\ UNCHANGED <<guests, configured, declared, reissued>>

(* The guest stays, and nothing records it.                                *)
BuildFails ==
  /\ building # {} /\ building' = {}
  /\ LabMoves /\ UNCHANGED <<guests, configured, record, declared, reissued>>

(* Whatever has this id now goes.                                          *)
Deleted(ids) ==
  guests' = {g \in guests : g.id \notin ids} /\ configured' = configured \ ids

RemoveUndeclared ==
  /\ building = {}
  /\ \E e \in record : e.name \notin declared /\ Deleted({e.id}) /\ record' = record \ {e}
  /\ LabMoves /\ UNCHANGED <<declared, building, reissued>>

DeleteByHand ==
  /\ \E g \in guests : Deleted({g.id})
  /\ LabMoves /\ UNCHANGED <<record, declared, building, reissued>>

(* Terraform finds that a guest is gone.                                   *)
Refresh ==
  /\ building = {} /\ \E e \in record : e.id \notin Ids(guests) /\ record' = record \ {e}
  /\ LabMoves /\ UNCHANGED <<guests, configured, declared, building, reissued>>

-------------------------------------------------------------------------------
(* The captures.  parse_qm_list and parse_state key what they read by name,*)
(* and `qm list` is in the order of the ids: of two guests of one name the *)
(* later one is left.                                                      *)
ByName(list) == {e \in list : \A f \in list : f.name = e.name => f.id <= e.id}

Capture(what) ==
  /\ exit = -1 /\ what \notin captured /\ captured' = captured \cup {what}
  /\ UNCHANGED <<lab, result, target, reissued, moved>>

CaptureNode == Capture("node") /\ node' = ByName(guests) /\ UNCHANGED <<state, inventory>>
CaptureState == Capture("state") /\ state' = record /\ UNCHANGED <<node, inventory>>
CaptureInventory ==
  /\ Capture("inventory") /\ UNCHANGED <<node, state>>
  /\ inventory' \in {declared, IF declared = {} THEN {} ELSE {Garbled}}

StartOver ==
  /\ captured # {} /\ captured' = {} /\ node' = {} /\ state' = {} /\ inventory' = {}
  /\ rows' = {} /\ exit' = -1 /\ trusted' = FALSE
  /\ target' = {} /\ reissued' = {} /\ moved' = FALSE
  /\ UNCHANGED lab

-------------------------------------------------------------------------------
(* The tool.                                                               *)

(* Mutants of Verdict: whether a VM is protected is asked last; a guest    *)
(* that is not on the node counts as managed; a declared one is no ghost.  *)
VerdictLate(n, protected, present) ==
  IF n \in inventory /\ n \in Names(state) /\ n \in Names(present) THEN "managed"
  ELSE IF n \in inventory /\ n \in Names(present) THEN "pending"
  ELSE IF n \in inventory /\ n \notin Names(state) THEN "missing"
  ELSE IF n \in Names(present) /\ n \notin Names(state) THEN "orphan"
  ELSE IF n \notin Names(present) THEN "ghost"
  ELSE IF n \notin inventory THEN "undeclared"
  ELSE "protected"

VerdictUnseen(n, protected, present) ==
  IF \E e \in present : e.name = n /\ e.id \in protected THEN "protected"
  ELSE IF n \in inventory /\ n \in Names(state) THEN "managed"
  ELSE IF n \in inventory /\ n \in Names(present) THEN "pending"
  ELSE IF n \in inventory THEN "missing"
  ELSE IF n \notin Names(state) THEN "orphan"
  ELSE IF n \notin Names(present) THEN "ghost"
  ELSE "undeclared"

VerdictGhostless(n, protected, present) ==
  IF \E e \in present : e.name = n /\ e.id \in protected THEN "protected"
  ELSE IF n \in inventory /\ n \in Names(state) /\ n \in Names(present) THEN "managed"
  ELSE IF n \in inventory /\ n \in Names(present) THEN "pending"
  ELSE IF n \in inventory /\ n \notin Names(state) THEN "missing"
  ELSE IF n \in Names(present) /\ n \notin Names(state) THEN "orphan"
  ELSE IF n \notin Names(present) /\ n \notin inventory THEN "ghost"
  ELSE IF n \in Names(present) THEN "undeclared"
  ELSE "unknown"

(* verdict(): the first line that fits.                                    *)
Verdict(n, protected, present) ==
  IF \E e \in present : e.name = n /\ e.id \in protected THEN "protected"
  ELSE IF n \in inventory /\ n \in Names(state) /\ n \in Names(present) THEN "managed"
  ELSE IF n \in inventory /\ n \in Names(present) THEN "pending"
  ELSE IF n \in inventory /\ n \notin Names(state) THEN "missing"
  ELSE IF n \in Names(present) /\ n \notin Names(state) THEN "orphan"
  ELSE IF n \notin Names(present) /\ n \in Names(state) THEN "ghost"
  ELSE IF n \in Names(state) /\ n \notin inventory THEN "undeclared"
  ELSE "unknown"

(* A row also shows the id on the node, if there is one.                   *)
Rows(protected, present) ==
  {[name |-> n, ids |-> Ids({e \in present : e.name = n}),
    verdict |-> Verdict(n, protected, present)] :
     n \in inventory \cup Names(state) \cup Names(present)}

(* What a flag says, or the defaults that list_default() and               *)
(* number_default() find if it is left out.                                *)
ProtectedIds == {Protected, DefaultProtected}
TemplateIds == {Template, DefaultTemplate}

(* Nothing reads the captures again.                                       *)
RunTool ==
  /\ exit = -1 /\ captured = {"node", "state", "inventory"}
  /\ \E protected \in ProtectedIds, templates \in TemplateIds :
       LET present == {e \in node : e.id \notin templates} IN
       /\ rows' = Rows(protected, present)
       /\ trusted' = (protected = Protected /\ templates = Template)
  /\ exit' = IF \A r \in rows' : r.verdict = "managed" THEN 0 ELSE 1
  /\ node' = {} /\ state' = {} /\ inventory' = {}
  /\ UNCHANGED <<lab, captured, target, reissued, moved>>

(* A list is not given and variables.tf has no default for it, or a file   *)
(* cannot be read.                                                         *)
ToolRefuses ==
  /\ exit = -1 /\ captured = {"node", "state", "inventory"} /\ exit' = 2
  /\ UNCHANGED <<lab, capture, rows, trusted, target, reissued, moved>>

-------------------------------------------------------------------------------
(* docs/incident-orphan-vm.md, on the id beside the name.                  *)
CheckOrphan ==
  /\ target = {} /\ building = {}
  /\ \E r \in rows :
       /\ r.verdict = "orphan" /\ r.ids \subseteq Ids(guests)
       /\ r.name \notin Names(record) /\ r.ids \cap configured = {}
       /\ target' = r.ids
  /\ UNCHANGED <<lab, capture, result, reissued, moved>>

(* qm destroy names an id, not a guest.                                    *)
Purge ==
  /\ target # {} /\ target' = {} /\ reissued' = {} /\ Deleted(target)
  /\ moved' = TRUE
  /\ UNCHANGED <<record, declared, building, capture, result>>

Next ==
  \/ EditInventory \/ Clone \/ WriteConfiguration \/ RecordGuest \/ BuildFails
  \/ RemoveUndeclared \/ DeleteByHand \/ Refresh
  \/ CaptureNode \/ CaptureState \/ CaptureInventory \/ StartOver
  \/ RunTool \/ ToolRefuses \/ CheckOrphan \/ Purge

Spec == Init /\ [][Next]_vars

-------------------------------------------------------------------------------
(* Every variable has its type, no id is given to two guests, and every    *)
(* name gets one of the verdicts the tool has a text for.                  *)
TypeOK ==
  /\ guests \subseteq Listed /\ record \subseteq Listed /\ building \subseteq Listed
  /\ configured \subseteq Ids(guests) /\ declared \subseteq Name
  /\ node \subseteq Listed /\ state \subseteq Listed /\ inventory \subseteq Name \cup {Garbled}
  /\ captured \subseteq {"node", "state", "inventory"}
  /\ rows \subseteq [name : AnyName \cup {Garbled}, ids : SUBSET Id, verdict : Verdicts]
  /\ exit \in {-1, 0, 1, 2} /\ trusted \in BOOLEAN /\ moved \in BOOLEAN
  /\ target \subseteq Id /\ reissued \subseteq target
  /\ \A g, h \in guests : g.id = h.id => g = h

(* If the tool ends with 0 and the lab stood still while it was captured,  *)
(* an apply has, as far as names tell, nothing to build and nothing to     *)
(* remove: the declared VMs are the recorded ones, and each has a guest of *)
(* its name on the node (reconcile_inventory.py, "0 everything is          *)
(* managed").                                                              *)
ZeroMeansSettled ==
  (exit = 0 /\ ~moved) => Names(record) = declared /\ declared \subseteq Names(guests)

(* Whoever follows a row that says `orphan`, however old the table is,     *)
(* purges neither a guest that Terraform records nor one that an apply is  *)
(* building, unless the id that was checked has been given to another      *)
(* guest since ("a `qm` command in someone's history", unmanaged-vms.md);  *)
(* nor, if the lists the tool used are those in force, the id of a         *)
(* protected machine or of a template.                                     *)
InnocentSpared ==
  [][Purge => /\ (target \ reissued) \cap Ids((record \cap guests) \cup building) = {}
              /\ trusted => target \cap HandMade = {}]_vars

(* Claim: "Every VM lands in exactly one", and exit code 0 says that       *)
(* everything is managed.                                                  *)
ZeroMeansAllManaged ==
  (exit = 0 /\ ~moved) => \A g \in guests : g.id \in Ids(record) \cup HandMade
===============================================================================
