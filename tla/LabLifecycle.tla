----------------------------- MODULE LabLifecycle -----------------------------
(***************************************************************************)
(* The lab over its whole life: what the configuration on main declares,   *)
(* what the Terraform state records, which guests exist on the Proxmox     *)
(* node, which machine resources exist in Azure Arc, and the jobs that     *)
(* move the last three towards the first.                                  *)
(*                                                                         *)
(* A job is terraform-apply.yml or terraform-destroy.yml.  They share one  *)
(* concurrency group and one runner, so at most one is under way (pc).     *)
(* Around it a guest boots and onboards into Azure whenever it likes, and  *)
(* anything the job calls may fail.  Terraform's provider and backend are  *)
(* external: each resource is recorded when its own call has succeeded.    *)
(*                                                                         *)
(* Bounds: MaxBuilds guests over the whole life, MaxFaults failures,       *)
(* MaxEdits changes of configuration or settings by a person.              *)
(***************************************************************************)
EXTENDS Naturals, FiniteSets, InventoryGuard, ArcNames

CONSTANTS
  VM,           \* names a VM may be declared under
  ArcName,      \* names a machine may register under; a VM's own is one
  Shape,        \* what of a VM is ForceNew (vm_id, template, ...)
  Inventories,  \* the inventories main may carry (local.vms)
  MaxBuilds, MaxFaults, MaxEdits

Id == 1..MaxBuilds      \* guests, in the order they are built
Decl == [arc : ArcName \cup {None}, shape : Shape]
Snippet == [token : BOOLEAN, arc : ArcName \cup {None}]
Machine == [vm : VM, vmid : Id, arc : ArcName \cup {None}, shape : Shape,
            life : {"booting", "settled", "gone"}]

ASSUME NamesAssumption == VM \subseteq ArcName /\ None \notin ArcName
ASSUME BoundsAssumption == MaxBuilds \in Nat /\ MaxFaults \in Nat /\ MaxEdits \in Nat
ASSUME FiniteAssumption == IsFiniteSet(ArcName)
ASSUME InventoriesAssumption == Inventories \subseteq [VM -> Decl \cup {None}]
ASSUME NoneAssumption ==
  None \notin Id /\ None \notin Decl /\ None \notin Snippet /\ None \notin Machine

VARIABLES
  main,         \* the inventory on the default branch
  bootstrap,    \* the repository variable TF_BOOTSTRAP is "true"
  arcOn,        \* the Arc credentials are configured
  stateFile,    \* terraform.tfstate is on disk
  tfConfig,     \* state records terraform_data.vm_factory_config
  tfVm,         \* the guest built for a VM that state records, by its VMID, or None
  tfFile,       \* the vendor-data snippet that state records for a VM, or None
  tfMarker,     \* state records this Arc name for a VM, or None
  machine,      \* a guest, once it is built
  azure,        \* the guest registered under an Arc name, or None
  pc, kind,     \* where the job is, "idle" between jobs; apply or destroy
  inv,          \* the inventory the job checked out
  names,        \* arc_delete_names.txt, as far as it is still to be read
  todo,         \* Terraform operations of this job not done yet
  stuck,        \* those of todo that failed
  result,       \* how the last job ended
  faults, edits,      \* budgets spent
  forgotten,    \* ghost: guests that ran on when their record went
  halfBuilt,    \* ghost: guests left by a create that failed
  wiped,        \* ghost: state was lost and nothing recorded since
  excused       \* ghost: guests whose Arc resource a known gap may leave

settings == <<main, bootstrap, arcOn>>
record   == <<stateFile, tfConfig, tfVm, tfFile, tfMarker, wiped>>
world    == <<machine, azure>>
job      == <<pc, kind, inv, names, todo, stuck, result>>
ghosts   == <<forgotten, halfBuilt, excused>>
vars     == <<settings, record, world, job, faults, edits, ghosts>>

-------------------------------------------------------------------------------
(* What exists and what is recorded.                                       *)

Empty == [v \in VM |-> None]
Declared(i) == {v \in VM : i[v] # None}
Live(i) == machine[i] # None /\ machine[i].life # "gone"
Fresh == {i \in Id : machine[i] = None /\ \A j \in 1..(i - 1) : machine[j] # None}
Recorded(v) == tfVm[v] # None
RecordedIds == {tfVm[v] : v \in VM} \ {None}
Snippets == {v \in VM : tfFile[v] # None}

(* `terraform state list`: every address counts, markers included.         *)
Resources ==
  {<<"vm", v>> : v \in {w \in VM : Recorded(w)}} \cup {<<"file", v>> : v \in Snippets}
    \cup {<<"marker", v>> : v \in {w \in VM : tfMarker[w] # None}}
    \cup (IF tfConfig THEN {<<"config", None>>} ELSE {})

(* The provider asks the node for the VMID that state records, and finds   *)
(* the guest that carries it now, whoever it was built for.                *)
At(v) == {i \in Id : Recorded(v) /\ Live(i) /\ machine[i].vmid = machine[tfVm[v]].vmid}

(* The refresh that begins a plan: a VM with no guest under its VMID counts*)
(* as not there.                                                           *)
(* Mutant: a guest that does not answer yet counts as gone.                *)
Answering(v) == \E i \in At(v) : machine[i].life = "settled"

OnNode(v) == At(v) # {}
Refreshed == [v \in VM |-> IF OnNode(v) THEN tfVm[v] ELSE None]

-------------------------------------------------------------------------------
(* What a plan consists of.                                                *)

Op(act, type, v) == [act |-> act, type |-> type, vm |-> v]
Ops == [act : {"write", "delete"}, type : {"vm", "file", "marker", "config"},
        vm : VM \cup {None}]

WantedMarker(i) == [v \in VM |-> IF i[v] = None THEN None ELSE i[v].arc]

(* A guest goes away when nothing declares it, or when what is declared    *)
(* cannot be reached in place: another shape, or the guest of another VM,  *)
(* which was initialized from that VM's snippet.                           *)
GoesAway(i, v) ==
  \E g \in At(v) : i[v] = None \/ machine[g].vm # v \/ machine[g].shape # i[v].shape

Built(i, v) == i[v] # None /\ (~OnNode(v) \/ GoesAway(i, v))

(* A snippet carries the token minted for the run, Arc or no Arc, so with  *)
(* credentials every apply replaces every one; the guest is left alone.    *)
(* Without them it changes with the declaration.                           *)
Rendering(i, v) == [token |-> arcOn, arc |-> IF arcOn THEN None ELSE i[v].arc]
Rendered(i, v) == i[v] # None /\ (arcOn \/ tfFile[v] # Rendering(i, v))

(* Mutant: a marker that is there is never brought up to date.             *)
MarkersAbsent(i) == {v \in VM : WantedMarker(i)[v] # None /\ tfMarker[v] = None}

MarkersToWrite(i) == {v \in VM : WantedMarker(i)[v] \notin {None, tfMarker[v]}}

ApplyOps(i) ==
       {Op("delete", "vm", v) : v \in {w \in VM : GoesAway(i, w)}}
  \cup {Op("write", "vm", v) : v \in {w \in VM : Built(i, w)}}
  \cup {Op("write", "file", v) : v \in {w \in VM : Rendered(i, w)}}
  \cup {Op("delete", "file", v) : v \in {w \in Snippets : i[w] = None}}
  \cup {Op("write", "marker", v) : v \in MarkersToWrite(i)}
  \cup {Op("delete", "marker", v) :
          v \in {w \in VM : tfMarker[w] # None /\ WantedMarker(i)[w] = None}}
  \cup (IF tfConfig THEN {} ELSE {Op("write", "config", None)})

(* Mutant: only what the configuration still declares is destroyed.        *)
DestroyOpsDeclared ==
       {Op("delete", "vm", v) : v \in {w \in VM : OnNode(w) /\ inv[w] # None}}
  \cup {Op("delete", "file", v) : v \in {w \in Snippets : inv[w] # None}}
  \cup {Op("delete", "marker", v) : v \in {w \in VM : tfMarker[w] # None}}
  \cup (IF tfConfig THEN {Op("delete", "config", None)} ELSE {})

DestroyOps ==
       {Op("delete", "vm", v) : v \in {w \in VM : OnNode(w)}}
  \cup {Op("delete", "file", v) : v \in Snippets}
  \cup {Op("delete", "marker", v) : v \in {w \in VM : tfMarker[w] # None}}
  \cup (IF tfConfig THEN {Op("delete", "config", None)} ELSE {})

(* Mutants of Waits: the next guest is built before the last one goes, and *)
(* its snippet is replaced under it; a snippet waits for the guest as well.*)
WaitsForSnippet(op) == IF op = Op("write", "vm", op.vm) THEN {Op("write", "file", op.vm)} ELSE {}
WaitsInACircle(op) ==
  IF op.type = "file" THEN {Op("delete", "vm", op.vm), Op("write", "vm", op.vm)}
  ELSE IF op = Op("write", "vm", op.vm) THEN {Op("delete", "vm", op.vm), Op("write", "file", op.vm)}
  ELSE {}

(* The order main.tf's references impose: a guest's initialization block   *)
(* names its snippet.  A marker and the config resource depend on nothing. *)
Waits(op) ==
  CASE op.type = "file" -> {Op("delete", "vm", op.vm)}
    [] op = Op("write", "vm", op.vm) -> {Op("delete", "vm", op.vm), Op("write", "file", op.vm)}
    [] OTHER -> {}

Ready(op) == op \in todo \ stuck /\ Waits(op) \cap todo = {}

(* The guests the job under way removes.                                   *)
Doomed == {v \in VM : IF kind = "apply" THEN GoesAway(inv, v) ELSE OnNode(v)}
DoomedIds == UNION {At(v) : v \in Doomed}

-------------------------------------------------------------------------------
(* A repository set up for its first apply: nothing exists yet.            *)

Init ==
  /\ main \in Inventories /\ bootstrap = TRUE /\ arcOn \in BOOLEAN
  /\ stateFile = FALSE /\ tfConfig = FALSE /\ wiped = FALSE
  /\ tfVm = Empty /\ tfFile = Empty /\ tfMarker = Empty
  /\ machine = [i \in Id |-> None]
  /\ azure = [n \in ArcName |-> None]
  /\ pc = "idle" /\ kind = "apply" /\ inv = Empty
  /\ names = {} /\ todo = {} /\ stuck = {} /\ result = "none"
  /\ faults = 0 /\ edits = 0
  /\ forgotten = {} /\ halfBuilt = {} /\ excused = {}

Fault == faults < MaxFaults /\ faults' = faults + 1
Edit == edits < MaxEdits /\ edits' = edits + 1

-------------------------------------------------------------------------------
(* People.  Settings are read when a job starts, so they change between    *)
(* jobs; losing the state file happens to a runner at rest.                *)

Push(i) ==
  /\ pc = "idle" /\ i # main /\ Edit
  /\ main' = i
  /\ UNCHANGED <<bootstrap, arcOn, record, world, job, faults, ghosts>>

SetBootstrap ==
  /\ pc = "idle" /\ Edit
  /\ bootstrap' = ~bootstrap
  /\ UNCHANGED <<main, arcOn, record, world, job, faults, ghosts>>

SetArcCredentials ==
  /\ pc = "idle" /\ Edit
  /\ arcOn' = ~arcOn
  /\ UNCHANGED <<main, bootstrap, record, world, job, faults, ghosts>>

(* The file is deleted, or is truncated or restored empty.                 *)
LoseState(deleted) ==
  /\ pc = "idle" /\ Resources # {} /\ Fault
  /\ stateFile' = ~deleted
  /\ tfConfig' = FALSE /\ tfVm' = Empty /\ tfFile' = Empty /\ tfMarker' = Empty
  /\ forgotten' = forgotten \cup {i \in RecordedIds : Live(i)}
  /\ wiped' = (wiped \/ \E i \in RecordedIds : Live(i))
  /\ UNCHANGED <<settings, world, job, edits, halfBuilt, excused>>

-------------------------------------------------------------------------------
(* The steps both jobs have.                                               *)

(* Mutant: the next job starts with the failures of this one.              *)
EndsUnreset(verdict) ==
  /\ pc' = "idle" /\ result' = verdict
  /\ names' = {} /\ todo' = {}
  /\ UNCHANGED <<kind, inv, stuck>>

Ends(verdict) ==
  /\ pc' = "idle" /\ result' = verdict
  /\ names' = {} /\ todo' = {} /\ stuck' = {}
  /\ UNCHANGED <<kind, inv>>

Goes(where) == pc' = where /\ UNCHANGED <<kind, inv, result>>

(* The bound on builds: an apply starts only if the ids left suffice.      *)
CanBuild ==
  Cardinality({v \in VM : Built(main, v)}) <= Cardinality({i \in Id : machine[i] = None})

StartApply ==
  /\ pc = "idle" /\ CanBuild
  /\ pc' = "guard" /\ kind' = "apply" /\ inv' = main /\ result' = "none"
  /\ UNCHANGED <<settings, record, world, names, todo, stuck, faults, edits, ghosts>>

(* Dispatched by hand, with DESTROY typed out; there is no guard step.     *)
StartDestroy ==
  /\ pc = "idle"
  /\ pc' = "plan" /\ kind' = "destroy" /\ inv' = main /\ result' = "none"
  /\ UNCHANGED <<settings, record, world, names, todo, stuck, faults, edits, ghosts>>

(* A step exits non-zero, the job is cancelled, or the runner dies: the    *)
(* rest of the job does not run.  Nothing is rolled back.                  *)
JobDies ==
  /\ pc # "idle" /\ Fault /\ Ends("red")
  /\ UNCHANGED <<settings, record, world, edits, ghosts>>

(* `terraform state list || true`: a listing that fails reads as an empty  *)
(* state.                                                                  *)
GuardSees(listed) ==
  /\ pc = "guard" /\ kind = "apply"
  /\ IF Decide(Declared(inv), listed, stateFile, bootstrap) = Proceed
     THEN Goes("plan") /\ UNCHANGED <<names, todo, stuck>>
     ELSE Ends("red")
  /\ UNCHANGED <<settings, record, world, edits, ghosts>>

Guard == GuardSees(Resources) /\ UNCHANGED faults

ListingFails == GuardSees({}) /\ Fault

(* The guests this job removes whose registered name the record does not   *)
(* hold: no cleanup can find their Arc resource.                           *)
Unfindable ==
  UNION {{i \in At(v) : ~arcOn \/ tfMarker[v] # machine[i].arc} : v \in Doomed}

Collects(found) ==
  /\ pc = "plan"
  /\ names' = IF arcOn THEN found ELSE {}
  /\ Goes("clean")
  /\ excused' = excused \cup Unfindable
  /\ UNCHANGED <<settings, record, world, todo, stuck, faults, edits, forgotten, halfBuilt>>

(* Mutant of PlanNames: every VM in state is looked up, not only those     *)
(* going away.                                                             *)
NamesOfEveryone == Resolve({v \in VM : Recorded(v)}, FromPlan(tfMarker, WantedMarker(inv)))

(* extract_arc_names_from_plan: the VMs whose change holds a "delete".     *)
PlanNames == Resolve({v \in VM : GoesAway(inv, v)}, FromPlan(tfMarker, WantedMarker(inv)))

(* extract_arc_names_from_state: every VM, of the state before any refresh.*)
StateNames == Resolve({v \in VM : Recorded(v)}, FromState(tfMarker))

(* terraform plan, the scan and the publication of its text come first.    *)
CollectFromPlan == kind = "apply" /\ Collects(PlanNames)

CollectFromState == kind = "destroy" /\ Collects(StateNames)

-------------------------------------------------------------------------------
(* The arc-cleanup action: one name after the other.                       *)

DeleteMachine(n) ==
  /\ pc = "clean" /\ n \in names /\ azure[n] # None
  /\ azure' = [azure EXCEPT ![n] = None]
  /\ names' = names \ {n}
  /\ excused' = excused \ {azure[n]}
  /\ UNCHANGED <<settings, record, machine, pc, kind, inv, todo, stuck, result, faults, edits,
                 forgotten, halfBuilt>>

(* Mutant: an absent machine is asked for again, until it is there.        *)
AwaitMachine(n) ==
  /\ pc = "clean" /\ n \in names /\ azure[n] = None
  /\ UNCHANGED vars

MachineAbsent(n) ==
  /\ pc = "clean" /\ n \in names /\ azure[n] = None
  /\ names' = names \ {n}
  /\ UNCHANGED <<settings, record, world, pc, kind, inv, todo, stuck, result, faults, edits, ghosts>>

(* `az resource show` fails for a reason of its own and reads as absent.   *)
ShowFails(n) ==
  /\ pc = "clean" /\ n \in names /\ azure[n] # None /\ Fault
  /\ names' = names \ {n}
  /\ excused' = excused \cup {azure[n]}
  /\ UNCHANGED <<settings, record, world, pc, kind, inv, todo, stuck, result, edits,
                 forgotten, halfBuilt>>

(* Terraform starts.  A destroy makes its plan here; both persist what the *)
(* refresh found.                                                          *)
CleanupDone ==
  /\ pc = "clean" /\ names = {}
  /\ todo' = IF kind = "apply" THEN ApplyOps(inv) ELSE DestroyOps
  /\ tfVm' = Refreshed
  /\ Goes("apply")
  /\ UNCHANGED <<settings, stateFile, tfConfig, tfFile, tfMarker, wiped, world, names, stuck,
                 faults, edits, ghosts>>

-------------------------------------------------------------------------------
(* Terraform at work: any operation whose predecessors are done, each      *)
(* recorded in the state file when it has succeeded.                       *)

Records(op) ==
  /\ pc = "apply" /\ Ready(op)
  /\ todo' = todo \ {op}
  /\ stateFile' = TRUE /\ wiped' = FALSE
  /\ UNCHANGED <<settings, pc, kind, inv, names, stuck, result, edits>>

Done(op) == Records(op) /\ UNCHANGED faults

(* Proxmox assigns a free VMID.  A number that neither a guest nor the     *)
(* record carries is as good as a new one, named after the guest; one that *)
(* the record still carries for a guest that is gone is handed out again.  *)
FreeVmids(i) == {i} \cup {machine[tfVm[v]].vmid : v \in {w \in VM : Recorded(w) /\ ~OnNode(w)}}

(* With no Arc credentials the guest is handed nothing to onboard with.    *)
NewMachine(v, n, life) ==
  [vm |-> v, vmid |-> n, arc |-> IF arcOn THEN inv[v].arc ELSE None,
   shape |-> inv[v].shape, life |-> life]

CreateVm(v) ==
  /\ Done(Op("write", "vm", v))
  /\ \E i \in Fresh : \E n \in FreeVmids(i) :
       /\ machine' = [machine EXCEPT ![i] = NewMachine(v, n, "booting")]
       /\ tfVm' = [tfVm EXCEPT ![v] = i]
  /\ UNCHANGED <<tfConfig, tfFile, tfMarker, azure, ghosts>>

(* The call deletes what it finds under the VMID.                          *)
Without(gone) ==
  [i \in Id |-> IF i \in gone THEN [machine[i] EXCEPT !.life = "gone"] ELSE machine[i]]

DeleteVm(v) ==
  /\ Done(Op("delete", "vm", v))
  /\ machine' = Without(At(v))
  /\ tfVm' = [tfVm EXCEPT ![v] = None]
  /\ UNCHANGED <<tfConfig, tfFile, tfMarker, azure, ghosts>>

WriteFile(v) ==
  /\ Done(Op("write", "file", v))
  /\ tfFile' = [tfFile EXCEPT ![v] = Rendering(inv, v)]
  /\ UNCHANGED <<tfConfig, tfVm, tfMarker, world, ghosts>>

DeleteFile(v) ==
  /\ Done(Op("delete", "file", v))
  /\ tfFile' = [tfFile EXCEPT ![v] = None]
  /\ UNCHANGED <<tfConfig, tfVm, tfMarker, world, ghosts>>

WriteMarker(v) ==
  /\ Done(Op("write", "marker", v))
  /\ tfMarker' = [tfMarker EXCEPT ![v] = inv[v].arc]
  /\ UNCHANGED <<tfConfig, tfVm, tfFile, world, ghosts>>

DeleteMarker(v) ==
  /\ Done(Op("delete", "marker", v))
  /\ tfMarker' = [tfMarker EXCEPT ![v] = None]
  /\ UNCHANGED <<tfConfig, tfVm, tfFile, world, ghosts>>

WriteConfig ==
  /\ Done(Op("write", "config", None))
  /\ tfConfig' = TRUE
  /\ UNCHANGED <<tfVm, tfFile, tfMarker, world, ghosts>>

DeleteConfig ==
  /\ Done(Op("delete", "config", None))
  /\ tfConfig' = FALSE
  /\ UNCHANGED <<tfVm, tfFile, tfMarker, world, ghosts>>

(* An operation that fails leaves what depends on it undone; Terraform     *)
(* goes on with the rest and exits non-zero at the end.                    *)
Fails(op) ==
  /\ pc = "apply" /\ Ready(op) /\ Fault
  /\ stuck' = stuck \cup {op}
  /\ UNCHANGED <<settings, tfConfig, tfMarker, azure, pc, kind, inv, names, todo, result, edits>>

(* The call is refused before it changes anything.  A snippet is replaced  *)
(* by deleting and creating it, so its record may be gone by then.         *)
OpFails(op) ==
  /\ op.type \in {"vm", "file"} /\ Fails(op)
  /\ \/ tfFile' = tfFile
     \/ op.type = "file" /\ op.act = "write" /\ tfFile' = [tfFile EXCEPT ![op.vm] = None]
  /\ UNCHANGED <<stateFile, wiped, tfVm, machine, ghosts>>

(* The clone is made, the write of its configuration or the wait for its   *)
(* agent fails: a guest, perhaps one that boots, that nothing records.     *)
HalfCreate(v) ==
  /\ Fails(Op("write", "vm", v))
  /\ \E i \in Fresh, life \in {"booting", "settled"} : \E n \in FreeVmids(i) :
       /\ machine' = [machine EXCEPT ![i] = NewMachine(v, n, life)]
       /\ halfBuilt' = halfBuilt \cup {i}
  /\ UNCHANGED <<stateFile, wiped, tfVm, tfFile, forgotten, excused>>

(* The guest is deleted and the call still reports an error: its VMID is   *)
(* free while state still records it.                                      *)
HalfDelete(v) ==
  /\ Fails(Op("delete", "vm", v))
  /\ machine' = Without(At(v))
  /\ UNCHANGED <<stateFile, wiped, tfVm, tfFile, ghosts>>

(* The guest is not deleted and the call reports none: it runs on and has  *)
(* left the record.                                                        *)
DropVm(v) ==
  /\ Records(Op("delete", "vm", v)) /\ Fault /\ OnNode(v)
  /\ tfVm' = [tfVm EXCEPT ![v] = None]
  /\ forgotten' = forgotten \cup {i \in {tfVm[v]} : Live(i)}
  /\ UNCHANGED <<tfConfig, tfFile, tfMarker, world, halfBuilt, excused>>

TerraformExits ==
  /\ pc = "apply" /\ \A op \in todo : ~Ready(op)
  /\ IF todo = {} THEN Goes("verify") /\ UNCHANGED <<names, todo, stuck>> ELSE Ends("red")
  /\ UNCHANGED <<settings, record, world, faults, edits, ghosts>>

-------------------------------------------------------------------------------
(* The checks after Terraform.                                             *)

(* The post-apply plan, in the job that minted the token: a snippet that   *)
(* is there renders as it was written.                                     *)
ProposedAgain ==
  ApplyOps(inv) \ {Op("write", "file", v) : v \in Snippets}

(* Mutant: nothing is asked once Terraform has exited 0.                   *)
VerifyApplyByExit ==
  /\ pc = "verify" /\ kind = "apply"
  /\ Ends("green")
  /\ UNCHANGED <<settings, record, world, faults, edits, ghosts>>

VerifyApply ==
  /\ pc = "verify" /\ kind = "apply"
  /\ Ends(IF ProposedAgain = {} THEN "green" ELSE "red")
  /\ UNCHANGED <<settings, record, world, faults, edits, ghosts>>

(* The destroy left nothing behind: no VM and no snippet among the listed  *)
(* addresses.  It is the record that is asked, not the node.               *)
Verifies(listed) ==
  /\ pc = "verify" /\ kind = "destroy"
  /\ Ends(IF \A r \in listed : r[1] \notin {"vm", "file"} THEN "green" ELSE "red")
  /\ UNCHANGED <<settings, record, world, edits, ghosts>>

VerifyDestroy == Verifies(Resources) /\ UNCHANGED faults

(* `terraform state list ... || :`: a listing that fails reads as empty.   *)
VerifyListingFails == Verifies({}) /\ Fault

-------------------------------------------------------------------------------
(* Guests.  First boot ends registered under the name it was given, or not *)
(* registered: Arc is off, the name is taken in Azure, or connecting       *)
(* failed.  A guest that registers after the job that removes it has read  *)
(* its name escapes the cleanup.                                           *)

Available == {n \in ArcName : azure[n] = None}

Settles(i) ==
  /\ machine[i] # None /\ machine[i].life = "booting"
  /\ machine' = [machine EXCEPT ![i].life = "settled"]
  /\ UNCHANGED <<settings, record, job, edits, forgotten, halfBuilt>>

Onboards(i) ==
  /\ Settles(i)
  /\ LET n == machine[i].arc IN
       /\ n \in Available
       /\ azure' = [azure EXCEPT ![n] = i]
       /\ excused' = IF pc \in {"clean", "apply"} /\ i \in DoomedIds /\ n \notin names
                     THEN excused \cup {i} ELSE excused
  /\ UNCHANGED faults

BootsUnregistered(i) ==
  /\ Settles(i)
  /\ machine[i].arc \notin Available
  /\ UNCHANGED <<azure, faults, excused>>

OnboardingFails(i) ==
  /\ Settles(i) /\ Fault
  /\ machine[i].arc # None
  /\ UNCHANGED <<azure, excused>>

-------------------------------------------------------------------------------
People ==
  \/ \E i \in Inventories : Push(i)
  \/ SetBootstrap
  \/ SetArcCredentials
  \/ \E deleted \in BOOLEAN : LoseState(deleted)
  \/ StartApply
  \/ StartDestroy

(* What the job does of itself, when nothing fails.                        *)
JobStep ==
  \/ Guard
  \/ CollectFromPlan
  \/ CollectFromState
  \/ \E n \in ArcName : DeleteMachine(n) \/ MachineAbsent(n)
  \/ CleanupDone
  \/ \E v \in VM : CreateVm(v) \/ DeleteVm(v) \/ WriteFile(v) \/ DeleteFile(v)
  \/ \E v \in VM : WriteMarker(v) \/ DeleteMarker(v)
  \/ WriteConfig
  \/ DeleteConfig
  \/ TerraformExits
  \/ VerifyApply
  \/ VerifyDestroy

Failure ==
  \/ JobDies
  \/ ListingFails
  \/ VerifyListingFails
  \/ \E n \in ArcName : ShowFails(n)
  \/ \E op \in todo : OpFails(op)
  \/ \E v \in VM : HalfCreate(v) \/ HalfDelete(v) \/ DropVm(v)

Guest == \E i \in Id : Onboards(i) \/ BootsUnregistered(i) \/ OnboardingFails(i)

Next == People \/ JobStep \/ Failure \/ Guest

(* The runner takes a job's next step whenever there is one: its calls are *)
(* bounded by timeouts, its job by six hours.  People, failures and guests *)
(* owe nothing.                                                            *)
Spec == Init /\ [][Next]_vars /\ WF_vars(JobStep)

-------------------------------------------------------------------------------
(* Properties.                                                             *)

(* Every variable keeps its type.                                          *)
TypeOK ==
  /\ main \in [VM -> Decl \cup {None}] /\ inv \in [VM -> Decl \cup {None}]
  /\ bootstrap \in BOOLEAN /\ arcOn \in BOOLEAN
  /\ stateFile \in BOOLEAN /\ tfConfig \in BOOLEAN /\ wiped \in BOOLEAN
  /\ tfVm \in [VM -> Id \cup {None}] /\ tfFile \in [VM -> Snippet \cup {None}]
  /\ tfMarker \in [VM -> ArcName \cup {None}]
  /\ machine \in [Id -> Machine \cup {None}]
  /\ azure \in [ArcName -> Id \cup {None}]
  /\ pc \in {"idle", "guard", "plan", "clean", "apply", "verify"}
  /\ kind \in {"apply", "destroy"} /\ result \in {"none", "green", "red"}
  /\ names \subseteq ArcName /\ todo \subseteq Ops /\ stuck \subseteq todo
  /\ faults \in 0..MaxFaults /\ edits \in 0..MaxEdits
  /\ forgotten \subseteq Id /\ halfBuilt \subseteq Id /\ excused \subseteq Id

(* After a green job the record is true: each VM it names is a guest that  *)
(* was built for that VM and runs, and no VMID is recorded twice.  In      *)
(* between it need not be.  A delete that failed after it had taken effect *)
(* leaves a VMID on record that Proxmox gives to the next guest; two VMs   *)
(* are then recorded as one guest, and the retried delete removes the      *)
(* wrong one.  No such record outlives the next green job.                 *)
RecordTruthful ==
  pc = "idle" /\ result = "green" =>
    \A v \in VM : Recorded(v) =>
      /\ Live(tfVm[v]) /\ machine[tfVm[v]].vm = v
      /\ \A w \in VM \ {v} : Recorded(w) => machine[tfVm[w]].vmid # machine[tfVm[v]].vmid

(* A guest that runs and that state does not know is there for one of three*)
(* reasons: its record went with a lost state file, its record was dropped *)
(* by a delete that did not delete it, or it is what a create that failed  *)
(* left (docs/incident-orphan-vm.md).                                      *)
UntrackedExplained ==
  \A i \in Id : Live(i) /\ i \notin RecordedIds => i \in forgotten \cup halfBuilt

(* An Arc machine resource whose guest is gone is one of the known gaps:   *)
(* no credentials, a marker that no longer names what the guest registered *)
(* as, a failing `az resource show`, or a guest that registered after its  *)
(* name had been dealt with.  No other sequence leaves one.                *)
OrphanExplained ==
  \A n \in ArcName : azure[n] # None /\ ~Live(azure[n]) => azure[n] \in excused

(* The cleanup deletes the resource of a guest that stays only when that   *)
(* guest is untracked, its marker does not name what it registered as, or  *)
(* a guest being removed claims the same name (a hand-over of a name from  *)
(* one VM to another, under way or cut short).                             *)
InnocentMachineKept ==
  [][\A n \in ArcName : azure[n] # None /\ azure'[n] = None =>
       LET i == azure[n] IN
         \/ ~Live(i) \/ i \in DoomedIds \/ i \in forgotten \cup halfBuilt
         \/ \E v \in VM : tfVm[v] = i /\ tfMarker[v] # n
         \/ \E v \in Doomed : n \in {tfMarker[v], WantedMarker(inv)[v]}]_vars

(* Once a populated state is lost, no apply that declares VMs gets past    *)
(* the guard until something is recorded again, unless TF_BOOTSTRAP vouches*)
(* for it and no state file is there.                                      *)
WipedRecordNotBuiltOn ==
  wiped /\ kind = "apply" /\ pc \in {"plan", "clean", "apply"} =>
    Declared(inv) = {} \/ (bootstrap /\ ~stateFile)

(* A green apply means what it says: every declared VM is a running guest  *)
(* of the declared shape, on record, with its snippet and its marker, and  *)
(* any other guest that runs is an explained stray.                        *)
Converged ==
  /\ \A v \in VM : inv[v] # None =>
       /\ Recorded(v) /\ Live(tfVm[v]) /\ machine[tfVm[v]].shape = inv[v].shape
       /\ v \in Snippets /\ tfMarker[v] = inv[v].arc
  /\ \A i \in Id : Live(i) =>
       \/ i \in forgotten \cup halfBuilt
       \/ inv[machine[i].vm] # None /\ tfVm[machine[i].vm] = i

GreenApplyConverged ==
  [][kind = "apply" /\ result # "green" /\ result' = "green" => Converged]_vars

(* A green destroy, its last check answered or not, leaves no snippet and  *)
(* no guest but strays: those of failed creates and those whose record     *)
(* went, be it in this very destroy, by a delete that did not delete.  That*)
(* last case no check of the job can see.                                  *)
GreenDestroyClean ==
  [][kind = "destroy" /\ result # "green" /\ result' = "green" =>
       Snippets = {} /\ \A i \in Id : Live(i) => i \in forgotten \cup halfBuilt]_vars

(* The jobs keep the promise of Lab, whatever fails: a VM is the guest that*)
(* was built for it, while state records it and it runs; a stray is any    *)
(* other guest that runs.  No plan, replacement, failure or lost state     *)
(* makes the lab build a VM's next guest beside the one it tracks, take    *)
(* back a guest it does not track, or register a guest twice; and it       *)
(* removes the wrong guest only while the record holds a VMID whose own    *)
(* guest is gone.                                                          *)
Tracks == [v \in VM |-> IF Recorded(v) /\ Live(tfVm[v]) THEN tfVm[v] ELSE None]
Outdated == {v \in VM : Recorded(v) /\ ~Live(tfVm[v])}

Promised ==
  INSTANCE Lab WITH
    Guest <- Id,
    tracked <- Tracks,
    outdated <- Outdated,
    strays <- {i \in Id : Live(i) /\ i \notin RecordedIds},
    past <- {i \in Id : machine[i] # None /\ ~Live(i)},
    booting <- {i \in Id : Live(i) /\ machine[i].life = "booting"},
    registry <- azure

LabSpec == Promised!Spec

(* A job ends red only if something in it failed, the guard stopped it, or *)
(* the record names a VM whose guest is gone, its VMID another's: else what*)
(* Terraform plans is complete, so that the checks after it find nothing   *)
(* left to do, and no operation waits in a circle for another.             *)
RedMeansFailure ==
  [][pc # "idle" /\ result' = "red" /\ result # "red" =>
       pc = "guard" \/ faults' # faults \/ stuck # {} \/ Outdated # {}]_vars

(* A job that starts ends: nothing it can meet leaves it waiting.          *)
JobEnds == pc # "idle" ~> pc = "idle"

===============================================================================
