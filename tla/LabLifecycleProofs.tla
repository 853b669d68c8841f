-------------------------- MODULE LabLifecycleProofs --------------------------
(***************************************************************************)
(* Proofs about LabLifecycle, for every inventory, number of guests and    *)
(* budget.                                                                 *)
(***************************************************************************)
EXTENDS LabLifecycle, FiniteSetTheorems, TLAPS

(* State names for a VM a guest that was built for it, gone or not.        *)
RecordSound ==
  \A v \in VM : Recorded(v) => machine[tfVm[v]] # None /\ machine[tfVm[v]].vm = v

(* A VMID is the number of a guest once built; no two guests that run share*)
(* one; and the guest of a VM that is found under its VMID is the one on   *)
(* record.                                                                 *)
NumbersSound ==
  /\ \A i \in Id : machine[i] # None => machine[machine[i].vmid] # None
  /\ \A i, j \in Id : Live(i) /\ Live(j) /\ machine[i].vmid = machine[j].vmid => i = j
  /\ \A v \in VM : \A i \in At(v) : machine[i].vm = v => i = tfVm[v]

(* What a plan says while it is carried out: outside the apply step        *)
(* nothing is pending; only what is declared is written; what is to be     *)
(* deleted is on record; a guest is built for a VM only once the record    *)
(* names none.                                                             *)
PlanSound ==
  /\ pc # "apply" => todo = {}
  /\ \A v \in VM : Op("write", "marker", v) \in todo => inv[v] # None
  /\ \A v \in VM : Op("write", "file", v) \in todo => inv[v] # None
  /\ \A v \in VM : Op("delete", "vm", v) \in todo => Recorded(v)
  /\ \A v \in VM : Op("write", "vm", v) \in todo =>
       inv[v] # None /\ (tfVm[v] = None \/ Op("delete", "vm", v) \in todo)

(* A lost record stays empty until something is recorded.                  *)
WipedMeansEmpty ==
  wiped => /\ ~tfConfig
           /\ \A v \in VM : tfVm[v] = None /\ tfFile[v] = None /\ tfMarker[v] = None

(* The cleanup deletes names that the record and the plan gave it.         *)
NamesSound ==
  pc = "clean" => names \subseteq (IF kind = "apply" THEN PlanNames ELSE StateNames)

-------------------------------------------------------------------------------
(* Operators.                                                              *)

(* The names a cleanup is given are names a machine may have: a VM's own   *)
(* or one a marker holds.                                                  *)
LEMMA ResolveType ==
  ASSUME NEW gone \in SUBSET VM, NEW mapping \in [VM -> ArcName \cup {None}]
  PROVE  Resolve(gone, mapping) \subseteq ArcName
BY NamesAssumption DEF Resolve, NoMarkers

(* Both ways of reading the markers yield a map from VM to Arc name.       *)
LEMMA MarkerMapType ==
  ASSUME TypeOK
  PROVE  /\ WantedMarker(inv) \in [VM -> ArcName \cup {None}]
         /\ FromPlan(tfMarker, WantedMarker(inv)) \in [VM -> ArcName \cup {None}]
         /\ FromState(tfMarker) \in [VM -> ArcName \cup {None}]
BY DEF TypeOK, Decl, WantedMarker, FromPlan, FromState

(* The names either extractor collects are Arc names.                      *)
LEMMA NamesType ==
  ASSUME TypeOK
  PROVE  PlanNames \subseteq ArcName /\ StateNames \subseteq ArcName
BY MarkerMapType, ResolveType DEF PlanNames, StateNames

(* Both plans consist of operations.                                       *)
LEMMA OpsType ==
  ASSUME TypeOK
  PROVE  ApplyOps(inv) \subseteq Ops /\ DestroyOps \subseteq Ops
BY DEF TypeOK, ApplyOps, DestroyOps, Ops, Op, MarkersToWrite, Snippets

(* A guest built for a declared VM is a machine.                           *)
LEMMA NewMachineType ==
  ASSUME TypeOK, NEW v \in VM, inv[v] # None, NEW n \in Id,
         NEW life \in {"booting", "settled", "gone"}
  PROVE  /\ NewMachine(v, n, life) \in Machine
         /\ NewMachine(v, n, life) # None
         /\ NewMachine(v, n, life).vm = v
<1>1. inv[v] \in Decl
  BY DEF TypeOK
<1>2. NewMachine(v, n, life) \in Machine
  BY <1>1 DEF NewMachine, Machine, Decl
<1>3. QED
  BY <1>2, NoneAssumption DEF NewMachine

(* What a declared VM is given to start from is a snippet.                 *)
LEMMA RenderingType ==
  ASSUME TypeOK, NEW v \in VM, inv[v] # None
  PROVE  Rendering(inv, v) \in Snippet /\ Rendering(inv, v) # None
<1>1. inv[v] \in Decl /\ arcOn \in BOOLEAN
  BY DEF TypeOK
<1>2. (IF arcOn THEN None ELSE inv[v].arc) \in ArcName \cup {None}
  BY <1>1 DEF Decl
<1>3. Rendering(inv, v) \in Snippet
  BY <1>1, <1>2, Zenon DEF Rendering, Snippet
<1>4. QED
  BY <1>3, NoneAssumption

(* A VMID that Proxmox may assign is one of those there are.               *)
LEMMA FreeVmidsType ==
  ASSUME TypeOK, RecordSound, NEW i \in Id
  PROVE  FreeVmids(i) \subseteq Id
BY DEF TypeOK, RecordSound, FreeVmids, Recorded, Machine

(* A create, whether it succeeds or not, makes a machine under a new id.    *)
LEMMA Creates ==
  ASSUME TypeOK, RecordSound, PlanSound, NEW v \in VM, CreateVm(v) \/ HalfCreate(v)
  PROVE  \E i \in Fresh, n \in Id, life \in {"booting", "settled"} :
           /\ n \in FreeVmids(i)
           /\ NewMachine(v, n, life) \in Machine \ {None} /\ NewMachine(v, n, life).vm = v
           /\ machine' = [machine EXCEPT ![i] = NewMachine(v, n, life)]
           /\ CreateVm(v) => life = "booting" /\ tfVm' = [tfVm EXCEPT ![v] = i]
           /\ HalfCreate(v) => UNCHANGED tfVm /\ halfBuilt' = halfBuilt \cup {i}
<1>1. inv[v] # None
  BY DEF PlanSound, CreateVm, HalfCreate, Done, Records, Fails, Ready
<1>2. ASSUME NEW i \in Fresh, NEW n \in FreeVmids(i), NEW life \in {"booting", "settled"}
      PROVE  n \in Id /\ NewMachine(v, n, life) \in Machine \ {None} /\ NewMachine(v, n, life).vm = v
  <2>1. n \in Id
    BY FreeVmidsType DEF Fresh
  <2>2. QED
    BY <1>1, <2>1, NewMachineType
<1>3. ~(CreateVm(v) /\ HalfCreate(v))
  BY DEF CreateVm, HalfCreate, Done, Records, Fails, Ready
<1>4. CASE CreateVm(v)
  <2>1. PICK i \in Fresh : \E n \in FreeVmids(i) :
          /\ machine' = [machine EXCEPT ![i] = NewMachine(v, n, "booting")]
          /\ tfVm' = [tfVm EXCEPT ![v] = i]
    BY <1>4 DEF CreateVm
  <2>2. QED
    BY <1>2, <1>3, <1>4, <2>1
<1>5. CASE HalfCreate(v)
  <2>1. PICK i \in Fresh, life \in {"booting", "settled"} : \E n \in FreeVmids(i) :
          /\ machine' = [machine EXCEPT ![i] = NewMachine(v, n, life)]
          /\ halfBuilt' = halfBuilt \cup {i}
    BY <1>5 DEF HalfCreate
  <2>2. UNCHANGED tfVm
    BY <1>5 DEF HalfCreate
  <2>3. QED
    BY <1>2, <1>3, <1>5, <2>1, <2>2
<1>6. QED
  BY <1>4, <1>5

(* Where guests are taken away, each stays what it was but for its life.   *)
LEMMA WithoutFacts ==
  ASSUME TypeOK, NEW gone \in SUBSET Id, \A i \in gone : Live(i), machine' = Without(gone)
  PROVE  /\ machine' \in [Id -> Machine \cup {None}]
         /\ \A i \in Id : /\ machine'[i] = None <=> machine[i] = None
                          /\ machine[i] # None => /\ machine'[i].vm = machine[i].vm
                                                  /\ machine'[i].vmid = machine[i].vmid
                                                  /\ machine'[i].arc = machine[i].arc
                                                  /\ machine'[i].shape = machine[i].shape
                          /\ Live(i)' <=> Live(i) /\ i \notin gone
                          /\ i \notin gone => machine'[i] = machine[i]
<1>1. ASSUME NEW i \in gone
      PROVE  /\ machine[i] \in Machine /\ machine'[i] = [machine[i] EXCEPT !.life = "gone"]
             /\ machine'[i] \in Machine /\ machine'[i].life = "gone"
  <2>1. machine[i] \in Machine
    BY <1>1 DEF TypeOK, Live
  <2>2. machine'[i] = [machine[i] EXCEPT !.life = "gone"]
    BY <1>1 DEF Without
  <2>3. QED
    BY <2>1, <2>2 DEF Machine
<1>2. ASSUME NEW i \in Id \ gone PROVE machine'[i] = machine[i]
  BY <1>2 DEF Without
<1>3. machine' \in [Id -> Machine \cup {None}]
  BY <1>1, <1>2 DEF TypeOK, Without
<1>4. ASSUME NEW i \in gone
      PROVE  /\ machine'[i] # None /\ machine[i] # None /\ ~Live(i)'
             /\ machine'[i].vm = machine[i].vm /\ machine'[i].vmid = machine[i].vmid
             /\ machine'[i].arc = machine[i].arc /\ machine'[i].shape = machine[i].shape
  <2>1. machine'[i] # None /\ machine[i] # None
    BY <1>1, <1>4, NoneAssumption
  <2>2. ~Live(i)'
    BY <1>1, <1>4 DEF Live
  <2>3. /\ machine'[i].vm = machine[i].vm /\ machine'[i].vmid = machine[i].vmid
        /\ machine'[i].arc = machine[i].arc /\ machine'[i].shape = machine[i].shape
    BY <1>1, <1>4 DEF Machine
  <2>4. QED
    BY <2>1, <2>2, <2>3
<1>5. QED
  BY <1>2, <1>3, <1>4 DEF Live

-------------------------------------------------------------------------------
(* Types.                                                                  *)

(* The first state is well typed.                                          *)
LEMMA TypeInit == Init => TypeOK
<1> SUFFICES ASSUME Init PROVE TypeOK
  OBVIOUS
<1>1. main \in [VM -> Decl \cup {None}] /\ inv \in [VM -> Decl \cup {None}]
  BY InventoriesAssumption DEF Init, Empty
<1>2. bootstrap \in BOOLEAN /\ arcOn \in BOOLEAN
  BY DEF Init
<1>3. faults \in 0..MaxFaults /\ edits \in 0..MaxEdits
  BY BoundsAssumption DEF Init
<1>4. machine \in [Id -> Machine \cup {None}] /\ azure \in [ArcName -> Id \cup {None}]
  BY DEF Init
<1>5. QED
  BY <1>1, <1>2, <1>3, <1>4 DEF Init, TypeOK, Empty

(* What people do keeps the types.                                         *)
LEMMA TypePeople ==
  ASSUME TypeOK, People
  PROVE  TypeOK'
<1>1. ASSUME NEW i \in Inventories, Push(i) PROVE TypeOK'
  BY <1>1, TypeOK, InventoriesAssumption, BoundsAssumption
  DEF TypeOK, Push, Edit, record, world, job, ghosts
<1>2. CASE SetBootstrap
  BY <1>2, TypeOK, BoundsAssumption DEF TypeOK, SetBootstrap, Edit, record, world, job, ghosts
<1>3. CASE SetArcCredentials
  BY <1>3, TypeOK, BoundsAssumption DEF TypeOK, SetArcCredentials, Edit, record, world, job, ghosts
<1>4. ASSUME NEW deleted \in BOOLEAN, LoseState(deleted) PROVE TypeOK'
  <2>1. wiped' \in BOOLEAN /\ stateFile' \in BOOLEAN
    BY <1>4, Zenon DEF LoseState
  <2>2. forgotten' \subseteq Id
    <3>1. forgotten' = forgotten \cup {i \in RecordedIds : Live(i)}
      BY <1>4, Zenon DEF LoseState
    <3>2. QED
      BY <3>1, TypeOK DEF TypeOK, RecordedIds
  <2>3. /\ tfConfig' \in BOOLEAN /\ tfFile' \in [VM -> Snippet \cup {None}]
        /\ tfVm' \in [VM -> Id \cup {None}] /\ tfMarker' \in [VM -> ArcName \cup {None}]
    BY <1>4 DEF LoseState, Empty
  <2>4. faults' \in 0..MaxFaults
    BY <1>4, TypeOK, BoundsAssumption DEF TypeOK, LoseState, Fault
  <2>5. UNCHANGED <<settings, world, job, edits, halfBuilt, excused>>
    BY <1>4, Zenon DEF LoseState
  <2>6. QED
    BY <2>1, <2>2, <2>3, <2>4, <2>5, TypeOK DEF TypeOK, settings, world, job
<1>5. CASE StartApply
  BY <1>5, TypeOK DEF TypeOK, StartApply, settings, record, world, ghosts
<1>6. CASE StartDestroy
  BY <1>6, TypeOK DEF TypeOK, StartDestroy, settings, record, world, ghosts
<1>7. QED
  BY <1>1, <1>2, <1>3, <1>4, <1>5, <1>6, People DEF People

(* Every step of a job keeps the types.                                    *)
LEMMA TypeJob ==
  ASSUME TypeOK, RecordSound, PlanSound, JobStep
  PROVE  TypeOK'
<1>1. CASE Guard
  BY <1>1, TypeOK DEF TypeOK, Guard, GuardSees, Goes, Ends, settings, record, world, ghosts
<1>2. ASSUME NEW found \in SUBSET ArcName, Collects(found) PROVE TypeOK'
  BY <1>2, TypeOK
  DEF TypeOK, Collects, Unfindable, At, Goes, settings, record, world
<1>3. CASE CollectFromPlan
  BY <1>2, <1>3, NamesType DEF CollectFromPlan
<1>4. CASE CollectFromState
  BY <1>2, <1>4, NamesType DEF CollectFromState
<1>5. ASSUME NEW n \in ArcName, DeleteMachine(n) PROVE TypeOK'
  BY <1>5, TypeOK DEF TypeOK, DeleteMachine, settings, record
<1>6. ASSUME NEW n \in ArcName, MachineAbsent(n) PROVE TypeOK'
  BY <1>6, TypeOK DEF TypeOK, MachineAbsent, settings, record, world, ghosts
<1>7. CASE CleanupDone
  <2>1. Refreshed \in [VM -> Id \cup {None}]
    BY TypeOK DEF TypeOK, Refreshed
  <2>2. todo = {} /\ stuck = {}
    BY <1>7, TypeOK, PlanSound DEF TypeOK, PlanSound, CleanupDone
  <2>3. QED
    BY <1>7, <2>1, <2>2, TypeOK, OpsType DEF TypeOK, CleanupDone, Goes, settings, world, ghosts
<1>8. ASSUME NEW v \in VM, CreateVm(v) PROVE TypeOK'
  <2>1. machine' \in [Id -> Machine \cup {None}] /\ tfVm' \in [VM -> Id \cup {None}]
    BY <1>8, Creates DEF TypeOK, Fresh
  <2>2. QED
    BY <1>8, <2>1, TypeOK DEF TypeOK, CreateVm, Done, Records, Ready, settings, ghosts
<1>9. ASSUME NEW v \in VM, DeleteVm(v) PROVE TypeOK'
  <2>1. machine' \in [Id -> Machine \cup {None}]
    BY <1>9, WithoutFacts DEF DeleteVm, At
  <2>2. QED
    BY <1>9, <2>1, TypeOK DEF TypeOK, DeleteVm, Done, Records, Ready, settings, ghosts
<1>10. ASSUME NEW v \in VM, WriteFile(v) PROVE TypeOK'
  <2>1. Rendering(inv, v) \in Snippet
    BY <1>10, RenderingType DEF PlanSound, WriteFile, Done, Records, Ready
  <2>2. tfFile' \in [VM -> Snippet \cup {None}]
    BY <1>10, <2>1 DEF TypeOK, WriteFile
  <2>3. QED
    BY <1>10, <2>2, TypeOK DEF TypeOK, WriteFile, Done, Records, Ready, settings, world, ghosts
<1>11. ASSUME NEW v \in VM, DeleteFile(v) PROVE TypeOK'
  BY <1>11, TypeOK DEF TypeOK, DeleteFile, Done, Records, Ready, settings, world, ghosts
<1>12. ASSUME NEW v \in VM, WriteMarker(v) PROVE TypeOK'
  <2>1. inv[v].arc \in ArcName \cup {None}
    BY <1>12, TypeOK, PlanSound DEF TypeOK, PlanSound, WriteMarker, Done, Records, Ready, Decl
  <2>2. QED
    BY <1>12, <2>1, TypeOK DEF TypeOK, WriteMarker, Done, Records, Ready, settings, world, ghosts
<1>13. ASSUME NEW v \in VM, DeleteMarker(v) PROVE TypeOK'
  BY <1>13, TypeOK DEF TypeOK, DeleteMarker, Done, Records, Ready, settings, world, ghosts
<1>14. CASE WriteConfig
  BY <1>14, TypeOK DEF TypeOK, WriteConfig, Done, Records, Ready, settings, world, ghosts
<1>15. CASE DeleteConfig
  BY <1>15, TypeOK DEF TypeOK, DeleteConfig, Done, Records, Ready, settings, world, ghosts
<1>16. CASE TerraformExits
  BY <1>16, TypeOK DEF TypeOK, TerraformExits, Goes, Ends, settings, record, world, ghosts
<1>17. CASE VerifyApply
  BY <1>17, TypeOK DEF TypeOK, VerifyApply, Ends, settings, record, world, ghosts
<1>18. CASE VerifyDestroy
  BY <1>18, TypeOK DEF TypeOK, VerifyDestroy, Verifies, Ends, settings, record, world, ghosts
<1>19. QED
  BY <1>1, <1>3, <1>4, <1>5, <1>6, <1>7, <1>8, <1>9, <1>10, <1>11, <1>12, <1>13, <1>14, <1>15,
     <1>16, <1>17, <1>18, JobStep DEF JobStep

(* Every failure keeps the types.                                          *)
LEMMA TypeFailure ==
  ASSUME TypeOK, RecordSound, PlanSound, Failure
  PROVE  TypeOK'
<1>1. CASE JobDies
  BY <1>1, TypeOK, BoundsAssumption
  DEF TypeOK, JobDies, Fault, Ends, settings, record, world, ghosts
<1>2. CASE ListingFails
  BY <1>2, TypeOK, BoundsAssumption
  DEF TypeOK, ListingFails, GuardSees, Fault, Goes, Ends, settings, record, world, ghosts
<1>3. ASSUME NEW n \in ArcName, ShowFails(n) PROVE TypeOK'
  BY <1>3, TypeOK, BoundsAssumption DEF TypeOK, ShowFails, Fault, settings, record, world
<1>4. ASSUME NEW op \in todo, OpFails(op) PROVE TypeOK'
  BY <1>4, TypeOK, BoundsAssumption
  DEF TypeOK, OpFails, Fails, Ready, Fault, settings, ghosts
<1>5. ASSUME NEW v \in VM, HalfCreate(v) PROVE TypeOK'
  <2>1. machine' \in [Id -> Machine \cup {None}] /\ halfBuilt' \subseteq Id
    BY <1>5, Creates DEF TypeOK, Fresh
  <2>2. QED
    BY <1>5, <2>1, TypeOK, BoundsAssumption
    DEF TypeOK, HalfCreate, Fails, Ready, Fault, settings
<1>6. ASSUME NEW v \in VM, HalfDelete(v) PROVE TypeOK'
  <2>1. machine' \in [Id -> Machine \cup {None}]
    BY <1>6, WithoutFacts DEF HalfDelete, At
  <2>2. QED
    BY <1>6, <2>1, TypeOK, BoundsAssumption
    DEF TypeOK, HalfDelete, Fails, Ready, Fault, settings, ghosts
<1>7. ASSUME NEW v \in VM, DropVm(v) PROVE TypeOK'
  <2>1. forgotten' \subseteq Id
    BY <1>7, NoneAssumption DEF TypeOK, DropVm, OnNode, At, Recorded
  <2>2. faults' \in 0..MaxFaults
    BY <1>7, TypeOK, BoundsAssumption DEF TypeOK, DropVm, Fault
  <2>3. QED
    BY <1>7, <2>1, <2>2, TypeOK DEF TypeOK, DropVm, Records, Ready, settings, world
<1>8. CASE VerifyListingFails
  BY <1>8, TypeOK, BoundsAssumption
  DEF TypeOK, VerifyListingFails, Verifies, Fault, Ends, settings, record, world, ghosts
<1>9. QED
  BY <1>1, <1>2, <1>3, <1>4, <1>5, <1>6, <1>7, <1>8, Failure DEF Failure

(* Every end of a first boot keeps the types.                              *)
LEMMA TypeGuest ==
  ASSUME TypeOK, Guest
  PROVE  TypeOK'
<1>1. ASSUME NEW i \in Id, Settles(i) PROVE machine' \in [Id -> Machine \cup {None}]
  BY <1>1, TypeOK DEF TypeOK, Settles, Machine
<1>2. ASSUME NEW i \in Id, Onboards(i) PROVE TypeOK'
  BY <1>1, <1>2, TypeOK DEF TypeOK, Onboards, Settles, settings, record, job
<1>3. ASSUME NEW i \in Id, BootsUnregistered(i) PROVE TypeOK'
  BY <1>1, <1>3, TypeOK DEF TypeOK, BootsUnregistered, Settles, settings, record, job
<1>4. ASSUME NEW i \in Id, OnboardingFails(i) PROVE TypeOK'
  <2>1. machine' \in [Id -> Machine \cup {None}]
    BY <1>1, <1>4 DEF OnboardingFails
  <2>2. faults' \in 0..MaxFaults
    BY <1>4, TypeOK, BoundsAssumption DEF TypeOK, OnboardingFails, Fault
  <2>3. QED
    BY <1>4, <2>1, <2>2, TypeOK DEF TypeOK, OnboardingFails, Settles, settings, record, job
<1>5. QED
  BY <1>2, <1>3, <1>4, Guest DEF Guest

(* Every step keeps the types.                                             *)
LEMMA TypeStep ==
  ASSUME TypeOK, RecordSound, PlanSound, [Next]_vars
  PROVE  TypeOK'
<1>1. CASE UNCHANGED vars
  BY <1>1, TypeOK DEF TypeOK, vars, settings, record, world, job, ghosts
<1>2. QED
  BY <1>1, TypePeople, TypeJob, TypeFailure, TypeGuest DEF Next

-------------------------------------------------------------------------------
(* The record and the numbers guests are found by.                        *)

(* Two VMs are never recorded as the same guest.                           *)
LEMMA RecordedOnce ==
  ASSUME RecordSound, NEW v \in VM, NEW w \in VM, Recorded(v), tfVm[v] = tfVm[w]
  PROVE  v = w
BY DEF RecordSound, Recorded

(* The steps that change which guests there are or which are recorded.     *)
LEMMA Movers ==
  ASSUME [Next]_vars
  PROVE  \/ UNCHANGED <<tfVm, machine, forgotten, halfBuilt>>
         \/ \E deleted \in BOOLEAN : LoseState(deleted)
         \/ CleanupDone
         \/ \E v \in VM : CreateVm(v) \/ DeleteVm(v) \/ HalfCreate(v) \/ HalfDelete(v) \/ DropVm(v)
         \/ \E i \in Id : Settles(i)
<1>1. CASE UNCHANGED vars
  BY <1>1 DEF vars, record, world, ghosts
<1>2. CASE People
  BY <1>2 DEF People, Push, SetBootstrap, SetArcCredentials, StartApply, StartDestroy,
              record, world, ghosts
<1>3. CASE JobStep
  <2>1. CASE Guard \/ CollectFromPlan \/ CollectFromState
    BY <2>1 DEF Guard, GuardSees, CollectFromPlan, CollectFromState, Collects, record, world, ghosts
  <2>2. CASE \E n \in ArcName : DeleteMachine(n) \/ MachineAbsent(n)
    BY <2>2 DEF DeleteMachine, MachineAbsent, record, world, ghosts
  <2>3. CASE \E v \in VM : WriteFile(v) \/ DeleteFile(v) \/ WriteMarker(v) \/ DeleteMarker(v)
    BY <2>3 DEF WriteFile, DeleteFile, WriteMarker, DeleteMarker, world, ghosts
  <2>4. CASE WriteConfig \/ DeleteConfig
    BY <2>4 DEF WriteConfig, DeleteConfig, world, ghosts
  <2>5. CASE TerraformExits \/ VerifyApply \/ VerifyDestroy
    BY <2>5 DEF TerraformExits, VerifyApply, VerifyDestroy, Verifies, record, world, ghosts
  <2>6. QED
    BY <1>3, <2>1, <2>2, <2>3, <2>4, <2>5 DEF JobStep
<1>4. CASE Failure
  BY <1>4 DEF Failure, JobDies, ListingFails, GuardSees, VerifyListingFails, Verifies, ShowFails,
              OpFails, record, world, ghosts
<1>5. CASE Guest
  BY <1>5 DEF Guest, Onboards, BootsUnregistered, OnboardingFails
<1>6. QED
  BY <1>1, <1>2, <1>3, <1>4, <1>5 DEF Next

(* A guest that a step builds: it is new, it runs, and whatever the VMID it*)
(* is given, no other that runs has it.                                    *)
NewGuest(v, i) ==
  /\ i \in Id /\ machine[i] = None /\ ~Live(i) /\ Live(i)'
  /\ machine'[i] \in Machine \ {None} /\ machine'[i].vm = v /\ machine'[i].shape = inv[v].shape
  /\ \A j \in Id \ {i} : machine'[j] = machine[j] /\ (Live(j)' <=> Live(j))
  /\ \A w \in VM : tfVm[w] # i
  /\ machine'[machine'[i].vmid] # None
  /\ \A j \in Id : Live(j) => machine[j].vmid # machine'[i].vmid

(* What a create does to the guests and the record.                        *)
LEMMA CreateEffect ==
  ASSUME TypeOK, RecordSound, NumbersSound, PlanSound,
         NEW v \in VM, CreateVm(v) \/ HalfCreate(v)
  PROVE  \E i \in Fresh :
           /\ NewGuest(v, i)
           /\ CreateVm(v) => machine'[i].life = "booting" /\ tfVm' = [tfVm EXCEPT ![v] = i]
           /\ HalfCreate(v) => UNCHANGED tfVm /\ halfBuilt' = halfBuilt \cup {i}
<1>1. PICK i \in Fresh, n \in Id, life \in {"booting", "settled"} :
        /\ n \in FreeVmids(i)
        /\ NewMachine(v, n, life) \in Machine \ {None} /\ NewMachine(v, n, life).vm = v
        /\ machine' = [machine EXCEPT ![i] = NewMachine(v, n, life)]
        /\ CreateVm(v) => life = "booting" /\ tfVm' = [tfVm EXCEPT ![v] = i]
        /\ HalfCreate(v) => UNCHANGED tfVm /\ halfBuilt' = halfBuilt \cup {i}
  BY Creates
<1>2. i \in Id /\ machine[i] = None
  BY DEF Fresh
<1>3. machine'[i] = NewMachine(v, n, life) /\ \A j \in Id \ {i} : machine'[j] = machine[j]
  BY <1>1, <1>2 DEF TypeOK
<1>4. /\ machine'[i].vmid = n /\ machine'[i].life = life /\ machine'[i].shape = inv[v].shape
      /\ machine'[i] # None
  BY <1>1, <1>3 DEF NewMachine
<1>5. ~Live(i) /\ Live(i)' /\ \A j \in Id \ {i} : Live(j)' <=> Live(j)
  BY <1>2, <1>3, <1>4 DEF Live
<1>6. \A w \in VM : tfVm[w] # i
  BY <1>2, NoneAssumption DEF RecordSound, Recorded
<1>7. \A j \in Id : Live(j) => machine[j].vmid # n
  <2>1. CASE n = i
    BY <1>2, <2>1 DEF NumbersSound, Live
  <2>2. ASSUME NEW w \in VM, Recorded(w), ~OnNode(w), n = machine[tfVm[w]].vmid
        PROVE  \A j \in Id : Live(j) => machine[j].vmid # n
    BY <2>2 DEF OnNode, At
  <2>3. QED
    BY <1>1, <2>1, <2>2 DEF FreeVmids
<1>8. machine'[n] # None
  <2>1. CASE n = i
    BY <1>4, <2>1
  <2>2. ASSUME NEW w \in VM, Recorded(w), n = machine[tfVm[w]].vmid PROVE machine[n] # None
    BY <2>2, TypeOK DEF TypeOK, NumbersSound, RecordSound, Recorded
  <2>3. QED
    BY <1>1, <1>3, <1>4, <2>1, <2>2 DEF FreeVmids
<1>9. NewGuest(v, i)
  BY <1>1, <1>2, <1>3, <1>4, <1>5, <1>6, <1>7, <1>8 DEF NewGuest
<1>10. QED
  BY <1>1, <1>4, <1>9

(* A new guest is found under the VMIDs of those VMs that are recorded by  *)
(* the number it was given; there was none under these.                    *)
LEMMA FoundAnew ==
  ASSUME TypeOK, RecordSound, NEW v \in VM, NEW i, NewGuest(v, i),
         NEW w \in VM, tfVm'[w] = tfVm[w]
  PROVE  /\ At(w) \subseteq At(w)' /\ At(w)' \subseteq At(w) \cup {i}
         /\ OnNode(w) => At(w)' = At(w)
<1>1. CASE ~Recorded(w)
  BY <1>1 DEF At, Recorded, OnNode
<1>2. CASE Recorded(w)
  <2>1. tfVm[w] \in Id \ {i}
    BY <1>2, TypeOK DEF TypeOK, NewGuest, Recorded
  <2>2. machine'[tfVm'[w]] = machine[tfVm[w]] /\ Recorded(w)'
    BY <1>2, <2>1 DEF NewGuest, Recorded
  <2>3. ASSUME NEW j \in Id \ {i} PROVE j \in At(w)' <=> j \in At(w)
    BY <1>2, <2>2 DEF NewGuest, At
  <2>4. i \notin At(w)
    BY DEF NewGuest, At
  <2>5. OnNode(w) => i \notin At(w)'
    BY <2>2 DEF OnNode, NewGuest, At
  <2>6. At(w) \subseteq Id /\ At(w)' \subseteq Id
    BY DEF At
  <2>7. QED
    BY <2>3, <2>4, <2>5, <2>6
<1>3. QED
  BY <1>1, <1>2

(* What a delete, whether it reports success or not, does to them.         *)
Removed(v) ==
  /\ Recorded(v) /\ At(v) \subseteq Id /\ \A i \in At(v) : Live(i)
  /\ \A i \in Id : /\ machine'[i] = None <=> machine[i] = None
                   /\ machine[i] # None => /\ machine'[i].vm = machine[i].vm
                                           /\ machine'[i].vmid = machine[i].vmid
                                           /\ machine'[i].arc = machine[i].arc
                                           /\ machine'[i].shape = machine[i].shape
                   /\ Live(i)' <=> Live(i) /\ i \notin At(v)
                   /\ i \notin At(v) => machine'[i] = machine[i]
  /\ \A w \in VM : tfVm'[w] = tfVm[w] \/ (w = v /\ tfVm'[w] = None)

(* A delete takes away what is found under the VMID of its VM.             *)
LEMMA DeleteEffect ==
  ASSUME TypeOK, PlanSound, NEW v \in VM, DeleteVm(v) \/ HalfDelete(v)
  PROVE  /\ Removed(v)
         /\ DeleteVm(v) => tfVm' = [tfVm EXCEPT ![v] = None]
         /\ HalfDelete(v) => UNCHANGED tfVm
<1>1. /\ Recorded(v) /\ machine' = Without(At(v))
      /\ tfVm' \in {tfVm, [tfVm EXCEPT ![v] = None]}
  BY DEF PlanSound, DeleteVm, Done, Records, HalfDelete, Fails, Ready
<1>2. At(v) \subseteq Id /\ \A i \in At(v) : Live(i)
  BY DEF At
<1>3. \A w \in VM : tfVm'[w] = tfVm[w] \/ (w = v /\ tfVm'[w] = None)
  BY <1>1 DEF TypeOK
<1>4. Removed(v)
  BY <1>1, <1>2, <1>3, WithoutFacts DEF Removed
<1>5. (DeleteVm(v) => tfVm' = [tfVm EXCEPT ![v] = None]) /\ (HalfDelete(v) => UNCHANGED tfVm)
  BY DEF DeleteVm, HalfDelete
<1>6. QED
  BY <1>4, <1>5

(* Nothing is found afterwards but what was found before and is still there.*)
LEMMA FoundLess ==
  ASSUME TypeOK, RecordSound, NEW v \in VM, Removed(v), NEW w \in VM
  PROVE  /\ At(w)' \subseteq At(w) \ At(v)
         /\ tfVm'[w] = tfVm[w] => At(w)' = At(w) \ At(v)
<1>1. CASE ~Recorded(w)'
  <2>1. At(w)' = {}
    BY <1>1 DEF At
  <2>2. tfVm'[w] = tfVm[w] => At(w) = {}
    BY <1>1 DEF At, Recorded
  <2>3. QED
    BY <2>1, <2>2
<1>2. CASE Recorded(w)'
  <2>1. tfVm'[w] = tfVm[w] /\ Recorded(w) /\ tfVm[w] \in Id /\ machine[tfVm[w]] # None
    BY <1>2, TypeOK DEF TypeOK, Removed, Recorded, RecordSound
  <2>2. machine'[tfVm'[w]].vmid = machine[tfVm[w]].vmid
    BY <2>1 DEF Removed
  <2>3. ASSUME NEW j \in Id PROVE j \in At(w)' <=> j \in At(w) /\ j \notin At(v)
    <3>1. Live(j) => machine'[j].vmid = machine[j].vmid
      BY DEF Removed, Live
    <3>2. Live(j)' <=> Live(j) /\ j \notin At(v)
      BY DEF Removed
    <3>3. QED
      BY <1>2, <2>1, <2>2, <3>1, <3>2 DEF At
  <2>4. At(w) \subseteq Id /\ At(w)' \subseteq Id
    BY DEF At
  <2>5. QED
    BY <2>3, <2>4
<1>3. QED
  BY <1>1, <1>2

(* A guest that settles changes nothing else.                              *)
LEMMA SettleEffect ==
  ASSUME TypeOK, NEW i \in Id, Settles(i)
  PROVE  /\ UNCHANGED <<tfVm, tfFile, tfMarker, tfConfig, pc, kind, inv, names, todo, stuck, result>>
         /\ Live(i) /\ machine'[i] \in Machine \ {None} /\ machine'[i].life = "settled"
         /\ machine[i].life = "booting" /\ machine[i] \in Machine
         /\ \A j \in Id : /\ machine'[j] = None <=> machine[j] = None
                          /\ Live(j)' <=> Live(j)
                          /\ machine[j] # None => /\ machine'[j].vm = machine[j].vm
                                                  /\ machine'[j].vmid = machine[j].vmid
                                                  /\ machine'[j].arc = machine[j].arc
                                                  /\ machine'[j].shape = machine[j].shape
                          /\ j # i => machine'[j] = machine[j]
<1>1. /\ UNCHANGED <<tfVm, tfFile, tfMarker, tfConfig, pc, kind, inv, names, todo, stuck, result>>
      /\ machine[i] # None /\ machine[i].life = "booting"
      /\ machine' = [machine EXCEPT ![i].life = "settled"]
  BY DEF Settles, record, job
<1>2. machine[i] \in Machine
  BY <1>1 DEF TypeOK
<1>3. /\ machine'[i] \in Machine \ {None} /\ machine'[i].life = "settled"
      /\ machine'[i].vm = machine[i].vm /\ machine'[i].vmid = machine[i].vmid
      /\ machine'[i].arc = machine[i].arc /\ machine'[i].shape = machine[i].shape
  BY <1>1, <1>2, NoneAssumption DEF TypeOK, Machine
<1>4. \A j \in Id \ {i} : machine'[j] = machine[j]
  BY <1>1 DEF TypeOK
<1>5. Live(i) /\ \A j \in Id : Live(j)' <=> Live(j)
  BY <1>1, <1>3, <1>4 DEF Live
<1>6. QED
  BY <1>1, <1>2, <1>3, <1>4, <1>5

(* So what is found under a VMID stays the same.                           *)
LEMMA FoundSettled ==
  ASSUME TypeOK, RecordSound, NEW i \in Id, Settles(i), NEW w \in VM
  PROVE  At(w)' = At(w)
<1>1. /\ tfVm' = tfVm
      /\ \A j \in Id : /\ Live(j)' <=> Live(j)
                       /\ machine[j] # None => machine'[j].vmid = machine[j].vmid
  BY SettleEffect
<1>2. Recorded(w) => machine'[tfVm[w]].vmid = machine[tfVm[w]].vmid
  BY <1>1 DEF TypeOK, RecordSound, Recorded
<1>3. QED
  BY <1>1, <1>2 DEF At, Recorded, Live

(* Every step leaves the record naming guests of its VMs.                  *)
LEMMA RecordStep ==
  ASSUME TypeOK, RecordSound, NumbersSound, PlanSound, [Next]_vars
  PROVE  RecordSound'
<1>1. CASE UNCHANGED <<tfVm, machine, forgotten, halfBuilt>>
  BY <1>1, RecordSound DEF RecordSound, Recorded
<1>2. ASSUME NEW deleted \in BOOLEAN, LoseState(deleted) PROVE RecordSound'
  BY <1>2 DEF LoseState, Empty, RecordSound, Recorded
<1>3. CASE CleanupDone
  BY <1>3, RecordSound DEF CleanupDone, Refreshed, RecordSound, Recorded, world
<1>4. ASSUME NEW v \in VM, CreateVm(v) \/ HalfCreate(v) PROVE RecordSound'
  <2>1. PICK i \in Fresh :
          /\ NewGuest(v, i)
          /\ tfVm' = [tfVm EXCEPT ![v] = i] \/ tfVm' = tfVm
    BY <1>4, CreateEffect
  <2>2. machine'[i] # None /\ machine'[i].vm = v
    BY <2>1 DEF NewGuest
  <2>3. ASSUME NEW w \in VM PROVE (w = v /\ tfVm'[w] = i) \/ tfVm'[w] = tfVm[w]
    BY <2>1 DEF TypeOK
  <2>4. ASSUME NEW w \in VM, Recorded(w) PROVE machine'[tfVm[w]] = machine[tfVm[w]]
    BY <2>1, <2>4 DEF TypeOK, NewGuest, Recorded
  <2>5. QED
    BY <2>2, <2>3, <2>4 DEF RecordSound, Recorded
<1>5. ASSUME NEW v \in VM, DeleteVm(v) \/ HalfDelete(v) PROVE RecordSound'
  BY <1>5, DeleteEffect DEF TypeOK, Removed, RecordSound, Recorded
<1>6. ASSUME NEW v \in VM, DropVm(v) PROVE RecordSound'
  BY <1>6 DEF TypeOK, DropVm, world, RecordSound, Recorded
<1>7. ASSUME NEW i \in Id, Settles(i) PROVE RecordSound'
  BY <1>7, SettleEffect DEF TypeOK, RecordSound, Recorded
<1>8. QED
  BY <1>1, <1>2, <1>3, <1>4, <1>5, <1>6, <1>7, Movers

(* Nothing is on record by the time a guest is built for a VM.             *)
LEMMA BuiltOverNothing ==
  ASSUME PlanSound, NEW v \in VM, Ready(Op("write", "vm", v))
  PROVE  tfVm[v] = None /\ ~Recorded(v) /\ ~OnNode(v) /\ inv[v] # None
BY DEF PlanSound, Ready, Waits, Op, Recorded, OnNode, At

(* Nor does it find any.                                                   *)
LEMMA CreatedOverNothing ==
  ASSUME PlanSound, NEW v \in VM, CreateVm(v) \/ HalfCreate(v)
  PROVE  tfVm[v] = None /\ ~Recorded(v) /\ ~OnNode(v) /\ inv[v] # None
BY BuiltOverNothing DEF CreateVm, HalfCreate, Done, Records, Fails

(* Every step leaves the VMIDs of the guests that run distinct, and each VM*)
(* found by its own guest or by another's.                                 *)
LEMMA NumbersStep ==
  ASSUME TypeOK, RecordSound, NumbersSound, PlanSound, [Next]_vars
  PROVE  NumbersSound'
<1>1. CASE UNCHANGED <<tfVm, machine, forgotten, halfBuilt>>
  BY <1>1, NumbersSound DEF NumbersSound, At, Live, Recorded
<1>2. ASSUME UNCHANGED machine, \A v \in VM : tfVm'[v] \in {tfVm[v], None} PROVE NumbersSound'
  <2>1. ASSUME NEW v \in VM, NEW i \in At(v)' PROVE i \in At(v) /\ tfVm'[v] = tfVm[v]
    BY <1>2, <2>1 DEF At, Live, Recorded
  <2>2. QED
    BY <1>2, <2>1 DEF NumbersSound, Live
<1>3. CASE CleanupDone \/ \E deleted \in BOOLEAN : LoseState(deleted)
  BY <1>2, <1>3 DEF LoseState, Empty, CleanupDone, Refreshed, world
<1>4. ASSUME NEW v \in VM, DropVm(v) PROVE NumbersSound'
  BY <1>2, <1>4 DEF TypeOK, DropVm, world
<1>5. ASSUME NEW v \in VM, CreateVm(v) \/ HalfCreate(v) PROVE NumbersSound'
  <2>1. PICK i \in Fresh :
          /\ NewGuest(v, i)
          /\ tfVm' = [tfVm EXCEPT ![v] = i] \/ tfVm' = tfVm
    BY <1>5, CreateEffect
  <2>2. ASSUME NEW j \in Id, machine'[j] # None PROVE machine'[machine'[j].vmid] # None
    <3>1. CASE j = i
      BY <2>1, <3>1 DEF NewGuest
    <3>2. CASE j # i
      <4>1. machine'[j] = machine[j] /\ machine[machine[j].vmid] # None /\ machine[j].vmid \in Id
        BY <2>1, <2>2, <3>2 DEF TypeOK, NumbersSound, NewGuest, Machine
      <4>2. QED
        BY <2>1, <4>1 DEF NewGuest
    <3>3. QED
      BY <3>1, <3>2
  <2>3. ASSUME NEW j \in Id, NEW k \in Id, Live(j)', Live(k)', machine'[j].vmid = machine'[k].vmid
        PROVE  j = k
    <3>1. ASSUME NEW l \in Id \ {i}, Live(l)' PROVE Live(l) /\ machine'[l] = machine[l]
      BY <2>1, <3>1 DEF NewGuest
    <3>2. ASSUME NEW l \in Id \ {i}, Live(l)' PROVE machine'[l].vmid # machine'[i].vmid
      BY <2>1, <3>1, <3>2 DEF NewGuest
    <3>3. QED
      BY <2>3, <3>1, <3>2 DEF NumbersSound
  <2>4. ASSUME NEW w \in VM, NEW j \in At(w)', machine'[j].vm = w PROVE j = tfVm'[w]
    <3>1. j \in Id /\ Live(j)' /\ Recorded(w)'
      BY <2>4 DEF At
    <3>2. CASE w = v
      <4>1. tfVm'[v] = i
        BY <2>1, <3>1, <3>2, CreatedOverNothing, <1>5 DEF TypeOK, Recorded
      <4>2. machine'[j].vmid = machine'[i].vmid /\ Live(i)' /\ i \in Id
        BY <2>1, <2>4, <3>2, <4>1 DEF At, NewGuest
      <4>3. QED
        BY <2>3, <3>1, <3>2, <4>1, <4>2
    <3>3. CASE w # v
      <4>1. tfVm'[w] = tfVm[w]
        BY <2>1, <3>3 DEF TypeOK
      <4>2. j # i
        BY <2>1, <2>4, <3>3 DEF NewGuest
      <4>3. j \in At(w) /\ machine[j].vm = w
        BY <2>1, <2>4, <3>1, <4>1, <4>2, FoundAnew DEF NewGuest
      <4>4. QED
        BY <4>1, <4>3 DEF NumbersSound
    <3>4. QED
      BY <3>2, <3>3
  <2>5. QED
    BY <2>2, <2>3, <2>4 DEF NumbersSound
<1>6. ASSUME NEW v \in VM, DeleteVm(v) \/ HalfDelete(v) PROVE NumbersSound'
  <2>1. Removed(v)
    BY <1>6, DeleteEffect
  <2>2. ASSUME NEW j \in Id, machine'[j] # None PROVE machine'[machine'[j].vmid] # None
    <3>1. machine[j] # None /\ machine'[j].vmid = machine[j].vmid /\ machine[j].vmid \in Id
      BY <2>1, <2>2 DEF TypeOK, Removed, Machine
    <3>2. QED
      BY <2>1, <3>1 DEF Removed, NumbersSound
  <2>3. ASSUME NEW j \in Id, Live(j)'
        PROVE  Live(j) /\ machine'[j].vmid = machine[j].vmid /\ machine'[j].vm = machine[j].vm
    BY <2>1, <2>3 DEF Removed, Live
  <2>4. ASSUME NEW w \in VM, NEW j \in At(w)', machine'[j].vm = w PROVE j = tfVm'[w]
    <3>1. j \in Id /\ Live(j)' /\ Recorded(w)' /\ j \in At(w)
      BY <2>1, <2>4, FoundLess DEF At
    <3>2. tfVm'[w] = tfVm[w]
      BY <2>1, <3>1 DEF Removed, Recorded
    <3>3. QED
      BY <2>3, <2>4, <3>1, <3>2 DEF NumbersSound
  <2>5. QED
    BY <2>2, <2>3, <2>4 DEF NumbersSound
<1>7. ASSUME NEW i \in Id, Settles(i) PROVE NumbersSound'
  <2>1. /\ UNCHANGED tfVm
        /\ \A j \in Id : /\ machine'[j] = None <=> machine[j] = None
                         /\ Live(j)' <=> Live(j)
                         /\ machine[j] # None => /\ machine'[j].vm = machine[j].vm
                                                 /\ machine'[j].vmid = machine[j].vmid
    BY <1>7, SettleEffect
  <2>2. ASSUME NEW j \in Id, machine'[j] # None PROVE machine'[machine'[j].vmid] # None
    BY <2>1, <2>2 DEF TypeOK, NumbersSound, Machine
  <2>3. ASSUME NEW j \in Id, Live(j)'
        PROVE  Live(j) /\ machine'[j].vmid = machine[j].vmid /\ machine'[j].vm = machine[j].vm
    BY <2>1, <2>3 DEF Live
  <2>4. ASSUME NEW w \in VM, NEW j \in At(w)', machine'[j].vm = w PROVE j = tfVm'[w]
    <3>1. j \in At(w) /\ Live(j)' /\ j \in Id
      BY <1>7, <2>4, FoundSettled DEF At
    <3>2. QED
      BY <2>1, <2>3, <2>4, <3>1 DEF NumbersSound
  <2>5. QED
    BY <2>2, <2>3, <2>4 DEF NumbersSound
<1>8. QED
  BY <1>1, <1>3, <1>4, <1>5, <1>6, <1>7, Movers

-------------------------------------------------------------------------------
(* Guests that state does not know.                                        *)

(* A guest on record that runs is found under its VMID.                    *)
LEMMA OwnFound ==
  ASSUME TypeOK, NEW v \in VM, Recorded(v), Live(tfVm[v])
  PROVE  tfVm[v] \in At(v) /\ OnNode(v)
BY DEF TypeOK, At, OnNode, Recorded

(* And nothing else is, then.                                              *)
LEMMA OwnAlone ==
  ASSUME TypeOK, NumbersSound, NEW v \in VM, Recorded(v), Live(tfVm[v])
  PROVE  At(v) = {tfVm[v]}
<1>1. tfVm[v] \in At(v)
  BY OwnFound
<1>2. ASSUME NEW i \in At(v) PROVE i = tfVm[v]
  BY <1>1, <1>2 DEF NumbersSound, At
<1>3. QED
  BY <1>1, <1>2

(* Every step leaves untracked guests explained.                           *)
LEMMA UntrackedStep ==
  ASSUME TypeOK, RecordSound, NumbersSound, PlanSound, UntrackedExplained, [Next]_vars
  PROVE  UntrackedExplained'
<1>1. CASE UNCHANGED <<tfVm, machine, forgotten, halfBuilt>>
  BY <1>1, UntrackedExplained DEF UntrackedExplained, RecordedIds, Live
<1>2. ASSUME NEW deleted \in BOOLEAN, LoseState(deleted) PROVE UntrackedExplained'
  <2>1. /\ forgotten' = forgotten \cup {i \in RecordedIds : Live(i)}
        /\ UNCHANGED <<machine, halfBuilt>>
    BY <1>2, Zenon DEF LoseState, world
  <2>2. QED
    BY <2>1, UntrackedExplained DEF UntrackedExplained, Live
<1>3. CASE CleanupDone
  <2>1. UNCHANGED <<machine, forgotten, halfBuilt>> /\ tfVm' = Refreshed
    BY <1>3 DEF CleanupDone, world, ghosts
  <2>2. ASSUME NEW i \in RecordedIds, Live(i) PROVE i \in RecordedIds'
    BY <2>1, <2>2, OwnFound DEF RecordedIds, Refreshed, Recorded
  <2>3. QED
    BY <2>1, <2>2, UntrackedExplained DEF UntrackedExplained, Live
<1>4. ASSUME NEW v \in VM, CreateVm(v) PROVE UntrackedExplained'
  <2>1. PICK i \in Fresh : NewGuest(v, i) /\ tfVm' = [tfVm EXCEPT ![v] = i]
    BY <1>4, CreateEffect
  <2>2. UNCHANGED <<forgotten, halfBuilt>> /\ tfVm[v] = None
    BY <1>4, CreatedOverNothing DEF CreateVm, Done, ghosts
  <2>3. i \in RecordedIds'
    BY <2>1, NoneAssumption DEF TypeOK, RecordedIds, NewGuest
  <2>4. ASSUME NEW j \in Id \ {i}, Live(j)' PROVE Live(j) /\ (j \in RecordedIds => j \in RecordedIds')
    <3>1. Live(j)
      BY <2>1, <2>4 DEF NewGuest
    <3>2. ASSUME NEW w \in VM, tfVm[w] = j PROVE tfVm'[w] = j
      BY <2>1, <2>2, <3>2, NoneAssumption DEF TypeOK
    <3>3. QED
      BY <3>1, <3>2 DEF RecordedIds
  <2>5. QED
    BY <2>2, <2>3, <2>4, UntrackedExplained DEF UntrackedExplained
<1>5. ASSUME NEW v \in VM, DeleteVm(v) \/ HalfDelete(v) PROVE UntrackedExplained'
  <2>1. Removed(v) /\ UNCHANGED <<forgotten, halfBuilt>>
    BY <1>5, DeleteEffect DEF DeleteVm, HalfDelete, ghosts
  <2>2. ASSUME NEW j \in Id, Live(j)' PROVE Live(j) /\ (j \in RecordedIds => j \in RecordedIds')
    <3>1. Live(j) /\ j \notin At(v)
      BY <2>1, <2>2 DEF Removed
    <3>2. j # tfVm[v]
      BY <2>1, <3>1, OwnFound DEF Removed
    <3>3. ASSUME NEW w \in VM, tfVm[w] = j PROVE tfVm'[w] = j
      BY <2>1, <3>2, <3>3 DEF Removed
    <3>4. QED
      BY <3>1, <3>3 DEF RecordedIds
  <2>3. QED
    BY <2>1, <2>2, UntrackedExplained DEF UntrackedExplained
<1>6. ASSUME NEW v \in VM, DropVm(v) PROVE UntrackedExplained'
  <2>1. /\ tfVm' = [tfVm EXCEPT ![v] = None] /\ UNCHANGED <<machine, halfBuilt>>
        /\ forgotten' = forgotten \cup {i \in {tfVm[v]} : Live(i)}
    BY <1>6 DEF DropVm, world
  <2>2. ASSUME NEW j \in RecordedIds, j # tfVm[v] PROVE j \in RecordedIds'
    BY <2>1, <2>2 DEF TypeOK, RecordedIds
  <2>3. QED
    BY <2>1, <2>2, UntrackedExplained DEF UntrackedExplained, Live
<1>7. ASSUME NEW v \in VM, HalfCreate(v) PROVE UntrackedExplained'
  <2>1. PICK i \in Fresh : NewGuest(v, i) /\ UNCHANGED tfVm /\ halfBuilt' = halfBuilt \cup {i}
    BY <1>7, CreateEffect
  <2>2. UNCHANGED forgotten
    BY <1>7 DEF HalfCreate
  <2>3. QED
    BY <2>1, <2>2, UntrackedExplained DEF UntrackedExplained, NewGuest, RecordedIds
<1>8. ASSUME NEW i \in Id, Settles(i) PROVE UntrackedExplained'
  <2>1. UNCHANGED <<tfVm, forgotten, halfBuilt>> /\ \A j \in Id : Live(j)' <=> Live(j)
    BY <1>8, SettleEffect DEF Settles
  <2>2. QED
    BY <2>1, UntrackedExplained DEF UntrackedExplained, RecordedIds
<1>9. QED
  BY <1>1, <1>2, <1>3, <1>4, <1>5, <1>6, <1>7, <1>8, Movers

-------------------------------------------------------------------------------
(* The plan.                                                               *)

(* A plan that only shrinks stays sound if what its pending deletions and  *)
(* builds rely on does.                                                    *)
LEMMA PlanCarried ==
  ASSUME PlanSound, pc = "apply", UNCHANGED <<pc, inv>>, todo' \subseteq todo,
         \A v \in VM : Op("delete", "vm", v) \in todo' => Recorded(v)',
         \A v \in VM : Op("write", "vm", v) \in todo' =>
           tfVm'[v] = None \/ Op("delete", "vm", v) \in todo'
  PROVE  PlanSound'
BY DEF PlanSound, Op

(* How a step may change what is pending, the record and the guests.       *)
LEMMA PlanMovers ==
  ASSUME PlanSound, [Next]_vars
  PROVE  \/ todo' = {}
         \/ CleanupDone
         \/ /\ pc = "apply" /\ UNCHANGED <<pc, inv, tfVm>>
            /\ \E op \in todo : op.type # "vm" /\ todo' = todo \ {op}
         \/ UNCHANGED <<pc, inv, tfVm, todo>>
         \/ \E v \in VM : CreateVm(v) \/ DeleteVm(v) \/ DropVm(v)
<1>1. CASE UNCHANGED vars
  BY <1>1 DEF PlanSound, vars, record, world, job
<1>2. CASE People
  BY <1>2 DEF PlanSound, People, Push, SetBootstrap, SetArcCredentials, LoseState, StartApply,
              StartDestroy, job
<1>3. CASE JobStep
  <2>1. CASE Guard \/ CollectFromPlan \/ CollectFromState
    BY <2>1 DEF PlanSound, Guard, GuardSees, CollectFromPlan, CollectFromState, Collects, Ends
  <2>2. CASE \E n \in ArcName : DeleteMachine(n) \/ MachineAbsent(n)
    BY <2>2 DEF PlanSound, DeleteMachine, MachineAbsent
  <2>3. ASSUME NEW op \in Ops, op.type # "vm", Done(op), UNCHANGED tfVm
        PROVE  /\ pc = "apply" /\ UNCHANGED <<pc, inv, tfVm>>
               /\ \E o \in todo : o.type # "vm" /\ todo' = todo \ {o}
    BY <2>3 DEF Done, Records, Ready
  <2>4. ASSUME NEW v \in VM, WriteFile(v) \/ DeleteFile(v) \/ WriteMarker(v) \/ DeleteMarker(v)
        PROVE  \E op \in Ops : op.type # "vm" /\ Done(op) /\ UNCHANGED tfVm
    BY <2>4 DEF WriteFile, DeleteFile, WriteMarker, DeleteMarker, Ops, Op, world
  <2>5. CASE WriteConfig \/ DeleteConfig
    <3>1. \E op \in Ops : op.type # "vm" /\ Done(op) /\ UNCHANGED tfVm
      BY <2>5 DEF WriteConfig, DeleteConfig, Ops, Op, world
    <3>2. QED
      BY <3>1, <2>3
  <2>6. CASE TerraformExits
    BY <2>6 DEF TerraformExits, Goes, Ends
  <2>7. CASE VerifyApply \/ VerifyDestroy
    BY <2>7 DEF VerifyApply, VerifyDestroy, Verifies, Ends
  <2>8. QED
    BY <1>3, <2>1, <2>2, <2>3, <2>4, <2>5, <2>6, <2>7 DEF JobStep
<1>4. CASE Failure
  <2>1. CASE JobDies \/ ListingFails \/ VerifyListingFails
    BY <2>1 DEF PlanSound, JobDies, ListingFails, GuardSees, VerifyListingFails, Verifies, Ends
  <2>2. CASE \E n \in ArcName : ShowFails(n)
    BY <2>2 DEF PlanSound, ShowFails
  <2>3. CASE (\E op \in todo : OpFails(op)) \/ \E v \in VM : HalfCreate(v) \/ HalfDelete(v)
    BY <2>3 DEF OpFails, HalfCreate, HalfDelete, Fails
  <2>4. QED
    BY <1>4, <2>1, <2>2, <2>3 DEF Failure
<1>5. CASE Guest
  BY <1>5 DEF Guest, Onboards, BootsUnregistered, OnboardingFails, Settles, record, job
<1>6. QED
  BY <1>1, <1>2, <1>3, <1>4, <1>5 DEF Next

(* The plan Terraform starts with is sound.                                *)
LEMMA PlanMade ==
  ASSUME TypeOK, CleanupDone
  PROVE  PlanSound'
<1>1. /\ pc' = "apply" /\ UNCHANGED <<inv, machine>> /\ tfVm' = Refreshed
      /\ todo' = IF kind = "apply" THEN ApplyOps(inv) ELSE DestroyOps
  BY DEF CleanupDone, Goes, world
<1>2. ASSUME NEW v \in VM
      PROVE  /\ Op("write", "marker", v) \in ApplyOps(inv) => v \in MarkersToWrite(inv)
             /\ Op("write", "file", v) \in ApplyOps(inv) => Rendered(inv, v)
             /\ Op("delete", "vm", v) \in ApplyOps(inv) <=> GoesAway(inv, v)
             /\ Op("write", "vm", v) \in ApplyOps(inv) => Built(inv, v)
  BY DEF ApplyOps, Op
<1>3. ASSUME NEW v \in VM
      PROVE  /\ Op("write", "marker", v) \notin DestroyOps
             /\ Op("write", "file", v) \notin DestroyOps
             /\ Op("delete", "vm", v) \in DestroyOps => OnNode(v)
             /\ Op("write", "vm", v) \notin DestroyOps
  BY DEF DestroyOps, Op
<1>4. ASSUME NEW v \in VM
      PROVE  /\ OnNode(v) => Recorded(v)'
             /\ ~OnNode(v) => tfVm'[v] = None
  BY <1>1 DEF Refreshed, OnNode, At, Recorded
<1>5. ASSUME NEW v \in VM, Op("write", "marker", v) \in todo' PROVE inv'[v] # None
  BY <1>1, <1>2, <1>3, <1>5 DEF MarkersToWrite, WantedMarker
<1>6. ASSUME NEW v \in VM, Op("delete", "vm", v) \in todo' PROVE Recorded(v)'
  BY <1>1, <1>2, <1>3, <1>4, <1>6 DEF GoesAway, OnNode
<1>7. ASSUME NEW v \in VM, Op("write", "vm", v) \in todo'
      PROVE  inv'[v] # None /\ (tfVm'[v] = None \/ Op("delete", "vm", v) \in todo')
  BY <1>1, <1>2, <1>3, <1>4, <1>7 DEF Built
<1>8. ASSUME NEW v \in VM, Op("write", "file", v) \in todo' PROVE inv'[v] # None
  BY <1>1, <1>2, <1>3, <1>8 DEF Rendered
<1>9. QED
  BY <1>1, <1>5, <1>6, <1>7, <1>8 DEF PlanSound, Op

(* Every step keeps the plan sound.                                        *)
LEMMA PlanStep ==
  ASSUME TypeOK, PlanSound, [Next]_vars
  PROVE  PlanSound'
<1>1. CASE todo' = {}
  BY <1>1 DEF PlanSound
<1>2. CASE CleanupDone
  BY <1>2, PlanMade
<1>3. CASE /\ pc = "apply" /\ UNCHANGED <<pc, inv, tfVm>>
           /\ \E op \in todo : op.type # "vm" /\ todo' = todo \ {op}
  BY <1>3, PlanCarried, PlanSound DEF PlanSound, Op, Recorded
<1>4. CASE UNCHANGED <<pc, inv, tfVm, todo>>
  BY <1>4, PlanSound DEF PlanSound, Op, Recorded
<1>5. ASSUME NEW v \in VM, CreateVm(v) PROVE PlanSound'
  <2>1. PICK i \in Fresh : tfVm' = [tfVm EXCEPT ![v] = i]
    BY <1>5 DEF CreateVm
  <2>2. /\ pc = "apply" /\ UNCHANGED <<pc, inv>>
        /\ todo' = todo \ {Op("write", "vm", v)}
    BY <1>5 DEF CreateVm, Done, Records
  <2>3. tfVm'[v] # None /\ \A w \in VM \ {v} : tfVm'[w] = tfVm[w]
    BY <2>1, NoneAssumption DEF TypeOK, Fresh
  <2>4. ASSUME NEW w \in VM, Op("delete", "vm", w) \in todo' PROVE Recorded(w)'
    BY <2>2, <2>3, <2>4 DEF PlanSound, Recorded
  <2>5. ASSUME NEW w \in VM, Op("write", "vm", w) \in todo'
        PROVE  tfVm'[w] = None \/ Op("delete", "vm", w) \in todo'
    BY <2>2, <2>3, <2>5 DEF PlanSound, Op
  <2>6. QED
    BY <2>2, <2>4, <2>5, PlanCarried
<1>6. ASSUME NEW v \in VM, DeleteVm(v) \/ DropVm(v) PROVE PlanSound'
  <2>1. /\ pc = "apply" /\ UNCHANGED <<pc, inv>>
        /\ todo' = todo \ {Op("delete", "vm", v)}
        /\ tfVm' = [tfVm EXCEPT ![v] = None]
    BY <1>6 DEF DeleteVm, DropVm, Done, Records
  <2>2. tfVm'[v] = None /\ \A w \in VM \ {v} : tfVm'[w] = tfVm[w]
    BY <2>1 DEF TypeOK
  <2>3. ASSUME NEW w \in VM, Op("delete", "vm", w) \in todo' PROVE Recorded(w)'
    BY <2>1, <2>2, <2>3 DEF PlanSound, Recorded
  <2>4. ASSUME NEW w \in VM, Op("write", "vm", w) \in todo'
        PROVE  tfVm'[w] = None \/ Op("delete", "vm", w) \in todo'
    BY <2>1, <2>2, <2>4 DEF PlanSound, Op
  <2>5. QED
    BY <2>1, <2>3, <2>4, PlanCarried
<1>7. QED
  BY <1>1, <1>2, <1>3, <1>4, <1>5, <1>6, PlanMovers

-------------------------------------------------------------------------------
(* After a lost record.                                                    *)

(* A state that lists no resource records nothing.                         *)
LEMMA NothingListed ==
  ASSUME WipedMeansEmpty, wiped
  PROVE  Resources = {}
<1>1. /\ {w \in VM : Recorded(w)} = {} /\ Snippets = {}
      /\ {w \in VM : tfMarker[w] # None} = {} /\ ~tfConfig
  BY DEF WipedMeansEmpty, Recorded, Snippets
<1>2. QED
  BY <1>1 DEF Resources

(* How a step may change the record while it stays wiped.                  *)
LEMMA WipedMovers ==
  ASSUME [Next]_vars, wiped'
  PROVE  \/ UNCHANGED record
         \/ \E deleted \in BOOLEAN : LoseState(deleted)
         \/ CleanupDone
         \/ \E op \in todo : OpFails(op)
<1>1. CASE UNCHANGED vars
  BY <1>1 DEF vars
<1>2. CASE People
  BY <1>2 DEF People, Push, SetBootstrap, SetArcCredentials, StartApply, StartDestroy
<1>3. CASE JobStep
  BY <1>3 DEF JobStep, Guard, GuardSees, CollectFromPlan, CollectFromState, Collects,
              DeleteMachine, MachineAbsent, Done, Records, CreateVm, DeleteVm, WriteFile, DeleteFile,
              WriteMarker, DeleteMarker, WriteConfig, DeleteConfig, TerraformExits, VerifyApply,
              VerifyDestroy, Verifies
<1>4. CASE Failure
  BY <1>4 DEF Failure, JobDies, ListingFails, GuardSees, VerifyListingFails, Verifies, ShowFails,
              HalfCreate, HalfDelete, DropVm, Records, Fails, record
<1>5. CASE Guest
  BY <1>5 DEF Guest, Onboards, BootsUnregistered, OnboardingFails, Settles
<1>6. QED
  BY <1>1, <1>2, <1>3, <1>4, <1>5 DEF Next

(* Every step keeps a wiped record empty.                                  *)
LEMMA WipedStep ==
  ASSUME TypeOK, WipedMeansEmpty, [Next]_vars
  PROVE  WipedMeansEmpty'
<1> SUFFICES ASSUME wiped' PROVE WipedMeansEmpty'
  BY DEF WipedMeansEmpty
<1>1. CASE UNCHANGED record
  BY <1>1 DEF WipedMeansEmpty, record
<1>2. ASSUME NEW deleted \in BOOLEAN, LoseState(deleted) PROVE WipedMeansEmpty'
  <2>1. ~tfConfig' /\ tfVm' = Empty /\ tfFile' = Empty /\ tfMarker' = Empty
    BY <1>2, Zenon DEF LoseState
  <2>2. QED
    BY <2>1 DEF WipedMeansEmpty, Empty
<1>3. CASE CleanupDone
  BY <1>3 DEF WipedMeansEmpty, CleanupDone, Refreshed
<1>4. ASSUME NEW op \in todo, OpFails(op) PROVE WipedMeansEmpty'
  BY <1>4 DEF TypeOK, WipedMeansEmpty, OpFails, Fails
<1>5. QED
  BY <1>1, <1>2, <1>3, <1>4, WipedMovers

(* The guard lets an apply over an empty state pass in two cases only.     *)
LEMMA GuardOnNothing ==
  ASSUME NEW desired, NEW fileExists, NEW flag, Decide(desired, {}, fileExists, flag) = Proceed
  PROVE  desired = {} \/ (flag /\ ~fileExists)
BY DEF Decide, Proceed, Blocked, NothingDeclared, FirstApply

(* No step builds on a wiped record without being vouched for.             *)
LEMMA GuardedStep ==
  ASSUME WipedMeansEmpty, WipedRecordNotBuiltOn, [Next]_vars
  PROVE  WipedRecordNotBuiltOn'
<1> DEFINE Vouched == Declared(inv) = {} \/ (bootstrap /\ ~stateFile)
           Under == wiped /\ kind = "apply" /\ pc \in {"plan", "clean", "apply"}
<1> SUFFICES ASSUME Under' PROVE Vouched'
  BY DEF WipedRecordNotBuiltOn
<1>1. CASE UNCHANGED vars
  BY <1>1 DEF WipedRecordNotBuiltOn, vars, settings, record, job, Declared
<1>2. CASE People
  BY <1>2 DEF People, Push, SetBootstrap, SetArcCredentials, LoseState, StartApply,
              StartDestroy, job
<1>3. ASSUME NEW listed, GuardSees(listed), wiped => listed = {} PROVE Vouched'
  <2>1. /\ Decide(Declared(inv), {}, stateFile, bootstrap) = Proceed
        /\ UNCHANGED <<inv, bootstrap, stateFile>>
    BY <1>3 DEF GuardSees, Ends, Goes, settings, record
  <2>2. QED
    BY <2>1, GuardOnNothing DEF Declared
<1>4. CASE Guard \/ ListingFails
  BY <1>3, <1>4, NothingListed DEF Guard, ListingFails
<1>5. CASE \/ CollectFromPlan \/ CollectFromState \/ CleanupDone
           \/ \E n \in ArcName : DeleteMachine(n) \/ MachineAbsent(n) \/ ShowFails(n)
  BY <1>5 DEF WipedRecordNotBuiltOn, CollectFromPlan, CollectFromState, Collects, CleanupDone,
              DeleteMachine, MachineAbsent, ShowFails, Goes, settings, record, Declared
<1>6. CASE \/ WriteConfig \/ DeleteConfig
           \/ \E v \in VM : CreateVm(v) \/ DeleteVm(v) \/ WriteFile(v) \/ DeleteFile(v)
                           \/ WriteMarker(v) \/ DeleteMarker(v)
  BY <1>6 DEF CreateVm, DeleteVm, WriteFile, DeleteFile, WriteMarker, DeleteMarker, WriteConfig,
              DeleteConfig, Done, Records
<1>7. CASE TerraformExits \/ VerifyApply \/ VerifyDestroy \/ VerifyListingFails \/ JobDies
  BY <1>7 DEF TerraformExits, VerifyApply, VerifyDestroy, VerifyListingFails, Verifies, JobDies,
              Ends, Goes
<1>8. CASE \/ \E op \in todo : OpFails(op)
           \/ \E v \in VM : HalfCreate(v) \/ HalfDelete(v) \/ DropVm(v)
  BY <1>8 DEF WipedRecordNotBuiltOn, OpFails, HalfCreate, HalfDelete, DropVm, Records, Fails,
              settings, Declared
<1>9. CASE Guest
  <2>1. UNCHANGED <<settings, record, job>>
    BY <1>9 DEF Guest, Onboards, BootsUnregistered, OnboardingFails, Settles
  <2>2. QED
    BY <2>1 DEF WipedRecordNotBuiltOn, settings, record, job, Declared
<1>10. QED
  BY <1>1, <1>2, <1>4, <1>5, <1>6, <1>7, <1>8, <1>9 DEF Next, JobStep, Failure

-------------------------------------------------------------------------------
(* The names being cleaned up.                                             *)

(* Only the collection of names and the cleanup itself lead to the cleanup.*)
LEMMA CleanMovers ==
  ASSUME [Next]_vars, pc' = "clean"
  PROVE  \/ CollectFromPlan \/ CollectFromState
         \/ /\ pc = "clean" /\ UNCHANGED <<kind, inv, tfVm, tfMarker, machine>>
            /\ names' \subseteq names
         \/ \E i \in Id : Settles(i)
<1>1. CASE UNCHANGED vars
  BY <1>1 DEF vars, record, world, job
<1>2. CASE People
  BY <1>2 DEF People, Push, SetBootstrap, SetArcCredentials, LoseState, StartApply,
              StartDestroy, record, world, job
<1>3. CASE JobStep
  <2>1. CASE \E n \in ArcName : DeleteMachine(n) \/ MachineAbsent(n)
    BY <2>1 DEF DeleteMachine, MachineAbsent, record, world
  <2>2. CASE Guard \/ CleanupDone \/ TerraformExits \/ VerifyApply \/ VerifyDestroy
    BY <2>2 DEF Guard, GuardSees, CleanupDone, TerraformExits, VerifyApply, VerifyDestroy,
                Verifies, Goes, Ends
  <2>3. CASE \/ WriteConfig \/ DeleteConfig
             \/ \E v \in VM : CreateVm(v) \/ DeleteVm(v) \/ WriteFile(v) \/ DeleteFile(v)
                             \/ WriteMarker(v) \/ DeleteMarker(v)
    BY <2>3 DEF CreateVm, DeleteVm, WriteFile, DeleteFile, WriteMarker, DeleteMarker,
                WriteConfig, DeleteConfig, Done, Records
  <2>4. QED
    BY <1>3, <2>1, <2>2, <2>3 DEF JobStep
<1>4. CASE Failure
  BY <1>4 DEF Failure, JobDies, ListingFails, GuardSees, VerifyListingFails, Verifies, ShowFails,
              OpFails, HalfCreate, HalfDelete, DropVm, Records, Fails, Goes, Ends, record, world
<1>5. CASE Guest
  BY <1>5 DEF Guest, Onboards, BootsUnregistered, OnboardingFails
<1>6. QED
  BY <1>1, <1>2, <1>3, <1>4, <1>5 DEF Next

(* A guest that settles is no more and no less to be removed.              *)
LEMMA AwaySettled ==
  ASSUME TypeOK, RecordSound, NEW i \in Id, Settles(i), NEW v \in VM
  PROVE  /\ GoesAway(inv, v)' <=> GoesAway(inv, v)
         /\ OnNode(v)' <=> OnNode(v)
<1>1. UNCHANGED inv /\ At(v)' = At(v)
  BY SettleEffect, FoundSettled
<1>2. \A j \in At(v) : machine'[j].vm = machine[j].vm /\ machine'[j].shape = machine[j].shape
  BY SettleEffect DEF At, Live
<1>3. QED
  BY <1>1, <1>2 DEF GoesAway, OnNode

(* So the names to be cleaned up stay the same.                            *)
LEMMA NamesSettled ==
  ASSUME TypeOK, RecordSound, NEW i \in Id, Settles(i)
  PROVE  PlanNames' = PlanNames /\ StateNames' = StateNames
<1>1. UNCHANGED <<inv, tfVm, tfMarker>>
  BY SettleEffect
<1>2. {v \in VM : GoesAway(inv, v)}' = {v \in VM : GoesAway(inv, v)}
  BY AwaySettled
<1>3. FromPlan(tfMarker, WantedMarker(inv))' = FromPlan(tfMarker, WantedMarker(inv))
  BY <1>1 DEF FromPlan, WantedMarker
<1>4. QED
  BY <1>1, <1>2, <1>3 DEF PlanNames, StateNames, Resolve, NoMarkers, FromState, Recorded

(* Every step keeps the names still to be read explained.                  *)
LEMMA NamesStep ==
  ASSUME TypeOK, RecordSound, NamesSound, [Next]_vars
  PROVE  NamesSound'
<1> SUFFICES ASSUME pc' = "clean"
             PROVE  names' \subseteq (IF kind' = "apply" THEN PlanNames' ELSE StateNames')
  BY DEF NamesSound
<1>1. CASE UNCHANGED <<inv, tfVm, tfMarker, machine>>
  <2>1. PlanNames' = PlanNames /\ StateNames' = StateNames
    BY <1>1 DEF PlanNames, StateNames, Resolve, NoMarkers, FromPlan, FromState, WantedMarker,
                GoesAway, At, Live, Recorded
  <2>2. CASE CollectFromPlan \/ CollectFromState
    BY <2>1, <2>2 DEF CollectFromPlan, CollectFromState, Collects, Goes
  <2>3. CASE pc = "clean" /\ names' \subseteq names /\ kind' = kind
    BY <2>1, <2>3 DEF NamesSound
  <2>4. CASE \E i \in Id : Settles(i)
    BY <2>1, <2>4 DEF NamesSound, Settles, job
  <2>5. QED
    BY <2>2, <2>3, <2>4, CleanMovers
<1>2. ASSUME NEW i \in Id, Settles(i)
      PROVE  names' \subseteq (IF kind' = "apply" THEN PlanNames' ELSE StateNames')
  BY <1>2, NamesSettled DEF NamesSound, Settles, job
<1>3. CollectFromPlan \/ CollectFromState => UNCHANGED <<inv, tfVm, tfMarker, machine>>
  BY DEF CollectFromPlan, CollectFromState, Collects, Goes, record, world
<1>4. QED
  BY <1>1, <1>2, <1>3, CleanMovers

(* A resource appears in Azure or leaves it only by an onboarding guest or *)
(* by the cleanup.                                                         *)
LEMMA AzureMovers ==
  ASSUME [Next]_vars
  PROVE  \/ UNCHANGED azure
         \/ \E i \in Id : Onboards(i)
         \/ \E n \in ArcName : DeleteMachine(n)
<1> SUFFICES ASSUME azure' # azure
             PROVE  (\E i \in Id : Onboards(i)) \/ \E n \in ArcName : DeleteMachine(n)
  OBVIOUS
<1>1. ~UNCHANGED vars /\ ~People
  BY DEF vars, world, People, Push, SetBootstrap, SetArcCredentials, LoseState,
              StartApply, StartDestroy
<1>2. ~Failure
  BY DEF Failure, JobDies, ListingFails, GuardSees, VerifyListingFails, Verifies, ShowFails, OpFails,
              HalfCreate, HalfDelete, DropVm, Fails, world
<1>3. Guest => \E i \in Id : Onboards(i)
  BY DEF Guest, BootsUnregistered, OnboardingFails
<1>4. JobStep => \E n \in ArcName : DeleteMachine(n)
  BY DEF JobStep, Guard, GuardSees, CollectFromPlan, CollectFromState, Collects,
              MachineAbsent, CleanupDone, CreateVm, DeleteVm, WriteFile, DeleteFile, WriteMarker,
              DeleteMarker, WriteConfig, DeleteConfig, TerraformExits, VerifyApply,
              VerifyDestroy, Verifies, world
<1>5. QED
  BY <1>1, <1>2, <1>3, <1>4 DEF Next

(* A resource disappears from Azure only by the cleanup.                   *)
LEMMA OnlyCleanupDeletes ==
  ASSUME TypeOK, [Next]_vars, NEW n \in ArcName, azure[n] # None, azure'[n] = None
  PROVE  DeleteMachine(n)
<1>1. ASSUME NEW i \in Id, Onboards(i) PROVE FALSE
  BY <1>1, NoneAssumption, TypeOK DEF TypeOK, Onboards
<1>2. ASSUME NEW m \in ArcName, DeleteMachine(m) PROVE m = n
  BY <1>2, TypeOK DEF TypeOK, DeleteMachine
<1>3. QED
  BY <1>1, <1>2, AzureMovers

-------------------------------------------------------------------------------
(* Resources whose guest is gone.                                          *)

(* A resource has the name its guest was built with, so no guest has two.  *)
Registered ==
  \A n \in ArcName : azure[n] # None =>
    machine[azure[n]] # None /\ machine[azure[n]].arc = n

(* From the collection of names to the end of Terraform's work, the        *)
(* resource of a guest that is to be removed is still to be deleted or is  *)
(* accounted for.                                                          *)
CleanupSound ==
  /\ pc = "apply" => names = {}
  /\ pc \in {"clean", "apply"} =>
       \A n \in ArcName : azure[n] \in DoomedIds => n \in names \/ azure[n] \in excused

(* What Terraform may still delete is to be removed: it is the guest of    *)
(* another VM, or nothing declared can be reached from it in place.        *)
DeletionsSound ==
  kind = "apply" =>
    \A v \in VM : Op("delete", "vm", v) \in todo =>
      \A g \in At(v) : inv[v] = None \/ machine[g].vm # v \/ machine[g].shape # inv[v].shape

OInv == Registered /\ CleanupSound /\ DeletionsSound /\ OrphanExplained

(* How a step may change what is registered, removed or accounted for.     *)
LEMMA OrphanMovers ==
  ASSUME PlanSound, [Next]_vars
  PROVE  \/ /\ UNCHANGED <<azure, excused, machine>>
            /\ pc' \notin {"clean", "apply"} /\ todo' = {}
         \/ /\ UNCHANGED <<azure, excused, machine, tfVm, pc, kind, inv, names>>
            /\ todo' \subseteq todo
         \/ CollectFromPlan \/ CollectFromState
         \/ \E n \in ArcName : DeleteMachine(n) \/ MachineAbsent(n) \/ ShowFails(n)
         \/ CleanupDone
         \/ \E v \in VM : CreateVm(v) \/ DeleteVm(v) \/ HalfCreate(v) \/ HalfDelete(v) \/ DropVm(v)
         \/ Guest
<1> DEFINE over == /\ UNCHANGED <<azure, excused, machine>>
                   /\ pc' \notin {"clean", "apply"} /\ todo' = {}
           aside == /\ UNCHANGED <<azure, excused, machine, tfVm, pc, kind, inv, names>>
                    /\ todo' \subseteq todo
<1>1. CASE UNCHANGED vars
  BY <1>1 DEF vars, record, world, job, ghosts
<1>2. CASE People
  <2>1. UNCHANGED <<azure, excused, machine>>
    BY <1>2 DEF People, Push, SetBootstrap, SetArcCredentials, LoseState, StartApply,
                StartDestroy, world, ghosts
  <2>2. pc' \notin {"clean", "apply"} /\ todo' = {}
    BY <1>2 DEF PlanSound, People, Push, SetBootstrap, SetArcCredentials, LoseState, StartApply,
                StartDestroy, job
  <2>3. QED
    BY <2>1, <2>2
<1>3. CASE JobStep
  <2>1. CASE Guard
    <3>1. over
      BY <2>1 DEF PlanSound, Guard, GuardSees, Goes, Ends, world, ghosts
    <3>2. QED
      BY <3>1
  <2>2. ASSUME NEW op \in Ops, Done(op), UNCHANGED <<tfVm, world, ghosts>>
        PROVE  aside
    BY <2>2 DEF Done, Records, world, ghosts
  <2>3. ASSUME NEW v \in VM, WriteFile(v) \/ DeleteFile(v) \/ WriteMarker(v) \/ DeleteMarker(v)
        PROVE  \E op \in Ops : Done(op) /\ UNCHANGED <<tfVm, world, ghosts>>
    BY <2>3 DEF WriteFile, DeleteFile, WriteMarker, DeleteMarker, Ops, Op
  <2>4. CASE WriteConfig \/ DeleteConfig
    <3>1. \E op \in Ops : Done(op) /\ UNCHANGED <<tfVm, world, ghosts>>
      BY <2>4 DEF WriteConfig, DeleteConfig, Ops, Op
    <3>2. QED
      BY <3>1, <2>2
  <2>5. CASE TerraformExits \/ VerifyApply \/ VerifyDestroy
    <3>1. over
      BY <2>5 DEF PlanSound, TerraformExits, VerifyApply, VerifyDestroy, Verifies, Goes,
                  Ends, world, ghosts
    <3>2. QED
      BY <3>1
  <2>6. QED
    BY <1>3, <2>1, <2>2, <2>3, <2>4, <2>5 DEF JobStep
<1>4. CASE Failure
  <2>1. CASE JobDies \/ ListingFails \/ VerifyListingFails
    <3>1. over
      BY <2>1 DEF PlanSound, JobDies, ListingFails, GuardSees, VerifyListingFails, Verifies, Goes,
                  Ends, world, ghosts
    <3>2. QED
      BY <3>1
  <2>2. CASE \E op \in todo : OpFails(op)
    <3>1. aside
      BY <2>2 DEF OpFails, Fails, ghosts
    <3>2. QED
      BY <3>1
  <2>3. QED
    BY <1>4, <2>1, <2>2 DEF Failure
<1>5. QED
  BY <1>1, <1>2, <1>3, <1>4 DEF Next

(* A step that finds no guest anew removes none but what was to be removed. *)
LEMMA DoomedLess ==
  ASSUME UNCHANGED <<kind, inv>>,
         \A w \in VM : At(w)' \subseteq At(w),
         \A i \in Id : Live(i)' => machine'[i].vm = machine[i].vm /\ machine'[i].shape = machine[i].shape
  PROVE  Doomed' \subseteq Doomed /\ DoomedIds' \subseteq DoomedIds
<1>1. ASSUME NEW w \in VM, NEW g \in At(w)'
      PROVE  /\ g \in At(w) /\ g \in Id
             /\ machine'[g].vm = machine[g].vm /\ machine'[g].shape = machine[g].shape
  BY <1>1 DEF At
<1>2. ASSUME NEW w \in Doomed' PROVE w \in Doomed
  <2>1. w \in VM /\ (IF kind = "apply" THEN GoesAway(inv, w)' ELSE OnNode(w)')
    BY <1>2 DEF Doomed
  <2>2. CASE kind = "apply"
    <3>1. PICK g \in At(w)' : inv[w] = None \/ machine'[g].vm # w \/ machine'[g].shape # inv[w].shape
      BY <2>1, <2>2 DEF GoesAway
    <3>2. QED
      BY <1>1, <2>1, <2>2, <3>1 DEF Doomed, GoesAway
  <2>3. CASE kind # "apply"
    BY <1>1, <2>1, <2>3 DEF Doomed, OnNode
  <2>4. QED
    BY <2>2, <2>3
<1>3. QED
  BY <1>1, <1>2 DEF DoomedIds, Doomed

(* A step that leaves guests, record and job alone changes nothing of it.  *)
LEMMA DoomedSame ==
  ASSUME UNCHANGED <<kind, inv, tfVm, machine>>
  PROVE  /\ Doomed' = Doomed /\ DoomedIds' = DoomedIds
         /\ \A v \in VM : At(v)' = At(v)
BY DEF DoomedIds, Doomed, GoesAway, OnNode, At, Recorded, Live

(* The guests to be removed run.                                           *)
LEMMA DoomedLive ==
  ASSUME NEW i \in DoomedIds
  PROVE  i \in Id /\ Live(i) /\ \E v \in Doomed : i \in At(v)
BY DEF DoomedIds, Doomed, At

(* A guest that a deletion still to be done finds is one to be removed.    *)
LEMMA DeletionDoomed ==
  ASSUME DeletionsSound, kind \in {"apply", "destroy"}, NEW v \in VM, Op("delete", "vm", v) \in todo
  PROVE  At(v) \subseteq DoomedIds
BY DEF DeletionsSound, DoomedIds, Doomed, GoesAway, OnNode

(* Collecting the names of the guests to be removed misses no resource but *)
(* those that are accounted for from then on.                              *)
LEMMA OrphanCollects ==
  ASSUME TypeOK, PlanSound, OInv, CollectFromPlan \/ CollectFromState
  PROVE  OInv'
<1>1. PICK found :
        /\ found \in {PlanNames, StateNames}
        /\ found = IF kind = "apply" THEN PlanNames ELSE StateNames
        /\ Collects(found)
  BY DEF CollectFromPlan, CollectFromState
<1>2. /\ UNCHANGED <<azure, machine, tfVm, kind, inv, todo, stuck>> /\ pc = "plan" /\ pc' = "clean"
      /\ names' = (IF arcOn THEN found ELSE {}) /\ excused' = excused \cup Unfindable
  BY <1>1 DEF Collects, Goes, record, world
<1>3. DoomedIds' = DoomedIds /\ \A v \in VM : At(v)' = At(v)
  BY <1>2, DoomedSame
<1>4. ASSUME NEW n \in ArcName, azure[n] \in DoomedIds
      PROVE  n \in names' \/ azure[n] \in excused'
  <2>1. PICK v \in Doomed : azure[n] \in At(v)
    BY <1>4, DoomedLive
  <2>2. v \in VM /\ Recorded(v) /\ azure[n] # None
    BY <2>1, NoneAssumption DEF Doomed, At
  <2>3. machine[azure[n]].arc = n
    BY <2>1, <2>2 DEF OInv, Registered
  <2>4. CASE ~arcOn \/ tfMarker[v] # n
    BY <1>2, <2>1, <2>2, <2>3, <2>4 DEF Unfindable
  <2>5. CASE arcOn /\ tfMarker[v] = n
    <3>1. n # None
      BY NamesAssumption
    <3>2. CASE kind = "apply"
      <4> DEFINE planned == FromPlan(tfMarker, WantedMarker(inv))
      <4>1. planned[v] = n /\ v \in DOMAIN planned
        BY <2>2, <2>5, <3>1, TypeOK DEF TypeOK, FromPlan
      <4>2. GoesAway(inv, v)
        BY <2>1, <3>2 DEF Doomed
      <4>3. n \in PlanNames
        BY <2>2, <3>1, <4>1, <4>2 DEF PlanNames, Resolve, NoMarkers
      <4>4. QED
        BY <1>1, <1>2, <2>5, <3>2, <4>3
    <3>3. CASE kind # "apply"
      <4>1. n \in StateNames
        BY <2>2, <2>5, <3>1, TypeOK DEF TypeOK, StateNames, FromState, Resolve, NoMarkers
      <4>2. QED
        BY <1>1, <1>2, <2>5, <3>3, <4>1
    <3>4. QED
      BY <3>2, <3>3
  <2>6. QED
    BY <2>4, <2>5
<1>5. Registered'
  BY <1>2 DEF OInv, Registered
<1>6. CleanupSound'
  BY <1>2, <1>3, <1>4 DEF CleanupSound
<1>7. DeletionsSound'
  BY <1>2, <1>3 DEF OInv, DeletionsSound
<1>8. OrphanExplained'
  BY <1>2 DEF OInv, OrphanExplained, Live
<1>9. QED
  BY <1>5, <1>6, <1>7, <1>8 DEF OInv

(* The cleanup deletes the resource of a name, finds none, or takes it for *)
(* absent.                                                                 *)
LEMMA OrphanCleans ==
  ASSUME TypeOK, OInv, NEW n \in ArcName, DeleteMachine(n) \/ MachineAbsent(n) \/ ShowFails(n)
  PROVE  OInv'
<1>1. /\ UNCHANGED <<machine, tfVm, pc, kind, inv, todo, stuck>> /\ pc = "clean"
      /\ names' = names \ {n}
  BY DEF DeleteMachine, MachineAbsent, ShowFails, record, world
<1>2. DoomedIds' = DoomedIds /\ \A v \in VM : At(v)' = At(v)
  BY <1>1, DoomedSame
<1>3. DeletionsSound'
  BY <1>1, <1>2 DEF OInv, DeletionsSound
<1>4. \A m \in ArcName \ {n} : azure'[m] = azure[m]
  BY TypeOK DEF TypeOK, DeleteMachine, MachineAbsent, ShowFails, world
<1>5. azure'[n] \in {azure[n], None}
  BY TypeOK DEF TypeOK, DeleteMachine, MachineAbsent, ShowFails, world
<1>6. Registered'
  BY <1>1, <1>4, <1>5 DEF OInv, Registered
<1>7. ASSUME NEW m \in ArcName \ {n}, azure[m] \in excused, azure[m] # None PROVE azure[m] \in excused'
  <2>1. azure[m] # azure[n]
    BY <1>7 DEF OInv, Registered
  <2>2. QED
    BY <1>7, <2>1 DEF DeleteMachine, MachineAbsent, ShowFails, ghosts
<1>8. azure'[n] = None \/ azure'[n] \in excused'
  BY TypeOK DEF TypeOK, DeleteMachine, MachineAbsent, ShowFails, world
<1>9. None \notin DoomedIds
  BY DoomedLive, NoneAssumption
<1>10. CleanupSound'
  BY <1>1, <1>2, <1>4, <1>7, <1>8, <1>9 DEF OInv, CleanupSound
<1>11. OrphanExplained'
  BY <1>1, <1>4, <1>7, <1>8 DEF OInv, OrphanExplained, Live
<1>12. QED
  BY <1>3, <1>6, <1>10, <1>11 DEF OInv

(* Terraform starts on what the job was to remove all along.               *)
LEMMA OrphanPlans ==
  ASSUME TypeOK, NumbersSound, OInv, CleanupDone
  PROVE  OInv'
<1>1. /\ UNCHANGED <<azure, machine, excused, kind, inv, names>> /\ tfVm' = Refreshed
      /\ pc = "clean" /\ pc' = "apply" /\ names = {}
      /\ todo' = IF kind = "apply" THEN ApplyOps(inv) ELSE DestroyOps
  BY DEF CleanupDone, Goes, world, ghosts
<1>2. ASSUME NEW v \in VM PROVE At(v)' = At(v)
  BY <1>1 DEF Refreshed, OnNode, At, Recorded, Live
<1>3. DoomedIds' = DoomedIds
  BY <1>1, <1>2 DEF DoomedIds, Doomed, GoesAway, OnNode
<1>4. ASSUME NEW v \in VM, Op("delete", "vm", v) \in ApplyOps(inv) PROVE GoesAway(inv, v)
  BY <1>4 DEF ApplyOps, Op
<1>5. DeletionsSound'
  <2>1. ASSUME kind = "apply", NEW v \in VM, Op("delete", "vm", v) \in todo', NEW g \in At(v)
        PROVE  inv[v] = None \/ machine[g].vm # v \/ machine[g].shape # inv[v].shape
    <3>1. PICK h \in At(v) : inv[v] = None \/ machine[h].vm # v \/ machine[h].shape # inv[v].shape
      BY <1>1, <1>4, <2>1 DEF GoesAway
    <3>2. g = h
      BY <2>1 DEF At, NumbersSound
    <3>3. QED
      BY <3>1, <3>2
  <2>2. QED
    BY <1>1, <1>2, <2>1 DEF DeletionsSound
<1>6. CleanupSound'
  BY <1>1, <1>3 DEF OInv, CleanupSound
<1>7. QED
  BY <1>1, <1>5, <1>6 DEF OInv, Registered, OrphanExplained, Live

(* A guest is built under an id nothing was registered by.                 *)
LEMMA OrphanBuilds ==
  ASSUME TypeOK, RecordSound, NumbersSound, PlanSound, OInv, NEW v \in VM, CreateVm(v) \/ HalfCreate(v)
  PROVE  OInv'
<1>1. PICK i \in Fresh : NewGuest(v, i) /\ tfVm' \in {tfVm, [tfVm EXCEPT ![v] = i]}
  BY CreateEffect
<1>2. /\ UNCHANGED <<azure, excused, pc, kind, inv, names>> /\ pc = "apply"
      /\ todo' \subseteq todo /\ Op("delete", "vm", v) \notin todo
  BY DEF CreateVm, HalfCreate, Done, Records, Fails, Ready, Waits, Op, ghosts
<1>3. /\ i \in Id /\ machine[i] = None /\ \A j \in Id \ {i} : machine'[j] = machine[j]
      /\ Live(i)' /\ machine'[i].vm = v
  BY <1>1 DEF NewGuest
<1>4. ASSUME NEW n \in ArcName, azure[n] # None PROVE azure[n] \in Id \ {i}
  BY <1>3, <1>4 DEF TypeOK, OInv, Registered
<1>5. ASSUME NEW w \in VM
      PROVE  \/ At(w)' = At(w) /\ i \notin At(w)
             \/ At(w) = {} /\ At(w)' \subseteq {i}
  <2>1. CASE tfVm'[w] = tfVm[w]
    <3>1. i \notin At(w)
      BY <1>3 DEF At, Live
    <3>2. QED
      BY <1>1, <2>1, <3>1, FoundAnew DEF OnNode
  <2>2. CASE tfVm'[w] # tfVm[w]
    <3>1. w = v /\ tfVm'[v] = i
      BY <1>1, <2>2 DEF TypeOK
    <3>2. At(w) = {}
      BY <3>1, CreatedOverNothing DEF OnNode
    <3>3. ASSUME NEW j \in Id \ {i}, Live(j)' PROVE machine'[j].vmid # machine'[i].vmid
      BY <1>1, <3>3 DEF NewGuest
    <3>4. At(w)' \subseteq {i}
      BY <3>1, <3>3 DEF At
    <3>5. QED
      BY <3>2, <3>4
  <2>3. QED
    BY <2>1, <2>2
<1>6. ASSUME NEW j \in DoomedIds', j # i PROVE j \in DoomedIds
  <2>1. PICK w \in VM : w \in Doomed' /\ j \in At(w)'
    BY <1>6 DEF DoomedIds, Doomed
  <2>2. At(w)' = At(w) /\ i \notin At(w) /\ At(w) \subseteq Id
    BY <1>5, <1>6, <2>1 DEF At
  <2>3. \A g \in At(w) : machine'[g] = machine[g]
    BY <1>3, <2>2
  <2>4. w \in Doomed
    BY <1>2, <2>1, <2>2, <2>3 DEF Doomed, GoesAway, OnNode
  <2>5. QED
    BY <2>1, <2>2, <2>4 DEF DoomedIds
<1>7. CleanupSound'
  <2>1. None \notin DoomedIds'
    BY NoneAssumption DEF DoomedIds, Doomed, At
  <2>2. ASSUME NEW n \in ArcName, azure[n] \in DoomedIds' PROVE azure[n] \in DoomedIds
    BY <1>4, <1>6, <2>1, <2>2
  <2>3. QED
    BY <1>2, <2>2 DEF OInv, CleanupSound
<1>8. DeletionsSound'
  <2>1. ASSUME kind = "apply", NEW w \in VM, Op("delete", "vm", w) \in todo', NEW g \in At(w)'
        PROVE  inv[w] = None \/ machine'[g].vm # w \/ machine'[g].shape # inv[w].shape
    <3>1. w # v /\ Op("delete", "vm", w) \in todo
      BY <1>2, <2>1
    <3>2. CASE g = i
      BY <1>3, <3>1, <3>2
    <3>3. CASE g # i
      <4>1. g \in At(w) /\ g \in Id
        BY <1>5, <2>1, <3>3 DEF At
      <4>2. machine'[g] = machine[g]
        BY <1>3, <3>3, <4>1
      <4>3. QED
        BY <2>1, <3>1, <4>1, <4>2 DEF OInv, DeletionsSound
    <3>4. QED
      BY <3>2, <3>3
  <2>2. QED
    BY <1>2, <2>1 DEF DeletionsSound
<1>9. Registered' /\ OrphanExplained'
  BY <1>2, <1>3, <1>4 DEF OInv, Registered, OrphanExplained, Live
<1>10. QED
  BY <1>7, <1>8, <1>9 DEF OInv

(* A step that takes no guest from its resources and adds no deletion.     *)
LEMMA OrphanShrinks ==
  ASSUME OInv, UNCHANGED <<azure, excused, pc, kind, inv, names>>, todo' \subseteq todo,
         \A w \in VM : At(w)' \subseteq At(w),
         \A i \in Id : /\ machine'[i] = None <=> machine[i] = None
                       /\ machine[i] # None => /\ machine'[i].vm = machine[i].vm
                                               /\ machine'[i].arc = machine[i].arc
                                               /\ machine'[i].shape = machine[i].shape,
         \A n \in ArcName : azure[n] # None => azure[n] \in Id,
         \A i \in Id : Live(i) =>
           Live(i)' \/ \A n \in ArcName : azure[n] = i => i \in excused
  PROVE  OInv'
<1>1. DoomedIds' \subseteq DoomedIds
  BY DoomedLess DEF Live
<1>2. CleanupSound'
  BY <1>1 DEF OInv, CleanupSound
<1>3. DeletionsSound'
  BY DEF OInv, DeletionsSound, At, Live
<1>4. Registered'
  BY DEF OInv, Registered
<1>5. OrphanExplained'
  BY DEF OInv, OrphanExplained
<1>6. QED
  BY <1>2, <1>3, <1>4, <1>5 DEF OInv

(* A guest that Terraform deletes has no resource that is not accounted    *)
(* for.                                                                    *)
LEMMA OrphanDeletes ==
  ASSUME TypeOK, RecordSound, PlanSound, OInv, NEW v \in VM,
         DeleteVm(v) \/ HalfDelete(v) \/ DropVm(v)
  PROVE  OInv'
<1>1. /\ UNCHANGED <<azure, excused, pc, kind, inv, names>> /\ pc = "apply"
      /\ Op("delete", "vm", v) \in todo /\ todo' \subseteq todo
  BY DEF DeleteVm, HalfDelete, DropVm, Done, Records, Fails, Ready, world, ghosts
<1>2. \A n \in ArcName : azure[n] # None => azure[n] \in Id
  BY DEF TypeOK
<1>3. CASE DropVm(v)
  <2>1. UNCHANGED machine /\ tfVm' = [tfVm EXCEPT ![v] = None]
    BY <1>3 DEF DropVm, world
  <2>2. \A w \in VM : At(w)' \subseteq At(w)
    BY <2>1 DEF TypeOK, At, Recorded, Live
  <2>3. QED
    BY <1>1, <1>2, <2>1, <2>2, OrphanShrinks DEF Live
<1>4. CASE DeleteVm(v) \/ HalfDelete(v)
  <2>1. Removed(v)
    BY <1>4, DeleteEffect
  <2>2. \A w \in VM : At(w)' \subseteq At(w)
    BY <2>1, FoundLess
  <2>3. ASSUME NEW n \in ArcName, azure[n] \in At(v) PROVE azure[n] \in excused
    <3>1. azure[n] \in DoomedIds
      BY <1>1, <2>3, DeletionDoomed DEF TypeOK, OInv
    <3>2. QED
      BY <1>1, <3>1 DEF OInv, CleanupSound
  <2>4. \A i \in Id : Live(i) => Live(i)' \/ \A n \in ArcName : azure[n] = i => i \in excused
    BY <2>1, <2>3 DEF Removed
  <2>5. \A i \in Id : /\ machine'[i] = None <=> machine[i] = None
                      /\ machine[i] # None => /\ machine'[i].vm = machine[i].vm
                                              /\ machine'[i].arc = machine[i].arc
                                              /\ machine'[i].shape = machine[i].shape
    BY <2>1 DEF Removed
  <2>6. QED
    BY <1>1, <1>2, <2>2, <2>4, <2>5, OrphanShrinks
<1>5. QED
  BY <1>3, <1>4

(* A guest that registers is there; if it is to be removed and its name    *)
(* has been dealt with, it is accounted for.                               *)
LEMMA OrphanRegisters ==
  ASSUME TypeOK, RecordSound, OInv, Guest
  PROVE  OInv'
<1>1. PICK i \in Id : Settles(i) /\ (Onboards(i) \/ UNCHANGED <<azure, excused>>)
  BY DEF Guest, Onboards, BootsUnregistered, OnboardingFails
<1>2. /\ UNCHANGED <<tfVm, pc, kind, inv, names, todo, stuck>>
      /\ \A j \in Id : /\ machine'[j] = None <=> machine[j] = None
                       /\ Live(j)' <=> Live(j)
                       /\ machine[j] # None => /\ machine'[j].vm = machine[j].vm
                                               /\ machine'[j].arc = machine[j].arc
                                               /\ machine'[j].shape = machine[j].shape
      /\ machine[i] # None /\ Live(i)
  BY <1>1, SettleEffect DEF Live
<1>3. \A w \in VM : At(w)' = At(w)
  BY <1>1, FoundSettled
<1>4. \A n \in ArcName : azure[n] # None => azure[n] \in Id
  BY DEF TypeOK
<1>5. CASE UNCHANGED <<azure, excused>>
  BY <1>2, <1>3, <1>4, <1>5, OrphanShrinks
<1>6. CASE Onboards(i)
  <2> DEFINE n == machine[i].arc
  <2>1. /\ n \in ArcName /\ azure[n] = None /\ azure' = [azure EXCEPT ![n] = i]
        /\ excused' = IF pc \in {"clean", "apply"} /\ i \in DoomedIds /\ n \notin names
                      THEN excused \cup {i} ELSE excused
    BY <1>6 DEF Onboards, Available
  <2>2. azure'[n] = i /\ \A m \in ArcName \ {n} : azure'[m] = azure[m]
    BY <2>1 DEF TypeOK
  <2>3. DoomedIds' \subseteq DoomedIds
    BY <1>2, <1>3, DoomedLess DEF Live
  <2>4. Registered'
    BY <1>2, <1>4, <2>2 DEF OInv, Registered
  <2>5. CleanupSound'
    <3>1. ASSUME pc \in {"clean", "apply"}, NEW m \in ArcName, azure'[m] \in DoomedIds
          PROVE  m \in names \/ azure'[m] \in excused'
      BY <2>1, <2>2, <3>1 DEF OInv, CleanupSound
    <3>2. QED
      BY <1>2, <2>3, <3>1 DEF OInv, CleanupSound
  <2>6. DeletionsSound'
    BY <1>2, <1>3 DEF OInv, DeletionsSound, At, Live
  <2>7. OrphanExplained'
    BY <1>2, <1>4, <2>1, <2>2 DEF OInv, OrphanExplained
  <2>8. QED
    BY <2>4, <2>5, <2>6, <2>7 DEF OInv
<1>7. QED
  BY <1>1, <1>5, <1>6

(* Every step leaves what outlives its guest accounted for.                *)
LEMMA OrphanStep ==
  ASSUME TypeOK, RecordSound, NumbersSound, PlanSound, OInv, [Next]_vars
  PROVE  OInv'
<1>1. CASE /\ UNCHANGED <<azure, excused, machine>>
           /\ pc' \notin {"clean", "apply"} /\ todo' = {}
  BY <1>1 DEF OInv, Registered, CleanupSound, DeletionsSound, OrphanExplained, Live
<1>2. CASE /\ UNCHANGED <<azure, excused, machine, tfVm, pc, kind, inv, names>>
           /\ todo' \subseteq todo
  <2>1. DoomedIds' = DoomedIds /\ \A v \in VM : At(v)' = At(v)
    BY <1>2, DoomedSame
  <2>2. QED
    BY <1>2, <2>1 DEF OInv, Registered, CleanupSound, DeletionsSound, OrphanExplained, Live
<1>3. QED
  BY <1>1, <1>2, OrphanMovers, OrphanCollects, OrphanCleans, OrphanPlans, OrphanBuilds,
     OrphanDeletes, OrphanRegisters

-------------------------------------------------------------------------------
(* The theorems.                                                           *)

IInv ==
  /\ TypeOK
  /\ RecordSound
  /\ NumbersSound
  /\ PlanSound
  /\ UntrackedExplained
  /\ WipedMeansEmpty
  /\ WipedRecordNotBuiltOn
  /\ NamesSound

(* The inductive invariant holds in the first state.                       *)
LEMMA IInvInit == Init => IInv
<1> SUFFICES ASSUME Init PROVE IInv
  OBVIOUS
<1>1. RecordSound /\ PlanSound
  BY DEF Init, RecordSound, Recorded, Empty, PlanSound
<1>2. UntrackedExplained
  BY DEF Init, UntrackedExplained, Live
<1>3. WipedMeansEmpty /\ WipedRecordNotBuiltOn /\ NamesSound
  BY DEF Init, WipedMeansEmpty, WipedRecordNotBuiltOn, NamesSound
<1>4. NumbersSound
  BY DEF Init, NumbersSound, Live, At
<1>5. QED
  BY <1>1, <1>2, <1>3, <1>4, TypeInit DEF IInv

(* The inductive invariant is kept by every step.                          *)
LEMMA IInvStep == IInv /\ [Next]_vars => IInv'
BY TypeStep, RecordStep, NumbersStep, PlanStep, UntrackedStep, WipedStep, GuardedStep,
   NamesStep DEF IInv

(* The inductive invariant holds throughout.                               *)
LEMMA Invariance == Spec => []IInv
BY IInvInit, IInvStep, PTL DEF Spec

(* Every variable keeps its type, whatever the job, its failures, the      *)
(* guests and the people do.                                               *)
THEOREM TypeCorrect == Spec => []TypeOK
<1>1. IInv => TypeOK
  BY DEF IInv
<1>2. QED
  BY <1>1, Invariance, PTL

(* A running guest that state does not know is one whose record was lost or*)
(* dropped by a delete that did not delete, or one that a failed create    *)
(* left; no plan, replacement, reuse of a VMID, destroy or interruption    *)
(* leaves any other.                                                       *)
THEOREM UntrackedCorrect == Spec => []UntrackedExplained
<1>1. IInv => UntrackedExplained
  BY DEF IInv
<1>2. QED
  BY <1>1, Invariance, PTL

(* Once a populated state is lost, the guard keeps every apply that        *)
(* declares VMs from going on, for any inventory, until something is       *)
(* recorded again or TF_BOOTSTRAP vouches for a missing file.              *)
THEOREM GuardCorrect == Spec => []WipedRecordNotBuiltOn
<1>1. IInv => WipedRecordNotBuiltOn
  BY DEF IInv
<1>2. QED
  BY <1>1, Invariance, PTL

(* An Arc resource outlives its guest only through one of the known gaps,  *)
(* in every order of jobs, guests and failures, a removal of the wrong     *)
(* guest under a VMID used again included.                                 *)
THEOREM OrphanCorrect == Spec => []OrphanExplained
<1>1. Init => OInv
  BY DEF Init, OInv, Registered, CleanupSound, DeletionsSound, OrphanExplained
<1>2. OInv /\ IInv /\ [Next]_vars => OInv'
  BY OrphanStep DEF IInv
<1>3. OInv => OrphanExplained
  BY DEF OInv
<1>4. QED
  BY <1>1, <1>2, <1>3, Invariance, PTL DEF Spec

(* What a name given to the cleanup is: the name of a removed VM, or, in a *)
(* document without markers, a VM that is removed.                         *)
LEMMA ResolveSource ==
  ASSUME NEW gone \in SUBSET VM, NEW mapping \in [VM -> ArcName \cup {None}],
         NEW n \in Resolve(gone, mapping)
  PROVE  \/ \A v \in VM : mapping[v] = None
         \/ \E v \in gone : mapping[v] = n
BY DEF Resolve, NoMarkers

(* Every step spares the resources of guests that stay.                    *)
LEMMA InnocentStep ==
  ASSUME TypeOK, UntrackedExplained, NamesSound, [Next]_vars,
         NEW n \in ArcName, azure[n] # None, azure'[n] = None
  PROVE  LET i == azure[n] IN
           \/ ~Live(i) \/ i \in DoomedIds \/ i \in forgotten \cup halfBuilt
           \/ \E v \in VM : tfVm[v] = i /\ tfMarker[v] # n
           \/ \E v \in Doomed : n \in {tfMarker[v], WantedMarker(inv)[v]}
<1> DEFINE i == azure[n]
<1> SUFFICES ASSUME Live(i), i \notin forgotten \cup halfBuilt
             PROVE  \/ i \in DoomedIds
                    \/ \E v \in VM : tfVm[v] = i /\ tfMarker[v] # n
                    \/ \E v \in Doomed : n \in {tfMarker[v], WantedMarker(inv)[v]}
  OBVIOUS
<1>1. i \in Id
  BY TypeOK DEF TypeOK
<1>2. PICK v \in VM : tfVm[v] = i
  BY <1>1, UntrackedExplained DEF UntrackedExplained, RecordedIds
<1>3. i \in At(v) /\ OnNode(v)
  BY <1>1, <1>2, OwnFound, NoneAssumption DEF Recorded
<1>4. n \in (IF kind = "apply" THEN PlanNames ELSE StateNames)
  BY OnlyCleanupDeletes DEF NamesSound, DeleteMachine
<1>5. CASE kind # "apply"
  BY <1>3, <1>5 DEF DoomedIds, Doomed
<1>6. CASE kind = "apply"
  <2> DEFINE planned == FromPlan(tfMarker, WantedMarker(inv))
             gone == {w \in VM : GoesAway(inv, w)}
  <2>1. n \in Resolve(gone, planned)
    BY <1>4, <1>6 DEF PlanNames
  <2>2. planned \in [VM -> ArcName \cup {None}]
    BY MarkerMapType
  <2>3. ASSUME NEW w \in VM
        PROVE  /\ planned[w] \in {tfMarker[w], WantedMarker(inv)[w]}
               /\ planned[w] = None => tfMarker[w] = None
    BY TypeOK DEF TypeOK, FromPlan
  <2>4. CASE \A w \in VM : planned[w] = None
    BY <1>2, <2>3, <2>4, NamesAssumption
  <2>5. CASE \E w \in gone : planned[w] = n
    BY <1>6, <2>3, <2>5 DEF Doomed
  <2>6. QED
    BY <2>1, <2>2, <2>4, <2>5, ResolveSource
<1>7. QED
  BY <1>5, <1>6

(* The cleanup never deletes the Arc resource of a guest that stays, for   *)
(* any inventory and any failures, unless the guest is untracked, is known *)
(* by another name than it registered under, or is to lose its name.       *)
THEOREM InnocentCorrect == Spec => InnocentMachineKept
<1>1. IInv /\ [Next]_vars =>
        [\A n \in ArcName : azure[n] # None /\ azure'[n] = None =>
           LET i == azure[n] IN
             \/ ~Live(i) \/ i \in DoomedIds \/ i \in forgotten \cup halfBuilt
             \/ \E v \in VM : tfVm[v] = i /\ tfMarker[v] # n
             \/ \E v \in Doomed : n \in {tfMarker[v], WantedMarker(inv)[v]}]_vars
  BY InnocentStep DEF IInv
<1>2. QED
  BY <1>1, Invariance, PTL DEF Spec, InnocentMachineKept

(* A job reports success only through its own last check.                  *)
LEMMA GreenByCheck ==
  ASSUME [Next]_vars, result # "green", result' = "green"
  PROVE  VerifyApply \/ VerifyDestroy \/ VerifyListingFails
<1>1. ~UNCHANGED vars /\ ~People
  BY DEF vars, job, People, Push, SetBootstrap, SetArcCredentials, LoseState, StartApply,
         StartDestroy
<1>2. Failure => VerifyListingFails
  BY DEF Failure, JobDies, ListingFails, GuardSees, ShowFails, OpFails, HalfCreate, HalfDelete,
         DropVm, Records, Fails, Goes, Ends
<1>3. ~Guest
  BY DEF Guest, Onboards, BootsUnregistered, OnboardingFails, Settles, job
<1>4. JobStep => VerifyApply \/ VerifyDestroy
  BY DEF JobStep, Guard, GuardSees, CollectFromPlan, CollectFromState, Collects, DeleteMachine,
         MachineAbsent, CleanupDone, Done, Records, CreateVm, DeleteVm, WriteFile, DeleteFile,
         WriteMarker, DeleteMarker, WriteConfig, DeleteConfig, TerraformExits, Goes, Ends
<1>5. QED
  BY <1>1, <1>2, <1>3, <1>4 DEF Next

(* A plan that proposes nothing finds the lab as it was declared.          *)
LEMMA NothingProposed ==
  ASSUME TypeOK, RecordSound, NumbersSound, UntrackedExplained, ProposedAgain = {}
  PROVE  Converged
<1>1. ASSUME NEW v \in VM
      PROVE  /\ Op("delete", "vm", v) \notin ApplyOps(inv)
             /\ Op("write", "vm", v) \notin ApplyOps(inv)
             /\ Op("write", "marker", v) \notin ApplyOps(inv)
             /\ Op("delete", "marker", v) \notin ApplyOps(inv)
             /\ Op("write", "file", v) \in ApplyOps(inv) => v \in Snippets
  BY DEF ProposedAgain, Op
<1>2. ASSUME NEW v \in VM
      PROVE  /\ ~GoesAway(inv, v) /\ ~Built(inv, v) /\ v \notin MarkersToWrite(inv)
             /\ ~(tfMarker[v] # None /\ WantedMarker(inv)[v] = None)
             /\ Rendered(inv, v) => v \in Snippets
  BY <1>1 DEF ApplyOps
<1>3. ASSUME NEW v \in VM, inv[v] # None
      PROVE  /\ Recorded(v) /\ Live(tfVm[v]) /\ machine[tfVm[v]].shape = inv[v].shape
             /\ v \in Snippets /\ tfMarker[v] = inv[v].arc
  <2>1. PICK g \in At(v) : machine[g].vm = v /\ machine[g].shape = inv[v].shape
    BY <1>2, <1>3 DEF Built, GoesAway, OnNode
  <2>2. g = tfVm[v] /\ Live(g) /\ Recorded(v)
    BY <2>1 DEF NumbersSound, At
  <2>3. tfMarker[v] = inv[v].arc
    BY <1>2, <1>3 DEF MarkersToWrite, WantedMarker
  <2>4. v \in Snippets
    BY <1>2, <1>3, RenderingType DEF Rendered, Snippets
  <2>5. QED
    BY <2>1, <2>2, <2>3, <2>4
<1>4. ASSUME NEW i \in Id, Live(i), i \notin forgotten \cup halfBuilt
      PROVE  inv[machine[i].vm] # None /\ tfVm[machine[i].vm] = i
  <2>1. PICK v \in VM : tfVm[v] = i
    BY <1>4, UntrackedExplained DEF UntrackedExplained, RecordedIds
  <2>2. Recorded(v) /\ i \in At(v) /\ machine[i].vm = v
    BY <1>4, <2>1, OwnFound, NoneAssumption DEF RecordSound, Recorded
  <2>3. inv[v] # None
    BY <1>2, <2>2 DEF GoesAway
  <2>4. QED
    BY <2>1, <2>2, <2>3
<1>5. QED
  BY <1>3, <1>4 DEF Converged

(* A green apply has converged: what is declared runs, in its shape and on *)
(* record, and nothing else does but strays that are accounted for.        *)
THEOREM GreenApplyCorrect == Spec => GreenApplyConverged
<1>1. IInv /\ [Next]_vars =>
        [kind = "apply" /\ result # "green" /\ result' = "green" => Converged]_vars
  BY GreenByCheck, NothingProposed DEF IInv, VerifyApply, VerifyDestroy, VerifyListingFails,
                                       Verifies, Ends
<1>2. QED
  BY <1>1, Invariance, PTL DEF Spec, GreenApplyConverged

-------------------------------------------------------------------------------
(* The promise.                                                            *)

Strays == {i \in Id : Live(i) /\ i \notin RecordedIds}
Past == {i \in Id : machine[i] # None /\ ~Live(i)}
Booting == {i \in Id : Live(i) /\ machine[i].life = "booting"}

(* What the lab tracks is what state records and runs.                     *)
LEMMA TrackedLive ==
  ASSUME TypeOK
  PROVE  Promised!Tracked = {i \in RecordedIds : Live(i)}
<1>1. ASSUME NEW i \in Promised!Tracked PROVE i \in RecordedIds /\ Live(i)
  BY <1>1 DEF Promised!Tracked, Tracks, Recorded, RecordedIds
<1>2. ASSUME NEW i \in RecordedIds, Live(i) PROVE i \in Promised!Tracked
  BY <1>2 DEF Promised!Tracked, Tracks, Recorded, RecordedIds
<1>3. QED
  BY <1>1, <1>2

(* The first lab has no guest.                                             *)
LEMMA PromisedInit == Init => Promised!Init
<1> SUFFICES ASSUME Init PROVE Promised!Init
  OBVIOUS
<1>1. \A v \in VM : ~Recorded(v)
  BY DEF Init, Empty, Recorded
<1>2. Tracks = [v \in VM |-> None] /\ Outdated = {}
  BY <1>1 DEF Tracks, Outdated
<1>3. \A i \in Id : machine[i] = None
  BY DEF Init
<1>4. QED
  BY <1>2, <1>3 DEF Init, Promised!Init, Live

(* Where records go and no guest does, those that ran become strays.       *)
LEMMA PromisedLoss ==
  ASSUME TypeOK, RecordSound, NEW lost \in SUBSET VM, UNCHANGED azure,
         \A i \in Id : machine'[i] = machine[i],
         \A v \in VM : tfVm'[v] = IF v \in lost THEN None ELSE tfVm[v]
  PROVE  Promised!LoseTrack(lost)
<1> DEFINE strayed == {Tracks[v] : v \in lost} \ {None}
<1>1. \A i \in Id : Live(i)' <=> Live(i)
  BY DEF Live
<1>2. ASSUME NEW v \in VM
      PROVE  /\ Recorded(v)' <=> Recorded(v) /\ v \notin lost
             /\ Recorded(v) => tfVm[v] \in Id
             /\ v \notin lost => tfVm'[v] = tfVm[v]
  BY DEF TypeOK, Recorded
<1>3. Tracks' = [v \in VM |-> IF v \in lost THEN None ELSE Tracks[v]]
  BY <1>1, <1>2 DEF Tracks
<1>4. Outdated' = Outdated \ lost
  BY <1>1, <1>2 DEF Outdated
<1>5. ASSUME NEW i \in Id, Live(i)
      PROVE  i \in RecordedIds' <=> i \in RecordedIds /\ i \notin strayed
  <2>1. i \in strayed <=> \E v \in lost : tfVm[v] = i
    BY <1>5, NoneAssumption DEF Tracks, Recorded
  <2>2. ASSUME NEW v \in VM, NEW w \in lost, tfVm[v] = i, tfVm[w] = i PROVE v = w
    BY <2>2, RecordedOnce, NoneAssumption DEF Recorded
  <2>3. i \in RecordedIds' <=> \E v \in VM \ lost : tfVm[v] = i
    BY <1>2, NoneAssumption DEF RecordedIds
  <2>4. i \in RecordedIds <=> \E v \in VM : tfVm[v] = i
    BY NoneAssumption DEF RecordedIds
  <2>5. QED
    BY <2>1, <2>2, <2>3, <2>4
<1>6. strayed \subseteq {i \in RecordedIds : Live(i)}
  BY DEF Tracks, Recorded, RecordedIds
<1>7. RecordedIds \subseteq Id
  BY DEF TypeOK, RecordedIds
<1>8. Strays' = Strays \cup strayed
  BY <1>1, <1>5, <1>6, <1>7 DEF Strays
<1>9. Past' = Past /\ Booting' = Booting
  BY <1>1 DEF Past, Booting
<1>10. QED
  BY <1>3, <1>4, <1>8, <1>9 DEF Promised!LoseTrack, Strays, Past, Booting

(* A create that succeeds builds the guest of a VM that has none.          *)
LEMMA PromisedCreate ==
  ASSUME TypeOK, RecordSound, NumbersSound, PlanSound, NEW v \in VM, CreateVm(v)
  PROVE  \E i \in Id : Promised!Build(v, i)
<1>1. PICK i \in Fresh :
        NewGuest(v, i) /\ machine'[i].life = "booting" /\ tfVm' = [tfVm EXCEPT ![v] = i]
  BY CreateEffect
<1>2. /\ i \in Id /\ machine[i] = None /\ Live(i)' /\ ~Live(i)
      /\ \A j \in Id \ {i} : machine'[j] = machine[j] /\ (Live(j)' <=> Live(j))
      /\ \A w \in VM : tfVm[w] # i
  BY <1>1 DEF NewGuest
<1>3. tfVm[v] = None /\ ~Recorded(v) /\ azure' = azure
  BY CreatedOverNothing DEF CreateVm
<1>4. tfVm'[v] = i /\ i # None /\ \A w \in VM \ {v} : tfVm'[w] = tfVm[w] /\ tfVm[w] \in (Id \ {i}) \cup {None}
  BY <1>1, <1>2, NoneAssumption DEF TypeOK
<1>5. Tracks' = [Tracks EXCEPT ![v] = i]
  <2>1. Tracks'[v] = i /\ \A w \in VM \ {v} : Tracks'[w] = Tracks[w]
    BY <1>2, <1>4 DEF Tracks, Recorded
  <2>2. QED
    BY <2>1 DEF Tracks
<1>6. Outdated' = Outdated /\ v \notin Outdated
  BY <1>2, <1>3, <1>4 DEF Outdated, Recorded
<1>7. Strays' = Strays
  <2>1. ASSUME NEW j \in Id \ {i} PROVE j \in RecordedIds' <=> j \in RecordedIds
    BY <1>3, <1>4, NoneAssumption DEF RecordedIds
  <2>2. i \in RecordedIds'
    BY <1>4 DEF RecordedIds
  <2>3. QED
    BY <1>2, <2>1, <2>2 DEF Strays
<1>8. Past' = Past
  BY <1>2 DEF Past
<1>9. Booting' = Booting \cup {i}
  BY <1>1, <1>2 DEF Booting
<1>10. Tracks[v] = None /\ i \in Promised!Unbuilt
  BY <1>2, <1>3, TrackedLive DEF Tracks, Promised!Unbuilt
<1>11. QED
  BY <1>2, <1>3, <1>5, <1>6, <1>7, <1>8, <1>9, <1>10 DEF Promised!Build, Strays, Past, Booting

(* A create that fails halfway leaves a stray.                             *)
LEMMA PromisedHalf ==
  ASSUME TypeOK, RecordSound, NumbersSound, PlanSound, NEW v \in VM, HalfCreate(v)
  PROVE  \E i \in Id : Promised!Abandon(i)
<1>1. PICK i \in Fresh : NewGuest(v, i) /\ UNCHANGED tfVm
  BY CreateEffect
<1>2. /\ i \in Id /\ machine[i] = None /\ Live(i)' /\ ~Live(i)
      /\ \A j \in Id \ {i} : machine'[j] = machine[j] /\ (Live(j)' <=> Live(j))
      /\ \A w \in VM : tfVm[w] # i
  BY <1>1 DEF NewGuest
<1>3. azure' = azure
  BY DEF HalfCreate, Fails
<1>4. \A w \in VM : tfVm[w] \in (Id \ {i}) \cup {None}
  BY <1>2 DEF TypeOK
<1>5. Tracks' = Tracks /\ Outdated' = Outdated
  BY <1>1, <1>2, <1>4 DEF Tracks, Outdated, Recorded
<1>6. Strays' = Strays \cup {i}
  BY <1>1, <1>2 DEF Strays, RecordedIds
<1>7. Past' = Past
  BY <1>2 DEF Past
<1>8. Booting' \in {Booting, Booting \cup {i}}
  <2>1. CASE machine'[i].life = "booting"
    <3>1. Booting' = Booting \cup {i}
      BY <1>2, <2>1 DEF Booting
    <3>2. QED
      BY <3>1
  <2>2. CASE machine'[i].life # "booting"
    <3>1. Booting' = Booting
      BY <1>2, <2>2 DEF Booting
    <3>2. QED
      BY <3>1
  <2>3. QED
    BY <2>1, <2>2
<1>9. i \in Promised!Unbuilt
  BY <1>2, TrackedLive DEF Promised!Unbuilt
<1>10. QED
  BY <1>2, <1>3, <1>5, <1>6, <1>7, <1>8, <1>9 DEF Promised!Abandon, Strays, Past, Booting

(* A delete removes the guest of its VM, or, where that one is gone, what  *)
(* took over its VMID or nothing, whether or not the call reports success. *)
LEMMA PromisedDelete ==
  ASSUME TypeOK, RecordSound, NumbersSound, PlanSound, NEW v \in VM, DeleteVm(v) \/ HalfDelete(v)
  PROVE  \/ Promised!Remove(v)
         \/ \E g \in Id : Promised!RemoveWrong(v, g)
         \/ \E lost \in SUBSET VM : Promised!LoseTrack(lost)
<1>1. Removed(v) /\ azure' = azure
  BY DeleteEffect DEF DeleteVm, HalfDelete, Fails
<1>2. /\ Recorded(v) /\ tfVm[v] \in Id
      /\ \A w \in VM \ {v} : tfVm'[w] = tfVm[w] /\ tfVm[w] # tfVm[v]
      /\ tfVm'[v] \in {tfVm[v], None}
  BY <1>1, RecordedOnce DEF TypeOK, Removed, Recorded
<1>3. CASE At(v) = {}
  <2>1. PICK lost \in SUBSET VM : \A w \in VM : tfVm'[w] = IF w \in lost THEN None ELSE tfVm[w]
    <3>1. tfVm'[v] = tfVm[v] => \A w \in VM : tfVm'[w] = IF w \in {} THEN None ELSE tfVm[w]
      BY <1>2
    <3>2. tfVm'[v] = None => \A w \in VM : tfVm'[w] = IF w \in {v} THEN None ELSE tfVm[w]
      BY <1>2
    <3>3. {} \in SUBSET VM /\ {v} \in SUBSET VM
      OBVIOUS
    <3>4. QED
      BY <1>2, <3>1, <3>2, <3>3, Zenon
  <2>2. \A i \in Id : machine'[i] = machine[i]
    BY <1>1, <1>3 DEF Removed
  <2>3. QED
    BY <1>1, <2>1, <2>2, PromisedLoss
<1>4. ASSUME NEW g \in At(v) PROVE Promised!Remove(v) \/ Promised!RemoveWrong(v, g)
  <2>1. At(v) = {g} /\ g \in Id /\ Live(g)
    BY <1>4 DEF NumbersSound, At
  <2>2. /\ ~Live(g)' /\ machine'[g] # None
        /\ \A j \in Id \ {g} : machine'[j] = machine[j] /\ (Live(j)' <=> Live(j))
    BY <1>1, <2>1 DEF Removed, Live
  <2>3. Past' = Past \cup {g} /\ Booting' = Booting \ {g}
    BY <2>1, <2>2 DEF Past, Booting
  <2>4. CASE Live(tfVm[v])
    <3>1. g = tfVm[v]
      BY <1>2, <2>1, <2>4, OwnAlone
    <3>2. Tracks[v] = g /\ g # None /\ v \notin Outdated
      BY <1>2, <2>4, <3>1 DEF Tracks, Outdated, Recorded
    <3>3. \A w \in VM : Recorded(w) => tfVm[w] \in Id
      BY DEF TypeOK, Recorded
    <3>4. Tracks' = [Tracks EXCEPT ![v] = None]
      BY <1>2, <2>2, <3>1, <3>3 DEF Tracks, Recorded
    <3>5. Outdated' \in {Outdated, Outdated \cup {v}}
      <4>1. CASE tfVm'[v] = None
        <5>1. Outdated' = Outdated
          BY <1>2, <2>2, <3>1, <3>2, <3>3, <4>1 DEF Outdated, Recorded
        <5>2. QED
          BY <5>1
      <4>2. CASE tfVm'[v] = tfVm[v]
        <5>1. Outdated' = Outdated \cup {v}
          BY <1>2, <2>2, <3>1, <3>3, <4>2 DEF Outdated, Recorded
        <5>2. QED
          BY <5>1
      <4>3. QED
        BY <1>2, <4>1, <4>2
    <3>6. Strays' = Strays
      <4>1. ASSUME NEW j \in Id \ {g} PROVE j \in RecordedIds' <=> j \in RecordedIds
        BY <1>2, <3>1, NoneAssumption DEF RecordedIds
      <4>2. g \in RecordedIds
        BY <3>1, <3>2 DEF RecordedIds
      <4>3. QED
        BY <2>2, <4>1, <4>2 DEF Strays
    <3>7. QED
      BY <1>1, <2>3, <3>2, <3>4, <3>5, <3>6 DEF Promised!Remove, Strays, Past, Booting
  <2>5. CASE ~Live(tfVm[v])
    <3> DEFINE owners == {w \in VM : Tracks[w] = g}
    <3>1. g # tfVm[v] /\ g # None /\ v \in Outdated /\ v \notin owners
      BY <1>2, <2>1, <2>5, NoneAssumption DEF Outdated, Tracks
    <3>2. \A w \in VM : Recorded(w) => tfVm[w] \in Id
      BY DEF TypeOK, Recorded
    <3>3. \A w \in VM : w \in owners <=> tfVm[w] = g
      BY <2>1, <3>1 DEF Tracks, Recorded
    <3>4. Tracks' = [w \in VM |-> IF w \in owners THEN None ELSE Tracks[w]]
      <4>1. ASSUME NEW w \in VM \ {v} PROVE Tracks'[w] = IF w \in owners THEN None ELSE Tracks[w]
        BY <1>2, <2>2, <3>2, <3>3 DEF Tracks, Recorded
      <4>2. Tracks'[v] = None /\ Tracks[v] = None
        BY <1>2, <2>2, <2>5, <3>1 DEF Tracks, Recorded
      <4>3. QED
        BY <3>1, <4>1, <4>2 DEF Tracks
    <3>5. Outdated' \in {Outdated \cup owners, (Outdated \ {v}) \cup owners}
      <4>1. CASE tfVm'[v] = None
        <5>1. Outdated' = (Outdated \ {v}) \cup owners
          BY <1>2, <2>2, <3>1, <3>2, <3>3, <4>1 DEF Outdated, Recorded
        <5>2. QED
          BY <5>1
      <4>2. CASE tfVm'[v] = tfVm[v]
        <5>1. Outdated' = Outdated \cup owners
          BY <1>2, <2>2, <3>1, <3>2, <3>3, <4>2 DEF Outdated, Recorded
        <5>2. QED
          BY <5>1
      <4>3. QED
        BY <1>2, <4>1, <4>2
    <3>6. Strays' = Strays \ {g}
      <4>1. ASSUME NEW j \in Id, Live(j) PROVE j \in RecordedIds' <=> j \in RecordedIds
        BY <1>2, <2>5, <4>1, NoneAssumption DEF RecordedIds
      <4>2. QED
        BY <2>1, <2>2, <4>1 DEF Strays
    <3>7. g \in Promised!Tracked \cup Strays
      BY <2>1, TrackedLive DEF Strays
    <3>8. QED
      BY <1>1, <2>3, <3>1, <3>4, <3>5, <3>6, <3>7 DEF Promised!RemoveWrong, Strays, Past, Booting
  <2>6. QED
    BY <2>4, <2>5
<1>5. At(v) \subseteq Id
  BY DEF At
<1>6. QED
  BY <1>3, <1>4, <1>5

(* First boot ends once, and registers under a free name or not at all.    *)
LEMMA PromisedBoot ==
  ASSUME TypeOK, NEW i \in Id, Settles(i), UNCHANGED azure \/ Onboards(i)
  PROVE  Promised!Boot(i)
<1>1. /\ UNCHANGED tfVm /\ Live(i) /\ machine[i].life = "booting" /\ machine'[i].life = "settled"
      /\ \A j \in Id : /\ machine'[j] = None <=> machine[j] = None
                       /\ Live(j)' <=> Live(j)
                       /\ j # i => machine'[j] = machine[j]
  BY SettleEffect
<1>2. Tracks' = Tracks /\ Outdated' = Outdated
  BY <1>1 DEF TypeOK, Tracks, Outdated, Recorded
<1>3. Strays' = Strays /\ Past' = Past
  BY <1>1 DEF Strays, RecordedIds, Past
<1>4. i \in Booting /\ Booting' = Booting \ {i}
  BY <1>1 DEF Booting
<1>5. \/ UNCHANGED azure
      \/ \E n \in ArcName : azure[n] = None /\ azure' = [azure EXCEPT ![n] = i]
  BY DEF Onboards, Available
<1>6. QED
  BY <1>2, <1>3, <1>4, <1>5 DEF Promised!Boot, Strays, Past, Booting

(* Every step keeps the promise.                                           *)
LEMMA PromisedStep ==
  ASSUME TypeOK, RecordSound, NumbersSound, PlanSound, [Next]_vars
  PROVE  [Promised!Next]_(Promised!labVars)
<1>1. CASE UNCHANGED <<tfVm, machine>>
  <2>1. UNCHANGED <<Tracks, Outdated, Strays, Past, Booting>>
    BY <1>1 DEF Tracks, Outdated, Recorded, Strays, Past, Booting, Live, RecordedIds
  <2>2. CASE UNCHANGED azure
    BY <2>1, <2>2 DEF Promised!labVars, Strays, Past, Booting
  <2>3. ASSUME NEW n \in ArcName, DeleteMachine(n) PROVE Promised!Deregister(n)
    BY <2>1, <2>3 DEF DeleteMachine, Promised!Deregister, Strays, Past, Booting
  <2>4. ASSUME NEW i \in Id, Onboards(i) PROVE FALSE
    BY <1>1, <2>4 DEF TypeOK, Machine, Onboards, Settles
  <2>5. QED
    BY <2>2, <2>3, <2>4, AzureMovers DEF Promised!Next
<1>2. ASSUME NEW lost \in SUBSET VM, UNCHANGED <<machine, azure>>,
             \A v \in VM : tfVm'[v] = IF v \in lost THEN None ELSE tfVm[v]
      PROVE  Promised!Next
  BY <1>2, PromisedLoss DEF Promised!Next
<1>3. ASSUME NEW deleted \in BOOLEAN, LoseState(deleted) PROVE Promised!Next
  <2>1. UNCHANGED <<machine, azure>> /\ \A v \in VM : tfVm'[v] = IF v \in VM THEN None ELSE tfVm[v]
    BY <1>3 DEF LoseState, Empty, world
  <2>2. QED
    BY <1>2, <2>1
<1>4. CASE CleanupDone
  <2> DEFINE lost == {v \in VM : ~OnNode(v)}
  <2>1. UNCHANGED <<machine, azure>> /\ \A v \in VM : tfVm'[v] = IF v \in lost THEN None ELSE tfVm[v]
    BY <1>4 DEF CleanupDone, Refreshed, world
  <2>2. lost \in SUBSET VM
    OBVIOUS
  <2> HIDE DEF lost
  <2>3. QED
    BY <1>2, <2>1, <2>2
<1>5. ASSUME NEW v \in VM, DropVm(v) PROVE Promised!Next
  <2>1. UNCHANGED <<machine, azure>> /\ \A w \in VM : tfVm'[w] = IF w \in {v} THEN None ELSE tfVm[w]
    BY <1>5 DEF TypeOK, DropVm, world
  <2>2. QED
    BY <1>2, <2>1
<1>6. ASSUME NEW v \in VM, CreateVm(v) PROVE Promised!Next
  BY <1>6, PromisedCreate DEF Promised!Next
<1>7. ASSUME NEW v \in VM, HalfCreate(v) PROVE Promised!Next
  BY <1>7, PromisedHalf DEF Promised!Next
<1>8. ASSUME NEW v \in VM, DeleteVm(v) \/ HalfDelete(v) PROVE Promised!Next
  BY <1>8, PromisedDelete DEF Promised!Next
<1>9. ASSUME NEW i \in Id, Settles(i) PROVE Promised!Next
  <2>1. ASSUME NEW n \in ArcName, DeleteMachine(n) PROVE FALSE
    BY <1>9, <2>1 DEF TypeOK, Machine, DeleteMachine, Settles
  <2>2. ASSUME NEW j \in Id, Onboards(j) PROVE Promised!Boot(j)
    BY <2>2, PromisedBoot DEF Onboards
  <2>3. CASE UNCHANGED azure
    BY <1>9, <2>3, PromisedBoot DEF Promised!Next
  <2>4. QED
    BY <2>1, <2>2, <2>3, AzureMovers DEF Promised!Next
<1>10. QED
  BY <1>1, <1>3, <1>4, <1>5, <1>6, <1>7, <1>8, <1>9, Movers

(* LabLifecycle implements Lab.                                            *)
THEOREM LabCorrect == Spec => LabSpec
<1>1. IInv /\ [Next]_vars => [Promised!Next]_(Promised!labVars)
  BY PromisedStep DEF IInv
<1>2. QED
  BY <1>1, PromisedInit, Invariance, PTL DEF Spec, LabSpec, Promised!Spec

(* The theorems about Lab, for the lab of LabLifecycle.                    *)
OfPromise ==
  INSTANCE LabProofs WITH
    Guest <- Id, tracked <- Tracks, outdated <- Outdated, strays <- Strays, past <- Past, booting <- Booting,
    registry <- azure

(* Both instances of Lab say the same.                                     *)
LEMMA SamePromise ==
  /\ Promised!Init => OfPromise!Init
  /\ [Promised!Next]_(Promised!labVars) => [OfPromise!Next]_(OfPromise!labVars)
  /\ OfPromise!OneRole /\ OfPromise!OneName => Promised!OneRole /\ Promised!OneName
  /\ [OfPromise!Forward]_(OfPromise!labVars) => [Promised!Forward]_(Promised!labVars)
<1> USE DEF Strays, Past, Booting, Promised!Tracked, OfPromise!Tracked, Promised!Unbuilt,
            OfPromise!Unbuilt, Promised!labVars, OfPromise!labVars
<1>1. Promised!Init => OfPromise!Init
  BY DEF Promised!Init, OfPromise!Init
<1>2. [Promised!Next]_(Promised!labVars) => [OfPromise!Next]_(OfPromise!labVars)
  BY Zenon DEF Promised!Next, Promised!Build, Promised!Abandon, Promised!Remove, Promised!RemoveWrong, Promised!LoseTrack,
         Promised!Boot, Promised!Deregister, OfPromise!Next, OfPromise!Build,
         OfPromise!Abandon, OfPromise!Remove, OfPromise!RemoveWrong, OfPromise!LoseTrack, OfPromise!Boot,
         OfPromise!Deregister
<1>3. OfPromise!OneRole /\ OfPromise!OneName => Promised!OneRole /\ Promised!OneName
  BY Zenon DEF OfPromise!OneRole, OfPromise!OneName, Promised!OneRole, Promised!OneName
<1>4. [OfPromise!Forward]_(OfPromise!labVars) => [Promised!Forward]_(Promised!labVars)
  BY Zenon DEF OfPromise!Forward, Promised!Forward
<1>5. QED
  BY <1>1, <1>2, <1>3, <1>4

(* So each guest is one VM's, a stray, or gone; no two VMs share one; and  *)
(* no guest has two names in Azure.                                        *)
THEOREM RolesCorrect == Spec => [](Promised!OneRole /\ Promised!OneName)
<1>1. LabSpec => OfPromise!Spec
  BY SamePromise, PTL DEF LabSpec, Promised!Spec, OfPromise!Spec
<1>2. None \notin Id
  BY NoneAssumption
<1>3. OfPromise!Spec => [](OfPromise!LabTypeOK /\ OfPromise!OneRole /\ OfPromise!OneName)
  BY <1>2, OfPromise!PromiseKeepsRoles
<1>4. QED
  BY <1>1, <1>3, LabCorrect, SamePromise, PTL

(* And no guest comes back: the node's and the record's past only grow, and*)
(* no job ever takes a guest on record again that it had lost, or boots one*)
(* a second time.                                                          *)
THEOREM ReturnCorrect == Spec => Promised!NoReturn
<1>1. LabSpec => OfPromise!Spec
  BY SamePromise, PTL DEF LabSpec, Promised!Spec, OfPromise!Spec
<1>2. None \notin Id
  BY NoneAssumption
<1>3. OfPromise!Spec => OfPromise!NoReturn
  BY <1>2, OfPromise!PromiseForbidsReturn
<1>4. QED
  BY <1>1, <1>3, LabCorrect, SamePromise, PTL DEF OfPromise!NoReturn, Promised!NoReturn

-------------------------------------------------------------------------------
(* A plan that is carried out to its end leaves nothing to do.             *)

(* What an apply has not brought about yet is still to be done, and what   *)
(* it still deletes is not wanted: guests, snippets, markers, and the      *)
(* configuration.                                                          *)
GuestComplete(v) ==
  /\ Recorded(v) /\ (inv[v] = None \/ machine[tfVm[v]].shape # inv[v].shape) =>
       Op("delete", "vm", v) \in todo
  /\ inv[v] # None /\ (~Recorded(v) \/ Op("delete", "vm", v) \in todo) =>
       Op("write", "vm", v) \in todo

SnippetComplete(v) ==
  /\ inv[v] # None /\ v \notin Snippets => Op("write", "file", v) \in todo
  /\ inv[v] = None /\ v \in Snippets => Op("delete", "file", v) \in todo
  /\ Op("write", "file", v) \in todo => inv[v] # None
  /\ Op("delete", "file", v) \in todo => inv[v] = None

MarkerComplete(v) ==
  /\ v \in MarkersToWrite(inv) => Op("write", "marker", v) \in todo
  /\ tfMarker[v] # None /\ WantedMarker(inv)[v] = None => Op("delete", "marker", v) \in todo
  /\ Op("delete", "marker", v) \in todo => WantedMarker(inv)[v] = None

ConfigComplete ==
  /\ tfConfig \/ Op("write", "config", None) \in todo
  /\ Op("delete", "config", None) \notin todo

(* A destroy writes nothing, and deletes every guest and snippet on record.*)
DestroyComplete ==
  /\ \A op \in todo : op.act = "delete"
  /\ \A v \in VM : Recorded(v) => Op("delete", "vm", v) \in todo
  /\ \A v \in Snippets : Op("delete", "file", v) \in todo

PlanComplete ==
  /\ pc \in {"apply", "verify"} /\ kind = "apply" =>
       /\ \A v \in VM : GuestComplete(v) /\ SnippetComplete(v) /\ MarkerComplete(v)
       /\ ConfigComplete
  /\ pc \in {"apply", "verify"} /\ kind = "destroy" => DestroyComplete

(* The steps while a plan is carried out, and which of the plan's parts    *)
(* each can disturb.                                                       *)
LEMMA CarryMovers ==
  ASSUME [Next]_vars, pc' \in {"apply", "verify"}
  PROVE  \/ CleanupDone
         \/ /\ pc \in {"apply", "verify"} /\ UNCHANGED <<kind, inv>>
            /\ \/ UNCHANGED <<todo, tfVm, tfFile, tfMarker, tfConfig, machine>>
               \/ \E i \in Id : Settles(i)
               \/ \E v \in VM : CreateVm(v) \/ DeleteVm(v) \/ HalfCreate(v) \/ HalfDelete(v) \/ DropVm(v)
               \/ \E v \in VM : WriteFile(v) \/ DeleteFile(v) \/ WriteMarker(v) \/ DeleteMarker(v)
               \/ WriteConfig \/ DeleteConfig
               \/ \E op \in todo : OpFails(op)
<1>1. CASE UNCHANGED vars
  BY <1>1 DEF vars, record, world, job
<1>2. CASE People
  BY <1>2 DEF People, Push, SetBootstrap, SetArcCredentials, LoseState, StartApply, StartDestroy,
              record, world, job
<1>3. CASE JobStep
  <2>1. CASE \/ WriteConfig \/ DeleteConfig
             \/ \E v \in VM : CreateVm(v) \/ DeleteVm(v)
             \/ \E v \in VM : WriteFile(v) \/ DeleteFile(v) \/ WriteMarker(v) \/ DeleteMarker(v)
    <3>1. pc = "apply" /\ UNCHANGED <<kind, inv>>
      BY <2>1 DEF CreateVm, DeleteVm, WriteFile, DeleteFile, WriteMarker, DeleteMarker,
                  WriteConfig, DeleteConfig, Done, Records
    <3>2. QED
      BY <2>1, <3>1
  <2>2. CASE TerraformExits
    BY <2>2 DEF TerraformExits, Goes, Ends, record, world
  <2>3. CASE Guard \/ CollectFromPlan \/ CollectFromState \/ VerifyApply \/ VerifyDestroy
    BY <2>3 DEF Guard, GuardSees, CollectFromPlan, CollectFromState, Collects, VerifyApply,
                VerifyDestroy, Verifies, Goes, Ends
  <2>4. CASE \E n \in ArcName : DeleteMachine(n) \/ MachineAbsent(n)
    BY <2>4 DEF DeleteMachine, MachineAbsent
  <2>5. QED
    BY <1>3, <2>1, <2>2, <2>3, <2>4 DEF JobStep
<1>4. CASE Failure
  <2>1. CASE JobDies \/ ListingFails \/ VerifyListingFails \/ \E n \in ArcName : ShowFails(n)
    BY <2>1 DEF JobDies, ListingFails, GuardSees, VerifyListingFails, Verifies, ShowFails, Goes, Ends
  <2>2. CASE \/ \E op \in todo : OpFails(op)
             \/ \E v \in VM : HalfCreate(v) \/ HalfDelete(v) \/ DropVm(v)
    <3>1. pc = "apply" /\ UNCHANGED <<kind, inv>>
      BY <2>2 DEF OpFails, HalfCreate, HalfDelete, DropVm, Records, Fails
    <3>2. QED
      BY <2>2, <3>1
  <2>3. QED
    BY <1>4, <2>1, <2>2 DEF Failure
<1>5. CASE Guest
  <2>1. PICK i \in Id : Settles(i)
    BY <1>5 DEF Guest, Onboards, BootsUnregistered, OnboardingFails
  <2>2. UNCHANGED <<pc, kind, inv>>
    BY <2>1 DEF Settles, job
  <2>3. QED
    BY <2>1, <2>2
<1>6. QED
  BY <1>1, <1>2, <1>3, <1>4, <1>5 DEF Next

(* The plan Terraform starts with leaves nothing out.                      *)
LEMMA CompleteMade ==
  ASSUME TypeOK, NumbersSound, CleanupDone
  PROVE  PlanComplete'
<1>1. /\ pc' = "apply" /\ UNCHANGED <<kind, inv, machine, tfFile, tfMarker, tfConfig>>
      /\ tfVm' = Refreshed
      /\ todo' = IF kind = "apply" THEN ApplyOps(inv) ELSE DestroyOps
  BY DEF CleanupDone, Goes, world
<1>2. ASSUME NEW v \in VM
      PROVE  /\ Recorded(v)' <=> OnNode(v)
             /\ OnNode(v) => tfVm'[v] = tfVm[v]
  BY <1>1, NoneAssumption, TypeOK DEF TypeOK, Refreshed, OnNode, At, Recorded
<1>3. CASE kind = "apply"
  <2>1. ASSUME NEW v \in VM
        PROVE  /\ Op("delete", "vm", v) \in ApplyOps(inv) <=> GoesAway(inv, v)
               /\ Op("write", "vm", v) \in ApplyOps(inv) <=> Built(inv, v)
    BY DEF ApplyOps, Op
  <2>2. ASSUME NEW v \in VM
        PROVE  /\ Op("write", "file", v) \in ApplyOps(inv) <=> Rendered(inv, v)
               /\ Op("delete", "file", v) \in ApplyOps(inv) <=> v \in Snippets /\ inv[v] = None
    BY DEF ApplyOps, Op
  <2>3. ASSUME NEW v \in VM
        PROVE  /\ Op("write", "marker", v) \in ApplyOps(inv) <=> v \in MarkersToWrite(inv)
               /\ Op("delete", "marker", v) \in ApplyOps(inv) <=>
                    tfMarker[v] # None /\ WantedMarker(inv)[v] = None
    BY DEF ApplyOps, Op
  <2>4. /\ Op("write", "config", None) \in ApplyOps(inv) <=> ~tfConfig
        /\ Op("delete", "config", None) \notin ApplyOps(inv)
    BY DEF ApplyOps, Op
  <2>5. ASSUME NEW v \in VM PROVE GuestComplete(v)'
    <3>1. ASSUME OnNode(v), inv[v] = None \/ machine[tfVm[v]].shape # inv[v].shape
          PROVE  GoesAway(inv, v)
      <4>1. PICK g \in At(v) : TRUE
        BY <3>1 DEF OnNode
      <4>2. machine[g].vm # v \/ g = tfVm[v]
        BY <4>1 DEF NumbersSound
      <4>3. QED
        BY <3>1, <4>1, <4>2 DEF GoesAway
    <3>2. QED
      BY <1>1, <1>2, <1>3, <2>1, <3>1 DEF GuestComplete, Built
  <2>6. ASSUME NEW v \in VM PROVE SnippetComplete(v)'
    <3>1. inv[v] # None /\ v \notin Snippets => Rendered(inv, v)
      BY RenderingType DEF Snippets, Rendered
    <3>2. Rendered(inv, v) => inv[v] # None
      BY DEF Rendered
    <3>3. Snippets' = Snippets
      BY <1>1 DEF Snippets
    <3>4. QED
      BY <1>1, <1>3, <2>2, <3>1, <3>2, <3>3 DEF SnippetComplete
  <2>7. ASSUME NEW v \in VM PROVE MarkerComplete(v)'
    BY <1>1, <1>3, <2>3 DEF MarkerComplete, MarkersToWrite, WantedMarker
  <2>8. ConfigComplete'
    BY <1>1, <1>3, <2>4 DEF ConfigComplete
  <2>9. QED
    BY <1>1, <1>3, <2>5, <2>6, <2>7, <2>8 DEF PlanComplete
<1>4. CASE kind = "destroy"
  <2>1. \A op \in DestroyOps : op.act = "delete"
    BY DEF DestroyOps, Op
  <2>2. /\ \A v \in VM : OnNode(v) => Op("delete", "vm", v) \in DestroyOps
        /\ \A v \in Snippets : Op("delete", "file", v) \in DestroyOps
    BY DEF DestroyOps
  <2>3. QED
    BY <1>1, <1>2, <1>4, <2>1, <2>2 DEF PlanComplete, DestroyComplete, Snippets
<1>5. QED
  BY <1>3, <1>4, TypeOK DEF TypeOK

(* A VM whose guest, and whose place in the plan, a step leaves alone.     *)
LEMMA GuestKept ==
  ASSUME UNCHANGED inv, NEW v \in VM, GuestComplete(v), tfVm'[v] = tfVm[v],
         Recorded(v) => machine'[tfVm[v]].shape = machine[tfVm[v]].shape,
         Op("delete", "vm", v) \in todo' <=> Op("delete", "vm", v) \in todo,
         Op("write", "vm", v) \in todo' <=> Op("write", "vm", v) \in todo
  PROVE  GuestComplete(v)'
BY DEF GuestComplete, Recorded

(* What an apply does to guests is what it was to do.                      *)
LEMMA GuestsStep ==
  ASSUME TypeOK, RecordSound, NumbersSound, PlanSound, [Next]_vars,
         pc \in {"apply", "verify"}, pc' \in {"apply", "verify"}, kind = "apply",
         NEW w \in VM, GuestComplete(w)
  PROVE  GuestComplete(w)'
<1>1. UNCHANGED inv
  BY CarryMovers DEF CleanupDone, Goes
<1>2. Recorded(w) => tfVm[w] \in Id /\ machine[tfVm[w]] # None
  BY DEF TypeOK, RecordSound, Recorded
<1>3. CASE /\ UNCHANGED <<tfVm, machine>>
           /\ \A op \in todo : op.type = "vm" => op \in todo'
           /\ todo' \subseteq todo
  BY <1>1, <1>3, GuestKept DEF Op
<1>4. ASSUME NEW v \in VM, CreateVm(v) \/ HalfCreate(v) PROVE GuestComplete(w)'
  <2>1. PICK i \in Fresh : /\ NewGuest(v, i)
                           /\ CreateVm(v) => tfVm' = [tfVm EXCEPT ![v] = i]
                           /\ HalfCreate(v) => UNCHANGED tfVm
    BY <1>4, CreateEffect
  <2>2. /\ CreateVm(v) => todo' = todo \ {Op("write", "vm", v)}
        /\ HalfCreate(v) => todo' = todo
        /\ Op("delete", "vm", v) \notin todo /\ inv[v] # None
    BY <1>4, CreatedOverNothing DEF CreateVm, HalfCreate, Done, Records, Fails, Ready, Waits, Op
  <2>3. Recorded(w) => machine'[tfVm[w]] = machine[tfVm[w]]
    BY <1>2, <2>1 DEF NewGuest
  <2>4. CASE w # v \/ HalfCreate(v)
    <3>1. tfVm'[w] = tfVm[w]
      BY <1>4, <2>1, <2>4 DEF TypeOK
    <3>2. /\ Op("delete", "vm", w) \in todo' <=> Op("delete", "vm", w) \in todo
          /\ Op("write", "vm", w) \in todo' <=> Op("write", "vm", w) \in todo
      BY <1>4, <2>2, <2>4 DEF Op
    <3>3. QED
      BY <1>1, <2>3, <3>1, <3>2, GuestKept
  <2>5. CASE w = v /\ CreateVm(v)
    <3>1. tfVm'[v] = i /\ machine'[i].shape = inv[v].shape /\ i # None
      BY <2>1, <2>5, NoneAssumption DEF TypeOK, NewGuest
    <3>2. QED
      BY <1>1, <2>2, <2>5, <3>1 DEF GuestComplete, Recorded
  <2>6. QED
    BY <1>4, <2>4, <2>5
<1>5. ASSUME NEW v \in VM, DeleteVm(v) \/ HalfDelete(v) PROVE GuestComplete(w)'
  <2>1. /\ Removed(v)
        /\ DeleteVm(v) => tfVm' = [tfVm EXCEPT ![v] = None]
        /\ HalfDelete(v) => UNCHANGED tfVm
    BY <1>5, DeleteEffect
  <2>2. /\ DeleteVm(v) => todo' = todo \ {Op("delete", "vm", v)}
        /\ HalfDelete(v) => todo' = todo
        /\ Op("delete", "vm", v) \in todo
    BY <1>5 DEF DeleteVm, HalfDelete, Done, Records, Fails, Ready
  <2>3. Recorded(w) => machine'[tfVm[w]].shape = machine[tfVm[w]].shape
    BY <1>2, <2>1 DEF Removed
  <2>4. CASE w # v \/ HalfDelete(v)
    <3>1. tfVm'[w] = tfVm[w]
      BY <1>5, <2>1, <2>4 DEF TypeOK
    <3>2. /\ Op("delete", "vm", w) \in todo' <=> Op("delete", "vm", w) \in todo
          /\ Op("write", "vm", w) \in todo' <=> Op("write", "vm", w) \in todo
      BY <1>5, <2>2, <2>4 DEF Op
    <3>3. QED
      BY <1>1, <2>3, <3>1, <3>2, GuestKept
  <2>5. CASE w = v /\ DeleteVm(v)
    <3>1. tfVm'[v] = None
      BY <2>1, <2>5 DEF TypeOK
    <3>2. QED
      BY <1>1, <2>2, <2>5, <3>1 DEF GuestComplete, Recorded, Op
  <2>6. QED
    BY <1>5, <2>4, <2>5
<1>6. ASSUME NEW v \in VM, DropVm(v) PROVE GuestComplete(w)'
  <2>1. /\ UNCHANGED machine /\ tfVm' = [tfVm EXCEPT ![v] = None]
        /\ todo' = todo \ {Op("delete", "vm", v)} /\ Op("delete", "vm", v) \in todo
    BY <1>6 DEF DropVm, Records, Ready, world
  <2>2. CASE w # v
    BY <1>1, <2>1, <2>2, GuestKept DEF TypeOK, Op
  <2>3. CASE w = v
    <3>1. tfVm'[v] = None
      BY <2>1 DEF TypeOK
    <3>2. QED
      BY <1>1, <2>1, <2>3, <3>1 DEF GuestComplete, Recorded, Op
  <2>4. QED
    BY <2>2, <2>3
<1>7. ASSUME NEW i \in Id, Settles(i) PROVE GuestComplete(w)'
  <2>1. /\ UNCHANGED <<todo, tfVm>>
        /\ \A j \in Id : machine[j] # None => machine'[j].shape = machine[j].shape
    BY <1>7, SettleEffect
  <2>2. QED
    BY <1>1, <1>2, <2>1, GuestKept
<1>8. CASE \/ \E v \in VM : WriteFile(v) \/ DeleteFile(v) \/ WriteMarker(v) \/ DeleteMarker(v)
           \/ WriteConfig \/ DeleteConfig
  <2>1. PICK op : op.type # "vm" /\ todo' = todo \ {op}
    BY <1>8 DEF WriteFile, DeleteFile, WriteMarker, DeleteMarker, WriteConfig, DeleteConfig, Done,
                Records, Op
  <2>2. UNCHANGED <<tfVm, machine>>
    BY <1>8 DEF WriteFile, DeleteFile, WriteMarker, DeleteMarker, WriteConfig, DeleteConfig, world
  <2>3. QED
    BY <1>3, <2>1, <2>2
<1>9. CASE \/ \E op \in todo : OpFails(op)
           \/ UNCHANGED <<todo, tfVm, tfFile, tfMarker, tfConfig, machine>>
  BY <1>3, <1>9 DEF OpFails, Fails
<1>10. QED
  BY <1>4, <1>5, <1>6, <1>7, <1>8, <1>9, CarryMovers DEF CleanupDone

(* What an apply does to snippets is what it was to do, also when one is   *)
(* deleted and not put back.                                               *)
LEMMA SnippetsStep ==
  ASSUME TypeOK, PlanSound, [Next]_vars, pc \in {"apply", "verify"}, pc' \in {"apply", "verify"},
         NEW w \in VM, SnippetComplete(w)
  PROVE  SnippetComplete(w)'
<1>1. UNCHANGED inv
  BY CarryMovers DEF CleanupDone, Goes
<1>2. CASE UNCHANGED tfFile /\ \A op : op.type = "file" => (op \in todo' <=> op \in todo)
  BY <1>1, <1>2 DEF SnippetComplete, Snippets, Op
<1>3. ASSUME NEW v \in VM, WriteFile(v) PROVE SnippetComplete(w)'
  <2>1. /\ tfFile' = [tfFile EXCEPT ![v] = Rendering(inv, v)]
        /\ todo' = todo \ {Op("write", "file", v)} /\ Op("write", "file", v) \in todo
    BY <1>3 DEF WriteFile, Done, Records, Ready
  <2>2. Rendering(inv, v) # None
    BY <2>1, RenderingType DEF PlanSound
  <2>3. Snippets' = Snippets \cup {v}
    BY <2>1, <2>2 DEF TypeOK, Snippets
  <2>4. QED
    BY <1>1, <2>1, <2>3 DEF SnippetComplete, Op
<1>4. ASSUME NEW v \in VM, DeleteFile(v) PROVE SnippetComplete(w)'
  <2>1. /\ tfFile' = [tfFile EXCEPT ![v] = None]
        /\ todo' = todo \ {Op("delete", "file", v)} /\ Op("delete", "file", v) \in todo
    BY <1>4 DEF DeleteFile, Done, Records, Ready
  <2>2. Snippets' = Snippets \ {v}
    BY <2>1 DEF TypeOK, Snippets
  <2>3. QED
    BY <1>1, <2>1, <2>2 DEF SnippetComplete, Op
<1>5. ASSUME NEW op \in todo, OpFails(op) PROVE SnippetComplete(w)'
  <2>1. todo' = todo
    BY <1>5 DEF OpFails, Fails
  <2>2. CASE tfFile' = tfFile
    BY <1>2, <2>1, <2>2
  <2>3. CASE op.type = "file" /\ op.act = "write" /\ tfFile' = [tfFile EXCEPT ![op.vm] = None]
    <3>1. op = Op("write", "file", op.vm)
      BY <2>3, TypeOK DEF TypeOK, Ops, Op
    <3>2. Snippets' = Snippets \ {op.vm}
      BY <2>3 DEF TypeOK, Snippets
    <3>3. QED
      BY <1>1, <2>1, <2>3, <3>1, <3>2 DEF SnippetComplete
  <2>4. QED
    BY <1>5, <2>2, <2>3 DEF OpFails
<1>6. CASE \/ \E v \in VM : CreateVm(v) \/ DeleteVm(v) \/ DropVm(v) \/ WriteMarker(v) \/ DeleteMarker(v)
           \/ WriteConfig \/ DeleteConfig
  <2>1. PICK op : op.type # "file" /\ todo' = todo \ {op}
    BY <1>6 DEF CreateVm, DeleteVm, DropVm, WriteMarker, DeleteMarker, WriteConfig, DeleteConfig,
                Done, Records, Op
  <2>2. UNCHANGED tfFile
    BY <1>6 DEF CreateVm, DeleteVm, DropVm, WriteMarker, DeleteMarker, WriteConfig, DeleteConfig
  <2>3. QED
    BY <1>2, <2>1, <2>2
<1>7. CASE \/ \E v \in VM : HalfCreate(v) \/ HalfDelete(v)
           \/ \E i \in Id : Settles(i)
           \/ UNCHANGED <<todo, tfVm, tfFile, tfMarker, tfConfig, machine>>
  BY <1>2, <1>7 DEF HalfCreate, HalfDelete, Fails, Settles, record, job
<1>8. QED
  BY <1>3, <1>4, <1>5, <1>6, <1>7, CarryMovers DEF CleanupDone

(* Markers: written once their VM is declared to have one, deleted once not.*)
LEMMA MarkersStep ==
  ASSUME TypeOK, PlanSound, [Next]_vars,
         pc \in {"apply", "verify"}, pc' \in {"apply", "verify"},
         NEW w \in VM, MarkerComplete(w)
  PROVE  MarkerComplete(w)'
<1>1. UNCHANGED inv
  BY CarryMovers DEF CleanupDone, Goes
<1>2. CASE UNCHANGED tfMarker /\ \A op : op.type = "marker" => (op \in todo' <=> op \in todo)
  BY <1>1, <1>2 DEF MarkerComplete, MarkersToWrite, WantedMarker, Op
<1>3. ASSUME NEW v \in VM, WriteMarker(v) PROVE MarkerComplete(w)'
  <2>1. /\ tfMarker' = [tfMarker EXCEPT ![v] = inv[v].arc]
        /\ todo' = todo \ {Op("write", "marker", v)} /\ inv[v] # None
    BY <1>3 DEF WriteMarker, Done, Records, Ready, PlanSound
  <2>2. QED
    BY <1>1, <2>1, TypeOK DEF TypeOK, MarkerComplete, MarkersToWrite, WantedMarker, Op
<1>4. ASSUME NEW v \in VM, DeleteMarker(v) PROVE MarkerComplete(w)'
  <2>1. /\ tfMarker' = [tfMarker EXCEPT ![v] = None]
        /\ todo' = todo \ {Op("delete", "marker", v)} /\ Op("delete", "marker", v) \in todo
    BY <1>4 DEF DeleteMarker, Done, Records, Ready
  <2>2. QED
    BY <1>1, <2>1, TypeOK DEF TypeOK, MarkerComplete, MarkersToWrite, WantedMarker, Op
<1>5. CASE \/ \E v \in VM : CreateVm(v) \/ DeleteVm(v) \/ DropVm(v) \/ WriteFile(v) \/ DeleteFile(v)
           \/ WriteConfig \/ DeleteConfig
  <2>1. PICK op : op.type # "marker" /\ todo' = todo \ {op}
    BY <1>5 DEF CreateVm, DeleteVm, DropVm, WriteFile, DeleteFile, WriteConfig, DeleteConfig, Done,
                Records, Op
  <2>2. UNCHANGED tfMarker
    BY <1>5 DEF CreateVm, DeleteVm, DropVm, WriteFile, DeleteFile, WriteConfig, DeleteConfig
  <2>3. QED
    BY <1>2, <2>1, <2>2
<1>6. CASE \/ \E v \in VM : HalfCreate(v) \/ HalfDelete(v)
           \/ \E op \in todo : OpFails(op)
           \/ \E i \in Id : Settles(i)
           \/ UNCHANGED <<todo, tfVm, tfFile, tfMarker, tfConfig, machine>>
  BY <1>2, <1>6 DEF HalfCreate, HalfDelete, OpFails, Fails, Settles, record, job
<1>7. QED
  BY <1>3, <1>4, <1>5, <1>6, CarryMovers DEF CleanupDone

(* The configuration: written, never deleted.                              *)
LEMMA ConfigStep ==
  ASSUME [Next]_vars, pc \in {"apply", "verify"}, pc' \in {"apply", "verify"}, ConfigComplete
  PROVE  ConfigComplete'
<1>1. CASE UNCHANGED tfConfig /\ \A op : op.type = "config" => (op \in todo' <=> op \in todo)
  BY <1>1 DEF ConfigComplete, Op
<1>2. CASE WriteConfig \/ DeleteConfig
  BY <1>2 DEF ConfigComplete, WriteConfig, DeleteConfig, Done, Records, Ready, Op
<1>3. CASE \E v \in VM : \/ CreateVm(v) \/ DeleteVm(v) \/ DropVm(v) \/ WriteFile(v) \/ DeleteFile(v)
                         \/ WriteMarker(v) \/ DeleteMarker(v)
  <2>1. PICK op : op.type # "config" /\ todo' = todo \ {op}
    BY <1>3 DEF CreateVm, DeleteVm, DropVm, WriteFile, DeleteFile, WriteMarker, DeleteMarker, Done,
                Records, Op
  <2>2. UNCHANGED tfConfig
    BY <1>3 DEF CreateVm, DeleteVm, DropVm, WriteFile, DeleteFile, WriteMarker, DeleteMarker
  <2>3. QED
    BY <1>1, <2>1, <2>2
<1>4. CASE \/ \E v \in VM : HalfCreate(v) \/ HalfDelete(v)
           \/ \E op \in todo : OpFails(op)
           \/ \E i \in Id : Settles(i)
           \/ UNCHANGED <<todo, tfVm, tfFile, tfMarker, tfConfig, machine>>
  BY <1>1, <1>4 DEF HalfCreate, HalfDelete, OpFails, Fails, Settles, record, job
<1>5. QED
  BY <1>2, <1>3, <1>4, CarryMovers DEF CleanupDone

(* A destroy deletes what it was to delete.                                *)
LEMMA DestroyStep ==
  ASSUME TypeOK, [Next]_vars, pc \in {"apply", "verify"}, pc' \in {"apply", "verify"},
         DestroyComplete
  PROVE  DestroyComplete'
<1>1. todo' \subseteq todo => \A op \in todo' : op.act = "delete"
  BY DEF DestroyComplete
<1>2. \A op : op.act = "write" => op \notin todo
  BY DEF DestroyComplete
<1>3. CASE /\ todo' \subseteq todo /\ tfVm' = tfVm /\ tfFile' = tfFile
           /\ \A op \in todo : op.type \in {"vm", "file"} => op \in todo'
  BY <1>1, <1>3 DEF DestroyComplete, Recorded, Snippets, Op
<1>4. ASSUME NEW v \in VM, DeleteVm(v) \/ DropVm(v) PROVE DestroyComplete'
  <2>1. /\ tfVm' = [tfVm EXCEPT ![v] = None] /\ tfFile' = tfFile
        /\ todo' = todo \ {Op("delete", "vm", v)}
    BY <1>4 DEF DeleteVm, DropVm, Done, Records
  <2>2. QED
    BY <1>1, <2>1, TypeOK DEF TypeOK, DestroyComplete, Recorded, Snippets, Op
<1>5. ASSUME NEW v \in VM, DeleteFile(v) PROVE DestroyComplete'
  <2>1. /\ tfFile' = [tfFile EXCEPT ![v] = None] /\ tfVm' = tfVm
        /\ todo' = todo \ {Op("delete", "file", v)}
    BY <1>5 DEF DeleteFile, Done, Records
  <2>2. QED
    BY <1>1, <2>1, TypeOK DEF TypeOK, DestroyComplete, Recorded, Snippets, Op
<1>6. ASSUME NEW v \in VM PROVE ~CreateVm(v) /\ ~HalfCreate(v) /\ ~WriteFile(v) /\ ~WriteMarker(v)
  BY <1>2 DEF CreateVm, HalfCreate, WriteFile, WriteMarker, Done, Records, Fails, Ready, Op
<1>7. ~WriteConfig
  BY <1>2 DEF WriteConfig, Done, Records, Ready, Op
<1>8. CASE (\E v \in VM : DeleteMarker(v)) \/ DeleteConfig
  <2>1. PICK op : op.type \notin {"vm", "file"} /\ todo' = todo \ {op}
    BY <1>8 DEF DeleteMarker, DeleteConfig, Done, Records, Op
  <2>2. tfVm' = tfVm /\ tfFile' = tfFile
    BY <1>8 DEF DeleteMarker, DeleteConfig
  <2>3. QED
    BY <1>3, <2>1, <2>2
<1>9. ASSUME NEW op \in todo, OpFails(op) PROVE DestroyComplete'
  <2>1. todo' = todo /\ tfVm' = tfVm /\ tfFile' = tfFile
    BY <1>9 DEF DestroyComplete, OpFails, Fails
  <2>2. QED
    BY <1>3, <2>1
<1>10. CASE \/ \E v \in VM : HalfDelete(v)
            \/ \E i \in Id : Settles(i)
            \/ UNCHANGED <<todo, tfVm, tfFile, tfMarker, tfConfig, machine>>
  BY <1>3, <1>10 DEF HalfDelete, Fails, Settles, record, job
<1>11. QED
  BY <1>4, <1>5, <1>6, <1>7, <1>8, <1>9, <1>10, CarryMovers DEF CleanupDone

(* Every step leaves the plan under way complete.                          *)
LEMMA CompleteStep ==
  ASSUME TypeOK, RecordSound, NumbersSound, PlanSound, PlanComplete, [Next]_vars
  PROVE  PlanComplete'
<1>1. CASE pc' \notin {"apply", "verify"}
  BY <1>1 DEF PlanComplete
<1>2. CASE CleanupDone
  BY <1>2, CompleteMade
<1>3. CASE pc' \in {"apply", "verify"} /\ ~CleanupDone
  <2>1. pc \in {"apply", "verify"} /\ UNCHANGED kind
    BY <1>3, CarryMovers
  <2>2. kind = "apply" => PlanComplete'
    BY <1>3, <2>1, GuestsStep, SnippetsStep, MarkersStep, ConfigStep DEF PlanComplete
  <2>3. kind = "destroy" => PlanComplete'
    BY <1>3, <2>1, DestroyStep DEF PlanComplete
  <2>4. QED
    BY <2>2, <2>3, TypeOK DEF TypeOK
<1>4. QED
  BY <1>1, <1>2, <1>3

(* Among operations that have not failed, one can always be done: a        *)
(* deletion of a guest waits for nothing, a snippet only for that, a build *)
(* only for both.                                                          *)
LEMMA NoCircle ==
  ASSUME TypeOK, todo # {}, stuck = {}
  PROVE  \E op \in todo : Ready(op)
<1>1. ASSUME NEW v, Op("delete", "vm", v) \in todo PROVE \E op \in todo : Ready(op)
  <2>1. Waits(Op("delete", "vm", v)) = {}
    BY DEF Waits, Op
  <2>2. QED
    BY <1>1, <2>1 DEF Ready
<1>2. ASSUME NEW op \in todo, op.type = "file", \A v : Op("delete", "vm", v) \notin todo
      PROVE  Ready(op)
  <2>1. Waits(op) = {Op("delete", "vm", op.vm)}
    BY <1>2 DEF Waits, Op
  <2>2. QED
    BY <1>2, <2>1 DEF Ready
<1>3. ASSUME NEW op \in todo, op.type # "file", \A v : Op("delete", "vm", v) \notin todo,
             \A o \in todo : o.type # "file"
      PROVE  Ready(op)
  <2>1. Op("write", "file", op.vm) \notin todo
    BY <1>3 DEF Op
  <2>2. QED
    BY <1>3, <2>1 DEF Ready, Waits
<1>4. QED
  BY <1>1, <1>2, <1>3

(* Once all that was planned is done, what is declared is on record and in *)
(* shape, and nothing else is; a destroy leaves nothing on record at all.  *)
LEMMA NothingMissed ==
  ASSUME TypeOK, PlanSound, PlanComplete, pc = "verify"
  PROVE  /\ kind = "apply" => \A v \in VM :
              /\ inv[v] # None <=> Recorded(v)
              /\ Recorded(v) => machine[tfVm[v]].shape = inv[v].shape
              /\ inv[v] # None <=> v \in Snippets
              /\ v \notin MarkersToWrite(inv)
              /\ ~(tfMarker[v] # None /\ WantedMarker(inv)[v] = None)
         /\ kind = "apply" => tfConfig
         /\ kind = "destroy" => RecordedIds = {} /\ Snippets = {}
<1>1. todo = {}
  BY DEF PlanSound
<1>2. ASSUME kind = "apply", NEW v \in VM
      PROVE  /\ inv[v] # None <=> Recorded(v)
             /\ Recorded(v) => machine[tfVm[v]].shape = inv[v].shape
             /\ inv[v] # None <=> v \in Snippets
             /\ v \notin MarkersToWrite(inv)
             /\ ~(tfMarker[v] # None /\ WantedMarker(inv)[v] = None)
  BY <1>1, <1>2 DEF PlanComplete, GuestComplete, SnippetComplete, MarkerComplete
<1>3. kind = "apply" => tfConfig
  BY <1>1 DEF PlanComplete, ConfigComplete
<1>4. kind = "destroy" => RecordedIds = {} /\ Snippets = {}
  BY <1>1, TypeOK DEF TypeOK, PlanComplete, DestroyComplete, RecordedIds, Recorded, Snippets
<1>5. QED
  BY <1>2, <1>3, <1>4

(* So the check after an apply finds nothing left to do, unless the record *)
(* names a guest that is gone.                                             *)
LEMMA NothingLeft ==
  ASSUME TypeOK, RecordSound, NumbersSound, PlanSound, PlanComplete, pc = "verify",
         kind = "apply", Outdated = {}
  PROVE  ProposedAgain = {}
<1>1. ASSUME NEW v \in VM PROVE ~GoesAway(inv, v) /\ ~Built(inv, v)
  <2>1. CASE Recorded(v)
    <3>1. At(v) = {tfVm[v]} /\ machine[tfVm[v]].vm = v
      BY <2>1, OwnAlone DEF Outdated, RecordSound
    <3>2. QED
      BY <2>1, <3>1, NothingMissed DEF GoesAway, Built, OnNode
  <2>2. CASE ~Recorded(v)
    BY <2>2, NothingMissed DEF GoesAway, Built, At
  <2>3. QED
    BY <2>1, <2>2
<1>2. MarkersToWrite(inv) = {} /\ tfConfig
  BY NothingMissed DEF MarkersToWrite
<1>3. ASSUME NEW op \in ApplyOps(inv) PROVE \E v \in Snippets : op = Op("write", "file", v)
  BY <1>1, <1>2, NothingMissed DEF ApplyOps, Rendered, Snippets
<1>4. QED
  BY <1>3 DEF ProposedAgain

(* A job fails for a reason.                                               *)
LEMMA RedStep ==
  ASSUME TypeOK, RecordSound, NumbersSound, PlanSound, PlanComplete, [Next]_vars,
         pc # "idle", result' = "red", result # "red"
  PROVE  pc = "guard" \/ faults' # faults \/ stuck # {} \/ Outdated # {}
<1>1. faults \in Nat /\ (Fault => faults' # faults)
  BY TypeOK, BoundsAssumption DEF TypeOK, Fault
<1>2. ~UNCHANGED vars /\ ~People /\ ~Guest
  BY DEF vars, job, People, Push, SetBootstrap, SetArcCredentials, LoseState, StartApply,
         StartDestroy, Guest, Onboards, BootsUnregistered, OnboardingFails, Settles
<1>3. Failure => faults' # faults
  <2>1. Failure => Fault
    BY DEF Failure, JobDies, ListingFails, VerifyListingFails, ShowFails, OpFails, HalfCreate,
           HalfDelete, DropVm, Fails
  <2>2. QED
    BY <1>1, <2>1
<1>4. CASE JobStep
  <2>1. Guard \/ TerraformExits \/ VerifyApply \/ VerifyDestroy
    BY <1>4 DEF JobStep, CollectFromPlan, CollectFromState, Collects, DeleteMachine,
         MachineAbsent, CleanupDone, Done, Records, CreateVm, DeleteVm, WriteFile, DeleteFile,
         WriteMarker, DeleteMarker, WriteConfig, DeleteConfig, Goes
  <2>2. Guard => pc = "guard"
    BY DEF Guard, GuardSees
  <2>3. TerraformExits => stuck # {}
    BY NoCircle DEF TerraformExits, Goes
  <2>4. VerifyApply => Outdated # {}
    BY NothingLeft DEF VerifyApply, Ends
  <2>5. ~VerifyDestroy
    BY NothingMissed, NoneAssumption DEF VerifyDestroy, Verifies, Ends, Resources, Recorded, RecordedIds
  <2>6. QED
    BY <2>1, <2>2, <2>3, <2>4, <2>5
<1>5. QED
  BY <1>2, <1>3, <1>4 DEF Next

(* The plan a job carries out is complete at every step.                   *)
LEMMA Completeness == Spec => []PlanComplete
<1>1. Init => PlanComplete
  BY DEF Init, PlanComplete
<1>2. PlanComplete /\ IInv /\ [Next]_vars => PlanComplete'
  BY CompleteStep DEF IInv
<1>3. QED
  BY <1>1, <1>2, Invariance, PTL DEF Spec

(* A job ends red only when the guard stops it, something in it failed, or *)
(* the record names a guest that is gone: for every inventory and every    *)
(* state of the record, what terraform plan lists is enough, its order has *)
(* no circle, and the checks that follow find nothing left.                *)
THEOREM RedCorrect == Spec => RedMeansFailure
<1>1. PlanComplete /\ IInv /\ [Next]_vars =>
        [pc # "idle" /\ result' = "red" /\ result # "red" =>
           pc = "guard" \/ faults' # faults \/ stuck # {} \/ Outdated # {}]_vars
  BY RedStep DEF IInv
<1>2. QED
  BY <1>1, Completeness, Invariance, PTL DEF Spec, RedMeansFailure

(* A destroy that ends green, its last check answered or not, leaves no    *)
(* snippet and no guest but the strays that are accounted for, those this  *)
(* very destroy dropped from the record included.                          *)
THEOREM GreenDestroyCorrect == Spec => GreenDestroyClean
<1>1. PlanComplete /\ IInv /\ [Next]_vars =>
        [kind = "destroy" /\ result # "green" /\ result' = "green" =>
           Snippets = {} /\ \A i \in Id : Live(i) => i \in forgotten \cup halfBuilt]_vars
  <2>1. ASSUME PlanComplete, IInv, [Next]_vars, kind = "destroy", result # "green", result' = "green"
        PROVE  Snippets = {} /\ \A i \in Id : Live(i) => i \in forgotten \cup halfBuilt
    <3>1. pc = "verify"
      BY <2>1, GreenByCheck DEF VerifyApply, VerifyDestroy, VerifyListingFails, Verifies
    <3>2. RecordedIds = {} /\ Snippets = {}
      BY <2>1, <3>1, NothingMissed DEF IInv
    <3>3. QED
      BY <2>1, <3>2 DEF IInv, UntrackedExplained
  <2>2. QED
    BY <2>1
<1>2. QED
  BY <1>1, Completeness, Invariance, PTL DEF Spec, GreenDestroyClean

(* How there comes to be a job that ended green: it has just done so, or it*)
(* had, and only people and guests have moved since.                       *)
LEMMA GreenMovers ==
  ASSUME [Next]_vars, pc' = "idle", result' = "green"
  PROVE  \/ VerifyApply \/ VerifyDestroy \/ VerifyListingFails
         \/ /\ pc = "idle" /\ result = "green"
            /\ \/ UNCHANGED <<tfVm, machine>>
               \/ \E deleted \in BOOLEAN : LoseState(deleted)
               \/ \E i \in Id : Settles(i)
<1>1. CASE UNCHANGED vars
  BY <1>1 DEF vars, record, world, job
<1>2. CASE People
  BY <1>2 DEF People, Push, SetBootstrap, SetArcCredentials, LoseState, StartApply, StartDestroy,
              record, world, job
<1>3. CASE JobStep
  BY <1>3 DEF JobStep, Guard, GuardSees, CollectFromPlan, CollectFromState, Collects, DeleteMachine,
       MachineAbsent, CleanupDone, Done, Records, CreateVm, DeleteVm, WriteFile, DeleteFile,
       WriteMarker, DeleteMarker, WriteConfig, DeleteConfig, TerraformExits, Goes, Ends
<1>4. CASE Failure
  BY <1>4 DEF Failure, JobDies, ListingFails, GuardSees, ShowFails, OpFails, HalfCreate, HalfDelete,
       DropVm, Records, Fails, Goes, Ends
<1>5. CASE Guest
  <2>1. PICK i \in Id : Settles(i)
    BY <1>5 DEF Guest, Onboards, BootsUnregistered, OnboardingFails
  <2>2. UNCHANGED <<pc, result>>
    BY <2>1 DEF Settles, job
  <2>3. QED
    BY <2>1, <2>2
<1>6. QED
  BY <1>1, <1>2, <1>3, <1>4, <1>5 DEF Next

(* VMIDs that belong to guests that run are recorded once.                 *)
LEMMA RecordedApart ==
  ASSUME TypeOK, RecordSound, NumbersSound, NEW v \in VM, NEW w \in VM \ {v},
         Recorded(v), Live(tfVm[v]), Recorded(w), Live(tfVm[w])
  PROVE  machine[tfVm[w]].vmid # machine[tfVm[v]].vmid
<1>1. tfVm[v] \in Id /\ tfVm[w] \in Id
  BY DEF TypeOK, Recorded
<1>2. tfVm[v] # tfVm[w]
  BY RecordedOnce
<1>3. QED
  BY <1>1, <1>2 DEF NumbersSound

(* Every step leaves the record of a green job true.                       *)
LEMMA TruthfulStep ==
  ASSUME IInv, PlanComplete, RecordTruthful, [Next]_vars
  PROVE  RecordTruthful'
<1> SUFFICES ASSUME pc' = "idle", result' = "green"
             PROVE  \A v \in VM : Recorded(v)' =>
                      /\ Live(tfVm[v])' /\ machine'[tfVm'[v]].vm = v
                      /\ \A w \in VM \ {v} : Recorded(w)' =>
                           machine'[tfVm'[w]].vmid # machine'[tfVm'[v]].vmid
  BY DEF RecordTruthful
<1> USE DEF IInv
<1>1. CASE VerifyApply
  <2>1. UNCHANGED <<tfVm, machine>> /\ pc = "verify" /\ kind = "apply" /\ ProposedAgain = {}
    BY <1>1 DEF VerifyApply, Ends, record, world
  <2>2. Converged
    BY <2>1, NothingProposed
  <2>3. ASSUME NEW v \in VM, Recorded(v) PROVE Live(tfVm[v]) /\ machine[tfVm[v]].vm = v
    BY <2>1, <2>2, <2>3, NothingMissed DEF Converged, RecordSound
  <2>4. QED
    BY <2>1, <2>3, RecordedApart DEF Recorded, Live
<1>2. CASE VerifyDestroy \/ VerifyListingFails
  <2>1. UNCHANGED tfVm /\ pc = "verify" /\ kind = "destroy"
    BY <1>2 DEF VerifyDestroy, VerifyListingFails, Verifies, record
  <2>2. \A v \in VM : ~Recorded(v)
    BY <2>1, NothingMissed DEF RecordedIds, Recorded
  <2>3. QED
    BY <2>1, <2>2 DEF Recorded
<1>3. CASE pc = "idle" /\ result = "green" /\ UNCHANGED <<tfVm, machine>>
  BY <1>3 DEF RecordTruthful, Recorded, Live
<1>4. ASSUME NEW deleted \in BOOLEAN, LoseState(deleted)
      PROVE  \A v \in VM : ~Recorded(v)'
  BY <1>4 DEF LoseState, Empty, Recorded
<1>5. ASSUME NEW i \in Id, Settles(i), pc = "idle", result = "green",
             NEW v \in VM, Recorded(v)'
      PROVE  /\ Live(tfVm[v])' /\ machine'[tfVm'[v]].vm = v
             /\ \A w \in VM \ {v} : Recorded(w)' =>
                  machine'[tfVm'[w]].vmid # machine'[tfVm'[v]].vmid
  <2>1. /\ UNCHANGED tfVm
        /\ \A j \in Id : /\ Live(j)' <=> Live(j)
                         /\ machine[j] # None => /\ machine'[j].vm = machine[j].vm
                                                 /\ machine'[j].vmid = machine[j].vmid
    BY <1>5, SettleEffect
  <2>2. ASSUME NEW w \in VM, Recorded(w)
        PROVE  /\ Live(tfVm[w])' <=> Live(tfVm[w])
               /\ machine'[tfVm'[w]].vm = machine[tfVm[w]].vm
               /\ machine'[tfVm'[w]].vmid = machine[tfVm[w]].vmid
    <3>1. tfVm[w] \in Id /\ machine[tfVm[w]] # None
      BY <2>2 DEF TypeOK, RecordSound, Recorded
    <3>2. QED
      BY <2>1, <3>1 DEF Live
  <2>3. \A w \in VM : Recorded(w)' <=> Recorded(w)
    BY <2>1 DEF Recorded
  <2>4. QED
    BY <1>5, <2>2, <2>3 DEF RecordTruthful
<1>6. QED
  BY <1>1, <1>2, <1>3, <1>4, <1>5, GreenMovers

(* After a green job state names guests that run, each one the guest built *)
(* for its VM, and no VMID twice: however creates and deletes failed       *)
(* before, whatever VMIDs Proxmox has handed out again, and although the   *)
(* record may have been wrong in between.                                  *)
THEOREM RecordCorrect == Spec => []RecordTruthful
<1>1. Init => RecordTruthful
  BY DEF Init, RecordTruthful
<1>2. RecordTruthful /\ IInv /\ PlanComplete /\ [Next]_vars => RecordTruthful'
  BY TruthfulStep
<1>3. QED
  BY <1>1, <1>2, Completeness, Invariance, PTL DEF Spec

-------------------------------------------------------------------------------
(* How far a job is from its end.                                          *)

(* The stages still to come, and what is left to do in the present one.    *)
Remaining == [guard |-> 5, plan |-> 4, clean |-> 3, apply |-> 2, verify |-> 1, idle |-> 0]
Left == Cardinality(names) + Cardinality(todo \ stuck)
Distance == <<Remaining[pc], Left>>

Below == OpToRel(<, Nat)
Closer == LexPairOrdering(Below, Below, Nat, Nat)

(* There is no endless approach.                                           *)
LEMMA BelowWellFounded == IsWellFoundedOn(Below, Nat)
BY NatLessThanWellFounded, Zenon DEF Below

(* Nor in two numbers, the first of which counts for more.                 *)
LEMMA CloserWellFounded == IsWellFoundedOn(Closer, Nat \X Nat)
BY BelowWellFounded, WFLexPairOrdering DEF Closer

(* What it is to be closer.                                                *)
LEMMA CloserFacts ==
  ASSUME NEW a \in Nat, NEW b \in Nat, NEW c \in Nat, NEW d \in Nat,
         a < c \/ (a = c /\ b < d)
  PROVE  <<<<a, b>>, <<c, d>>>> \in Closer
<1>1. \A x, y \in Nat : <<x, y>> \in Below <=> x < y
  BY DEF Below, OpToRel
<1>2. QED
  BY <1>1 DEF Closer, LexPairOrdering

(* There are finitely many operations, so a plan is finite.                *)
LEMMA OpsFinite == IsFiniteSet(Ops)
<1> DEFINE acts == {"write", "delete"}
           types == {"vm", "file", "marker", "config"}
           parts == (acts \X types) \X (VM \cup {None})
           f == [p \in parts |-> Op(p[1][1], p[1][2], p[2])]
<1>1. IsFiniteSet(acts) /\ IsFiniteSet(types)
  <2>1. IsFiniteSet({"write"}) /\ IsFiniteSet({"vm"})
    BY FS_Singleton
  <2>2. IsFiniteSet({"write"} \cup {"delete"}) /\ IsFiniteSet({"vm"} \cup {"file"})
    BY <2>1, FS_AddElement
  <2>3. IsFiniteSet(({"vm"} \cup {"file"}) \cup {"marker"})
    BY <2>2, FS_AddElement
  <2>4. IsFiniteSet((({"vm"} \cup {"file"}) \cup {"marker"}) \cup {"config"})
    BY <2>3, FS_AddElement
  <2>5. /\ acts = {"write"} \cup {"delete"}
        /\ types = (({"vm"} \cup {"file"}) \cup {"marker"}) \cup {"config"}
    OBVIOUS
  <2>6. QED
    BY <2>2, <2>4, <2>5
<1>2. IsFiniteSet(VM \cup {None})
  <2>1. IsFiniteSet(VM)
    BY FiniteAssumption, NamesAssumption, FS_Subset
  <2>2. QED
    BY <2>1, FS_AddElement
<1>3. IsFiniteSet(acts \X types)
  BY <1>1, FS_Product
<1>4. IsFiniteSet(parts)
  BY <1>2, <1>3, FS_Product
<1>5. f \in [parts -> Ops]
  BY DEF Op, Ops
<1>6. ASSUME NEW op \in Ops PROVE \E p \in parts : f[p] = op
  <2>1. <<<<op.act, op.type>>, op.vm>> \in parts
    BY DEF Ops
  <2>2. f[<<<<op.act, op.type>>, op.vm>>] = op
    BY <2>1 DEF Op, Ops
  <2>3. QED
    BY <2>1, <2>2
<1>7. f \in Surjection(parts, Ops)
  BY <1>5, <1>6 DEF Surjection
<1>8. QED
  BY <1>4, <1>7, FS_Surjection

(* What is left is a number, for any names and any operations.             *)
LEMMA LeftType ==
  ASSUME NEW ns \in SUBSET ArcName, NEW ops \in SUBSET Ops
  PROVE  /\ IsFiniteSet(ns) /\ Cardinality(ns) \in Nat
         /\ IsFiniteSet(ops) /\ Cardinality(ops) \in Nat
<1>1. IsFiniteSet(ns) /\ IsFiniteSet(ops)
  BY OpsFinite, FiniteAssumption, FS_Subset
<1>2. QED
  BY <1>1, FS_CardinalityType

(* Every step while a job is under way, by what it does to the job.        *)
LEMMA JobMovers ==
  ASSUME TypeOK, [Next]_vars, ~UNCHANGED vars, pc # "idle"
  PROVE  \/ Guest /\ UNCHANGED job
         \/ Remaining[pc'] < Remaining[pc]
         \/ UNCHANGED <<pc, todo, stuck>> /\ \E n \in names : names' = names \ {n}
         \/ UNCHANGED <<pc, names>> /\ \E op \in todo \ stuck : todo' \ stuck' = (todo \ stuck) \ {op}
<1>1. ~People
  BY DEF People, Push, SetBootstrap, SetArcCredentials, LoseState, StartApply, StartDestroy
<1>2. CASE Guest
  BY <1>2 DEF Guest, Onboards, BootsUnregistered, OnboardingFails, Settles
<1>3. CASE JobStep
  <2>1. CASE \/ Guard \/ CollectFromPlan \/ CollectFromState \/ CleanupDone \/ TerraformExits
             \/ VerifyApply \/ VerifyDestroy
    BY <2>1 DEF Guard, GuardSees, CollectFromPlan, CollectFromState, Collects, CleanupDone,
                TerraformExits, VerifyApply, VerifyDestroy, Verifies, Goes, Ends, Remaining
  <2>2. CASE \E n \in ArcName : DeleteMachine(n) \/ MachineAbsent(n)
    BY <2>2 DEF DeleteMachine, MachineAbsent
  <2>3. CASE \/ \E v \in VM : \/ CreateVm(v) \/ DeleteVm(v) \/ WriteFile(v) \/ DeleteFile(v)
                              \/ WriteMarker(v) \/ DeleteMarker(v)
             \/ WriteConfig \/ DeleteConfig
    <3>1. PICK op : Done(op)
      BY <2>3 DEF CreateVm, DeleteVm, WriteFile, DeleteFile, WriteMarker, DeleteMarker,
                  WriteConfig, DeleteConfig
    <3>2. QED
      BY <3>1 DEF Done, Records, Ready
  <2>4. QED
    BY <1>3, <2>1, <2>2, <2>3 DEF JobStep
<1>4. CASE Failure
  <2>1. CASE JobDies \/ ListingFails \/ VerifyListingFails
    BY <2>1, TypeOK DEF TypeOK, JobDies, ListingFails, GuardSees, VerifyListingFails, Verifies,
                        Goes, Ends, Remaining
  <2>2. CASE \E n \in ArcName : ShowFails(n)
    BY <2>2 DEF ShowFails
  <2>3. CASE (\E op \in todo : OpFails(op)) \/ \E v \in VM : HalfCreate(v) \/ HalfDelete(v)
    <3>1. PICK op : Fails(op)
      BY <2>3 DEF OpFails, HalfCreate, HalfDelete
    <3>2. QED
      BY <3>1 DEF Fails, Ready
  <2>4. CASE \E v \in VM : DropVm(v)
    <3>1. PICK op : Records(op)
      BY <2>4 DEF DropVm
    <3>2. QED
      BY <3>1 DEF Records, Ready
  <2>5. QED
    BY <1>4, <2>1, <2>2, <2>3, <2>4 DEF Failure
<1>5. QED
  BY <1>1, <1>2, <1>3, <1>4 DEF Next

(* Every step while a job is under way takes it closer to its end, or is a *)
(* guest's own and leaves it alone.                                        *)
LEMMA CloserStep ==
  ASSUME TypeOK, TypeOK', [Next]_vars, ~UNCHANGED vars, pc # "idle"
  PROVE  <<Distance', Distance>> \in Closer \/ (Guest /\ UNCHANGED job)
<1>1. /\ Remaining[pc] \in Nat /\ Cardinality(names) \in Nat /\ Cardinality(todo \ stuck) \in Nat
      /\ IsFiniteSet(names) /\ IsFiniteSet(todo \ stuck)
  <2>1. names \in SUBSET ArcName /\ todo \ stuck \in SUBSET Ops
    BY DEF TypeOK
  <2>2. Remaining[pc] \in Nat
    BY DEF TypeOK, Remaining
  <2>3. QED
    BY <2>1, <2>2, LeftType
<1>2. /\ Remaining[pc'] \in Nat /\ Cardinality(names') \in Nat
      /\ Cardinality(todo' \ stuck') \in Nat
  <2>1. names' \in SUBSET ArcName /\ todo' \ stuck' \in SUBSET Ops
    BY DEF TypeOK
  <2>2. Remaining[pc'] \in Nat
    BY DEF TypeOK, Remaining
  <2>3. QED
    BY <2>1, <2>2, LeftType
<1>3. Left \in Nat /\ Left' \in Nat
  BY <1>1, <1>2 DEF Left
<1>4. CASE Remaining[pc'] < Remaining[pc]
  BY <1>1, <1>2, <1>3, <1>4, CloserFacts DEF Distance
<1>5. ASSUME UNCHANGED <<pc, todo, stuck>>, NEW n \in names, names' = names \ {n}
      PROVE  <<Distance', Distance>> \in Closer
  <2>1. Cardinality(names') = Cardinality(names) - 1
    BY <1>1, <1>5, FS_RemoveElement
  <2>2. Left' < Left /\ Remaining[pc'] = Remaining[pc]
    BY <1>1, <1>2, <1>5, <2>1 DEF Left
  <2>3. QED
    BY <1>1, <1>2, <1>3, <2>2, CloserFacts DEF Distance
<1>6. ASSUME UNCHANGED <<pc, names>>, NEW op \in todo \ stuck,
             todo' \ stuck' = (todo \ stuck) \ {op}
      PROVE  <<Distance', Distance>> \in Closer
  <2>1. Cardinality(todo' \ stuck') = Cardinality(todo \ stuck) - 1
    BY <1>1, <1>6, FS_RemoveElement
  <2>2. Left' < Left /\ Remaining[pc'] = Remaining[pc]
    BY <1>1, <1>2, <1>6, <2>1 DEF Left
  <2>3. QED
    BY <1>1, <1>2, <1>3, <2>2, CloserFacts DEF Distance
<1>7. QED
  BY <1>4, <1>5, <1>6, JobMovers

(* While a job is under way only its own steps and failures move it, and   *)
(* each brings its end closer.                                             *)
JobAdvances ==
  [][pc # "idle" => <<Distance', Distance>> \in Closer \/ (Guest /\ UNCHANGED job)]_vars

(* A job runs out of steps: each of its own, and each failure, takes it    *)
(* closer to its end in an order without endless descents, and nothing but *)
(* the job moves it.                                                       *)
THEOREM ProgressCorrect == (Spec => JobAdvances) /\ IsWellFoundedOn(Closer, Nat \X Nat)
<1>1. IInv /\ IInv' /\ [Next]_vars =>
        [pc # "idle" => <<Distance', Distance>> \in Closer \/ (Guest /\ UNCHANGED job)]_vars
  BY CloserStep DEF IInv
<1>2. Spec => JobAdvances
  BY <1>1, Invariance, PTL DEF Spec, JobAdvances
<1>3. QED
  BY <1>2, CloserWellFounded

-------------------------------------------------------------------------------
(* What a job has to do it can do.                                         *)

Unused == {i \in Id : machine[i] = None}
BuildsPending == {v \in VM : Op("write", "vm", v) \in todo \ stuck}

(* There are ids enough for all that is to be built, from the start of an  *)
(* apply, when its bound is looked at, to the last build.                  *)
BuildsFit ==
  /\ pc \in {"guard", "plan", "clean"} /\ kind = "apply" =>
       Cardinality({v \in VM : Built(inv, v)}) <= Cardinality(Unused)
  /\ Cardinality(BuildsPending) <= Cardinality(Unused)

OpsNamed == \A op \in todo : IF op.type = "config" THEN op.vm = None ELSE op.vm \in VM

NeverStranded ==
  /\ pc = "guard" => kind = "apply"
  /\ OpsNamed
  /\ \A v \in VM : Ready(Op("write", "vm", v)) => Fresh # {}

(* VMs and ids can be counted.                                             *)
LEMMA Countable ==
  /\ IsFiniteSet(VM) /\ IsFiniteSet(Id)
  /\ \A S \in SUBSET VM : IsFiniteSet(S) /\ Cardinality(S) \in Nat
  /\ \A S \in SUBSET Id : IsFiniteSet(S) /\ Cardinality(S) \in Nat
<1>1. IsFiniteSet(VM)
  BY FiniteAssumption, NamesAssumption, FS_Subset
<1>2. IsFiniteSet(Id)
  BY BoundsAssumption, FS_Interval DEF Id
<1>3. QED
  BY <1>1, <1>2, FS_Subset, FS_CardinalityType

(* If an id is unused, one of them is next.                                *)
LEMMA FreshExists ==
  ASSUME Unused # {}
  PROVE  Fresh # {}
<1>1. Unused \subseteq Nat
  BY BoundsAssumption DEF Unused, Id
<1>2. PICK i \in Unused : \A j \in Unused : <<j, i>> \notin Below
  BY <1>1, BelowWellFounded, WFMin
<1>3. \A x, y \in Nat : <<x, y>> \in Below <=> x < y
  BY DEF Below, OpToRel
<1>4. ASSUME NEW j \in 1..(i - 1) PROVE machine[j] # None
  <2>1. j \in Id /\ j \in Nat /\ i \in Nat /\ j < i
    BY <1>4, BoundsAssumption DEF Unused, Id
  <2>2. QED
    BY <1>2, <1>3, <2>1 DEF Unused
<1>5. i \in Fresh
  BY <1>2, <1>4 DEF Fresh, Unused
<1>6. QED
  BY <1>5

(* The steps that matter to what is to be built and to the ids.            *)
LEMMA BuildMovers ==
  ASSUME PlanSound, [Next]_vars
  PROVE  \/ /\ UNCHANGED machine /\ todo' \ stuck' \subseteq todo \ stuck
            /\ \/ pc' \notin {"guard", "plan", "clean"}
               \/ pc \in {"guard", "plan", "clean"} /\ UNCHANGED <<kind, inv, tfVm>>
         \/ StartApply
         \/ StartDestroy
         \/ CleanupDone
         \/ \E v \in VM : CreateVm(v) \/ DeleteVm(v) \/ HalfCreate(v) \/ HalfDelete(v)
         \/ \E i \in Id : Settles(i)
<1>1. CASE UNCHANGED vars
  BY <1>1 DEF vars, record, world, job
<1>2. CASE People
  BY <1>2 DEF People, Push, SetBootstrap, SetArcCredentials, LoseState, world, job
<1>3. CASE JobStep
  <2>1. CASE Guard \/ CollectFromPlan \/ CollectFromState
    BY <2>1 DEF PlanSound, Guard, GuardSees, CollectFromPlan, CollectFromState, Collects, Goes,
                Ends, record, world
  <2>2. CASE \E n \in ArcName : DeleteMachine(n) \/ MachineAbsent(n)
    BY <2>2 DEF DeleteMachine, MachineAbsent, record, world
  <2>3. CASE \/ \E v \in VM : WriteFile(v) \/ DeleteFile(v) \/ WriteMarker(v) \/ DeleteMarker(v)
             \/ WriteConfig \/ DeleteConfig
    <3>1. UNCHANGED machine
      BY <2>3 DEF WriteFile, DeleteFile, WriteMarker, DeleteMarker, WriteConfig, DeleteConfig, world
    <3>2. PICK op : Done(op)
      BY <2>3 DEF WriteFile, DeleteFile, WriteMarker, DeleteMarker, WriteConfig, DeleteConfig
    <3>3. QED
      BY <3>1, <3>2 DEF Done, Records
  <2>4. CASE TerraformExits \/ VerifyApply \/ VerifyDestroy
    BY <2>4 DEF TerraformExits, VerifyApply, VerifyDestroy, Verifies, Goes, Ends, world
  <2>5. QED
    BY <1>3, <2>1, <2>2, <2>3, <2>4 DEF JobStep
<1>4. CASE Failure
  <2>1. CASE JobDies \/ ListingFails \/ VerifyListingFails \/ \E n \in ArcName : ShowFails(n)
    BY <2>1 DEF PlanSound, JobDies, ListingFails, GuardSees, VerifyListingFails, Verifies, ShowFails,
                Goes, Ends, record, world
  <2>2. CASE \E op \in todo : OpFails(op)
    BY <2>2 DEF OpFails, Fails
  <2>3. CASE \E v \in VM : DropVm(v)
    BY <2>3 DEF DropVm, Records, world
  <2>4. QED
    BY <1>4, <2>1, <2>2, <2>3 DEF Failure
<1>5. CASE Guest
  BY <1>5 DEF Guest, Onboards, BootsUnregistered, OnboardingFails
<1>6. QED
  BY <1>1, <1>2, <1>3, <1>4, <1>5 DEF Next

(* The ids suffice in the state a step leads to if as many are unused and  *)
(* no more is to be built.                                                 *)
LEMMA FitCarried ==
  ASSUME BuildsFit, Unused' = Unused, BuildsPending' \subseteq BuildsPending,
         \/ pc' \notin {"guard", "plan", "clean"}
         \/ kind' # "apply"
         \/ /\ pc \in {"guard", "plan", "clean"} /\ kind' = kind
            /\ \A v \in VM : Built(inv, v)' <=> Built(inv, v)
  PROVE  BuildsFit'
<1>1. Cardinality(BuildsPending') <= Cardinality(BuildsPending)
  BY Countable, FS_Subset DEF BuildsPending
<1>2. Cardinality(BuildsPending') <= Cardinality(Unused')
  <2>1. BuildsPending' \subseteq VM /\ BuildsPending \subseteq VM /\ Unused \subseteq Id
    BY DEF BuildsPending, Unused
  <2>2. QED
    BY <1>1, <2>1, Countable DEF BuildsFit
<1>3. ASSUME pc' \in {"guard", "plan", "clean"}, kind' = "apply"
      PROVE  Cardinality({v \in VM : Built(inv, v)'}) <= Cardinality(Unused')
  <2>1. {v \in VM : Built(inv, v)'} = {v \in VM : Built(inv, v)}
    BY <1>3
  <2>2. QED
    BY <1>3, <2>1 DEF BuildsFit
<1>4. QED
  BY <1>2, <1>3 DEF BuildsFit

(* A build, whether it succeeds or not, takes one id and is not tried      *)
(* again.                                                                  *)
LEMMA FitBuilds ==
  ASSUME TypeOK, RecordSound, NumbersSound, PlanSound, BuildsFit,
         NEW v \in VM, CreateVm(v) \/ HalfCreate(v)
  PROVE  BuildsFit'
<1>1. PICK i \in Fresh : NewGuest(v, i)
  BY CreateEffect
<1>2. i \in Unused
  BY <1>1 DEF NewGuest, Unused
<1>3. Unused' = Unused \ {i}
  BY <1>1 DEF NewGuest, Unused
<1>4. /\ pc' = "apply" /\ v \in BuildsPending
      /\ todo' \ stuck' = (todo \ stuck) \ {Op("write", "vm", v)}
  BY DEF CreateVm, HalfCreate, Done, Records, Fails, Ready, BuildsPending
<1>5. BuildsPending' = BuildsPending \ {v}
  BY <1>4 DEF BuildsPending, Op
<1>6. /\ Cardinality(Unused') = Cardinality(Unused) - 1
      /\ Cardinality(BuildsPending') = Cardinality(BuildsPending) - 1
  <2>1. IsFiniteSet(Unused) /\ IsFiniteSet(BuildsPending)
    BY Countable DEF Unused, BuildsPending
  <2>2. QED
    BY <1>2, <1>3, <1>4, <1>5, <2>1, FS_RemoveElement
<1>7. Cardinality(Unused) \in Nat /\ Cardinality(BuildsPending) \in Nat
  BY Countable DEF Unused, BuildsPending
<1>8. QED
  BY <1>4, <1>6, <1>7 DEF BuildsFit

(* Every step leaves ids enough.                                           *)
LEMMA FitStep ==
  ASSUME TypeOK, RecordSound, NumbersSound, PlanSound, BuildsFit, [Next]_vars
  PROVE  BuildsFit'
<1>1. CASE /\ UNCHANGED machine /\ todo' \ stuck' \subseteq todo \ stuck
           /\ \/ pc' \notin {"guard", "plan", "clean"}
              \/ pc \in {"guard", "plan", "clean"} /\ UNCHANGED <<kind, inv, tfVm>>
  <2>1. Unused' = Unused /\ BuildsPending' \subseteq BuildsPending
    BY <1>1 DEF Unused, BuildsPending
  <2>2. UNCHANGED <<inv, tfVm>> => \A v \in VM : Built(inv, v)' <=> Built(inv, v)
    BY <1>1 DEF Built, GoesAway, OnNode, At, Recorded, Live
  <2>3. QED
    BY <1>1, <2>1, <2>2, FitCarried
<1>2. CASE StartApply
  <2>1. inv' = main /\ UNCHANGED <<machine, tfVm, todo, stuck>> /\ CanBuild
    BY <1>2 DEF StartApply, record, world
  <2>2. {v \in VM : Built(inv, v)'} = {v \in VM : Built(main, v)} /\ Unused' = Unused
    BY <2>1 DEF Built, GoesAway, OnNode, At, Recorded, Live, Unused
  <2>3. BuildsPending' = BuildsPending
    BY <2>1 DEF BuildsPending
  <2>4. QED
    BY <2>1, <2>2, <2>3 DEF BuildsFit, CanBuild, Unused
<1>3. CASE StartDestroy
  <2>1. kind' = "destroy" /\ Unused' = Unused /\ BuildsPending' = BuildsPending
    BY <1>3 DEF StartDestroy, world, Unused, BuildsPending
  <2>2. QED
    BY <2>1, FitCarried
<1>4. CASE CleanupDone
  <2>1. /\ pc = "clean" /\ pc' = "apply" /\ Unused' = Unused
        /\ todo' \ stuck' \subseteq (IF kind = "apply" THEN ApplyOps(inv) ELSE DestroyOps)
    BY <1>4 DEF CleanupDone, Goes, world, Unused
  <2>2. CASE kind = "apply"
    <3>1. BuildsPending' \subseteq {v \in VM : Built(inv, v)}
      BY <2>1, <2>2 DEF BuildsPending, ApplyOps, Op
    <3>2. Cardinality(BuildsPending') <= Cardinality({v \in VM : Built(inv, v)})
      BY <3>1, Countable, FS_Subset
    <3>3. /\ Cardinality(BuildsPending') \in Nat /\ Cardinality({v \in VM : Built(inv, v)}) \in Nat
          /\ Cardinality(Unused) \in Nat
      BY Countable DEF BuildsPending, Unused
    <3>4. QED
      BY <2>1, <2>2, <3>2, <3>3 DEF BuildsFit
  <2>3. CASE kind # "apply"
    <3>1. BuildsPending' = {}
      BY <2>1, <2>3 DEF BuildsPending, DestroyOps, Op
    <3>2. Cardinality(BuildsPending') = 0 /\ Cardinality(Unused') \in Nat
      BY <3>1, FS_EmptySet, Countable DEF Unused
    <3>3. QED
      BY <2>1, <3>2 DEF BuildsFit
  <2>4. QED
    BY <2>2, <2>3
<1>5. ASSUME NEW v \in VM, DeleteVm(v) \/ HalfDelete(v) PROVE BuildsFit'
  <2>1. pc' = "apply" /\ todo' \ stuck' \subseteq todo \ stuck
    BY <1>5 DEF DeleteVm, Done, Records, HalfDelete, Fails, Ready
  <2>2. Unused' = Unused
    BY <1>5, DeleteEffect DEF Removed, Unused
  <2>3. BuildsPending' \subseteq BuildsPending
    BY <2>1 DEF BuildsPending
  <2>4. QED
    BY <2>1, <2>2, <2>3, FitCarried
<1>6. ASSUME NEW i \in Id, Settles(i) PROVE BuildsFit'
  <2>1. /\ UNCHANGED <<pc, kind, inv, todo, stuck>>
        /\ \A j \in Id : /\ machine'[j] = None <=> machine[j] = None
                         /\ machine[j] # None => /\ machine'[j].vm = machine[j].vm
                                                 /\ machine'[j].shape = machine[j].shape
    BY <1>6, SettleEffect
  <2>2. Unused' = Unused
    BY <2>1 DEF Unused
  <2>3. BuildsPending' = BuildsPending
    BY <2>1 DEF BuildsPending
  <2>4. ASSUME NEW v \in VM PROVE Built(inv, v)' <=> Built(inv, v)
    <3>1. At(v)' = At(v) /\ \A g \in At(v) : g \in Id /\ machine[g] # None
      BY <1>6, FoundSettled DEF At, Live
    <3>2. QED
      BY <2>1, <3>1 DEF Built, GoesAway, OnNode
  <2>5. QED
    BY <2>1, <2>2, <2>3, <2>4, FitCarried
<1>7. QED
  BY <1>1, <1>2, <1>3, <1>4, <1>5, <1>6, FitBuilds, BuildMovers

(* Every operation of a plan, while it is carried out, is one of those that*)
(* Terraform has.                                                          *)
LEMMA OpsNamedStep ==
  ASSUME TypeOK, PlanSound, OpsNamed, [Next]_vars
  PROVE  OpsNamed'
<1>1. CASE todo' \subseteq todo
  BY <1>1 DEF OpsNamed
<1>2. CASE CleanupDone
  <2>1. todo' = IF kind = "apply" THEN ApplyOps(inv) ELSE DestroyOps
    BY <1>2 DEF CleanupDone
  <2>2. \A op \in ApplyOps(inv) : IF op.type = "config" THEN op.vm = None ELSE op.vm \in VM
    BY TypeOK DEF TypeOK, ApplyOps, MarkersToWrite, Snippets, Op
  <2>3. \A op \in DestroyOps : IF op.type = "config" THEN op.vm = None ELSE op.vm \in VM
    BY TypeOK DEF TypeOK, DestroyOps, Snippets, Op
  <2>4. QED
    BY <2>1, <2>2, <2>3 DEF OpsNamed
<1>3. QED
  BY <1>1, <1>2, PlanMovers DEF CreateVm, DeleteVm, DropVm, Done, Records

(* Only an apply has a guard step.                                         *)
LEMMA GuardKind ==
  ASSUME [Next]_vars, pc = "guard" => kind = "apply"
  PROVE  pc' = "guard" => kind' = "apply"
<1>1. CASE UNCHANGED vars
  BY <1>1 DEF vars, job
<1>2. CASE People
  BY <1>2 DEF People, Push, SetBootstrap, SetArcCredentials, LoseState, StartApply, StartDestroy, job
<1>3. CASE JobStep
  BY <1>3 DEF JobStep, Guard, GuardSees, CollectFromPlan, CollectFromState, Collects, DeleteMachine,
       MachineAbsent, CleanupDone, Done, Records, CreateVm, DeleteVm, WriteFile, DeleteFile, WriteMarker,
       DeleteMarker, WriteConfig, DeleteConfig, TerraformExits, VerifyApply, VerifyDestroy, Verifies,
       Goes, Ends
<1>4. CASE Failure
  BY <1>4 DEF Failure, JobDies, ListingFails, GuardSees, VerifyListingFails, Verifies, ShowFails,
       OpFails, HalfCreate, HalfDelete, DropVm, Records, Fails, Goes, Ends
<1>5. CASE Guest
  BY <1>5 DEF Guest, Onboards, BootsUnregistered, OnboardingFails, Settles, job
<1>6. QED
  BY <1>1, <1>2, <1>3, <1>4, <1>5 DEF Next

(* A job never stands before a step it cannot take: the guard runs in      *)
(* applies only, what is ready is an operation Terraform has, and a guest  *)
(* to be built has an id, so that the model's bound holds up no job.       *)
THEOREM StrandedCorrect == Spec => []NeverStranded
<1> DEFINE Inv == BuildsFit /\ OpsNamed /\ (pc = "guard" => kind = "apply")
<1>1. Init => Inv
  <2> SUFFICES ASSUME Init PROVE Inv
    OBVIOUS
  <2>1. BuildsPending = {}
    BY DEF Init, BuildsPending
  <2>2. Cardinality(BuildsPending) = 0 /\ Cardinality(Unused) \in Nat
    BY <2>1, FS_EmptySet, Countable DEF Unused
  <2>3. BuildsFit
    BY <2>2 DEF Init, BuildsFit
  <2>4. QED
    BY <2>3 DEF Init, OpsNamed
<1>2. Inv /\ IInv /\ [Next]_vars => Inv'
  BY FitStep, OpsNamedStep, GuardKind DEF IInv
<1>3. Inv /\ IInv => NeverStranded
  <2>1. ASSUME Inv, IInv, NEW v \in VM, Ready(Op("write", "vm", v)) PROVE Fresh # {}
    <3>1. v \in BuildsPending
      BY <2>1 DEF Ready, BuildsPending
    <3>2. Cardinality(BuildsPending) # 0 /\ Cardinality(BuildsPending) \in Nat
      BY <3>1, FS_EmptySet, Countable DEF BuildsPending
    <3>3. Cardinality(Unused) # 0 /\ Cardinality(Unused) \in Nat
      BY <2>1, <3>2, Countable DEF BuildsFit, Unused
    <3>4. Unused # {}
      BY <3>3, FS_EmptySet
    <3>5. QED
      BY <3>4, FreshExists
  <2>2. QED
    BY <2>1 DEF NeverStranded
<1>4. QED
  BY <1>1, <1>2, <1>3, Invariance, PTL DEF Spec

===============================================================================
