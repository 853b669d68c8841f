---------------------------- MODULE ReconcileProofs ----------------------------
(***************************************************************************)
(* Proofs about Reconcile, for any names, ids, lists and defaults.         *)
(***************************************************************************)
EXTENDS Reconcile, TLAPS

(* What is recorded and still there, as the guest it is, has its           *)
(* configuration.                                                          *)
LabSound == \A e \in record \cap guests : e.id \in configured

(* An id that has been checked, and not been given to another guest since, *)
(* is that of no guest that has been configured or is being built.         *)
TargetSound ==
  /\ (target \ reissued) \cap (configured \cup Ids(building)) = {}
  /\ trusted => target \cap HandMade = {}

(* Nothing is checked before the tool has run, and the tool runs once all  *)
(* is captured.                                                            *)
InOrder ==
  /\ exit = -1 => rows = {} /\ target = {}
  /\ exit # -1 => captured = {"node", "state", "inventory"}
  /\ captured = {} => ~moved
  /\ trusted => \A r \in rows : r.verdict = "orphan" => r.ids \cap HandMade = {}

(* While the lab stands still, the captures show it.                       *)
Current ==
  exit = -1 /\ ~moved =>
    /\ "node" \in captured => node = ByName(guests)
    /\ "state" \in captured => state = record
    /\ "inventory" \in captured =>
         inventory = declared \/ (inventory = {Garbled} /\ declared # {})

IInv == TypeOK /\ LabSound /\ TargetSound /\ InOrder /\ Current /\ ZeroMeansSettled

Moves ==
  \/ EditInventory \/ Clone \/ WriteConfiguration \/ RecordGuest \/ BuildFails
  \/ RemoveUndeclared \/ DeleteByHand \/ Refresh

Captures == CaptureNode \/ CaptureState \/ CaptureInventory

-------------------------------------------------------------------------------
(* Every move is noticed once something is captured.                       *)
LEMMA MovesFacts ==
  ASSUME Moves
  PROVE  LabMoves
BY Zenon DEF Moves, EditInventory, Clone, WriteConfiguration, RecordGuest, BuildFails,
   RemoveUndeclared, DeleteByHand, Refresh

(* Whatever the lists are, every name gets one of the seven verdicts.      *)
LEMMA VerdictType ==
  ASSUME NEW protected, NEW present,
         NEW n \in inventory \cup Names(state) \cup Names(present)
  PROVE  Verdict(n, protected, present) \in Verdicts
BY DEF Verdict, Verdicts

(* `managed` is said only of what all three captures show.                 *)
LEMMA ManagedFacts ==
  ASSUME NEW protected, NEW present, NEW n, Verdict(n, protected, present) = "managed"
  PROVE  n \in inventory /\ n \in Names(state) /\ n \in Names(present)
BY DEF Verdict

(* `orphan` is not said of a protected guest.                              *)
LEMMA OrphanFacts ==
  ASSUME NEW protected, NEW present, NEW n, Verdict(n, protected, present) = "orphan"
  PROVE  ~ \E e \in present : e.name = n /\ e.id \in protected
BY DEF Verdict

(* A row's ids are those of guests on the node that are no template.       *)
LEMMA RowsFacts ==
  ASSUME TypeOK, NEW protected, NEW templates,
         NEW row \in Rows(protected, {e \in node : e.id \notin templates})
  PROVE  /\ row \in [name : AnyName \cup {Garbled}, ids : SUBSET Id, verdict : Verdicts]
         /\ row.verdict = "orphan" => row.ids \cap (protected \cup templates) = {}
<1> DEFINE present == {e \in node : e.id \notin templates}
<1>1. PICK n \in inventory \cup Names(state) \cup Names(present) :
        row = [name |-> n, ids |-> Ids({e \in present : e.name = n}),
               verdict |-> Verdict(n, protected, present)]
  BY DEF Rows
<1>2. n \in AnyName \cup {Garbled}
  BY DEF TypeOK, Names, Listed, AnyName
<1>3. Ids({e \in present : e.name = n}) \subseteq Id
  BY DEF TypeOK, Ids, Listed
<1>4. Verdict(n, protected, present) \in Verdicts
  BY VerdictType
<1>5. ASSUME Verdict(n, protected, present) = "orphan"
      PROVE  Ids({e \in present : e.name = n}) \cap (protected \cup templates) = {}
  <2>1. ~ \E e \in present : e.name = n /\ e.id \in protected
    BY <1>5, OrphanFacts
  <2>2. QED
    BY <2>1 DEF Ids
<1>6. QED
  BY <1>1, <1>2, <1>3, <1>4, <1>5

-------------------------------------------------------------------------------
(* Whatever is deleted, ids stay unique, and of what has been configured   *)
(* only what is still there is left.                                       *)
LEMMA DeletedFacts ==
  ASSUME TypeOK, NEW ids, Deleted(ids)
  PROVE  /\ guests' \subseteq guests
         /\ \A g, h \in guests' : g.id = h.id => g = h
         /\ configured' \subseteq Ids(guests') /\ configured' = configured \ ids
         /\ \A g \in guests' : g.id \notin ids
<1>1. guests' = {g \in guests : g.id \notin ids} /\ configured' = configured \ ids
  BY DEF Deleted
<1>2. configured \subseteq Ids(guests) /\ \A g, h \in guests : g.id = h.id => g = h
  BY DEF TypeOK
<1>3. QED
  BY <1>1, <1>2 DEF Ids

(* What a move does to the lab keeps ids unique and records accurate.      *)
LEMMA MovesType ==
  ASSUME TypeOK, LabSound, Moves
  PROVE  TypeOK'
<1> USE DEF lab, capture, result, LabMoves
<1>1. moved' \in BOOLEAN /\ UNCHANGED <<capture, result, target>>
  BY MovesFacts, Zenon
<1>2. CASE EditInventory
  BY <1>1, <1>2 DEF TypeOK, EditInventory
<1>3. CASE Clone
  <2>1. PICK n \in declared \ Names(record) :
          \E i \in Id \ Ids(guests) : building' = {[name |-> n, id |-> i]}
    BY <1>3 DEF Clone
  <2>2. PICK i \in Id \ Ids(guests) : building' = {[name |-> n, id |-> i]}
    BY <2>1
  <2>3. [name |-> n, id |-> i] \in Listed
    BY <2>1, <2>2 DEF TypeOK, Listed, AnyName
  <2>4. /\ guests' = guests \cup building' /\ UNCHANGED <<configured, record, declared>>
        /\ reissued' = reissued \cup (Ids(building') \cap target)
    BY <1>3 DEF Clone
  <2>5. \A g, h \in guests' : g.id = h.id => g = h
    BY <2>2, <2>4 DEF TypeOK, Ids
  <2>6. configured' \subseteq Ids(guests') /\ reissued' \subseteq target'
    BY <1>1, <2>4 DEF TypeOK, Ids
  <2>7. QED
    BY <1>1, <2>2, <2>3, <2>4, <2>5, <2>6 DEF TypeOK
<1>4. CASE WriteConfiguration
  <2>1. configured' \subseteq Ids(guests)
    BY <1>4 DEF WriteConfiguration, TypeOK, Ids
  <2>2. QED
    BY <1>1, <1>4, <2>1 DEF TypeOK, WriteConfiguration
<1>5. CASE RecordGuest
  <2>1. record' \subseteq Listed
    BY <1>5 DEF RecordGuest, TypeOK
  <2>2. QED
    BY <1>1, <1>5, <2>1 DEF TypeOK, RecordGuest
<1>6. CASE BuildFails
  BY <1>1, <1>6 DEF TypeOK, BuildFails
<1>7. CASE RemoveUndeclared
  <2>1. PICK e \in record : Deleted({e.id}) /\ record' = record \ {e}
    BY <1>7 DEF RemoveUndeclared
  <2>2. UNCHANGED <<declared, building, reissued>>
    BY <1>7 DEF RemoveUndeclared
  <2>3. QED
    BY <1>1, <2>1, <2>2, DeletedFacts DEF TypeOK
<1>8. CASE DeleteByHand
  <2>1. PICK g \in guests : Deleted({g.id})
    BY <1>8 DEF DeleteByHand
  <2>2. UNCHANGED <<record, declared, building, reissued>>
    BY <1>8 DEF DeleteByHand
  <2>3. QED
    BY <1>1, <2>1, <2>2, DeletedFacts DEF TypeOK
<1>9. CASE Refresh
  BY <1>1, <1>9 DEF TypeOK, Refresh
<1>10. QED
  BY <1>2, <1>3, <1>4, <1>5, <1>6, <1>7, <1>8, <1>9 DEF Moves

(* Deleting guests, whoever does it, leaves what is recorded configured:    *)
(* the ids that go are gone from both.                                      *)
LEMMA DeletedSound ==
  ASSUME TypeOK, LabSound, TargetSound, NEW ids, Deleted(ids),
         record' \subseteq record, UNCHANGED <<building, trusted, target, reissued>>
  PROVE  LabSound' /\ TargetSound'
<1>1. guests' \subseteq guests /\ configured' = configured \ ids /\ \A g \in guests' : g.id \notin ids
  BY DeletedFacts
<1>2. LabSound'
  BY <1>1 DEF LabSound
<1>3. TargetSound'
  BY <1>1 DEF TargetSound, Ids
<1>4. QED
  BY <1>2, <1>3

(* A lab that moves stays sound: a clone takes a name that is not recorded, *)
(* and an id that, if it has been checked, counts as given anew.            *)
LEMMA MovesLab ==
  ASSUME TypeOK, LabSound, TargetSound, Moves
  PROVE  LabSound' /\ TargetSound'
<1> USE DEF lab, capture, result, LabMoves
<1>1. UNCHANGED <<trusted, target>>
  BY MovesFacts
<1>2. CASE EditInventory \/ BuildFails \/ Refresh
  BY <1>1, <1>2 DEF EditInventory, BuildFails, Refresh, Ids, LabSound, TargetSound
<1>3. CASE Clone
  <2>1. PICK n \in declared \ Names(record) :
          \E i \in Id \ Ids(guests) : building' = {[name |-> n, id |-> i]}
    BY <1>3 DEF Clone
  <2>2. PICK i \in Id \ Ids(guests) : building' = {[name |-> n, id |-> i]}
    BY <2>1
  <2>3. /\ building = {} /\ guests' = guests \cup building' /\ UNCHANGED <<configured, record>>
        /\ reissued' = reissued \cup (Ids(building') \cap target)
    BY <1>3 DEF Clone
  <2>4. Ids(building') = {i}
    BY <2>2 DEF Ids
  <2>5. [name |-> n, id |-> i] \notin record
    BY <2>1 DEF Names
  <2>6. LabSound'
    BY <2>2, <2>3, <2>5 DEF LabSound
  <2>7. TargetSound'
    BY <1>1, <2>3, <2>4 DEF TargetSound
  <2>8. QED
    BY <2>6, <2>7
<1>4. CASE WriteConfiguration
  <2>1. configured' = configured \cup Ids(building) /\ UNCHANGED <<guests, record, building, reissued>>
    BY <1>4 DEF WriteConfiguration
  <2>2. QED
    BY <1>1, <2>1 DEF LabSound, TargetSound, Ids
<1>5. CASE RecordGuest
  <2>1. /\ record' = record \cup building /\ building' = {}
        /\ UNCHANGED <<guests, configured, reissued>> /\ Ids(building) \subseteq configured
    BY <1>5 DEF RecordGuest
  <2>2. \A e \in building : e.id \in configured
    BY <2>1 DEF Ids
  <2>3. Ids(building') = {}
    BY <2>1 DEF Ids
  <2>4. LabSound'
    BY <2>1, <2>2 DEF LabSound
  <2>5. TargetSound'
    BY <1>1, <2>1, <2>3 DEF TargetSound
  <2>6. QED
    BY <2>4, <2>5
<1>6. CASE RemoveUndeclared
  <2>1. PICK e \in record : Deleted({e.id}) /\ record' = record \ {e}
    BY <1>6 DEF RemoveUndeclared
  <2>2. UNCHANGED <<building, reissued>>
    BY <1>6 DEF RemoveUndeclared
  <2>3. QED
    BY <1>1, <2>1, <2>2, DeletedSound
<1>7. CASE DeleteByHand
  <2>1. PICK g \in guests : Deleted({g.id})
    BY <1>7 DEF DeleteByHand
  <2>2. UNCHANGED <<record, building, reissued>>
    BY <1>7 DEF DeleteByHand
  <2>3. QED
    BY <1>1, <2>1, <2>2, DeletedSound
<1>8. QED
  BY <1>2, <1>3, <1>4, <1>5, <1>6, <1>7 DEF Moves

-------------------------------------------------------------------------------
(* Every step keeps the types.                                              *)
LEMMA TypeStep ==
  ASSUME TypeOK, LabSound, TargetSound, InOrder, Next
  PROVE  TypeOK'
<1> USE DEF lab, capture, result
<1>1. CASE Moves
  BY <1>1, MovesType
<1>2. CASE Captures
  <2>1. ByName(guests) \subseteq Listed
    BY DEF ByName, TypeOK
  <2>2. QED
    BY <1>2, <2>1 DEF TypeOK, Captures, CaptureNode, CaptureState, CaptureInventory, Capture
<1>3. CASE StartOver
  BY <1>3 DEF TypeOK, StartOver
<1>4. CASE RunTool
  <2>1. PICK protected \in ProtectedIds, templates \in TemplateIds :
          /\ rows' = Rows(protected, {e \in node : e.id \notin templates})
          /\ trusted' = (protected = Protected /\ templates = Template)
    BY <1>4 DEF RunTool
  <2>2. rows' \subseteq [name : AnyName \cup {Garbled}, ids : SUBSET Id, verdict : Verdicts]
    BY <2>1, RowsFacts
  <2>3. trusted' \in BOOLEAN
    BY <2>1, Zenon
  <2>4. QED
    BY <1>4, <2>2, <2>3 DEF TypeOK, RunTool
<1>5. CASE ToolRefuses
  BY <1>5 DEF TypeOK, ToolRefuses
<1>6. CASE CheckOrphan
  BY <1>6 DEF TypeOK, CheckOrphan
<1>7. CASE Purge
  <2>1. Deleted(target)
    BY <1>7 DEF Purge
  <2>2. UNCHANGED <<record, declared, building, capture, result>>
    BY <1>7 DEF Purge
  <2>3. target' = {} /\ reissued' = {} /\ moved' = TRUE
    BY <1>7 DEF Purge
  <2>4. QED
    BY <2>1, <2>2, <2>3, DeletedFacts DEF TypeOK
<1>8. QED
  BY <1>1, <1>2, <1>3, <1>4, <1>5, <1>6, <1>7 DEF Next, Moves, Captures

(* A check finds nothing recorded, configured or being built; a purge      *)
(* deletes, and is done with what has been checked.                        *)
LEMMA LabStep ==
  ASSUME TypeOK, LabSound, TargetSound, InOrder, Next
  PROVE  LabSound' /\ TargetSound'
<1> USE DEF lab, capture, result
<1>1. CASE Moves
  BY <1>1, MovesLab
<1>2. CASE Captures \/ ToolRefuses
  BY <1>2 DEF Captures, CaptureNode, CaptureState, CaptureInventory, Capture, ToolRefuses,
     LabSound, TargetSound, Ids
<1>3. CASE StartOver
  BY <1>3 DEF StartOver, LabSound, TargetSound, Ids
<1>4. CASE RunTool
  <2>1. target = {} /\ target' = {} /\ UNCHANGED <<guests, configured, record>>
    BY <1>4 DEF RunTool, InOrder
  <2>2. QED
    BY <2>1 DEF LabSound, TargetSound
<1>5. CASE CheckOrphan
  <2>1. PICK r \in rows : r.verdict = "orphan" /\ r.ids \cap configured = {} /\ target' = r.ids
    BY <1>5 DEF CheckOrphan
  <2>2. building = {} /\ UNCHANGED <<guests, configured, record, building, trusted>>
    BY <1>5 DEF CheckOrphan
  <2>3. Ids(building') = {}
    BY <2>2 DEF Ids
  <2>4. trusted => r.ids \cap HandMade = {}
    BY <2>1 DEF InOrder
  <2>5. LabSound'
    BY <2>2 DEF LabSound
  <2>6. TargetSound'
    BY <2>1, <2>2, <2>3, <2>4 DEF TargetSound
  <2>7. QED
    BY <2>5, <2>6
<1>6. CASE Purge
  <2>1. Deleted(target) /\ target' = {} /\ UNCHANGED <<record, building, trusted>>
    BY <1>6 DEF Purge
  <2>2. guests' \subseteq guests /\ configured' = configured \ target
        /\ \A g \in guests' : g.id \notin target
    BY <2>1, DeletedFacts
  <2>3. LabSound'
    BY <2>1, <2>2 DEF LabSound
  <2>4. TargetSound'
    BY <2>1 DEF TargetSound
  <2>5. QED
    BY <2>3, <2>4
<1>7. QED
  BY <1>1, <1>2, <1>3, <1>4, <1>5, <1>6 DEF Next, Moves, Captures

(* The tool runs after the captures, and the purge after the tool.          *)
LEMMA OrderStep ==
  ASSUME TypeOK, InOrder, Next
  PROVE  InOrder'
<1> USE DEF lab, capture, result, InOrder
<1>1. CASE Moves
  <2>1. UNCHANGED <<captured, rows, exit, trusted, target>> /\ (captured = {} => ~moved')
    BY <1>1, MovesFacts DEF LabMoves
  <2>2. QED
    BY <2>1
<1>2. CASE Captures \/ ToolRefuses
  BY <1>2 DEF Captures, CaptureNode, CaptureState, CaptureInventory, Capture, ToolRefuses
<1>3. CASE StartOver
  BY <1>3 DEF StartOver
<1>4. CASE RunTool
  <2>1. PICK protected \in ProtectedIds, templates \in TemplateIds :
          /\ rows' = Rows(protected, {e \in node : e.id \notin templates})
          /\ trusted' = (protected = Protected /\ templates = Template)
    BY <1>4 DEF RunTool
  <2>2. trusted' => \A r \in rows' : r.verdict = "orphan" => r.ids \cap HandMade = {}
    <3>1. trusted' => protected = Protected /\ templates = Template
      BY <2>1, Zenon
    <3>2. \A r \in rows' : r.verdict = "orphan" => r.ids \cap (protected \cup templates) = {}
      BY <2>1, RowsFacts
    <3>3. QED
      BY <3>1, <3>2 DEF HandMade
  <2>3. exit' # -1 /\ captured' = {"node", "state", "inventory"}
    BY <1>4 DEF RunTool
  <2>4. QED
    BY <2>2, <2>3
<1>5. CASE CheckOrphan
  BY <1>5 DEF CheckOrphan
<1>6. CASE Purge
  BY <1>6 DEF Purge
<1>7. QED
  BY <1>1, <1>2, <1>3, <1>4, <1>5, <1>6 DEF Next, Moves, Captures

(* A move spoils the captures, but then it has been noticed.               *)
LEMMA CurrentStep ==
  ASSUME TypeOK, InOrder, Current, ZeroMeansSettled, Next
  PROVE  Current' /\ ZeroMeansSettled'
<1> USE DEF lab, capture, result, Current, ZeroMeansSettled
<1>1. CASE Moves
  <2>1. UNCHANGED <<captured, exit>> /\ (~moved' => captured = {})
    BY <1>1, MovesFacts DEF LabMoves
  <2>2. QED
    BY <2>1 DEF InOrder
<1>2. CASE Captures
  BY <1>2 DEF Captures, CaptureNode, CaptureState, CaptureInventory, Capture
<1>3. CASE StartOver
  BY <1>3 DEF StartOver
<1>4. CASE RunTool
  <2>1. PICK protected \in ProtectedIds, templates \in TemplateIds :
          rows' = Rows(protected, {e \in node : e.id \notin templates})
    BY <1>4 DEF RunTool
  <2> DEFINE present == {e \in node : e.id \notin templates}
  <2>2. SUFFICES ASSUME exit' = 0, ~moved
                 PROVE  Names(record) = declared /\ declared \subseteq Names(guests)
    BY <1>4, <2>2 DEF RunTool
  <2>3. /\ node = ByName(guests) /\ state = record
        /\ inventory = declared \/ (inventory = {Garbled} /\ declared # {})
    BY <1>4, <2>2 DEF RunTool
  <2>4. ASSUME NEW n \in inventory \cup Names(state) \cup Names(present)
        PROVE  n \in inventory /\ n \in Names(state) /\ n \in Names(present)
    <3>1. [name |-> n, ids |-> Ids({e \in present : e.name = n}),
           verdict |-> Verdict(n, protected, present)] \in rows'
      BY <2>1, <2>4, Zenon DEF Rows
    <3>2. \A r \in rows' : r.verdict = "managed"
      BY <1>4, <2>2 DEF RunTool
    <3>3. Verdict(n, protected, present) = "managed"
      BY <3>1, <3>2
    <3>4. QED
      BY <3>3, ManagedFacts
  <2>5. present \subseteq guests
    BY <2>3 DEF ByName
  <2>6. Names(present) \subseteq Names(guests)
    BY <2>5 DEF Names
  <2>7. Garbled \notin inventory
    <3>1. Garbled \notin Names(state)
      BY GarbledAssumption DEF TypeOK, Names, Listed
    <3>2. QED
      BY <2>4, <3>1
  <2>8. QED
    BY <2>3, <2>4, <2>6, <2>7
<1>5. CASE ToolRefuses \/ CheckOrphan
  BY <1>5 DEF ToolRefuses, CheckOrphan, InOrder
<1>6. CASE Purge
  BY <1>6 DEF Purge
<1>7. QED
  BY <1>1, <1>2, <1>3, <1>4, <1>5, <1>6 DEF Next, Moves, Captures

(* The inductive invariant holds at the start,                              *)
LEMMA InitIInv == Init => IInv
<1> SUFFICES ASSUME Init
             PROVE  IInv
  OBVIOUS
<1> USE DEF Init
<1>1. PICK there \in SUBSET HandMade : guests = {[name |-> NameOf[i], id |-> i] : i \in there}
  OBVIOUS
<1>2. guests \subseteq Listed /\ \A g, h \in guests : g.id = h.id => g = h
  BY <1>1 DEF Listed, AnyName, Id
<1>3. TypeOK
  <2>1. trusted \in BOOLEAN /\ moved \in BOOLEAN
    BY Zenon
  <2>2. QED
    BY <1>2, <2>1 DEF TypeOK
<1>4. LabSound /\ TargetSound /\ InOrder /\ Current /\ ZeroMeansSettled
  BY DEF LabSound, TargetSound, InOrder, Current, ZeroMeansSettled, Ids
<1>5. QED
  BY <1>3, <1>4 DEF IInv

(* and every step keeps it,                                                 *)
LEMMA StepIInv == IInv /\ [Next]_vars => IInv'
<1> SUFFICES ASSUME IInv, [Next]_vars
             PROVE  IInv'
  OBVIOUS
<1>1. CASE Next
  BY <1>1, TypeStep, LabStep, OrderStep, CurrentStep DEF IInv
<1>2. CASE UNCHANGED vars
  <2>1. UNCHANGED <<guests, configured, record, declared, building, node, state, inventory,
                    captured, rows, exit, trusted, target, reissued, moved>>
    BY <1>2 DEF vars, lab, capture, result
  <2>2. QED
    BY <2>1 DEF IInv, TypeOK, LabSound, TargetSound, InOrder, Current, ZeroMeansSettled, Ids,
       Names, ByName
<1>3. QED
  BY <1>1, <1>2

(* so that it holds throughout: types, a sound lab and target, the order    *)
(* of the steps, current captures.                                          *)
THEOREM Inductive == Spec => []IInv
BY InitIInv, StepIInv, PTL DEF Spec

-------------------------------------------------------------------------------
(* Every variable keeps its type, and no two guests have one id.           *)
THEOREM ReconcileTypeCorrect == Spec => []TypeOK
BY Inductive, PTL DEF IInv

(* A tool that ends with 0 over a lab that stood still has found nothing   *)
(* for an apply to build or to remove (reconcile_inventory.py).            *)
THEOREM ZeroCorrect == Spec => []ZeroMeansSettled
BY Inductive, PTL DEF IInv

(* Following a row that says `orphan` destroys nothing that is recorded or *)
(* being built, whichever guests there are, whoever deletes some of them,  *)
(* and however old the row is, as long as the checked id has not been      *)
(* given to another guest between check and purge; and if the lists the    *)
(* tool used are those in force, it names the id of nothing protected and  *)
(* of no template (incident-orphan-vm.md, unmanaged-vms.md).               *)
THEOREM PurgeCorrect == Spec => InnocentSpared
<1>1. TypeOK /\ LabSound => Ids((record \cap guests) \cup building) \subseteq configured \cup Ids(building)
  BY DEF LabSound, Ids
<1>2. IInv => [Purge => /\ (target \ reissued) \cap Ids((record \cap guests) \cup building) = {}
                        /\ trusted => target \cap HandMade = {}]_vars
  <2>1. IInv => (target \ reissued) \cap Ids((record \cap guests) \cup building) = {}
    BY <1>1 DEF IInv, TargetSound
  <2>2. QED
    BY <2>1, Zenon DEF IInv, TargetSound
<1>3. QED
  BY <1>2, Inductive, PTL DEF Spec, InnocentSpared
===============================================================================
