--------------------------- MODULE StateBackupProofs ---------------------------
(***************************************************************************)
(* Proofs about StateBackup, for every Keep and every number of jobs,      *)
(* contents and clock values.                                              *)
(***************************************************************************)
EXTENDS StateBackup, FiniteSetTheorems, TLAPS

Saved(files) == \E f \in files : f.name = target /\ f.copy = before

(* Until Terraform runs, the state is what the job found; once the copy    *)
(* was compared it is there, and it is none of the files to be deleted.    *)
CopyKept ==
  /\ pc \in {"copy", "verify"} => content = before /\ WorthBackingUp(content)
  /\ pc = "prune" => Saved(backups) /\ \A f \in condemned : f.name # target

IInv == TypeOK /\ CopyKept /\ WriteBackedUp

(* The inductive invariant holds in the first state.                       *)
LEMMA InitInv == Init => IInv
<1> SUFFICES ASSUME Init PROVE IInv
  OBVIOUS
<1>1. TypeOK
  <2>1. /\ 0 \in 0..MaxVersion /\ 0 \in 0..MaxClock /\ 0 \in 0..MaxRuns
    BY BoundsAssumption
  <2>2. target \in Name
    BY <2>1 DEF Init, Name
  <2>3. content \in Content /\ before \in Content /\ undo \in Content
    BY DEF Init, Content
  <2>4. QED
    BY <2>1, <2>2, <2>3 DEF Init, TypeOK
<1>2. CopyKept /\ WriteBackedUp
  BY DEF Init, CopyKept, WriteBackedUp
<1>3. QED
  BY <1>1, <1>2 DEF IInv

(* What is worth copying is a version.                                     *)
LEMMA WorthIsVersion ==
  ASSUME TypeOK, WorthBackingUp(content)
  PROVE  content \in Version
BY DEF TypeOK, Content, WorthBackingUp

(* A file appears under the name this job takes.                           *)
LEMMA WrittenType ==
  ASSUME TypeOK, NEW copy \in Version \cup {Short}, Written(copy)
  PROVE  /\ backups' \subseteq File /\ backups \subseteq backups' /\ age' \in Nat
BY DEF TypeOK, Written, File

(* The inductive invariant is kept by every step.                          *)
LEMMA StepInv == IInv /\ [Next]_vars => IInv'
<1> SUFFICES ASSUME IInv, [Next]_vars PROVE IInv'
  OBVIOUS
<1> USE DEF IInv
<1>1. CASE UNCHANGED vars
  BY <1>1 DEF vars, TypeOK, CopyKept, Saved, WriteBackedUp
<1>2. CASE Tick \/ SetClockBack
  <2>1. clock' \in 0..MaxClock
    BY <1>2, BoundsAssumption DEF Tick, SetClockBack, TypeOK
  <2>2. skewed' \in BOOLEAN
    BY <1>2 DEF Tick, SetClockBack, TypeOK
  <2>3. UNCHANGED <<content, version, backups, runs, pc, target, condemned, before, undo, age>>
    BY <1>2 DEF Tick, SetClockBack
  <2>4. QED
    BY <2>1, <2>2, <2>3 DEF TypeOK, CopyKept, Saved, WriteBackedUp
<1>3. CASE Start
  <2>1. target' \in Name /\ runs' \in 0..MaxRuns
    BY <1>3, BoundsAssumption DEF Start, TypeOK, Name
  <2>2. TypeOK'
    BY <1>3, <2>1 DEF Start, TypeOK
  <2>3. CopyKept' /\ WriteBackedUp'
    BY <1>3 DEF Start, CopyKept, WriteBackedUp
  <2>4. QED
    BY <2>2, <2>3
<1>4. ASSUME Copy \/ CopyFails PROVE IInv'
  <2>1. content \in Version
    BY <1>4, WorthIsVersion DEF Copy, CopyFails, CopyKept
  <2>2. \/ UNCHANGED <<backups, age>>
        \/ \E copy \in Version \cup {Short} : Written(copy)
    BY <1>4, <2>1 DEF Copy, CopyFails
  <2>3. backups' \subseteq File /\ backups \subseteq backups' /\ age' \in Nat
    BY <2>2, WrittenType DEF TypeOK
  <2>4. QED
    BY <1>4, <2>3 DEF Copy, CopyFails, TypeOK, CopyKept, WriteBackedUp
<1>5. CASE Verify
  <2>1. Matches => Saved(backups)
    BY <1>5 DEF Verify, Matches, Saved, CopyKept
  <2>2. Excess(backups, target) \subseteq backups /\ \A f \in Excess(backups, target) : f.name # target
    BY DEF Excess
  <2>3. QED
    BY <1>5, <2>1, <2>2 DEF Verify, TypeOK, CopyKept, Saved, WriteBackedUp
<1>6. CASE Prune
  <2>1. PICK f \in condemned : backups' = backups \ {f} /\ condemned' = condemned \ {f}
    BY <1>6 DEF Prune
  <2>2. f.name # target
    BY <1>6, <2>1 DEF Prune, CopyKept
  <2>3. QED
    BY <1>6, <2>1, <2>2 DEF Prune, TypeOK, CopyKept, Saved, WriteBackedUp
<1>7. CASE PruneDone
  BY <1>7 DEF PruneDone, TypeOK, CopyKept, Saved, WriteBackedUp
<1>8. CASE TerraformWrites
  <2>1. version' \in 0..MaxVersion /\ content' \in Content
    BY <1>8, BoundsAssumption DEF TerraformWrites, TypeOK, Content, Version
  <2>2. QED
    BY <1>8, <2>1 DEF TerraformWrites, TypeOK, CopyKept, WriteBackedUp
<1>9. CASE JobEnds
  BY <1>9 DEF JobEnds, TypeOK, CopyKept, WriteBackedUp
<1>10. CASE LoseState \/ Restore
  <2>1. content' \in Content
    BY <1>10 DEF LoseState, Restore, TypeOK, File, Content
  <2>2. QED
    BY <1>10, <2>1 DEF LoseState, Restore, TypeOK, CopyKept, WriteBackedUp
<1>11. QED
  BY <1>1, <1>2, <1>3, <1>4, <1>5, <1>6, <1>7, <1>8, <1>9, <1>10 DEF Next

(* The inductive invariant holds throughout.                               *)
LEMMA Invariance == Spec => []IInv
BY InitInv, StepInv, PTL DEF Spec

(* Every variable keeps its type; no file is set to be deleted that is not *)
(* there.                                                                  *)
THEOREM BackupTypeCorrect == Spec => []TypeOK
<1>1. IInv => TypeOK
  BY DEF IInv
<1>2. QED
  BY <1>1, Invariance, PTL

(* Terraform runs over a state worth copying only once an exact copy of it *)
(* is on disk, however the clock is set, however copies fail, and whatever *)
(* the pruning before it deleted.                                          *)
THEOREM BackupCorrect == Spec => []WriteBackedUp
<1>1. IInv => WriteBackedUp
  BY DEF IInv
<1>2. QED
  BY <1>1, Invariance, PTL

-------------------------------------------------------------------------------
(* The second argument: which copies pruning spares.                       *)

(* While the clock has only run forward, no file is newer than the one     *)
(* this job makes.                                                         *)
Stamped ==
  ~skewed =>
    /\ \A f \in backups : f.name.stamp <= clock /\ f.name.run <= runs
    /\ pc # "idle" =>
         /\ target.run = runs /\ target.stamp <= clock
         /\ \A f \in backups : f.name.stamp <= target.stamp

(* A job that has written found what can be undone.                        *)
OneUndo ==
  /\ pc \in {"copy", "verify", "prune"} => content = before
  /\ pc = "terraform" /\ content # before => undo = before

After(f, files) == {g \in files : Newer(g, f)}

(* The copy to put back has no more files after it than were made since,   *)
(* and so is never one too many.                                           *)
Undoable ==
  WorthBackingUp(undo) /\ age < Keep /\ ~skewed =>
    \E f \in backups : /\ f.copy = undo /\ Cardinality(After(f, backups)) <= age
                       /\ pc = "prune" => f \notin condemned

UInv == IsFiniteSet(backups) /\ Stamped /\ OneUndo /\ Undoable

(* One more file adds at most one to those after another.                  *)
LEMMA OneMore ==
  ASSUME NEW files, IsFiniteSet(files), NEW new, NEW f
  PROVE  /\ IsFiniteSet(files \cup {new})
         /\ Cardinality(After(f, files)) \in Nat
         /\ Cardinality(After(f, files \cup {new})) \in Nat
         /\ Cardinality(After(f, files \cup {new})) <= Cardinality(After(f, files)) + 1
<1>1. IsFiniteSet(files \cup {new})
  BY FS_AddElement
<1>2. After(f, files) \subseteq files /\ After(f, files \cup {new}) \subseteq files \cup {new}
  BY DEF After
<1>3. IsFiniteSet(After(f, files)) /\ IsFiniteSet(After(f, files \cup {new}))
  BY <1>1, <1>2, FS_Subset
<1>4. After(f, files \cup {new}) \subseteq After(f, files) \cup {new}
  BY DEF After
<1>5. /\ IsFiniteSet(After(f, files) \cup {new})
      /\ Cardinality(After(f, files) \cup {new}) <= Cardinality(After(f, files)) + 1
  <2> DEFINE after == After(f, files)
  <2> HIDE DEF after
  <2>1. IsFiniteSet(after)
    BY <1>3 DEF after
  <2>2. Cardinality(after) \in Nat
    BY <2>1, FS_CardinalityType
  <2>3. /\ IsFiniteSet(after \cup {new})
        /\ Cardinality(after \cup {new}) =
             IF new \in after THEN Cardinality(after) ELSE Cardinality(after) + 1
    BY <2>1, FS_AddElement
  <2>4. IsFiniteSet(after \cup {new}) /\ Cardinality(after \cup {new}) <= Cardinality(after) + 1
    BY <2>2, <2>3
  <2>5. QED
    BY <2>4 DEF after
<1>6. Cardinality(After(f, files \cup {new})) <= Cardinality(After(f, files) \cup {new})
  BY <1>4, <1>5, FS_Subset
<1>7. QED
  BY <1>1, <1>3, <1>5, <1>6, FS_CardinalityType

(* A file less can only take one away.                                     *)
LEMMA OneLess ==
  ASSUME NEW files, IsFiniteSet(files), NEW less \in SUBSET files, NEW f
  PROVE  /\ IsFiniteSet(less)
         /\ Cardinality(After(f, less)) \in Nat /\ Cardinality(After(f, files)) \in Nat
         /\ Cardinality(After(f, less)) <= Cardinality(After(f, files))
<1>1. After(f, files) \subseteq files /\ After(f, less) \subseteq After(f, files)
  BY DEF After
<1>2. IsFiniteSet(After(f, files))
  BY <1>1, FS_Subset
<1>3. QED
  BY <1>1, <1>2, FS_Subset, FS_CardinalityType

(* No file comes after the one this job makes.                             *)
LEMMA TargetNewest ==
  ASSUME TypeOK, Stamped, ~skewed, pc # "idle", NEW f \in backups, f.name = target
  PROVE  Cardinality(After(f, backups)) = 0
<1>1. ASSUME NEW g \in backups
      PROVE  ~Newer(g, f)
  <2>1. /\ g.name.stamp \in Int /\ g.name.run \in Int
        /\ target.stamp \in Int /\ target.run \in Int
    BY BoundsAssumption DEF TypeOK, File, Name
  <2>2. g.name.stamp <= target.stamp /\ g.name.run <= target.run
    BY DEF Stamped
  <2>3. QED
    BY <2>1, <2>2 DEF Newer
<1>2. After(f, backups) = {}
  BY <1>1 DEF After
<1>3. QED
  BY <1>2, FS_EmptySet

(* Nothing has been written at first.                                       *)
LEMMA UInvInit == Init => UInv
<1> SUFFICES ASSUME Init PROVE UInv
  OBVIOUS
<1>1. IsFiniteSet(backups)
  BY FS_EmptySet DEF Init
<1>2. QED
  BY <1>1 DEF Init, UInv, Stamped, OneUndo, Undoable, WorthBackingUp

(* No copy is from the future while the clock runs forward.                 *)
LEMMA StampedStep ==
  ASSUME TypeOK, Stamped, Next
  PROVE  Stamped'
<1> USE DEF Stamped
<1>1. CASE skewed'
  BY <1>1
<1>2. ASSUME ~skewed', ~skewed, Tick
      PROVE  Stamped'
  <2>1. clock \in Int /\ clock' = clock + 1 /\ target.stamp \in Int
        /\ UNCHANGED <<backups, runs, pc, target>>
    BY <1>2, BoundsAssumption DEF Tick, TypeOK, Name
  <2>2. \A f \in backups : f.name.stamp \in Int
    BY BoundsAssumption DEF TypeOK, File, Name
  <2>3. QED
    BY <1>2, <2>1, <2>2
<1>3. ASSUME ~skewed', ~skewed, Start
      PROVE  Stamped'
  <2>1. runs \in Int /\ runs' = runs + 1 /\ target' = [stamp |-> clock, run |-> runs + 1]
        /\ UNCHANGED <<backups, clock>>
    BY <1>3, BoundsAssumption DEF Start, TypeOK
  <2>2. \A f \in backups : f.name.run \in Int
    BY BoundsAssumption DEF TypeOK, File, Name
  <2>3. target'.run = runs' /\ target'.stamp = clock /\ clock \in Int
    BY <2>1, BoundsAssumption DEF TypeOK
  <2>4. QED
    BY <1>3, <2>1, <2>2, <2>3
<1>4. ASSUME ~skewed', ~skewed, Copy \/ CopyFails
      PROVE  Stamped'
  <2>1. \A f \in backups' : f \in backups \/ f.name = target
    BY <1>4 DEF Copy, CopyFails, Written
  <2>2. UNCHANGED <<clock, runs, target>> /\ pc = "copy"
    BY <1>4 DEF Copy, CopyFails
  <2>3. target.stamp \in Int /\ target.run \in Int
    BY BoundsAssumption DEF TypeOK, Name
  <2>4. QED
    BY <1>4, <2>1, <2>2, <2>3
<1>5. ASSUME ~skewed', ~skewed, Prune
      PROVE  Stamped'
  BY <1>5 DEF Prune
<1>6. ASSUME ~skewed', ~skewed,
             Verify \/ PruneDone \/ TerraformWrites \/ JobEnds \/ LoseState \/ Restore
      PROVE  Stamped'
  BY <1>6 DEF Verify, PruneDone, TerraformWrites, JobEnds, LoseState, Restore
<1>7. ~skewed' => ~skewed /\ ~SetClockBack
  <2>1. SetClockBack => skewed'
    BY Zenon DEF SetClockBack
  <2>2. CASE UNCHANGED skewed
    BY <2>1, <2>2, Zenon
  <2>3. QED
    BY <2>1, <2>2, Zenon DEF Next, Tick, Start, Copy, CopyFails, Verify, Prune, PruneDone,
       TerraformWrites, JobEnds, LoseState, Restore
<1>8. QED
  BY <1>1, <1>2, <1>3, <1>4, <1>5, <1>6, <1>7, Zenon DEF Next

(* One write is remembered at a time.                                       *)
LEMMA OneUndoStep ==
  ASSUME OneUndo, Next
  PROVE  OneUndo'
BY DEF OneUndo, Next, Tick, SetClockBack, Start, Copy, CopyFails, Verify, Prune, PruneDone,
   TerraformWrites, JobEnds, LoseState, Restore

(* Every step leaves the last write undoable: pruning takes older copies    *)
(* first.                                                                   *)
LEMMA UndoableStep ==
  ASSUME IInv, UInv, Next
  PROVE  IsFiniteSet(backups') /\ Undoable'
<1> USE DEF IInv, UInv
<1>1. ~skewed' => ~skewed
  BY Zenon DEF Next, Tick, SetClockBack, Start, Copy, CopyFails, Verify, Prune, PruneDone,
     TerraformWrites, JobEnds, LoseState, Restore
<1>2. CASE Tick \/ SetClockBack \/ Start \/ PruneDone \/ JobEnds \/ LoseState \/ Restore
  <2>1. UNCHANGED <<backups, undo, age>> /\ (pc' = "prune" => pc = "prune" /\ UNCHANGED condemned)
    BY <1>2 DEF Tick, SetClockBack, Start, PruneDone, JobEnds, LoseState, Restore
  <2>2. QED
    BY <1>1, <2>1 DEF Undoable, After
<1>3. CASE Copy \/ CopyFails
  <2>1. CASE UNCHANGED <<backups, age>>
    BY <1>1, <1>3, <2>1 DEF Copy, CopyFails, Undoable, After
  <2>2. CASE \E copy : Written(copy)
    <3>1. PICK new : backups' = backups \cup {new} /\ age' = age + 1
      BY <2>2 DEF Written
    <3>2. IsFiniteSet(backups')
      BY <3>1, OneMore
    <3>3. UNCHANGED undo /\ pc' # "prune" /\ age \in Nat /\ Keep \in Nat
      BY <1>3, KeepAssumption DEF Copy, CopyFails, TypeOK
    <3>4. SUFFICES ASSUME WorthBackingUp(undo), age + 1 < Keep, ~skewed
                   PROVE  \E f \in backups' : f.copy = undo
                                              /\ Cardinality(After(f, backups')) <= age + 1
      BY <1>1, <3>1, <3>2, <3>3 DEF Undoable, After, WorthBackingUp
    <3>5. PICK f \in backups : f.copy = undo /\ Cardinality(After(f, backups)) <= age
      BY <3>3, <3>4 DEF Undoable
    <3>6. Cardinality(After(f, backups')) <= age + 1
      BY <3>1, <3>3, <3>5, OneMore
    <3>7. QED
      BY <3>1, <3>5, <3>6
  <2>3. QED
    BY <1>3, <2>1, <2>2 DEF Copy, CopyFails
<1>4. CASE Verify
  <2>1. UNCHANGED <<backups, undo, age>> /\ (pc' = "prune" => condemned' = Excess(backups, target))
    BY <1>4 DEF Verify
  <2>2. SUFFICES ASSUME WorthBackingUp(undo), age < Keep, ~skewed
                 PROVE  \E f \in backups : /\ f.copy = undo
                                           /\ Cardinality(After(f, backups)) <= age
                                           /\ f \notin Excess(backups, target)
    BY <1>1, <2>1 DEF Undoable, After, WorthBackingUp
  <2>3. PICK f \in backups : f.copy = undo /\ Cardinality(After(f, backups)) <= age
    BY <2>2 DEF Undoable
  <2>4. Cardinality(After(f, backups)) \in Nat
    BY OneLess
  <2>5. f \notin Excess(backups, target)
    BY <2>2, <2>3, <2>4, KeepAssumption DEF Excess, After, TypeOK
  <2>6. QED
    BY <2>3, <2>5
<1>5. CASE Prune
  <2>1. PICK x \in condemned : backups' = backups \ {x} /\ condemned' = condemned \ {x}
    BY <1>5 DEF Prune
  <2>2. IsFiniteSet(backups')
    BY <2>1, OneLess
  <2>3. UNCHANGED <<undo, age, pc, skewed>> /\ pc = "prune"
    BY <1>5 DEF Prune
  <2>4. SUFFICES ASSUME WorthBackingUp(undo), age < Keep, ~skewed
                 PROVE  \E f \in backups' : /\ f.copy = undo
                                            /\ Cardinality(After(f, backups')) <= age
                                            /\ f \notin condemned'
    BY <2>2, <2>3 DEF Undoable, After, WorthBackingUp
  <2>5. PICK f \in backups : /\ f.copy = undo /\ Cardinality(After(f, backups)) <= age
                             /\ f \notin condemned
    BY <2>3, <2>4 DEF Undoable
  <2>6. /\ Cardinality(After(f, backups')) \in Nat /\ Cardinality(After(f, backups)) \in Nat
        /\ Cardinality(After(f, backups')) <= Cardinality(After(f, backups))
    BY <2>1, OneLess
  <2>7. Cardinality(After(f, backups')) <= age
    BY <2>5, <2>6 DEF TypeOK
  <2>8. QED
    BY <2>1, <2>5, <2>7
<1>6. CASE TerraformWrites
  <2>1. /\ UNCHANGED <<backups, skewed>> /\ undo' = before /\ pc = "terraform" /\ pc' = pc
        /\ age' = IF content = before THEN 0 ELSE age
    BY <1>6 DEF TerraformWrites
  <2>2. CASE content = before
    <3>1. SUFFICES ASSUME WorthBackingUp(before), ~skewed
                   PROVE  \E f \in backups : /\ f.copy = before
                                             /\ Cardinality(After(f, backups)) = 0
      BY <2>1, <2>2 DEF Undoable, After, WorthBackingUp
    <3>2. PICK f \in backups : f.name = target /\ f.copy = before
      BY <2>1, <3>1 DEF WriteBackedUp
    <3>3. QED
      BY <2>1, <3>1, <3>2, TargetNewest
  <2>3. CASE content # before
    BY <2>1, <2>3 DEF OneUndo, Undoable, After
  <2>4. QED
    BY <2>2, <2>3
<1>7. QED
  BY <1>2, <1>3, <1>4, <1>5, <1>6 DEF Next

(* Together they are inductive.                                             *)
LEMMA UInvStep == IInv /\ UInv /\ [Next]_vars => UInv'
<1> SUFFICES ASSUME IInv, UInv, [Next]_vars PROVE UInv'
  OBVIOUS
<1>1. CASE Next
  BY <1>1, StampedStep, OneUndoStep, UndoableStep DEF IInv, UInv
<1>2. CASE UNCHANGED vars
  BY <1>2 DEF vars, UInv, Stamped, OneUndo, Undoable, After
<1>3. QED
  BY <1>1, <1>2

(* What the last writing job found can be put back until Keep more copies  *)
(* were made, however jobs, copies and deletions fail, while the clock runs*)
(* forward; for every Keep, and for any number of jobs.                    *)
THEOREM UndoCorrect == Spec => []LastWriteUndoable
<1>1. UInv => LastWriteUndoable
  BY DEF UInv, Undoable, LastWriteUndoable
<1>2. QED
  BY <1>1, UInvInit, UInvStep, Invariance, PTL DEF Spec

-------------------------------------------------------------------------------
(* The third argument: how many copies pruning leaves.                     *)

(* No two files have one name.                                             *)
Unique ==
  /\ \A f, g \in backups : f.name = g.name => f = g
  /\ \A f \in backups : f.name.run <= runs
  /\ pc = "copy" => target.run = runs /\ \A f \in backups : f.name.run < runs

Allowed == IF skewed THEN Keep + 1 ELSE Keep

Pruned ==
  /\ pc = "prune" => Cardinality(backups \ condemned) <= Allowed
  /\ PrunedToKeep

(* Of two files the newer one has fewer after it.                          *)
LEMMA NewerFewer ==
  ASSUME NEW files \in SUBSET File, IsFiniteSet(files), NEW f \in files, NEW g \in files,
         Newer(g, f)
  PROVE  Cardinality(After(g, files)) # Cardinality(After(f, files))
<1>1. \A h \in files : /\ h.name.stamp \in Int /\ h.name.run \in Int
  BY BoundsAssumption DEF File, Name
<1>2. After(g, files) \subseteq After(f, files) /\ g \in After(f, files) /\ g \notin After(g, files)
  BY <1>1 DEF After, Newer
<1>3. IsFiniteSet(After(f, files))
  <2>1. After(f, files) \subseteq files
    BY DEF After
  <2>2. QED
    BY <2>1, FS_Subset
<1>4. QED
  BY <1>2, <1>3, FS_Subset

(* At most n files have fewer than n after them.                           *)
LEMMA FewNewest ==
  ASSUME NEW files \in SUBSET File, IsFiniteSet(files), NEW n \in Nat,
         \A f, g \in files : f.name = g.name => f = g
  PROVE  Cardinality({f \in files : Cardinality(After(f, files)) < n}) <= n
<1> DEFINE newest == {f \in files : Cardinality(After(f, files)) < n}
           rank == [f \in newest |-> Cardinality(After(f, files))]
<1>1. IsFiniteSet(newest)
  BY FS_Subset
<1>2. \A f \in files : Cardinality(After(f, files)) \in Nat
  BY OneMore
<1>3. rank \in [newest -> 0..(n - 1)]
  BY <1>2
<1>4. IsFiniteSet(0..(n - 1)) /\ Cardinality(0..(n - 1)) = n
  BY FS_Interval
<1>5. ASSUME NEW f \in newest, NEW g \in newest, f # g
      PROVE  rank[f] # rank[g]
  <2>1. Newer(f, g) \/ Newer(g, f)
    <3>1. f.name # g.name
      BY <1>5
    <3>2. f.name \in Name /\ g.name \in Name
      BY DEF File
    <3>3. f.name.stamp # g.name.stamp \/ f.name.run # g.name.run
      BY <3>1, <3>2 DEF Name
    <3>4. /\ f.name.stamp \in Int /\ g.name.stamp \in Int
          /\ f.name.run \in Int /\ g.name.run \in Int
      BY <3>2, BoundsAssumption DEF Name
    <3>5. QED
      BY <3>3, <3>4 DEF Newer
  <2>2. QED
    BY <2>1, NewerFewer
<1>6. Cardinality(newest) \in Nat
  BY <1>1, FS_CardinalityType
<1> HIDE DEF newest, rank
<1>7. ~(n < Cardinality(newest))
  BY <1>1, <1>3, <1>4, <1>5, FS_PigeonHole
<1>8. QED
  BY <1>6, <1>7 DEF newest

(* What is left when the excess is gone.                                   *)
LEMMA ExcessLeaves ==
  ASSUME TypeOK, Stamped, Unique, IsFiniteSet(backups), pc = "verify"
  PROVE  Cardinality(backups \ Excess(backups, target)) <= Allowed
<1> DEFINE newest == {f \in backups : Cardinality(After(f, backups)) < Keep}
           own == {f \in backups : f.name = target}
<1>1. backups \in SUBSET File /\ Keep \in Nat
  BY KeepAssumption DEF TypeOK
<1>2. Cardinality(newest) <= Keep
  BY <1>1, FewNewest DEF Unique
<1>3. IsFiniteSet(newest) /\ Cardinality(newest) \in Nat
  BY FS_Subset, FS_CardinalityType
<1>4. \A f \in backups : Cardinality(After(f, backups)) \in Nat
  BY OneMore
<1>5. backups \ Excess(backups, target) \subseteq newest \cup own
  BY <1>1, <1>4 DEF Excess, After
<1>6. CASE ~skewed
  <2>1. own \subseteq newest
    BY <1>6, TargetNewest, KeepAssumption
  <2>2. backups \ Excess(backups, target) \subseteq newest
    BY <1>5, <2>1
  <2>3. /\ Cardinality(backups \ Excess(backups, target)) <= Cardinality(newest)
        /\ Cardinality(backups \ Excess(backups, target)) \in Nat
    BY <1>3, <2>2, FS_Subset, FS_CardinalityType
  <2>4. QED
    BY <1>1, <1>2, <1>3, <1>6, <2>3 DEF Allowed
<1>7. CASE skewed
  <2>1. PICK x : own \subseteq {x}
    BY DEF Unique
  <2>2. backups \ Excess(backups, target) \subseteq newest \cup {x}
    BY <1>5, <2>1
  <2> HIDE DEF newest
  <2>3. IsFiniteSet(newest \cup {x}) /\ Cardinality(newest \cup {x}) \in Nat
        /\ Cardinality(newest \cup {x}) <= Cardinality(newest) + 1
    <3>1. /\ IsFiniteSet(newest \cup {x})
          /\ Cardinality(newest \cup {x}) =
               IF x \in newest THEN Cardinality(newest) ELSE Cardinality(newest) + 1
      BY <1>3, FS_AddElement
    <3>2. QED
      BY <1>3, <3>1
  <2>4. /\ Cardinality(backups \ Excess(backups, target)) <= Cardinality(newest \cup {x})
        /\ Cardinality(backups \ Excess(backups, target)) \in Nat
    BY <2>2, <2>3, FS_Subset, FS_CardinalityType
  <2>5. QED
    BY <1>1, <1>2, <1>3, <1>7, <2>3, <2>4 DEF Allowed
<1>8. QED
  BY <1>6, <1>7

(* No two copies have one name.                                             *)
LEMMA UniqueStep ==
  ASSUME TypeOK, Unique, Next
  PROVE  Unique'
<1> USE DEF Unique
<1>1. \A f \in backups : f.name.run \in Int
  BY BoundsAssumption DEF TypeOK, File, Name
<1>2. runs \in Int
  BY BoundsAssumption DEF TypeOK
<1>3. CASE Start
  <2>1. runs' = runs + 1 /\ target' = [stamp |-> clock, run |-> runs + 1] /\ UNCHANGED backups
    BY <1>3 DEF Start
  <2>2. QED
    BY <1>1, <1>2, <2>1
<1>4. CASE Copy \/ CopyFails
  <2>1. UNCHANGED <<runs, target>> /\ pc = "copy" /\ pc' # "copy"
    BY <1>4 DEF Copy, CopyFails
  <2>2. CASE UNCHANGED backups
    BY <2>1, <2>2
  <2>3. CASE \E copy : Written(copy)
    <3>1. PICK copy : backups' = backups \cup {[name |-> target, copy |-> copy]}
      BY <2>3 DEF Written
    <3>2. QED
      BY <1>1, <1>2, <2>1, <3>1
  <2>4. QED
    BY <1>4, <2>2, <2>3 DEF Copy, CopyFails
<1>5. CASE Prune
  BY <1>5 DEF Prune
<1>6. CASE Tick \/ SetClockBack \/ Verify \/ PruneDone \/ TerraformWrites \/ JobEnds
             \/ LoseState \/ Restore
  BY <1>6 DEF Tick, SetClockBack, Verify, PruneDone, TerraformWrites, JobEnds, LoseState, Restore
<1>7. QED
  BY <1>3, <1>4, <1>5, <1>6 DEF Next

(* What is not condemned is never more than is allowed.                     *)
LEMMA PrunedStep ==
  ASSUME TypeOK, Stamped, Unique, IsFiniteSet(backups), Pruned, Next
  PROVE  Pruned'
<1> USE DEF Pruned, PrunedToKeep, Allowed
<1>1. IsFiniteSet(backups \ condemned) /\ Cardinality(backups \ condemned) \in Nat
      /\ Cardinality(backups) \in Nat /\ Keep \in Nat
  BY FS_Subset, FS_CardinalityType, KeepAssumption
<1>2. CASE Tick \/ SetClockBack
  <2>1. UNCHANGED <<backups, pc, condemned, before>> /\ (skewed => skewed')
    BY <1>2 DEF Tick, SetClockBack
  <2>2. QED
    BY <1>1, <2>1
<1>3. CASE Start
  BY <1>3 DEF Start
<1>4. CASE Copy \/ CopyFails
  BY <1>4 DEF Copy, CopyFails
<1>5. CASE Verify
  BY <1>5, ExcessLeaves DEF Verify
<1>6. CASE Prune
  <2>1. PICK f \in condemned : backups' = backups \ {f} /\ condemned' = condemned \ {f}
    BY <1>6 DEF Prune
  <2>2. backups' \ condemned' = backups \ condemned
    BY <2>1
  <2>3. QED
    BY <1>6, <2>2 DEF Prune
<1>7. CASE PruneDone
  <2>1. backups \ condemned = backups
    BY <1>7 DEF PruneDone
  <2>2. QED
    BY <1>7, <2>1 DEF PruneDone
<1>8. CASE TerraformWrites \/ JobEnds \/ LoseState \/ Restore
  BY <1>8 DEF TerraformWrites, JobEnds, LoseState, Restore
<1>9. QED
  BY <1>2, <1>3, <1>4, <1>5, <1>6, <1>7, <1>8 DEF Next

(* At first there is no copy.                                               *)
LEMMA PInvInit == Init => Unique /\ Pruned
BY DEF Init, Unique, Pruned, PrunedToKeep

(* Together they are inductive.                                             *)
LEMMA PInvStep == IInv /\ UInv /\ Unique /\ Pruned /\ [Next]_vars => Unique' /\ Pruned'
<1> SUFFICES ASSUME IInv, UInv, Unique, Pruned, [Next]_vars PROVE Unique' /\ Pruned'
  OBVIOUS
<1>1. CASE Next
  BY <1>1, UniqueStep, PrunedStep DEF IInv, UInv
<1>2. CASE UNCHANGED vars
  BY <1>2 DEF vars, Unique, Pruned, PrunedToKeep, Allowed
<1>3. QED
  BY <1>1, <1>2

(* A job that reaches Terraform through a backup leaves Keep files, or one *)
(* more once the clock was set back, for every Keep: that is why the       *)
(* protected copy costs at most one.                                       *)
THEOREM PruneCorrect == Spec => []PrunedToKeep
<1>1. Pruned => PrunedToKeep
  BY DEF Pruned
<1>2. QED
  BY <1>1, UInvInit, UInvStep, PInvInit, PInvStep, Invariance, PTL DEF Spec
===============================================================================
