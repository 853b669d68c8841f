------------------------------ MODULE StateBackup ------------------------------
(***************************************************************************)
(* .github/scripts/backup_state.py, run by every apply and destroy between *)
(* `terraform init` and anything that writes: copy the state file aside,   *)
(* compare the copy, delete all but the newest Keep copies, then let the   *)
(* job go on.  A copy is named for the UTC second and the run, and sorted  *)
(* by that name.  The copy, the comparison and each deletion are separate  *)
(* steps: the disk may fill, the copy may come out short, the runner may   *)
(* die in between, and its clock may be set back.                          *)
(*                                                                         *)
(* Bounds: MaxRuns jobs, MaxVersion contents, MaxClock seconds.            *)
(***************************************************************************)
EXTENDS Integers, FiniteSets

CONSTANTS
  Keep,                 \* --keep, 20 in both workflows
  MaxRuns, MaxVersion, MaxClock,
  Absent, Blank,        \* no state file; a state file of zero bytes
  Short                 \* what a copy holds that is not the state's content

ASSUME KeepAssumption == Keep \in Nat \ {0}
ASSUME BoundsAssumption == MaxRuns \in Nat /\ MaxVersion \in Nat /\ MaxClock \in Nat
ASSUME ContentAssumption == {Absent, Blank, Short} \cap Nat = {} /\ Absent # Blank

Version == 1..MaxVersion
Content == Version \cup {Absent, Blank}
Name == [stamp : 0..MaxClock, run : 0..MaxRuns]
File == [name : Name, copy : Version \cup {Short}]

VARIABLES
  content,      \* what terraform.tfstate holds
  version,      \* contents written so far
  backups,      \* the files in the backup directory
  clock, runs,  \* the runner's clock; jobs started
  pc,           \* idle, copy, verify, prune or terraform
  target,       \* name of the copy this job takes
  condemned,    \* files this job still has to delete
  before,       \* ghost: what this job found in the state file
  undo,         \* ghost: what the last job that wrote state had found
  age,          \* ghost: files created since the copy of undo
  skewed        \* ghost: the clock has been set back

vars == <<content, version, backups, clock, runs, pc, target, condemned,
          before, undo, age, skewed>>

-------------------------------------------------------------------------------
WorthBackingUp(c) == c \notin {Absent, Blank}

(* Names compare as their text does: the stamp, then the run.              *)
Newer(f, g) ==
  \/ f.name.stamp > g.name.stamp
  \/ f.name.stamp = g.name.stamp /\ f.name.run > g.name.run

(* Mutants of Excess: nothing is protected; [keep-1:]; [keep+1:].          *)
ExcessUnprotected(files, protect) ==
  {f \in files : Cardinality({g \in files : Newer(g, f)}) >= Keep}

ExcessOneMore(files, protect) ==
  {f \in files : f.name # protect /\ Cardinality({g \in files : Newer(g, f)}) >= Keep - 1}

ExcessOneLess(files, protect) ==
  {f \in files : f.name # protect /\ Cardinality({g \in files : Newer(g, f)}) > Keep}

(* existing_backups()[keep:], all but the protected one.                   *)
Excess(files, protect) ==
  {f \in files : f.name # protect /\ Cardinality({g \in files : Newer(g, f)}) >= Keep}

Init ==
  /\ content = Absent /\ version = 0 /\ backups = {}
  /\ clock = 0 /\ runs = 0 /\ pc = "idle"
  /\ target = [stamp |-> 0, run |-> 0] /\ condemned = {}
  /\ before = Absent /\ undo = Absent /\ age = 0 /\ skewed = FALSE

-------------------------------------------------------------------------------
Tick ==
  /\ clock < MaxClock /\ clock' = clock + 1
  /\ UNCHANGED <<content, version, backups, runs, pc, target, condemned, before, undo, age, skewed>>

SetClockBack ==
  /\ clock > 0 /\ clock' = clock - 1 /\ skewed' = TRUE
  /\ UNCHANGED <<content, version, backups, runs, pc, target, condemned, before, undo, age>>

(* No state file is the first apply and an empty one is the guard's        *)
(* business: neither is copied.                                            *)
Start ==
  /\ pc = "idle" /\ runs < MaxRuns
  /\ runs' = runs + 1 /\ before' = content
  /\ target' = [stamp |-> clock, run |-> runs + 1]
  /\ pc' = IF WorthBackingUp(content) THEN "copy" ELSE "terraform"
  /\ UNCHANGED <<content, version, backups, clock, condemned, undo, age, skewed>>

Written(copy) ==
  /\ backups' = backups \cup {[name |-> target, copy |-> copy]}
  /\ age' = age + 1

Copy ==
  /\ pc = "copy" /\ pc' = "verify"
  /\ Written(content) \/ Written(Short)
  /\ UNCHANGED <<content, version, clock, runs, target, condemned, before, undo, skewed>>

(* copyfile or chmod raises: the job stops, and whatever was written stays.*)
CopyFails ==
  /\ pc = "copy" /\ pc' = "idle"
  /\ UNCHANGED <<backups, age>> \/ Written(Short) \/ Written(content)
  /\ UNCHANGED <<content, version, clock, runs, target, condemned, before, undo, skewed>>

Matches == \E f \in backups : f.name = target /\ f.copy = content

Verify ==
  /\ pc = "verify"
  /\ IF Matches
     THEN pc' = "prune" /\ condemned' = Excess(backups, target)
     ELSE pc' = "idle" /\ condemned' = {}
  /\ UNCHANGED <<content, version, backups, clock, runs, target, before, undo, age, skewed>>

(* Mutant of Prune: the list is not shortened by what was deleted.         *)
PruneAgain ==
  /\ pc = "prune"
  /\ \E f \in condemned :
       /\ \A g \in condemned \ {f} : Newer(f, g)
       /\ backups' = backups \ {f} /\ condemned' = condemned
  /\ UNCHANGED <<content, version, clock, runs, pc, target, before, undo, age, skewed>>

(* Newest first, one os.remove after the other.                            *)
Prune ==
  /\ pc = "prune"
  /\ \E f \in condemned :
       /\ \A g \in condemned \ {f} : Newer(f, g)
       /\ backups' = backups \ {f} /\ condemned' = condemned \ {f}
  /\ UNCHANGED <<content, version, clock, runs, pc, target, before, undo, age, skewed>>

PruneDone ==
  /\ pc = "prune" /\ condemned = {} /\ pc' = "terraform"
  /\ UNCHANGED <<content, version, backups, clock, runs, target, condemned, before, undo, age,
                 skewed>>

-------------------------------------------------------------------------------
(* External: Terraform writes the state file, any number of times a job.   *)
TerraformWrites ==
  /\ pc = "terraform" /\ version < MaxVersion
  /\ version' = version + 1 /\ content' = version + 1
  /\ undo' = before
  /\ age' = IF content = before THEN 0 ELSE age
  /\ UNCHANGED <<backups, clock, runs, pc, target, condemned, before, skewed>>

(* The job ends: done, failed in a later step, or with its runner.         *)
JobEnds ==
  /\ pc # "idle" /\ pc' = "idle" /\ condemned' = {}
  /\ UNCHANGED <<content, version, backups, clock, runs, target, before, undo, age, skewed>>

(* Between jobs the file is lost or emptied, or an operator puts a copy    *)
(* back (docs/state-recovery.md).                                          *)
LoseState ==
  /\ pc = "idle" /\ content' \in {Absent, Blank}
  /\ UNCHANGED <<version, backups, clock, runs, pc, target, condemned, before, undo, age, skewed>>

Restore ==
  /\ pc = "idle"
  /\ \E f \in backups : f.copy # Short /\ content' = f.copy
  /\ UNCHANGED <<version, backups, clock, runs, pc, target, condemned, before, undo, age, skewed>>

Next ==
  \/ Tick \/ SetClockBack
  \/ Start \/ Copy \/ CopyFails \/ Verify \/ Prune \/ PruneDone
  \/ TerraformWrites \/ JobEnds
  \/ LoseState \/ Restore

Spec == Init /\ [][Next]_vars

-------------------------------------------------------------------------------
(* Properties.                                                             *)

(* Every variable keeps its type.                                          *)
TypeOK ==
  /\ content \in Content /\ before \in Content /\ undo \in Content
  /\ version \in 0..MaxVersion /\ backups \subseteq File
  /\ clock \in 0..MaxClock /\ runs \in 0..MaxRuns
  /\ pc \in {"idle", "copy", "verify", "prune", "terraform"}
  /\ target \in Name /\ condemned \subseteq backups
  /\ age \in Nat /\ skewed \in BOOLEAN

(* Terraform never runs over a state that was worth copying without an     *)
(* exact copy of what the job found, whatever the clock did and whatever   *)
(* pruning deleted.                                                        *)
WriteBackedUp ==
  pc = "terraform" /\ WorthBackingUp(before) =>
    \E f \in backups : f.name = target /\ f.copy = before

(* While the clock runs forward, the state that the last writing job found *)
(* can be put back until Keep further copies, good or bad, were made.      *)
LastWriteUndoable ==
  WorthBackingUp(undo) /\ age < Keep /\ ~skewed => \E f \in backups : f.copy = undo

(* A job that reaches Terraform through a backup leaves Keep files, or one *)
(* more when the clock was set back and the newest name is not its own.    *)
PrunedToKeep ==
  pc = "terraform" /\ WorthBackingUp(before) =>
    Cardinality(backups) <= IF skewed THEN Keep + 1 ELSE Keep
===============================================================================
