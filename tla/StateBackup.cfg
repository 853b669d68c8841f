CONSTANTS
  Absent = Absent
  Blank = Blank
  Short = Short
  Keep = 2
  MaxRuns = 5
  MaxVersion = 3
  MaxClock = 2
SPECIFICATION Spec
INVARIANTS
  TypeOK
  WriteBackedUp
  LastWriteUndoable
  PrunedToKeep
