CONSTANTS
  None = None
  a = a
  b = b
  x = x
  small = small
  large = large
  VM = {a, b}
  ArcName = {a, b, x}
  Shape = {small, large}
  Inventories <- MCInventories
  MaxBuilds = 3
  MaxFaults = 1
  MaxEdits = 2
SPECIFICATION Spec
INVARIANTS
  TypeOK
  RecordTruthful
  UntrackedExplained
  OrphanExplained
  WipedRecordNotBuiltOn
PROPERTIES
  InnocentMachineKept
  GreenApplyConverged
  GreenDestroyClean
  RedMeansFailure
