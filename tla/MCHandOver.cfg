CONSTANTS
  None = None
  a = a
  b = b
  x = x
  small = small
  large = large
  VM = {a, b}
  ArcName = {a, b, x}
  Shape = {small, large}
  Inventories <- MCHandOver
  MaxBuilds = 3
  MaxFaults = 1
  MaxEdits = 1
SPECIFICATION Spec
PROPERTIES
  LabSpec
  JobEnds
