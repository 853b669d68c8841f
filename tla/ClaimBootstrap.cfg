CONSTANTS
  None = None
  a = a
  b = b
  x = x
  small = small
  large = large
  VM = {a}
  ArcName = {a, x}
  Shape = {small, large}
  Inventories <- MCOneVM
  MaxBuilds = 2
  MaxFaults = 0
  MaxEdits = 0
SPECIFICATION ClaimSpec
PROPERTY
  BootstrapStoppedOnlyAfterLoss
