CONSTANTS
  None = None
  a = a
  b = b
  x = x
  small = small
  large = large
  VM = {a}
  ArcName = {a, x}
  Shape = {small, large}
  Inventories <- MCOneVM
  MaxBuilds = 2
  MaxFaults = 1
  MaxEdits = 3
SPECIFICATION ClaimSpec
INVARIANT
  SecondSetBlocked
