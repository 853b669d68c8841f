CONSTANTS
  VM = {v1, v2}
  Elsewhere = {other}
  Deadline = 2
  MaxFaults = 2
SPECIFICATION Spec
INVARIANTS
  TypeOK
  ChecksFollowApply
  NoHastyAbsence
  OrphansNamed
  SilentGreenMeansDone
PROPERTY
  JobEnds
CHECK_DEADLOCK FALSE
