CONSTANTS
  NetTries = 2
  ConnectTries = 3
  MaxCuts = 2
  MaxFaults = 2
SPECIFICATION Spec
INVARIANTS
  TypeOK
  MarkerMeansProvisioned
  NothingLeftBehind
PROPERTIES
  GuestSpec
  BootSettles
  CredentialGoes
CHECK_DEADLOCK FALSE
