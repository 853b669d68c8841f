CONSTANTS
  plain = plain
  key = key
  script = script
  markup = markup
  pin = pin
  blank = blank
  jwt = jwt
  Value = {plain, key, script, markup, pin, blank, jwt}
  TooShort = {pin, blank}
  Special <- TraitsOf
  Secret = {"api", "principal", "private_key"}
  Required = {"api"}
  Principal = {"principal"}
  Setting = {"tls"}
  Bool = {"tls"}
  Blank = {blank}
  Minted = {jwt}
  Searched <- SecretVars
  Audited = {"api", "principal", "arc_access_token"}
  Configurations <- Labs
  Keep = 1
SPECIFICATION Spec
INVARIANTS
  TypeOK
  LogIsClean
  SameInputs
  UntouchedWithoutQuorum
  CleanAuditMeansAbsent
