---------------------------- MODULE JobEnvironment ----------------------------
(***************************************************************************)
(* What a job gives Terraform: render_terraform_env.py, which maps the     *)
(* repository's secrets and settings onto TF_VAR_ variables, and           *)
(* mint_arc_token.py, which adds the token guests onboard with.            *)
(*                                                                         *)
(* A variable that is not in the environment is Unset: Terraform then uses *)
(* its default, which an empty value would override.  Both scripts also    *)
(* refuse documents that are not JSON; toJSON() never makes one.           *)
(***************************************************************************)
EXTENDS SecretScan

CONSTANTS
  Secret,     \* VARIABLES: those that come from a secret
  Required,   \* and that a job cannot do without
  Principal,  \* the service principal's id, secret and tenant
  Setting,    \* SETTINGS: those a repository variable may set
  Bool,       \* and that are bools
  Blank,      \* values of nothing but white space
  Minted      \* the tokens Azure may give

Token == "arc_access_token"

ASSUME TablesAssumption ==
  /\ Required \subseteq Secret /\ Principal \subseteq Secret /\ Bool \subseteq Setting
  /\ Secret \cap Setting = {} /\ Token \notin Secret \cup Setting
ASSUME ValuesAssumption ==
  /\ Blank \subseteq Value /\ Minted \subseteq Value \ (TooShort \cup Blank)
  /\ {"right", "wrong", "blank", "failed"} \cap Value = {}

Input == Secret \cup Setting \cup {Token}
Secrets == [Secret -> Value \cup {Unset}]
(* "wrong" is a word that is no bool.                                      *)
Settings == [Setting -> {Unset, "blank", "right", "wrong"}]
Environments == [Input -> Value \cup {Unset, "right", "wrong"}]
NoInputs == [n \in Input |-> Unset]

(* resolve(), resolve_settings(): what makes the step fail.                *)
Missing(secrets) == {n \in Required : secrets[n] = Unset}
BadSettings(settings) == {n \in Bool : settings[n] = "wrong"}
Renders(secrets, settings) == Missing(secrets) = {} /\ BadSettings(settings) = {}

(* main(): the entries it writes.  A secret is passed as it is; a setting  *)
(* that is blank is left out.                                              *)
(* Mutant: a blank setting is written like any other.                      *)
RenderedBlank(secrets, settings) ==
  [n \in Input |-> IF n \in Secret THEN secrets[n]
                   ELSE IF n \in Setting THEN settings[n] ELSE Unset]
Rendered(secrets, settings) ==
  [n \in Input |-> IF n \in Secret THEN secrets[n]
                   ELSE IF n \in Setting /\ settings[n] # "blank" THEN settings[n]
                   ELSE Unset]

(* endpoints(), mint(): the exchange may fail, and does if the cloud is not*)
(* one of CLOUDS (`known`).                                                *)
Exchange(known) == {"failed"} \cup (IF known THEN Minted ELSE {})

(* mint_arc_token.main: what the variable becomes.  Without a complete     *)
(* service principal it is written empty, which no guest can tell from its *)
(* absence.                                                                *)
PrincipalComplete(secrets) == \A n \in Principal : secrets[n] \notin Blank \cup {Unset}
(* Mutant: a token that cannot be had is taken for one nobody asked for.   *)
MintsOrSkips(secrets, known) ==
  IF PrincipalComplete(secrets) /\ known THEN Minted \cup {Unset} ELSE {Unset}
MayMint(secrets, known) ==
  IF PrincipalComplete(secrets) THEN Exchange(known) ELSE {Unset}
===============================================================================
