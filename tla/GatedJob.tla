-------------------------------- MODULE GatedJob --------------------------------
(***************************************************************************)
(* What stands between a job's credentials and its log, its state file and *)
(* the lab: terraform-plan.yml's job on a pull request and the apply of    *)
(* terraform-apply.yml, one after the other on the one runner.             *)
(*                                                                         *)
(* A job is given its inputs, has a token minted, captures what Terraform  *)
(* says, and prints it once the scan finds nothing.  An apply also backs   *)
(* the state up, asks the cluster whether it can be written to, applies,   *)
(* looks for credentials in what it left behind and plans once more.       *)
(*                                                                         *)
(* The operator changes secrets and settings between jobs (a job holds     *)
(* those it started with); the cluster gains or loses quorum at any time.  *)
(* Terraform is external: it may show whatever it was given and whatever   *)
(* the state holds, and it spells a value in its own ways (SecretScan's    *)
(* Prints and Stores), of which the scans do not know all.  Writing the    *)
(* state, it leaves what was there in terraform.tfstate.backup beside it,  *)
(* a file that no step of the workflows backs up, searches or removes.     *)
(* Taken to show no value is what reaches the log without a capture: the   *)
(* output of `terraform apply`, and standard error in the last plan.  The  *)
(* inventory guard and what an apply does to the lab are LabLifecycle's;   *)
(* which checks run after a failed one is PostApply's.                     *)
(*                                                                         *)
(* Bounds: a document shows at most two images, the state holds at most    *)
(* one; Keep backups.                                                      *)
(***************************************************************************)
EXTENDS JobEnvironment, ClusterPreflight, Integers, FiniteSets

CONSTANTS
  Searched,  \* SECRET_VARS of the scans: Searched["plan"], Searched["apply"]
  Audited,   \* SECRET_VARS of the state audit
  Configurations,  \* what the operator may set: secrets, settings, knownCloud
  Keep       \* --keep

Kind == {"plan", "apply"}
Credential == Secret \cup {Token}

ASSUME SearchedAssumption ==
  Searched \in [Kind -> SUBSET Credential] /\ Audited \subseteq Credential
ASSUME ConfigurationsAssumption ==
  Configurations \subseteq [secrets : Secrets, settings : Settings, knownCloud : BOOLEAN]

VARIABLES
  config,    \* the secrets and settings of the repository
  cluster,
  kind, step,   \* the job under way, or the last one
  env,       \* its environment
  text,      \* the captured document
  live,      \* {what terraform.tfstate holds}, or {} without one
  previous,  \* {what terraform.tfstate.backup holds}, or {} without one
  backups,   \* what the backups hold
  log,       \* ghost: what the job has printed
  audit,     \* ghost: the audit's exit code; -1 before it
  touched,   \* ghost: whether the job has applied, and if so, whether that
             \* wrote the state
  writable,  \* ghost: the cluster could be written to at some time in this job
  reviewed   \* ghost: {the shape of the inputs Terraform last planned a pull
             \* request with under this configuration}, or {}

job  == <<kind, step, env, text>>
disk == <<live, previous, backups>>
seen == <<log, audit, touched>>
vars == <<config, cluster, job, disk, seen, writable, reviewed>>

Step == {"idle", "env", "token", "backup", "preflight", "plan", "scan", "publish",
         "apply", "audit", "converge", "tidy"}

-------------------------------------------------------------------------------
(* External: what Terraform says and what it writes.                       *)
Values(inputs) == {inputs[n] : n \in Input} \cap Value

Shown(inputs, files) ==
  UNION ({Prints(v) : v \in Values(inputs)} \cup files)
Documents(images) == {{}} \cup {{i, j} : i, j \in images}
Written(inputs, files) ==
  {{}} \cup {{i} : i \in UNION ({Stores(v) : v \in Values(inputs)} \cup files)}

(* A token is a new one each time; what guests see is whether there is one.*)
Shape(inputs) ==
  [n \in Input |-> IF n = Token /\ inputs[n] # Unset THEN "set" ELSE inputs[n]]

-------------------------------------------------------------------------------
Init ==
  /\ config \in Configurations /\ cluster \in ClusterState
  /\ kind = "plan" /\ step = "idle" /\ env = NoInputs /\ text = {}
  /\ live = {} /\ previous = {} /\ backups = {}
  /\ log = {} /\ audit = -1 /\ touched = "no" /\ writable = FALSE /\ reviewed = {}

GoTo(next) == step' = next /\ UNCHANGED kind
At(here) == step = here /\ UNCHANGED <<config, cluster, writable>>

(* Secrets and variables are edited, rotated or removed.                   *)
Configure ==
  /\ step = "idle" /\ config' \in Configurations \ {config} /\ reviewed' = {}
  /\ UNCHANGED <<cluster, job, disk, seen, writable>>

ClusterChanges ==
  /\ cluster' \in ClusterState \ {cluster}
  /\ writable' = (step # "idle" /\ (writable \/ Writable(cluster')))
  /\ UNCHANGED <<config, job, disk, seen, reviewed>>

(* Checking out cleans the workspace.                                      *)
Start ==
  /\ step = "idle" /\ kind' \in Kind /\ step' = "env" /\ text' = {}
  /\ writable' = Writable(cluster)
  /\ UNCHANGED <<config, cluster, env, disk, seen, reviewed>>

(* Any step may fail for reasons of its own, and a runner may die.         *)
StepFails ==
  /\ step \notin {"idle", "tidy"} /\ GoTo("tidy")
  /\ UNCHANGED <<config, cluster, env, text, disk, seen, writable, reviewed>>

(* The environment goes with the job, and the ghosts speak of one job.     *)
JobOver ==
  /\ GoTo("idle") /\ env' = NoInputs
  /\ log' = {} /\ audit' = -1 /\ touched' = "no" /\ writable' = FALSE
  /\ UNCHANGED <<config, cluster, disk, reviewed>>

JobDies == step # "idle" /\ JobOver /\ UNCHANGED text

Render ==
  /\ At("env")
  /\ IF Renders(config.secrets, config.settings)
     THEN env' = Rendered(config.secrets, config.settings) /\ GoTo("token")
     ELSE GoTo("tidy") /\ UNCHANGED env
  /\ UNCHANGED <<text, disk, seen, reviewed>>

Mint ==
  /\ At("token")
  /\ \E token \in MayMint(config.secrets, config.knownCloud) :
       IF token = "failed" THEN GoTo("tidy") /\ UNCHANGED env
       ELSE /\ env' = [env EXCEPT ![Token] = token]
            /\ GoTo(IF kind = "apply" THEN "backup" ELSE "plan")
  /\ UNCHANGED <<text, disk, seen, reviewed>>

(* backup_state.py; which backups it deletes is StateBackup's.             *)
BackUp ==
  /\ At("backup")
  /\ backups' \in {kept \cup live : kept \in SUBSET backups} /\ Cardinality(backups') <= Keep
  /\ GoTo("preflight")
  /\ UNCHANGED <<env, text, live, previous, seen, reviewed>>

Preflight ==
  /\ At("preflight")
  /\ \E answer \in Answers(cluster) : GoTo(IF Accepts(answer) THEN "plan" ELSE "tidy")
  /\ UNCHANGED <<env, text, disk, seen, reviewed>>

(* What a failed plan said is scanned and printed on a pull request, and   *)
(* not in an apply, which ends there (StepFails).                          *)
Plan ==
  /\ At("plan")
  /\ text' \in Documents(Shown(env, live))
  /\ reviewed' = IF kind = "plan" THEN {Shape(env)} ELSE reviewed
  /\ GoTo("scan")
  /\ UNCHANGED <<env, disk, seen>>

Passes(document) == Scan(Searched[kind], env, {document}) = 0

ScanText ==
  /\ At("scan") /\ GoTo(IF Passes(text) THEN "publish" ELSE "tidy")
  /\ UNCHANGED <<env, text, disk, seen, reviewed>>

Publish ==
  /\ At("publish") /\ log' = log \cup text
  /\ GoTo(IF kind = "apply" THEN "apply" ELSE "tidy")
  /\ UNCHANGED <<env, text, disk, audit, touched, reviewed>>

(* Whether or not all of it succeeds.  With nothing to change, Terraform   *)
(* may leave the file as it is.                                            *)
Apply ==
  /\ At("apply")
  /\ \/ touched' = "kept" /\ UNCHANGED <<live, previous>>
     \/ /\ touched' = "wrote"
        /\ live' \in {{file} : file \in Written(env, live)} /\ previous' = live
  /\ step' \in {"audit", "tidy"} /\ UNCHANGED kind
  /\ UNCHANGED <<env, text, backups, log, audit, reviewed>>

(* Skipped when a check before it failed.  Exit 1 is a warning.            *)
AuditState ==
  /\ At("audit") /\ GoTo("converge")
  /\ audit' \in {-1, Audit(Audited, env, FilesToScan(live, backups))}
  /\ UNCHANGED <<env, text, disk, log, touched, reviewed>>

Converge ==
  /\ At("converge") /\ GoTo("tidy")
  /\ \/ text' = {} /\ UNCHANGED log
     \/ /\ text' \in Documents(Shown(env, live))
        /\ log' = IF Passes(text') THEN log \cup text' ELSE log
  /\ UNCHANGED <<env, disk, audit, touched, reviewed>>

Tidy == step = "tidy" /\ text' = {} /\ JobOver

Next ==
  \/ Configure \/ ClusterChanges \/ Start \/ StepFails \/ JobDies
  \/ Render \/ Mint \/ BackUp \/ Preflight \/ Plan \/ ScanText \/ Publish
  \/ Apply \/ AuditState \/ Converge \/ Tidy

Spec == Init /\ [][Next]_vars

-------------------------------------------------------------------------------
(* Every variable has its type; texts and files hold images.               *)
TypeOK ==
  /\ config \in Configurations /\ cluster \in ClusterState
  /\ kind \in Kind /\ step \in Step /\ env \in Environments
  /\ text \subseteq Image /\ log \subseteq Image
  /\ \A files \in {live, previous, backups} : files \subseteq SUBSET Image
  /\ audit \in {-1, 0, 1, 2} /\ touched \in {"no", "kept", "wrote"} /\ writable \in BOOLEAN
  /\ reviewed \subseteq [Input -> Value \cup {Unset, "right", "wrong", "set"}]

(* A job's log shows no credential its scan looks for, through whichever   *)
(* of the two printing steps, and none that is too short to look for       *)
(* (assert_no_secrets.py, BUG-021); except spelled with an escape that the *)
(* scan does not know.                                                     *)
LogIsClean ==
  \A n \in Searched[kind], i \in log : i.of = env[n] => Obscure(i)

(* An apply plans with what the pull request's plan was reviewed with, as  *)
(* long as nobody changed the configuration: a token in both or in neither,*)
(* whatever Azure answered each time (BUG-003).                            *)
SameInputs ==
  (kind = "apply" /\ step \notin {"idle", "env", "token", "tidy"})
    => reviewed \subseteq {Shape(env)}

(* A job that applied did so on a cluster that could be written to at some *)
(* time since the job began: one without quorum before, during and after   *)
(* is never touched (preflight_cluster.py, BUG-024).                       *)
UntouchedWithoutQuorum == touched # "no" => writable

(* An audit that ends with 0 means that no credential it was told to look  *)
(* for, and that the job holds, is in the state or in any backup, unless   *)
(* spelled with an escape it does not know (credential_audit.py,           *)
(* audit_state_secrets.py).  terraform.tfstate.backup, which it does not   *)
(* open, is then clean as well if this job wrote the state: what it holds  *)
(* is what the job backed up first.  An older one may hold anything.       *)
CleanAuditMeansAbsent ==
  audit = 0 =>
    \A n \in Audited :
      \A file \in live \cup backups \cup (IF touched = "wrote" THEN previous ELSE {}) :
        \A i \in file : i.of = env[n] => Obscure(i)
===============================================================================
