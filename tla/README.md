# Formal models of the Proxmox multi-OS VM factory

TLA+ models of the Terraform lab factory: what its workflows, scripts and resources do to
the Proxmox node, the Terraform state and Azure Arc, in every order and with the failures
the code meets. TLC checks the models on small instances; TLAPS proves the safety
properties for every inventory and every bound.

All paths below are relative to the repository root.

    tlc -workers 2 -config MCLabLifecycle.cfg MCLabLifecycle    # a run
    tlapm LabLifecycleProofs.tla                                # the proofs

## 1. Inventory of the system

The factory keeps four things in step, and none of them is transactional:

| What | Where it lives | Written by |
|---|---|---|
| the inventory | `local.vms` on the default branch | people, by push |
| the record | `terraform.tfstate` on the runner's disk | Terraform |
| guests | the Proxmox node | the provider, and the guests themselves |
| machine resources | Azure Arc | a guest at first boot; the cleanup action |

### Components

**Apply workflow** (`terraform-apply.yml`). One job: cluster preflight, init, inventory
guard, state backup, plan to a file, scan and publication of its text, collection of the
Arc names the plan makes obsolete, Arc cleanup, `terraform apply` of the saved plan, smoke
tests, first-boot check, state audit, post-apply plan. State: the files it hands from step
to step. Hard: it deletes in Azure *before* it deletes on the node; it may die between any
two steps; nothing is rolled back. Right when: a green run means the lab is what main
declares, and a red one leaves nothing behind that nobody can account for.

**Destroy workflow** (`terraform-destroy.yml`). Dispatched by hand with the word typed
out: names from state, cleanup, `terraform destroy` (which refreshes and plans again), a
check that nothing is left in state. No guard. Right when: what it deletes on the node it
has deleted in Azure, and green means that no more is left than the check says it cannot
see.

**Plan workflow** (`terraform-plan.yml`). Reads state under the lock on pull requests,
with the credentials and the minted token an apply would have, and prints and posts the
plan once the scan passes it. Right when: what is reviewed is what would be applied, and
nothing it prints is a credential. `fork-validate` runs on a hosted runner, without
secrets or state.

**Concurrency group, runner, state lock.** Apply and destroy share `terraform-lab-state`
and one runner; a newer queued run replaces the one that waited. Each pull request has a
group of its own, and its plans are kept apart from an apply only by the state lock and
`-lock-timeout=10m`. Hard: runs that are dropped or never created, runners that are lost
while Terraform lives on, people at the runner. Right when: a saved plan is still true
when its turn comes, and the lab gets to main.

**Cluster preflight** (`preflight_cluster.py`). One question to the API before an apply or
destroy. Right when: a cluster without quorum is never touched, in whatever form the
answer comes or fails to.

**Token minting, environment rendering** (`mint_arc_token.py`, `render_terraform_env.py`,
their actions). What a job gives Terraform: secrets and settings as `TF_VAR_` variables,
blank settings left out, and a token or an explicit empty value. Right when: a plan and
the apply that follows it get the same.

**Secret scans** (`assert_no_secrets.py`, `credential_audit.py`, `audit_state_secrets.py`,
`audit_node_snippets.py`). Searches for the credentials a job holds, in each form a writer
may have given them: before a document is printed, and in the state file and its backups.
Hard: escapes, indented heredocs, values too short to look for. Right when: silence means
absence.

**Inventory guard** (`inventory_guard.py`). Pure decision over four inputs: declared
names, addresses in state, whether the state file exists, `TF_BOOTSTRAP`. Right when: a
lost state never leads to a second set of guests.

**State backup** (`backup_state.py`). A directory of copies named by UTC second and run.
Copy, compare, prune to `--keep`, all interruptible. Right when: Terraform never writes
over a state that has no good copy, and pruning keeps the useful ones.

**Arc markers and name extraction** (`arc.tf`, `arc_registration.py`,
`extract_arc_names_from_plan.py`, `extract_arc_names_from_state.py`). A marker per
Arc-enabled VM records the name it registers under, because Azure is not in state. Right
when: the names collected are exactly those of guests going away.

**Arc cleanup and session** (`arc-cleanup/action.yml`, `az_session.sh`). For each name:
absent, delete, or fail the job. Skipped without credentials.

**Convergence check, state audit, smoke tests, first-boot check** (`terraform-apply.yml`,
`audit_state_secrets.py`, `postapply_smoke.py`, `verify_first_boot.py`). After the fact;
they change nothing in the lab, they decide the colour of the run. Hard: which of them
still runs when an earlier one fails; a poll with a deadline against a guest that is still
onboarding.

**Reconciliation** (`reconcile_inventory.py`, `terraform_defaults.py`). An operator's tool
that compares three captures of inventory, state and node, taken one after the other, and
gives each VM a verdict; a runbook makes a purge of one of them. Hard: the lab goes on
while it is captured and while the table is read; two guests may have one name. Right
when: exit code 0 means that nothing is left to do, and no purge hits a guest that
somebody counts on.

**Inventory normalisation and validation** (`locals.tf`, `variables.tf`, `checks.tf`).
Pure: defaults, bool-or-object forms, validation rules.

**Terraform resources** (`main.tf`, `arc.tf`, `checks.tf`). VM, vendor-data snippet,
marker, config resource. A VM names its snippet and so waits for it; the marker depends on
nothing. The provider clones, configures, starts, waits for the agent, and can fail after
any of these.

**First boot, Linux and Windows** (`cloudinit/*.tftpl`). On Linux a script that runcmd
runs once per instance: onboard with a token that expires, ten attempts, then delete
itself. On Windows a script that runs on *every* boot and stops at once if its run-once
marker is there: password, rename, autologon, RDP, one attempt to onboard, marker,
restart. State: the marker, the credential in the registry, the files that hold the token,
the agent's registration. Hard: power may go between any two steps; some failures throw,
others are logged and passed over; the clean-up of the credential rides on the restart.
Right when: a guest that says it is done is done, a first boot happens once as seen from
Azure, and no secret stays behind.

**Lint checks** (`check_*.py`, `checks.yml`): searches in the repository's own text, with
no behaviour over time.

### How they interact

State is shared through the disk (state file, backup directory, plan file, name list) and
through the outside world (node, Azure). Applies and destroys are serial; beside a job act
the *guests*, which boot and register whenever they like, the plans of pull requests, the
operator, the cluster, and a Terraform whose job is gone. The hard behaviours follow: a
record that lags behind the world (failed creates and deletes, a lost file), a marker that
lags behind a registration (renames in place), names and plans made at one moment and used
at a later one, and checks that read the record and speak of the world.

`PROJECT.json` lists each component with what is modelled, and 39 hazards, each at the
line where it bites with the properties that cover it.

## 2. Modules

| Module | Models | Kind |
|---|---|---|
| `InventoryGuard` | `inventory_guard.py: decide` | operators |
| `ArcNames` | `arc_registration.py: from_plan, from_state_resources, resolve` | operators |
| `LabLifecycle` | apply and destroy jobs, Terraform's run, guests, Azure, state, people | state machine; composes the two above |
| `MCLabLifecycle` | inventories for TLC | MC module |
| `Lab` | what the factory promises of its guests, without jobs, plans or a record | abstract specification; `LabLifecycle` implements it |
| `LabClaims` | statements of the documents over `LabLifecycle` | history variable, refuted claims |
| `StateBackup` | `backup_state.py` with the clock, the disk and restores | state machine |
| `GuestBoot` | what `LabLifecycle` takes a first boot to be | abstract specification |
| `FirstBoot` | `linux.yaml.tftpl` and `windows.yaml.tftpl` | state machine; implements `GuestBoot` |
| `PostApply` | the steps of the apply workflow after `terraform apply`, and the guests meanwhile | state machine |
| `SecretScan` | `assert_no_secrets.py`, `credential_audit.py`, `audit_state_secrets.py` | operators |
| `JobEnvironment` | `render_terraform_env.py`, `mint_arc_token.py`; extends `SecretScan` | operators |
| `ClusterPreflight` | `preflight_cluster.py` | operators |
| `GatedJob` | a pull request's plan and an apply, between credentials and log, state and cluster | state machine; composes the three above |
| `MCGatedJob` | values and configurations for TLC | MC module |
| `Pipeline` | runs, concurrency groups, runners, the state lock | state machine |
| `Reconcile` | `reconcile_inventory.py`, its captures and its runbook, beside a moving lab | state machine |
| `MCReconcile` | the guests made by hand for TLC | MC module |
| `LabProofs`, `LabLifecycleProofs`, `StateBackupProofs`, `FirstBootProofs`, `PostApplyProofs`, `GatedJobProofs`, `PipelineProofs`, `ReconcileProofs` | theorems | TLAPS |

The state machines meet in what they take from each other: `LabLifecycle` relies on one
job at a time, which `Pipeline` shows (`OneWriter`), on a first boot being one step, which
`FirstBoot` implements, and on the guard and the name extraction as operators; `GatedJob`
and `PostApply` open up steps that are one possible failure in `LabLifecycle`.

### LabLifecycle and the code

| Variable | In the code |
|---|---|
| `main`, `bootstrap`, `arcOn` | inventory on main, variable `TF_BOOTSTRAP`, Arc secrets |
| `stateFile`, `tfVm`, `tfFile`, `tfMarker`, `tfConfig` | `terraform.tfstate`: does it exist, and its resources of each type |
| `machine` | guests, in the order they were built: for which VM, their VMID, the Arc name they were given, `life` booting, settled (first boot over), gone |
| `azure` | machine resources, by name, and the guest connected to each |
| `pc`, `kind`, `inv`, `names`, `todo`, `stuck`, `result` | the job: step, workflow, checked-out inventory, `arc_delete_names.txt`, what Terraform has left to do, what failed, conclusion |
| `forgotten`, `halfBuilt`, `wiped`, `excused` | ghosts: the cause of each stray guest and each orphaned resource |

A guest is not its VMID. `tfVm` says for which guest the record was made; what the
provider finds for it is whatever carries its VMID now (`At`), and Proxmox gives a new
guest a number that no guest carries, be it one that the record still holds (`FreeVmids`;
`main.tf:111-115` sets no `vm_id`). So after a delete that failed halfway two VMs may be
on record as one guest, and a plan then removes it as the wrong one.

| Step of the workflow | Action |
|---|---|
| checkout and init | `StartApply`, `StartDestroy` |
| inventory guard; its `terraform state list \|\| true` failing | `Guard`; `ListingFails` |
| plan and `extract_arc_names_from_plan.py` | `CollectFromPlan` |
| `extract_arc_names_from_state.py` | `CollectFromState` |
| the loop of the cleanup | `DeleteMachine`, `MachineAbsent`, `ShowFails` |
| Terraform refreshes and starts | `CleanupDone` |
| one operation of Terraform | `CreateVm` ... `DeleteConfig` |
| a provider call that fails before, or after, its effect | `OpFails`, `HalfCreate`, `HalfDelete` |
| a delete that deletes nothing and is dropped from state (`terraform-destroy.yml:247-253`) | `DropVm` |
| Terraform's exit code | `TerraformExits` |
| post-apply plan; check after destroy, its `terraform state list \|\| :` failing | `VerifyApply`; `VerifyDestroy`, `VerifyListingFails` |
| any step exiting non-zero, cancellation, the runner dying | `JobDies` |
| first boot | `Onboards`, `BootsUnregistered`, `OnboardingFails` |
| a push, settings, a lost or truncated state file | `Push`, `SetBootstrap`, `SetArcCredentials`, `LoseState` |

What is abstracted:

- A VM's declaration is a pair: the Arc name, and a `shape` that stands for everything
  whose change replaces the guest. Changes made in place that no property speaks of
  (cores, memory) are left out.
- A snippet holds the token of the run, Arc or no Arc (`main.tf:99`), and so with
  credentials every apply replaces every snippet; without them it changes with the
  declaration (`Rendering`). The post-apply plan, in the same job with the same token,
  finds it unchanged.
- Pushes and settings are actions between jobs. A job reads them once, when it starts, so
  a push during a job commutes with it.
- Preflight, backup, scans, smoke tests, first-boot check and audit appear as a step that
  may fail (`JobDies`). `StateBackup` models the backup, `GatedJob` inputs, preflight,
  scans and audit, `PostApply` what comes after the apply.
- Names are read in any order (the code sorts them), so one order is not special.
- The saved plan is computed when Terraform starts instead of when the names are
  collected. Nothing Terraform manages changes between the two: guests only boot in that
  window, and the plan does not read that. A destroy does plan at that point.
- Nobody deletes guests by hand on the node; `HalfDelete` leaves the same record behind,
  and `Reconcile` has deletions by hand. A VMID that neither a guest nor the record
  carries is taken for a new one, as nothing remembers it. A restore of an older state is
  in `StateBackup` only.
- Two VMs on record under one VMID are two records of one guest: the plan of each is made
  for the guest it finds, and the delete of one takes the guest of the other.

### Lab: what LabLifecycle promises

`Lab` has seven actions: `Build`, `Abandon` (a build that fails halfway and leaves a
guest), `Remove`, `RemoveWrong`, `LoseTrack`, `Boot` and `Deregister`. Its guests are the
ids of `LabLifecycle`. `tracked` is the guest that was built for a VM, while it runs and
is on record (`Tracks`), `outdated` the VMs whose record names a guest that is gone
(`Outdated`), `strays` the running guests that are not on record, `past` those gone,
`booting` those whose first boot is not over, `registry` is `azure`. `RemoveWrong` is the
price of VMIDs that are used again: what is removed for a VM in `outdated`, and for no
other, is whichever guest has its number now. Everything else - jobs, plans, names, VMIDs,
the four kinds of record, failures, the ghosts - is hidden by the mapping, so that a job's
own steps, a snippet, a marker or a setting are stutters. What is left is what a person
using the lab may count on without knowing how it works.

### StateBackup and the code

`Start` is `main()` up to the two early returns (no file, empty file), `Copy` and
`CopyFails` are `copyfile` and `chmod`, `Verify` the comparison of digests and the choice
of what to prune, `Prune` one `os.remove` each, newest first, `PruneDone` the end of the
step. `TerraformWrites` is what the rest of the job does to the file, `JobEnds` the job's
end at any point (so also the runner's death in each step), `LoseState` and `Restore` what
`docs/state-recovery.md` describes. `Tick` and `SetClockBack` are the runner's clock,
which the names of copies start with.

### FirstBoot and the code

Both documents are one module: they differ in how often they try, what a failure skips,
and what says that first boot is over, and `os` selects. `pc` is the place in the script,
`tries` the attempts of its present loop.

| Part of the document | Action |
|---|---|
| the guest starts; loses power; restarts as `shutdown /r` asked | `Boot`; `PowerCut`; `Restart` |
| Windows: the marker is looked at | `FirstPass`; `Repeated`, `RemovalFails` |
| password; host name; autologon; firewall logging and RDP | `SetPassword`, `PasswordFails`; `SetHostname`, `RenameFails`; `SetAutologon`; `EnableRdp` |
| Linux: `runcmd` | `StartRuncmd`, `PrepareGuest`; `SkipRuncmd` |
| Arc off or values missing | `SkipArc` |
| waiting for the network | `NetworkUp`, `NetworkDown`, `NetworkStaysDown` |
| installing the agent | `Install`, `InstallFails` |
| `azcmagent show` | `AlreadyConnected`, `OnboardingThrows` |
| the token's file and the attempts to connect | `WriteConfig`, `Connect`, `RetryConnect`, `ConnectFails` |
| `cleanup()` on Linux, `finally` and `catch` on Windows | `Leaves`, at each way out |
| marker and restart | `WriteMarker`, `MarkerFails`, `ScheduleRestart`, `ShutdownFails` |
| cloud-init's last module | `Finish` |

A call of `azcmagent connect` that exits non-zero may still have registered the machine
(`FailedAttempt`). Whether cloud-init repeats a runcmd that was cut short is its own
affair, so both happen. A rename takes effect at the next boot. Left out: DNS, firewall
scopes, WinRM, accounts and packages, which report and never stop the script; files a
power cut leaves in a temporary directory.

`GuestBoot` has three state functions: `asks` (Arc is on and its values are there),
`registered`, and `settled`: nothing can register this guest any more, or nothing needs
to. These are `Onboards`, `BootsUnregistered` and `OnboardingFails` of `LabLifecycle`,
seen from one guest.

### PostApply and the code

`step` is the step of the job and `at` the place in it; `Runs` holds the `if:` conditions,
and `outcome` is what GitHub keeps as `steps.<id>.outcome`.

| Step of the workflow | Action |
|---|---|
| Terraform apply | `ApplySucceeds`, `ApplyFails` |
| outputs and state list | `WriteOutputs`, `OutputsFail` |
| `az_session.sh` with its three exit codes | `OpenSession`, `NotConfigured`, `SessionFails` |
| `az resource list`, and `\|\| : > arc-present.txt` | `ListMachines`; `ListFails` |
| `arc_missing.py`; `sleep 30`; `break` | `Missing`; `Sleep`; `StopPolling` |
| `postapply_smoke.py` | `Report`, `ArcWarnings` |
| `verify_first_boot.py` | `StartAsking`, `NoInventory`, `ReadMarker`, `AgentErrs`, `ApiUnusable`, `AllAsked` |
| state audit; post-apply plan; `rm -f` | `Audit`; `Converge`; `RemoveFiles` |
| a step that does not run; cancellation; a lost runner | `Skip`; `Cancel`; `RunnerDies` |
| guests, at any time | `Registers`, `FinishesBoot` |

Time is counted in rounds of the poll. That inventory and state agree and that every guest
reports an address is one condition, `delivered`, which the job cannot change. A name that
a deleted guest still holds in Azure (`stale`) keeps the new guest from registering, and
reads as present. A VM asks under its own name. Not modelled: the artifact upload; an exit
of `az` itself with code 2, which the step would take for missing credentials.

### GatedJob and the code

`config` is what the repository's secrets and variables say, `env` what the job made of
it, `text` the captured document, `live` and `backups` the state file and its copies,
`previous` Terraform's own copy beside it, `cluster` the node's cluster. `log`, `audit`,
`touched`, `writable` and `reviewed` are ghosts.

| Step of `terraform-plan.yml` and `terraform-apply.yml` | Action |
|---|---|
| secrets or variables are edited; the cluster gains or loses quorum | `Configure`; `ClusterChanges` |
| checkout | `Start` |
| `terraform-env`; `arc-token` | `Render`; `Mint` |
| `backup_state.py`; `preflight_cluster.py` (apply only) | `BackUp`; `Preflight` |
| `terraform plan` into a file; the scan; `cat` | `Plan`; `ScanText`; `Publish` |
| `terraform apply` | `Apply` |
| `audit_state_secrets.py`; the last plan, scanned before it is printed | `AuditState`; `Converge` |
| clean-up; a failing step; a dead runner | `Tidy`; `StepFails`; `JobDies` |

A text is the set of *images* in it, and an image is a value together with what its writer
did to it: characters escaped, base64, a heredoc's indentation. The scans are comparisons
of images: each form that `variants()` and `unindent()` know is there (`Variants`), and
what a form makes of a value depends on what the value holds (`Special`).

How *Terraform* spells a value is external and defined apart (`Prints`, `Stores`): a
heredoc for a value of several lines, else a literal as Go's `%q` writes it, Go's JSON,
which it also writes state in, and base64. The two sets are not the same. Go writes `<`,
`>` and `&` as `\u003c`, `\u003e` and `\u0026` and a control character in a literal as
`\x1b`; Python's JSON, which the scripts' form is, writes characters outside ASCII as
escapes and Go's does not. `Obscure` says of an image that it is spelled with an escape
none of the forms has.

Terraform may print any value it was given or that state holds. When it writes the state
it leaves the old one in `terraform.tfstate.backup` (`previous`), which no step of the
workflows searches, copies or removes. Taken to print no value is what reaches the log
without a capture: the output of `terraform apply`, and the standard error of the last
plan, which its step does not redirect. The credentials of the Proxmox call itself and of
the Azure session are not Terraform's and not in this model. A destroy captures and prints
no plan and is left to `LabLifecycle` and `Pipeline`.

### Pipeline and the code

A run says what it is, for which commit of main, and whether somebody asked for a commit
that was no longer the newest (`again`). A group has one `active` and one `pending` run;
`at` is where the active one is; `holder` is who has the state lock.

| In the code | Action |
|---|---|
| `on: push`, with and without `paths-ignore` or an outage | `Push`, `PushWithoutRun` |
| `workflow_dispatch`; an old run run again, or another ref; the typed destroy; a pull request | `Dispatch`; `RunAgain`; `ConfirmDestroy`; `Propose` |
| `concurrency:` with `cancel-in-progress: false`; `runs-on` | `Promote`; `Assign` |
| `terraform plan -lock-timeout=10m` | `StartPlanning`, `PlanEnds`, `GivesUp` |
| `terraform apply` of the saved plan; Terraform's refusal of a stale one | `StartApplying`, `ApplyEnds`; `RefusesStale` |
| `terraform destroy` | `StartDestroying`, `DestroyEnds` |
| a failing step or a cancelled run; a lost runner, and its return | `RunFails`; `RunnerLost`, `RunnerBack` |
| the Terraform a lost runner leaves; `force-unlock` | `StrayWrites`, `StrayEnds`; `ForceUnlock` |
| state surgery, a restore or an apply by hand at the runner | `StartByHand`, `EndByHand` |

GitHub and the lock are external. The lock is taken to work as Terraform documents it;
docs/state-recovery.md:200-206 says that this was never confirmed on the runner.
`force-unlock` is used on the lock of a process that is dead, and not on one that is
alive: nothing in the code could make up for that.

### Reconcile and the code

| In the code | Action |
|---|---|
| an inventory edit; an apply that clones, configures, records, or fails | `EditInventory`; `Clone`, `WriteConfiguration`, `RecordGuest`, `BuildFails` |
| an apply that removes; a guest deleted at the node; Terraform finding it gone | `RemoveUndeclared`; `DeleteByHand`; `Refresh` |
| `qm list`; `terraform show -json`; the declared names | `CaptureNode`; `CaptureState`; `CaptureInventory` |
| `main()`; its exit with 2 | `RunTool`; `ToolRefuses` |
| docs/incident-orphan-vm.md: the checks on a row `orphan`; `qm destroy --purge` | `CheckOrphan`; `Purge` |
| the operator begins again | `StartOver` |

`Verdict` is `verdict()`, line by line; `ByName` is what keying `qm list` by name leaves.
The ID lists come from the flags or from the defaults of `variables.tf` (`ProtectedIds`,
`TemplateIds`), which need not be those the workflows set. Ids come and go: anybody at the
node may delete any guest, an orphan among them, and the next clone gets the lowest free
id (docs/unmanaged-vms.md:117-133); `reissued` notes which of the ids an operator has
checked were given out again before the purge. The inventory may be captured as it is or
as docs/unmanaged-vms.md:26 captures it (`Garbled`, see section 4).

## 3. Runs

| Run | Instance | Checks |
|---|---|---|
| `lifecycle` | 2 VMs, 4 inventories, 2 edits, 1 failure, 3 builds; about 2.4 million states | `TypeOK`, `RecordTruthful`, `UntrackedExplained`, `OrphanExplained`, `WipedRecordNotBuiltOn`, `InnocentMachineKept`, `GreenApplyConverged`, `GreenDestroyClean`, `RedMeansFailure` |
| `hand_over` | 2 VMs, 3 inventories, 1 edit, 1 failure, 3 builds; about 298 000 states | `LabSpec` (refinement), `JobEnds` (liveness) |
| `backup` | keep 2, 5 jobs, 3 contents, a clock of 3 seconds; about 1.8 million states | `TypeOK`, `WriteBackedUp`, `LastWriteUndoable`, `PrunedToKeep` |
| `first_boot` | both systems, 2 looks at the network, 3 attempts, 2 power cuts, 2 failing commands; about 8 700 states | `TypeOK`, `MarkerMeansProvisioned`, `NothingLeftBehind`, `GuestSpec` (refinement), `BootSettles` and `CredentialGoes` (liveness) |
| `post_apply` | 2 VMs, 1 foreign machine, a deadline of 2 rounds, 2 failures; about 293 000 states | `TypeOK`, `ChecksFollowApply`, `NoHastyAbsence`, `OrphansNamed`, `SilentGreenMeansDone`, `JobEnds` (liveness) |
| `gated_job` | 8 configurations of 4 inputs and a token, 7 values, 1 backup; about 2.6 million states | `TypeOK`, `LogIsClean`, `SameInputs`, `UntouchedWithoutQuorum`, `CleanAuditMeansAbsent` |
| `pipeline` | 2 commits, 1 pull request, 2 runners; about 41 000 states | `TypeOK`, `PlanStillTrue`, `NeverBackwards`, `LabFollowsMain` and `NoRunWaitsForever` (liveness) |
| `reconcile` | 2 names, 1 free id and 1 of a protected machine that the defaults take for a template; about 2.1 million states | `TypeOK`, `ZeroMeansSettled`, `InnocentSpared` |
| `claim_*` | the smallest instance that shows the counterexample | one statement of a document each, refuted |

What they show:

- **RecordTruthful.** State may name for a VM another VM's guest: a delete fails after it
  has taken effect, Proxmox gives the VMID to a guest created in the same apply, and two
  VMs are on record as one. No job ends green over such a record: the post-apply plan
  proposes to put it right. Without that plan the property fails.
- **UntrackedExplained.** A guest that runs outside state has one of three causes: a lost
  state, a delete that deleted nothing and dropped it, a failed create. A replacement, a
  destroy or an interrupted apply is never one by itself.
- **OrphanExplained.** The list of ways to leave an Arc resource behind is complete: no
  credentials, a marker that no longer names what the guest registered as, a failing `az
  resource show`, a guest that registers after its name was dealt with. Each is a gap of
  the code; the property says that there is no other.
- **InnocentMachineKept.** Deleting in Azure by *name* spares every guest that stays,
  except in the cases listed. One inventory gives two VMs one Arc name, which nothing in
  `locals.tf` refuses, and a change of inventory hands a name from one to the other.
- **WipedRecordNotBuiltOn.** After a loss the guard holds until something is recorded, in
  every combination of file, bootstrap and failing listing.
- **GreenApplyConverged, GreenDestroyClean.** The last check of a job reads the record;
  the properties say how far what it concludes is true of the node. After a green apply
  every declared VM runs as declared. After a green destroy no snippet is left, and a
  guest only if its record had gone: earlier, or in this destroy
  (`terraform-destroy.yml:247-253` says so itself). That its last listing may fail and
  read as empty (`:221`) costs nothing: by then Terraform has exited 0.
- **LabSpec.** Jobs that die anywhere, half-made guests, half-deleted ones, a lost state
  and guests that boot when they like keep to `Lab`. Above all the next guest of a VM is
  built only once the last one tracked is gone, and the lab removes a guest it should not
  only while a record names one that is gone. If `main.tf` did not order a create after
  the delete it replaces, the lab would build over a guest it knows.
- **RedMeansFailure.** Red is never the plan's own fault, unless the record it starts from
  names a guest that is gone and whose VMID another has: what `terraform plan` lists is
  all that the check after it will ask for, and none of its operations waits on another in
  a circle. So whoever finds a red run may look for what failed, in this job or in the one
  before it, or what the guard saw.
- **JobEnds.** No ordering of Terraform's operations, no failure and no list of names
  leaves a job waiting for good: it would hold the only runner.
- **MarkerMeansProvisioned.** `verify_first_boot.py` and an operator trust the marker. It
  comes after everything it stands for, whichever pass wrote it and whatever an earlier
  one left half done. On Linux, where cloud-init decides what a boot repeats, this is
  stated for a first boot that was not cut.
- **GuestSpec.** A Windows guest may go through its script many times, and a Linux guest
  connects up to ten times; seen from Azure it is still one step, and never does a guest
  register whose first boot had ended.
- **NothingLeftBehind, CredentialGoes.** The token's file and the script that holds the
  token go on every way out, and the password that autologon needs leaves the registry
  through marker, restart and second boot unless a command failed.
- **BootSettles.** Restarts, retries and repeated passes come to an end.
- **ChecksFollowApply.** The conditions between the steps do what docs/release-process.md
  says of them, under failures and cancellation: after an apply that succeeded the checks
  do not hide each other, and one that failed is the only failure of its job. It states
  the exception too: the state audit has no condition and is given up when the smoke tests
  or the first-boot check fail, although the comment at terraform-apply.yml:454-456 reads
  as if three steps were independent.
- **NoHastyAbsence, OrphansNamed.** A warning of the poll means what it says: the deadline
  has passed, and the machine was not there when last asked for. Only a listing that fails
  makes it false, and only that hides a machine nobody claims.
- **SilentGreenMeansDone.** The checks report each thing in its own way, some by failing,
  some by a warning, some by neither. Together they leave no way to a green run without a
  warning over a lab that is not done, but for a stale name.
- **WriteBackedUp, LastWriteUndoable, PrunedToKeep.** Terraform never writes over a state
  that has no exact copy; the last write stays undoable for `Keep` further copies, good or
  bad; and pruning leaves `Keep`. The second needs a clock that runs forward, and the
  model shows why: names sort by the clock, and a clock set back makes a new copy the
  oldest.
- **LogIsClean, CleanAuditMeansAbsent.** What a scan is told to look for it finds in every
  form in which Terraform writes it but those of `Obscure`, and a value too short to look
  for stops the publication instead of passing it. An audit that ends with 0 has looked at
  every copy but `terraform.tfstate.backup`, and what this job left there was in the state
  that the job backed up, where the audit did look. Without either exception TLC finds
  both properties violated (section 4). Both are about the values a scan is *given*: the
  scan of a pull request's plan is not given the SSH private key, and that of an apply is.
- **SameInputs.** A plan that was reviewed with a token is applied with a token, and one
  reviewed without it without one, whatever Azure answers each time; blank settings and
  incomplete principals come out alike in both.
- **UntouchedWithoutQuorum.** The preflight asks once and its answer may be out of date,
  but a cluster that could not be written to at any time of the job is not touched.
- **PlanStillTrue.** The groups and the lock together keep a plan of a pull request from
  reading a state under change, and a saved plan true until it is applied, across lost
  runners, a Terraform that outlives its job, and broken locks. Without the common group
  it fails; the number of runners does not matter.
- **NeverBackwards, LabFollowsMain.** However pushes coalesce, commits reach the lab in
  their order: it goes back only by a run that somebody asked for again, in its own apply
  and to its own commit. Main's last commit gets there, unless its run was never created,
  failed, was refused, or was dropped for a destroy or an older commit that somebody asked
  for.
- **NoRunWaitsForever.** Whoever sits on the lock - an operator, a dead process - no run
  waits for it for good.
- **ZeroMeansSettled.** If the lab stood still while it was captured, exit code 0 leaves
  an apply nothing to build and nothing to remove.
- **InnocentSpared.** A table may be hours old when somebody follows it. The runbook's
  checks, made on the id, are enough all the same: neither a recorded guest, nor one under
  construction, nor (with the right ID lists) a protected machine is purged - unless the
  guest that was checked is deleted by somebody else and its id given out again before the
  purge. Against that nothing in the code or the runbook helps.

**Bounds.** Two VMs are what a hand-over of a name takes, and no property relates three.
Three builds allow a VM to be built, replaced or rebuilt after a loss, and the other VM
beside it. The gaps found need at most one failure together with two edits. `lifecycle`
has these. In `hand_over` one edit replaces a VM as another arrives, which is what it
takes for a VMID to be given out again while it is on record, and the refinement and the
end of every job are checked there; two failures, or the refinement with two edits, exceed
what fits a short run. For those the theorems of section 5 speak: they have no bounds. In
`backup`, five jobs with `Keep` 2 fill the directory, prune, and go on past it, with one
write each to tell apart and clock readings before and after a set-back. In `first_boot`
the loops are cut from 60, 30 and 10 rounds to 2 and 3: first, middle and last round are
there, and the proofs hold for every number. Two power cuts interrupt first boot and its
repetition; two failures spoil a pass and what should make up for it. In `post_apply` the
deadline is cut from ten rounds to two, so a first listing, one after a wait and one at
the deadline are there; two failures are a cancellation or a failed call on top of
another. In `gated_job` the values are one of each kind the scans tell apart (plain, what
Python and Go both escape, what Go spells in its own way, too short, blank, a token), and
the configurations one for each way rendering and minting can go; a document shows up to
two images, so a found and an unfound credential can stand in one; one backup is enough to
hold what the live file no longer does. In `pipeline` two commits let one overtake or
replace the other, two runners let a plan run beside an apply (the repository has one),
and everything else is unbounded. In `reconcile` two ids are enough for a guest, its
successor of one name, and an id that changes hands, and the one machine made by hand
stands for a protected one and, by defaults that are wrong, for a template. Every action
fires.

**Deadlock** is checked in every run but those of `FirstBoot` and `PostApply`, where a
guest whose script has ended, or a job that is over, does nothing more: a lifecycle
without budget can still start a job, and a clock, a restore, a dispatch or a capture is
always possible.

**Fairness.** `WF_vars(JobStep)`: the runner takes the next step of a job whenever there
is one. The code justifies it: calls that could wait are bounded (`timeout 60` and
`timeout 120` around the console, `-lock-timeout=10m`, `-input=false`), the provider's
waits have deadlines, and GitHub ends a job after six hours. People, failures and guests
owe nothing: a guest may never boot. Safety properties use none of this. In `FirstBoot`,
`WF_vars(Step)`: the guest takes the next step of its script, starts when it is off and
restarts when it has asked to. The loops are counted and each round sleeps a fixed time;
which of its outcomes a step has (network, agent, Azure) is left open, and so are power
cuts and failing commands. In `PostApply`, `WF_vars(JobStep)` as above: the poll reads the
clock in every round, a question to the Proxmox API gives up after 20 seconds, and a call
of `az` that hangs is ended by GitHub's limit for the job. Guests owe nothing, so the poll
may wait in vain. In `Pipeline`, `FairSpec`: a lost runner comes back, GitHub starts a
pending run whose group is free, and a run on a runner goes on (`WF`); a free runner is
given to the job that waited longest (`SF` for `Assign`: runners come and go, so weak
fairness would let a job miss its chance for ever). A Terraform that outlived its job, the
operator and a dead lock's owner owe nothing, and GitHub's limit of six hours is not
counted on: the timeout of the lock is what ends the waiting. `GatedJob` and `Reconcile`
state no fairness.

## 4. Where documents and code differ

Each is a run that TLC must find violated.

- **claim_destroy** (`arc.tf:32`; README.md:112 "Destroy removes Azure Arc resources
  before deleting their guests."). Apply builds `a`, to register as `a`. A push sets
  `arc.resource_name` to `x`; the next apply rewrites the marker in place and leaves the
  guest alone, which, still in its first boot, registers as `a`. Destroy reads `x` from
  state, finds no such machine, goes on, and deletes the guest with resource `a` still in
  Azure.
- **claim_bootstrap** (`inventory_guard.py:171`; the comment at 34-37 that an existing
  file that lists nothing is a truncated state). Main declares one VM; a green apply, a
  green destroy, an apply, of one inventory and with no failure: the destroy left an empty
  file, and the guard stops the new start even with `TF_BOOTSTRAP` on.
- **claim_guard** (`inventory_guard.py:158`; docs/state-recovery.md:32-34). State is lost;
  an apply of an empty inventory passes as a "no-op" and records `vm_factory_config`; now
  state is populated, and the next apply builds a second guest beside the forgotten one.
- **claim_reconcile** (`reconcile_inventory.py:85`; :26 "Every VM lands in exactly one"
  and :46 "0 everything is `managed`"). An apply fails after cloning a VM as 1; the next
  builds it as 2 and records it. The tool keys `qm list` by name and keeps the later id,
  prints one row, and ends with 0 while guest 1 runs and nothing records it: the very case
  of docs/incident-orphan-vm.md.

Seen while modelling, and left without a run of their own:

- A cleanup that deletes one resource and fails on the next ends the job with the first
  resource gone and its guest running (`arc-cleanup/action.yml:102`), where
  docs/arc-cleanup.md:68-69 has the lab "left exactly as it was".
- Copies that fail stay, and pruning runs only after a success (`backup_state.py:148`), so
  the count is not bounded as the comment at 31-32 says.
- If the Windows marker cannot be written, which is only logged, the second boot repeats
  first-boot provisioning (`windows.yaml.tftpl:769`; the comment at 780-781 excludes it).
- Terraform is written in Go. Its JSON - `terraform.tfstate`, `show -json`, diagnostics -
  writes `<`, `>` and `&` as `\u003c`, `\u003e`, `\u0026`, and its literals write a
  control character as `\x1b`. No form of `assert_no_secrets.py:97-109` matches these, so
  a credential with such a character can stand in state under a clean audit (`Obscure`).
  The base64 of a whole template is outside the model as well: the forms encode the value
  alone.
- `terraform.tfstate.backup`, which Terraform leaves beside the state, is neither opened
  by `audit_state_secrets.py:70-80` nor copied or removed by a workflow. Until the next
  write it keeps a credential that state and backups have lost.
- A VM dropped from state without being deleted passes the check after a destroy, as the
  workflow itself says (`terraform-destroy.yml:247-253`).
- A delete that failed after it took effect leaves a VMID on record that the next guest
  gets. From then on two VMs are recorded as that guest: the next plan replaces it for the
  one, which takes it from the other, whose next plan builds again.
  docs/unmanaged-vms.md:117-133 speaks of reuse where Terraform still knows the right
  guest; there it does not. The post-apply plan makes such an apply red
  (`RecordTruthful`).
- docs/unmanaged-vms.md:26 captures the inventory with `jsonencode`, which `terraform
  console` prints as a string in a string. The names `reconcile_inventory.py:342-354`
  reads from it are a single backslash, so every VM reads as not declared. It errs to the
  safe side for `InnocentSpared` and `ZeroMeansSettled`, which are checked with both
  captures.
- Between the check of an orphan's id and `qm destroy` the id may be given to another
  guest (`InnocentSpared`).
- The scan of a pull request's plan is not told the SSH private key
  (`terraform-plan.yml:168-177`), which the one in an apply is. The last plan's standard
  error goes to the log without a scan.
- `credential_audit.py` ends with 0 if no value to look for is set. It does not strip the
  blanks of the value it looks for, as `assert_no_secrets.py` does, and relies on the
  other forms instead.
- The reconciliation tool takes protected and template ids from the defaults in
  `variables.tf` when no flag gives them, while the workflows may set others by repository
  variables; `InnocentSpared` therefore spares those machines only if the lists agree.
- A dispatch may choose any ref, and running an old run again brings an old commit back,
  where terraform-apply.yml:22-24 says that it converges "the lab on what main already
  says"; and a destroy that waits is dropped by the next push.

## 5. Proofs

`LabLifecycleProofs` proves, for every set of VMs, names, shapes and inventories and every
bound:

| Theorem | Says |
|---|---|
| `TypeCorrect` | `Spec => []TypeOK` |
| `RecordCorrect` | `Spec => []RecordTruthful` |
| `UntrackedCorrect` | `Spec => []UntrackedExplained` |
| `OrphanCorrect` | `Spec => []OrphanExplained` |
| `GuardCorrect` | `Spec => []WipedRecordNotBuiltOn` |
| `InnocentCorrect` | `Spec => InnocentMachineKept` |
| `GreenApplyCorrect`, `GreenDestroyCorrect` | what a green job means |
| `RedCorrect` | `Spec => RedMeansFailure`: what a red one means |
| `LabCorrect` | `Spec => LabSpec`: the refinement of `Lab` |
| `RolesCorrect`, `ReturnCorrect` | what `LabProofs` proves of every lab that keeps the promise, of this one |
| `ProgressCorrect`, `StrandedCorrect` | the safety half of `JobEnds` (see *Progress*) |

Assumptions, all in `LabLifecycle`: a VM's own name is an Arc name (`NamesAssumption`),
bounds are naturals (`BoundsAssumption`), an inventory declares VMs
(`InventoriesAssumption`), names are finitely many (`FiniteAssumption`: an inventory is a
file, and counting what is left to do needs it), and `None` is not a value it stands
beside (`NoneAssumption`). TLC evaluates them in every lifecycle run.

*The inductive invariant.* `IInv` conjoins the type, `UntrackedExplained` and the guard's
property with these strengthenings:

- `RecordSound`: state names for a VM a guest that was built for it, gone or not. This
  holds always; `RecordTruthful`, which asks that the guest still runs under its VMID,
  does not.
- `NumbersSound`: no two guests that run carry one VMID, and of the guests a VM can be
  found as, the one that was built for it is the one on record. What a record finds is
  then its own guest, if that runs, and at most one other if not.
- `PlanSound`: what a plan being carried out may contain. Without it a create could
  overwrite the record of a running guest, and `UntrackedExplained` would break: a guest
  is built for a VM only when the record names none or the recorded one is still to be
  deleted first. It also says that only recorded guests are deleted, which `TypeOK` itself
  needs.
- `WipedMeansEmpty`: while `wiped` holds, state lists nothing, so the guard gets an empty
  listing whether or not `terraform state list` worked.
- `NamesSound`: during a cleanup the names are among those the markers and the plan give
  *now*; nothing that changes them happens during a cleanup. `InnocentMachineKept` follows
  from it and `UntrackedExplained`: the guest of a deleted name is recorded or a stray.

Each conjunct has a lemma that a step keeps it (`TypeStep`, `RecordStep`, ...), each with
one case per action that can disturb it; the lemmas `Movers`, `PlanMovers`, `WipedMovers`,
`CleanMovers` say once which actions those are. The green theorems add that an action that
ends green is the check of that workflow (`GreenByCheck`) and that a check that proposes
nothing means convergence (`NothingProposed`). A destroy's check reads state and may read
nothing, so `GreenDestroyCorrect` does not rest on it: `PlanComplete` (see *Red*) has a
delete for everything on record, and a Terraform that exits 0 has done them all.
`RecordCorrect` needs both: an apply whose last plan proposes nothing has every VM on
record found as a guest of its own (`NothingProposed`), a destroy leaves none on record,
and two running guests have two VMIDs (`RecordedApart`).

`OrphanCorrect` has an argument of its own, beside `IInv`. `OrphanExplained` speaks of
guests that are gone, and the steps that make one go look at no name. So `OInv` adds that
a resource has the name its guest was built with (`Registered`; hence no guest has two),
that from the collection of names on every guest still to be removed has its name among
those to be read or is accounted for (`CleanupSound`), and that Terraform deletes only
guests that were to be removed when the names were collected (`DeletionsSound`).

*The refinement.* `LabCorrect` maps each action to one of `Lab` or to a stutter, from
`IInv` alone. A create maps to `Build`, which needs that nothing tracked is there and no
record is outdated: `PlanSound`. A delete maps to `Remove` if the guest it finds is the
VM's own and to `RemoveWrong` if it is another that has its VMID, which `NumbersSound`
tells apart; one that finds nothing, or drops the record, to `LoseTrack`; a half-made
create to `Abandon`; a half-made delete to `Remove` or `RemoveWrong` with the VM outdated
afterwards; a lost state to `LoseTrack`; the three ends of a first boot to `Boot`, whether
or not the guest is on record. `AzureMovers` and `Movers` say that nothing else moves what
the mapping reads. `LabProofs` then reasons about `Lab` only, where there are seven
actions and no job: a guest has one role and one name (`PromiseKeepsRoles`) and never
comes back (`PromiseForbidsReturn`). `RolesCorrect` and `ReturnCorrect` bring both back
through the mapping. The role is that of the guest each record was made for: that a VMID
on record may meanwhile be another guest's is what `outdated` says, and what
`RecordCorrect` bounds.

*Red.* `RedCorrect` needs that a plan is complete while it is carried out
(`PlanComplete`): each difference between the declaration and the record, for guest,
snippet, marker and config resource, is either gone or has its operation still in `todo`.
Each conjunct has its lemma. `NoCircle` follows `Waits` from a guest's create to its
snippet to the delete of the last guest, which waits for nothing, so Terraform that exits
with nothing stuck has emptied `todo`; then `NothingMissed` and `NothingLeft` say that
neither check finds anything, as long as no record is outdated.

`StateBackupProofs` proves, for every `Keep`:

| Theorem | Says |
|---|---|
| `BackupTypeCorrect` | `Spec => []TypeOK` |
| `BackupCorrect` | `Spec => []WriteBackedUp` |
| `UndoCorrect` | `Spec => []LastWriteUndoable` |
| `PruneCorrect` | `Spec => []PrunedToKeep` |

`TypeOK /\ WriteBackedUp` is not inductive: pruning might delete this job's copy.
`CopyKept` says that from the comparison on, the copy is there, matches what the job found
and is not condemned, which is what `protect` is for in `prune()`. The other two count
files. `Undoable` ranks the copy that the last write can be undone from: no more files
sort after it than were made since, so that pruning, which takes what has `Keep` or more
after it, does not reach it; `Stamped` is where the clock must run forward. For
`PrunedToKeep`, `FewNewest` shows that at most n files have fewer than n after them, by
the pigeonhole principle: two files of one rank would have one name, and `Unique` says
that no two do.

`FirstBootProofs` proves, for every number of rounds of the loops and every budget of
power cuts and failures (`TriesAssumption`, `BoundsAssumption`):

| Theorem | Says |
|---|---|
| `BootTypeCorrect` | `Spec => []TypeOK`; the loops never count past their last round |
| `MarkerCorrect` | `Spec => []MarkerMeansProvisioned` |
| `TracesCorrect` | `Spec => []NothingLeftBehind` |
| `GuestCorrect` | `Spec => GuestSpec`: the documents implement `GuestBoot` |
| `BootsAdvance`, `CredentialCorrect` | the safety halves of `BootSettles` and `CredentialGoes` |

`MarkerMeansProvisioned` speaks of the end of the script, so `IInv` adds what each step
relies on: `WindowsPass` and `LinuxPass` say which of the effects are there at each `pc`,
`StepsOfOs` that a guest is never at a step of the other system. On Windows a pass without
a marker starts from nothing it may rely on, so a power cut does not disturb
`WindowsPass`; `LinuxPass` is conditional on there having been none. The refinement maps a
step that connects to `Onboards` if first boot was not settled, a marker without
registration to `EndsUnregistered`, and all else to a stutter; that `Connect` never
happens in a settled guest is what needs the invariant.

`PostApplyProofs` proves, for every inventory, resource group, deadline and number of
failures (`DeadlineAssumption`; `NamesAssumption`, that VMs are finitely many and a
foreign machine does not carry the name of one):

| Theorem | Says |
|---|---|
| `JobTypeCorrect` | `Spec => []TypeOK`; the poll keeps to its deadline |
| `ChecksCorrect` | `Spec => []ChecksFollowApply` |
| `AbsenceCorrect`, `OrphansCorrect` | `NoHastyAbsence`, `OrphansNamed` |
| `SilenceCorrect` | `Spec => []SilentGreenMeansDone` |
| `CleanCorrect` | `Spec => []WorkspaceClean`: no plan, output or list of names outlives a job that ends (no run checks it) |
| `ChecksAdvance` | the safety half of `JobEnds` |

The properties speak of the job's end, so the invariant remembers for each step what its
outcome stands for. `Ordered` says that exactly the steps behind the present one have an
outcome, `AllGreen` that nothing is skipped while all is well; so a green end means that
every step succeeded. `SkippedForCause` and `OneFailureNotThree` are the two halves of
`ChecksFollowApply`, kept at every step and not only at the end. `Reported` and `Asked`
say what success of the two checks has established, `Polled` what the poll knows at each
place. The lemma `Control` reduces a step to four kinds (go on, be cancelled, die, leave),
and `Writers` says which actions write which variables; every other lemma cites these.

`GatedJobProofs` proves, for all sets of variables, values, lists of names to look for and
configurations (the assumptions of `SecretScan`, `JobEnvironment` and `GatedJob`: the
tables agree with each other, and the special words are no values):

| Theorem | Says |
|---|---|
| `GatedTypeCorrect` | `Spec => []TypeOK` |
| `LogCorrect`, `AuditCorrect` | `LogIsClean`, `CleanAuditMeansAbsent` |
| `InputsCorrect` | `Spec => []SameInputs` |
| `QuorumCorrect` | `Spec => []UntouchedWithoutQuorum` |
| `PrintedIsFound` | the scan finds a value in every form Terraform prints it in, but for the escapes of `Obscure` |

The searches rest on two facts about the operators. `PrintedIsFound`: whatever Terraform
makes of a value long enough to look for is found, if it is not `Obscure`; Terraform's
spellings are defined without the scanner's, so this compares two encoders: Go's literal
without control characters is the scanner's `terraform` form, Go's JSON without HTML
characters Python's, and for an indented heredoc it takes the comparison without
indentation. `StoredIsSearched` says the same of what state holds and the audit. The
invariant carries them to where they are needed: every image in a text, the log or a file
is one that Terraform makes of its value (`Known`), and what is about to be printed has
been scanned (`Scanned`). `Copied` brings the audit to `terraform.tfstate.backup`: what an
apply replaced is among the backups it made. `InputsSound` ties the environment of any
job, whichever kind, to what its configuration promises (`Promised`), which is why a plan
and an apply agree although neither sees the other. `QuorumSound` remembers that past the
preflight the cluster was writable once.

`PipelineProofs` proves, for any finite set of pull requests and any number of runners and
commits, and without fairness:

| Theorem | Says |
|---|---|
| `PipelineTypeCorrect` | `Spec => []TypeOK`; no more runs on runners than there are, and the lock is held exactly by the run that uses the state |
| `PlansCorrect` | `Spec => []PlanStillTrue` |
| `ForwardCorrect` | `Spec => NeverBackwards` |
| `OneWriter` | who applies is the group of the lab, holds the lock, and nobody else has a view of the state: `LabLifecycle`'s one job |
| `NothingForgottenCorrect`, `RunsAdvanceCorrect` | the safety halves of `LabFollowsMain` and `NoRunWaitsForever` |

`PlanStillTrue` needs `InPlace` (a run is in the group of its kind, so only one group ever
applies) and `Views` (a Terraform that outlived its job writes beside no saved plan: it
holds the lock that the next plan needs). `InSequence` orders the commits of what is
pending, active and applied, old ones that somebody asked for apart; `ForwardCorrect`
follows, as the only way back is an apply of such a one. The lemma `StepKinds` reduces two
dozen actions to seven kinds.

`ReconcileProofs` proves, for any names, ids, lists and defaults:

| Theorem | Says |
|---|---|
| `ReconcileTypeCorrect` | `Spec => []TypeOK`; every name gets one of the seven verdicts |
| `ZeroCorrect` | `Spec => []ZeroMeansSettled` |
| `PurgeCorrect` | `Spec => InnocentSpared` |

`Current` says that while the lab stands still the captures show it. `TargetSound` is what
the checks of the runbook have established and what no move of the lab takes away: an id
that had no configuration, no record and no build gets none of these while its guest
stands, and once its guest is deleted, by whomever, a clone that is given the id makes it
`reissued`.

### Progress

Liveness under fairness and `ENABLED` are out of the prover's reach, so `JobEnds` (twice),
`BootSettles`, `CredentialGoes`, `LabFollowsMain` and `NoRunWaitsForever` stay with TLC.
For each of them the half that is safety is proved, for every value of the constants:

| Liveness property | What is proved of it |
|---|---|
| `JobEnds` of `LabLifecycle` | `ProgressCorrect`: every step of a job, and every failure in it, brings (steps of the workflow left, names or operations left) down; guests leave a job alone. `StrandedCorrect`: it never stands before a step it cannot take, and the bound on builds holds up none |
| `JobEnds` of `PostApply` | `ChecksAdvance`: the same with (stage, what is left of it), rounds of the poll and unread markers among it; a job that is over stays so |
| `BootSettles` | `BootsAdvance`: (what may still go wrong, rungs to the end of the script, tries left) falls in every step, restarts and repeated passes included |
| `CredentialGoes` | `CredentialCorrect`: where the script comes to rest without a failed command, the password is gone |
| `LabFollowsMain` | `NothingForgottenCorrect`: as long as main is not in the lab there is a run pending or active that brings it, unless its loss is one the property names |
| `NoRunWaitsForever` | `RunsAdvanceCorrect`: a run moves forward through its places only, and is over after five steps |

The orders are lexicographic orders on tuples of naturals, proved well-founded
(`IsWellFoundedOn`) with `WellFoundedInduction`. What TLC adds is that something *does*
move: that fairness keeps the steps coming, and in `Pipeline` that a queue, a lock and
lost runners let every run have its turn.

All safety properties that the runs check are proved.

## 6. Plan

Done, in this order: `InventoryGuard` and `ArcNames`; `LabLifecycle` with its MC module
and the claims; `StateBackup`; `GuestBoot` and `FirstBoot`; `PostApply`; `SecretScan`,
`JobEnvironment`, `ClusterPreflight` and `GatedJob`; `Pipeline`; `Reconcile`; the proofs
of each; `Lab`, with `LabLifecycle` as its refinement; the safety halves of the liveness
properties.

Left:

1. `Normalize`: the defaults, the bool-or-object forms and the validation rules of
   `locals.tf` and `variables.tf` as functions, and which inventories validation admits.
2. A restore of an older state inside the lifecycle, and the repair of a row `pending`
   (`terraform import`) in `Reconcile`.
3. The steps of `az_session.sh` one by one.
4. More theorems about the operators: what `Decide` of the guard and `FromPlan` of the
   name extraction promise their callers.

## 7. Not modelled, and why

- The text of documents: JSON, HCL and YAML are modelled by what they hold.
- The lint checks of the repository (`check_*.py`): searches in its own text, with no
  state. Tests and documentation are read as references.
- `audit_node_snippets.py` is run by hand on the node; its search is `SecretScan`'s, and
  it has no model of its own.
- Terraform's engine and the Proxmox provider are external and modelled as the repository
  relies on them: order by reference, record after success, refresh before a plan, a lock
  that works. So are GitHub's queue, cloud-init, Cloudbase-Init, `azcmagent`, the Proxmox
  API and the network.
- Values set on GitHub's `prod` environment instead of the repository are not told apart:
  `GatedJob` takes a plan and an apply to be given the same secrets, which holds as long
  as `prod` has none of its own.
- Normalisation, validation and an import are in the plan above.
