------------------------------- MODULE PostApply -------------------------------
(***************************************************************************)
(* The end of terraform-apply.yml: terraform apply and the checks after it,*)
(* each with the condition under which GitHub runs it, while the guests    *)
(* that the apply built are still booting.                                 *)
(*                                                                         *)
(* The checks change nothing in the lab.  They decide the colour of the    *)
(* run and print warnings, and a warning is all that a guest which never   *)
(* onboards, or a machine that a destroy left in Azure, will ever cause.   *)
(*                                                                         *)
(* The apply itself is LabLifecycle's; a guest's first boot is FirstBoot's.*)
(* A VM asks for Arc under its own name here.  Azure, the Proxmox API and  *)
(* GitHub are external.                                                    *)
(*                                                                         *)
(* Bound: MaxFaults failures.                                              *)
(***************************************************************************)
EXTENDS Naturals, FiniteSets

CONSTANTS
  VM,         \* the VMs of the inventory
  Elsewhere,  \* other machines of the resource group: nothing here claims them
  Deadline,   \* what the poll for Arc machines waits, in rounds of 30 s: 10
  MaxFaults

ASSUME DeadlineAssumption == Deadline \in Nat /\ MaxFaults \in Nat
ASSUME NamesAssumption == VM \cap Elsewhere = {} /\ IsFiniteSet(VM)

VARIABLES
  asking,      \* VMs with Arc enabled
  configured,  \* the Arc credentials are there
  stale,       \* names of asking VMs that a deleted guest still holds in Azure
  registered,  \* VMs whose guest has registered in Azure
  booted,      \* VMs whose guest has left its first-boot marker
  delivered,   \* state lists exactly the inventory, and every guest has an address
  step, at,    \* the step of the job under way, and where it is in it
  outcome,     \* steps.<id>.outcome
  cancelled,   \* the run has been cancelled
  clock,       \* rounds since the poll began
  inventory,   \* vm-inventory.json has been written
  present,     \* arc-present.txt
  unread, absent,      \* first-boot check: guests still to ask; guests without marker
  warnings,    \* ::warning:: lines: what about, and which VM or machine
  files,       \* working files in the runner's workspace
  died,        \* the runner died
  faults,      \* budget spent
  listed,      \* ghost: the resource group when it was last listed
  listFailed   \* ghost: the last listing failed

lab   == <<asking, configured, stale, delivered>>
guest == <<registered, booted>>
job   == <<step, at, outcome, cancelled, died>>
poll  == <<clock, present, listed, listFailed>>
check == <<unread, absent>>
vars  == <<lab, guest, job, poll, check, inventory, warnings, files, faults>>

Checks == {"smoke", "firstboot", "audit", "converge"}
Steps == {"apply", "remove"} \cup Checks
Finished == {"success", "failure", "cancelled", "skipped"}

Azure == registered \cup stale \cup Elsewhere

Init ==
  /\ asking \in SUBSET VM /\ stale \in SUBSET asking
  /\ configured \in BOOLEAN /\ delivered \in BOOLEAN
  /\ registered = {} /\ booted = {}
  /\ step = "apply" /\ at = "start" /\ outcome = [s \in Steps |-> "none"]
  /\ cancelled = FALSE /\ died = FALSE
  /\ clock = 0 /\ inventory = FALSE /\ present = {} /\ listed = {} /\ listFailed = FALSE
  /\ unread = {} /\ absent = {} /\ warnings = {}
  /\ files = {"tfplan"}
  /\ faults = 0

Fault == faults < MaxFaults /\ faults' = faults + 1

-------------------------------------------------------------------------------
(* GitHub: which step comes next, and whether it runs.                     *)

NextStep(s) ==
  CASE s = "apply" -> "smoke"
    [] s = "smoke" -> "firstboot"
    [] s = "firstboot" -> "audit"
    [] s = "audit" -> "converge"
    [] s = "converge" -> "remove"
    [] s = "remove" -> "over"

AlwaysSteps == {"firstboot", "converge", "remove"}

AllWell == ~cancelled /\ \A s \in Steps : outcome[s] # "failure"

(* Mutant of Runs: the two checks wait for those before them.              *)
RunsInTurn(s) == s = "remove" \/ AllWell

Runs(s) ==
  CASE s = "remove" -> TRUE
    [] s \in AlwaysSteps \ {"remove"} -> outcome["apply"] = "success"
    [] OTHER -> AllWell

In(s, place) == step = s /\ at = place /\ (at = "start" => Runs(s))

EndsAs(s, result) ==
  /\ outcome' = [outcome EXCEPT ![s] = result]
  /\ step' = NextStep(s) /\ at' = "start"
  /\ UNCHANGED <<cancelled, died>>

GoesTo(place) == at' = place /\ UNCHANGED <<step, outcome, cancelled, died>>

Skip(s) ==
  /\ step = s /\ at = "start" /\ ~Runs(s)
  /\ EndsAs(s, "skipped")
  /\ UNCHANGED <<lab, guest, poll, check, inventory, warnings, files, faults>>

(* Cancelling ends the step under way, unless it says always(), and the job*)
(* goes on to those that do.                                               *)
Cancel ==
  /\ step # "over" /\ ~cancelled /\ Fault
  /\ cancelled' = TRUE
  /\ \/ step \in AlwaysSteps /\ UNCHANGED <<step, at, outcome>>
     \/ /\ step \notin AlwaysSteps
        /\ outcome' = [outcome EXCEPT ![step] = "cancelled"]
        /\ step' = NextStep(step) /\ at' = "start"
  /\ UNCHANGED <<died, lab, guest, poll, check, inventory, warnings, files>>

(* Or GitHub gives the job up: nothing of it runs any more.                *)
RunnerDies ==
  /\ step # "over" /\ Fault
  /\ died' = TRUE /\ step' = "over" /\ at' = "start"
  /\ UNCHANGED <<outcome, cancelled, lab, guest, poll, check, inventory, warnings, files>>

-------------------------------------------------------------------------------
(* Terraform apply.                                                        *)

ApplySucceeds ==
  /\ In("apply", "start") /\ EndsAs("apply", "success")
  /\ UNCHANGED <<lab, guest, poll, check, inventory, warnings, files, faults>>

ApplyFails ==
  /\ In("apply", "start") /\ Fault /\ EndsAs("apply", "failure")
  /\ UNCHANGED <<lab, guest, poll, check, inventory, warnings, files>>

-------------------------------------------------------------------------------
(* Post-apply smoke tests.                                                 *)

(* terraform output and terraform state list.                              *)
WriteOutputs ==
  /\ In("smoke", "start") /\ GoesTo("session")
  /\ inventory' = TRUE /\ files' = files \cup {"inventory"}
  /\ UNCHANGED <<lab, guest, poll, check, warnings, faults>>

(* The redirection makes the file; it stays empty if the first call fails. *)
OutputsFail ==
  /\ In("smoke", "start") /\ Fault /\ EndsAs("smoke", "failure")
  /\ inventory' \in BOOLEAN /\ files' = files \cup {"inventory"}
  /\ UNCHANGED <<lab, guest, poll, check, warnings>>

Expected == IF inventory THEN asking ELSE {}

(* az_session.sh exits 0, 2 without credentials, or 1.                     *)
OpenSession ==
  /\ In("smoke", "session") /\ configured /\ GoesTo("list")
  /\ UNCHANGED <<lab, guest, poll, check, inventory, warnings, files, faults>>

NotConfigured ==
  /\ In("smoke", "session") /\ ~configured /\ GoesTo("report")
  /\ UNCHANGED <<lab, guest, poll, check, inventory, warnings, files, faults>>

SessionFails ==
  /\ In("smoke", "session") /\ configured /\ Fault /\ EndsAs("smoke", "failure")
  /\ UNCHANGED <<lab, guest, poll, check, inventory, warnings, files>>

(* The call may take a round by itself.                                    *)
ListMachines ==
  /\ In("smoke", "list") /\ GoesTo("compare")
  /\ clock' \in {clock, clock + 1}
  /\ present' = Azure /\ listed' = Azure /\ listFailed' = FALSE
  /\ files' = files \cup {"present"}
  /\ UNCHANGED <<lab, guest, check, inventory, warnings, faults>>

(* `|| : > arc-present.txt`: what an earlier round found is gone.          *)
ListFails ==
  /\ In("smoke", "list") /\ GoesTo("compare") /\ Fault
  /\ clock' \in {clock, clock + 1}
  /\ present' = {} /\ listed' = Azure /\ listFailed' = TRUE
  /\ files' = files \cup {"present"}
  /\ UNCHANGED <<lab, guest, check, inventory, warnings>>

(* arc_missing.py                                                          *)
Missing == Expected \ present

(* Mutants of Waits: the poll counts, and a machine from elsewhere will do *)
(* for one that is expected; it waits a round longer.                      *)
WaitsByCount == Cardinality(present) < Cardinality(Expected) /\ clock < Deadline

WaitsLonger == Missing # {} /\ clock <= Deadline

Waits == Missing # {} /\ clock < Deadline

(* Mutant: the deadline is set anew in every round.                        *)
SleepAnew ==
  /\ In("smoke", "compare") /\ Waits /\ GoesTo("list")
  /\ clock' = 0
  /\ UNCHANGED <<present, listed, listFailed>>
  /\ UNCHANGED <<lab, guest, check, inventory, warnings, files, faults>>

Sleep ==
  /\ In("smoke", "compare") /\ Waits /\ GoesTo("list")
  /\ clock' = clock + 1
  /\ UNCHANGED <<present, listed, listFailed>>
  /\ UNCHANGED <<lab, guest, check, inventory, warnings, files, faults>>

StopPolling ==
  /\ In("smoke", "compare") /\ ~Waits /\ GoesTo("report")
  /\ UNCHANGED <<lab, guest, poll, check, inventory, warnings, files, faults>>

(* Mutant of ArcWarnings: only what is missing is looked for.              *)
ArcWarningsOneWay == IF configured THEN {<<"absent", v>> : v \in Missing} ELSE {}

(* decide(): nobody asks, Azure was not asked, or the two differences.     *)
ArcWarnings ==
  IF configured /\ Expected # {}
  THEN {<<"absent", v>> : v \in Missing} \cup {<<"orphan", n>> : n \in present \ Expected}
  ELSE {}

Report ==
  /\ In("smoke", "report") /\ EndsAs("smoke", IF delivered THEN "success" ELSE "failure")
  /\ warnings' = warnings \cup ArcWarnings
  /\ UNCHANGED <<lab, guest, poll, check, inventory, files, faults>>

-------------------------------------------------------------------------------
(* First boot actually ran: one question to each guest in turn.            *)

StartAsking ==
  /\ In("firstboot", "start") /\ inventory /\ GoesTo("ask")
  /\ unread' = VM
  /\ UNCHANGED <<lab, guest, poll, absent, inventory, warnings, files, faults>>

(* There is no inventory to read, or it is empty.                          *)
NoInventory ==
  /\ In("firstboot", "start") /\ ~inventory /\ EndsAs("firstboot", "failure")
  /\ UNCHANGED <<lab, guest, poll, check, inventory, warnings, files, faults>>

ReadMarker(v) ==
  /\ In("firstboot", "ask") /\ v \in unread /\ GoesTo("ask")
  /\ unread' = unread \ {v}
  /\ absent' = IF v \in booted THEN absent ELSE absent \cup {v}
  /\ UNCHANGED <<lab, guest, poll, inventory, warnings, files, faults>>

(* An error of the guest agent reads like an absent marker.                *)
AgentErrs(v) ==
  /\ In("firstboot", "ask") /\ v \in unread /\ Fault /\ GoesTo("ask")
  /\ unread' = unread \ {v} /\ absent' = absent \cup {v}
  /\ UNCHANGED <<lab, guest, poll, inventory, warnings, files>>

(* Mutant: an answer that cannot be used reads as a marker.                *)
ReadsAsPresent ==
  /\ In("firstboot", "ask") /\ unread # {} /\ Fault /\ GoesTo("ask")
  /\ \E v \in unread : unread' = unread \ {v}
  /\ UNCHANGED <<lab, guest, poll, absent, inventory, warnings, files>>

(* Exit 2 at the first answer that cannot be used; what was found absent   *)
(* before it is not printed.                                               *)
ApiUnusable ==
  /\ In("firstboot", "ask") /\ unread # {} /\ Fault /\ EndsAs("firstboot", "failure")
  /\ UNCHANGED <<lab, guest, poll, check, inventory, warnings, files>>

AllAsked ==
  /\ In("firstboot", "ask") /\ unread = {} /\ EndsAs("firstboot", "success")
  /\ warnings' = warnings \cup {<<"first boot", v>> : v \in absent}
  /\ UNCHANGED <<lab, guest, poll, check, inventory, files, faults>>

-------------------------------------------------------------------------------
(* What this apply left in state; the configuration converges; clean-up.   *)

(* Findings are expected and reported; a scan that did not run fails.      *)
Audit ==
  /\ In("audit", "start")
  /\ \/ EndsAs("audit", "success") /\ UNCHANGED faults
     \/ EndsAs("audit", "failure") /\ Fault
  /\ UNCHANGED <<lab, guest, poll, check, inventory, warnings, files>>

(* A plan that proposes changes, or does not run, fails the job.           *)
Converge ==
  /\ In("converge", "start")
  /\ \/ EndsAs("converge", "success") /\ UNCHANGED faults
     \/ EndsAs("converge", "failure") /\ Fault
  /\ files' = files \cup {"replan"}
  /\ UNCHANGED <<lab, guest, poll, check, inventory, warnings>>

RemoveFiles ==
  /\ In("remove", "start") /\ EndsAs("remove", "success")
  /\ files' = {}
  /\ UNCHANGED <<lab, guest, poll, check, inventory, warnings, faults>>

-------------------------------------------------------------------------------
(* The guests meanwhile.  One whose name is taken never registers.         *)

Registers(v) ==
  /\ v \in asking \ (registered \cup stale) /\ configured
  /\ registered' = registered \cup {v}
  /\ UNCHANGED <<booted, lab, job, poll, check, inventory, warnings, files, faults>>

FinishesBoot(v) ==
  /\ v \notin booted
  /\ booted' = booted \cup {v}
  /\ UNCHANGED <<registered, lab, job, poll, check, inventory, warnings, files, faults>>

-------------------------------------------------------------------------------
JobStep ==
  \/ \E s \in Steps : Skip(s)
  \/ ApplySucceeds
  \/ WriteOutputs \/ OpenSession \/ NotConfigured
  \/ ListMachines \/ Sleep \/ StopPolling \/ Report
  \/ StartAsking \/ NoInventory \/ (\E v \in VM : ReadMarker(v)) \/ AllAsked
  \/ Audit \/ Converge \/ RemoveFiles

Failure ==
  \/ Cancel \/ RunnerDies
  \/ ApplyFails \/ OutputsFail \/ SessionFails \/ ListFails
  \/ (\E v \in VM : AgentErrs(v)) \/ ApiUnusable

Guest == \E v \in VM : Registers(v) \/ FinishesBoot(v)

Next == JobStep \/ Failure \/ Guest

(* The runner takes a job's next step; guests and failures owe nothing.    *)
Spec == Init /\ [][Next]_vars /\ WF_vars(JobStep)

-------------------------------------------------------------------------------
(* Properties.                                                             *)

Conclusion ==
  IF \E s \in Steps : outcome[s] = "failure" THEN "failure"
  ELSE IF cancelled THEN "cancelled" ELSE "success"

Over == step = "over" /\ ~died

(* Every variable keeps its type, and the poll never waits past its        *)
(* deadline by more than the call under way.                               *)
TypeOK ==
  /\ asking \subseteq VM /\ stale \subseteq asking
  /\ configured \in BOOLEAN /\ delivered \in BOOLEAN
  /\ registered \subseteq asking /\ booted \subseteq VM
  /\ step \in Steps \cup {"over"}
  /\ at \in {"start", "session", "list", "compare", "report", "ask"}
  /\ outcome \in [Steps -> {"none"} \cup Finished]
  /\ cancelled \in BOOLEAN /\ died \in BOOLEAN
  /\ clock \in 0..(Deadline + 1)
  /\ inventory \in BOOLEAN /\ present \subseteq VM \cup Elsewhere
  /\ unread \subseteq VM /\ absent \subseteq VM
  /\ warnings \subseteq {"absent", "orphan", "first boot"} \X (VM \cup Elsewhere)
  /\ files \subseteq {"tfplan", "inventory", "present", "replan"}
  /\ faults \in 0..MaxFaults
  /\ listed \subseteq VM \cup Elsewhere /\ listFailed \in BOOLEAN

(* release-process.md: the checks "all run: a failing smoke test no longer *)
(* hides whether first boot completed or whether the configuration         *)
(* converged", and "a failed apply produces one failure rather than three".*)
(* After an apply that succeeded each has an outcome of its own, whatever  *)
(* failed or was cancelled before it, and the state audit alone is given up*)
(* when something before it went wrong; after one that failed none runs.   *)
ChecksFollowApply ==
  /\ Over /\ outcome["apply"] = "success" =>
       /\ \A s \in {"firstboot", "converge"} : outcome[s] # "skipped"
       /\ outcome["audit"] = "skipped" =>
            cancelled \/ "failure" \in {outcome["smoke"], outcome["firstboot"]}
  /\ outcome["apply"] \in {"failure", "cancelled"} =>
       \A s \in Checks : outcome[s] \in {"none", "skipped", "cancelled"}

(* An asking VM is reported absent from Azure only after the whole         *)
(* deadline, and if it is in fact there, because the last listing failed.  *)
NoHastyAbsence ==
  \A v \in VM : <<"absent", v>> \in warnings =>
    clock >= Deadline /\ (v \in listed => listFailed)

(* A machine nobody claims is named in every run that asks Azure on behalf *)
(* of some VM, unless the last listing failed.                             *)
OrphansNamed ==
  outcome["smoke"] = "success" /\ configured /\ asking # {} /\ ~listFailed =>
    \A n \in Elsewhere : <<"orphan", n>> \in warnings

(* A green run without a warning about a machine means a lab that is done: *)
(* inventory and state agree, every guest has finished its first boot, and *)
(* every VM that asks for Arc has its machine in Azure.  The one thing it  *)
(* does not see is a name that a deleted guest still holds.                *)
SilentGreenMeansDone ==
  Over /\ Conclusion = "success" /\ warnings = {} =>
    /\ delivered /\ booted = VM
    /\ configured => asking \subseteq registered \cup stale

(* No run leaves plan files, which hold credentials, on a runner that      *)
(* lives.                                                                  *)
WorkspaceClean == Over => files = {}

(* The job ends: the poll holds the concurrency group no longer than it    *)
(* says.                                                                   *)
JobEnds == <>(step = "over")
===============================================================================
