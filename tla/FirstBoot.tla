------------------------------- MODULE FirstBoot -------------------------------
(***************************************************************************)
(* First boot inside a guest: cloudinit/windows.yaml.tftpl, which          *)
(* Cloudbase-Init runs on every boot, and cloudinit/linux.yaml.tftpl, whose*)
(* runcmd cloud-init runs once per instance.  Both end in Azure Arc        *)
(* onboarding; they differ in how often they try, in what a failure skips  *)
(* and in what says that first boot is over (marker).                      *)
(*                                                                         *)
(* The guest may lose power between any two steps, and is started again.   *)
(* cloud-init, Cloudbase-Init, azcmagent and the network are external.     *)
(*                                                                         *)
(* Bounds: MaxCuts power cuts, MaxFaults failing commands.                 *)
(***************************************************************************)
EXTENDS Naturals

CONSTANTS
  NetTries,       \* looks at the network: 60 on Linux, 30 on Windows
  ConnectTries,   \* calls of azcmagent connect on Linux: 10
  MaxCuts, MaxFaults

ASSUME TriesAssumption == NetTries \in Nat \ {0} /\ ConnectTries \in Nat \ {0}
ASSUME BoundsAssumption == MaxCuts \in Nat /\ MaxFaults \in Nat

VARIABLES
  os, arc, autologon,   \* linux or windows; Arc off, on, or on without its values; option
  marker,       \* vm-factory-firstboot.done, or cloud-init's boot-finished
  runcmd,       \* Linux: due, running or over, as cloud-init has it on disk
  password,     \* Windows: the Administrator password has been set
  name,         \* the host name: old, renamed until the next boot, new
  credential,   \* Winlogon's DefaultPassword is in the registry
  reachable,    \* RDP is open, or sshd and the guest agent run
  script,       \* Linux: arc-onboard.sh is on disk
  config,       \* this pass has written the file that hands azcmagent its token
  agent,        \* azcmagent is installed
  connected,    \* the machine is registered in Azure
  arcLog,       \* how the onboarding log ends: it says nothing, connected or a failure
  token,        \* the run's onboarding token has not expired
  pc, tries,    \* where the script is; attempts of its present loop
  restartDue,   \* shutdown /r has been accepted
  cuts, faults  \* budgets spent

setup   == <<os, arc, autologon>>
windows == <<password, name, credential>>
linux   == <<runcmd, script>>
onboard == <<config, agent, connected, arcLog>>
power   == <<restartDue, cuts>>
vars    == <<setup, marker, windows, linux, reachable, onboard, token, pc, tries, power, faults>>

Init ==
  /\ os \in {"linux", "windows"} /\ arc \in {"off", "incomplete", "on"} /\ autologon \in BOOLEAN
  /\ os = "linux" => ~autologon
  /\ marker = FALSE /\ runcmd = "due"
  /\ password = FALSE /\ name = "old" /\ credential = FALSE /\ reachable = FALSE
  /\ script = (os = "linux") /\ config = FALSE /\ agent = FALSE /\ connected = FALSE
  /\ arcLog = "none" /\ token = TRUE
  /\ pc = "off" /\ tries = 0
  /\ restartDue = FALSE /\ cuts = 0 /\ faults = 0

Fault == faults < MaxFaults /\ faults' = faults + 1

(* A step of the script that leaves everything it does not name alone.     *)
At(here, there) == pc = here /\ pc' = there /\ UNCHANGED <<setup, token, power>>

-------------------------------------------------------------------------------
(* The guest starts, and loses power or restarts as shutdown /r asked.     *)

Boot ==
  /\ pc = "off" /\ pc' = "boot"
  /\ UNCHANGED <<setup, marker, windows, linux, reachable, onboard, token, tries, power, faults>>

(* A rename takes effect; whatever ran is cut short.  What a cut leaves in *)
(* a temporary directory is not followed further.                          *)
GoesDown ==
  /\ pc # "off" /\ pc' = "off" /\ tries' = 0 /\ restartDue' = FALSE
  /\ name' = IF name = "renamed" THEN "new" ELSE name
  /\ config' = FALSE
  /\ UNCHANGED <<setup, marker, password, credential, linux, reachable, agent, connected, arcLog,
                 token, faults>>

PowerCut == cuts < MaxCuts /\ cuts' = cuts + 1 /\ GoesDown

Restart == restartDue /\ GoesDown /\ UNCHANGED cuts

TokenExpires ==
  /\ token /\ token' = FALSE
  /\ UNCHANGED <<setup, marker, windows, linux, reachable, onboard, pc, tries, power, faults>>

-------------------------------------------------------------------------------
(* Windows, up to Arc.                                                     *)

(* Mutants of FirstPass and Repeated: the marker is written near the top;  *)
(* it is not looked at; the credential stays.                              *)
FirstPassMarked ==
  /\ os = "windows" /\ ~marker /\ At("boot", "password")
  /\ marker' = TRUE
  /\ UNCHANGED <<windows, linux, reachable, onboard, tries, faults>>

FirstPassAlways ==
  /\ os = "windows" /\ At("boot", "password")
  /\ UNCHANGED <<marker, windows, linux, reachable, onboard, tries, faults>>

RepeatedKeeps ==
  /\ os = "windows" /\ marker /\ At("boot", "done")
  /\ UNCHANGED <<marker, windows, linux, reachable, onboard, tries, faults>>

FirstPass ==
  /\ os = "windows" /\ ~marker /\ At("boot", "password")
  /\ UNCHANGED <<marker, windows, linux, reachable, onboard, tries, faults>>

(* A later boot: Remove-AutologonCredential and nothing else.              *)
Repeated ==
  /\ os = "windows" /\ marker /\ At("boot", "done")
  /\ credential' = FALSE
  /\ UNCHANGED <<marker, password, name, linux, reachable, onboard, tries, faults>>

(* A registry value that cannot be removed is logged and stays.            *)
RemovalFails ==
  /\ os = "windows" /\ marker /\ At("boot", "done") /\ Fault
  /\ UNCHANGED <<marker, windows, linux, reachable, onboard, tries>>

SetPassword ==
  /\ At("password", "hostname")
  /\ password' = TRUE
  /\ UNCHANGED <<marker, name, credential, linux, reachable, onboard, tries, faults>>

(* An empty password or a failing Set-LocalUser throws out of the script.  *)
PasswordFails ==
  /\ At("password", "failed") /\ Fault
  /\ UNCHANGED <<marker, windows, linux, reachable, onboard, tries>>

SetHostname ==
  /\ At("hostname", "autologon")
  /\ name' = IF name = "old" THEN "renamed" ELSE name
  /\ UNCHANGED <<marker, password, credential, linux, reachable, onboard, tries, faults>>

(* Only Rename-Computer throws; the rest of it is best effort.             *)
RenameFails ==
  /\ name = "old" /\ At("hostname", "failed") /\ Fault
  /\ UNCHANGED <<marker, windows, linux, reachable, onboard, tries>>

SetAutologon ==
  /\ At("autologon", "rdp")
  /\ credential' = (credential \/ autologon)
  /\ UNCHANGED <<marker, password, name, linux, reachable, onboard, tries, faults>>

(* The firewall's scope and its logging report and never stop the script.  *)
EnableRdp ==
  /\ At("rdp", "arc")
  /\ reachable' = TRUE
  /\ UNCHANGED <<marker, windows, linux, onboard, tries, faults>>

-------------------------------------------------------------------------------
(* Linux, up to Arc.                                                       *)

(* A runcmd cut short may or may not be run again: that is cloud-init's.   *)
StartRuncmd ==
  /\ os = "linux" /\ runcmd # "over" /\ At("boot", "runcmd")
  /\ runcmd' = "running"
  /\ UNCHANGED <<marker, windows, script, reachable, onboard, tries, faults>>

SkipRuncmd ==
  /\ os = "linux" /\ runcmd # "due" /\ At("boot", "final")
  /\ UNCHANGED <<marker, windows, linux, reachable, onboard, tries, faults>>

(* Unlock the account, settle sshd, start the guest agent; then the script *)
(* if it is still there.                                                   *)
PrepareGuest ==
  /\ At("runcmd", IF script THEN "arc" ELSE "final")
  /\ reachable' = TRUE
  /\ UNCHANGED <<marker, windows, linux, onboard, tries, faults>>

(* cloud-init's last module; nothing of first boot runs after it.          *)
Finish ==
  /\ At("final", "done")
  /\ marker' = TRUE /\ runcmd' = "over"
  /\ UNCHANGED <<windows, script, reachable, onboard, tries, faults>>

-------------------------------------------------------------------------------
(* Azure Arc.                                                              *)

(* Mutant of Leaves: the trap set for the token's file replaces the one    *)
(* that removes the script.                                                *)
LeavesOneTrap(log) ==
  /\ arcLog' = log /\ tries' = 0
  /\ config' = FALSE /\ script' = (script /\ config)
  /\ pc' = IF os = "linux" THEN "final" ELSE "marker"
  /\ UNCHANGED <<setup, token, power, marker, windows, runcmd, reachable, faults>>

(* The onboarding is over, however it ended: cleanup() on Linux, finally   *)
(* and catch on Windows.                                                   *)
Leaves(log) ==
  /\ arcLog' = log /\ tries' = 0
  /\ config' = FALSE /\ script' = FALSE
  /\ pc' = IF os = "linux" THEN "final" ELSE "marker"
  /\ UNCHANGED <<setup, token, power, marker, windows, runcmd, reachable, faults>>

Stays == UNCHANGED <<marker, windows, linux, reachable, faults>>

SkipArc ==
  /\ pc = "arc" /\ arc # "on"
  /\ Leaves(arcLog)
  /\ UNCHANGED <<agent, connected>>

StartArc ==
  /\ arc = "on" /\ At("arc", "network")
  /\ tries' = 0
  /\ UNCHANGED onboard /\ Stays

NetworkUp ==
  /\ At("network", "install")
  /\ tries' = 0
  /\ UNCHANGED onboard /\ Stays

NetworkDown ==
  /\ tries + 1 < NetTries /\ At("network", "network")
  /\ tries' = tries + 1
  /\ UNCHANGED onboard /\ Stays

(* Linux goes on without a network; Windows gives up.                      *)
NetworkStaysDown ==
  /\ pc = "network" /\ tries + 1 = NetTries
  /\ \/ os = "linux" /\ At("network", "install") /\ tries' = 0 /\ UNCHANGED onboard /\ Stays
     \/ os = "windows" /\ Leaves("failed") /\ UNCHANGED <<agent, connected>>

Install ==
  /\ At("install", "show")
  /\ agent' = TRUE
  /\ UNCHANGED <<config, connected, arcLog, tries>> /\ Stays

InstallFails ==
  /\ pc = "install" /\ ~agent
  /\ Leaves("failed")
  /\ UNCHANGED <<agent, connected>>

AlreadyConnected ==
  /\ pc = "show" /\ connected
  /\ Leaves("connected")
  /\ UNCHANGED <<agent, connected>>

(* A second `azcmagent show` that fails under pipefail, a file that cannot *)
(* be written: anything else that throws before the first attempt.         *)
OnboardingThrows ==
  /\ pc = "show"
  /\ Leaves("failed")
  /\ UNCHANGED <<agent, connected>>

WriteConfig ==
  /\ ~connected /\ At("show", "connect")
  /\ config' = TRUE
  /\ UNCHANGED <<agent, connected, arcLog, tries>> /\ Stays

Connect ==
  /\ pc = "connect" /\ token
  /\ connected' = TRUE
  /\ Leaves("connected")
  /\ UNCHANGED agent

(* azcmagent exits non-zero, perhaps after it has registered the machine.  *)
FailedAttempt == connected' \in {connected, connected \/ token} /\ UNCHANGED agent

(* Mutants of RetryConnect: the attempts are not counted; one too many.    *)
RetryUncounted ==
  /\ os = "linux" /\ tries + 1 < ConnectTries /\ At("connect", "connect")
  /\ FailedAttempt /\ UNCHANGED tries
  /\ UNCHANGED <<config, arcLog>> /\ Stays

RetryOneMore ==
  /\ os = "linux" /\ tries + 1 <= ConnectTries /\ At("connect", "connect")
  /\ FailedAttempt /\ tries' = tries + 1
  /\ UNCHANGED <<config, arcLog>> /\ Stays

RetryConnect ==
  /\ os = "linux" /\ tries + 1 < ConnectTries /\ At("connect", "connect")
  /\ FailedAttempt /\ tries' = tries + 1
  /\ UNCHANGED <<config, arcLog>> /\ Stays

ConnectFails ==
  /\ pc = "connect" /\ (os = "linux" => tries + 1 = ConnectTries)
  /\ FailedAttempt
  /\ Leaves("failed")

-------------------------------------------------------------------------------
(* Windows, after Arc.  WinRM is best effort and changes nothing else.     *)

WriteMarker ==
  /\ At("marker", "restart")
  /\ marker' = TRUE
  /\ UNCHANGED <<windows, linux, reachable, onboard, tries, faults>>

(* Logged; the script goes on to the restart.                              *)
MarkerFails ==
  /\ At("marker", "restart") /\ Fault
  /\ UNCHANGED <<marker, windows, linux, reachable, onboard, tries>>

ScheduleRestart ==
  /\ pc = "restart" /\ pc' = "done" /\ restartDue' = TRUE
  /\ UNCHANGED <<setup, token, cuts, marker, windows, linux, reachable, onboard,
                 tries, faults>>

ShutdownFails ==
  /\ At("restart", "failed") /\ Fault
  /\ UNCHANGED <<marker, windows, linux, reachable, onboard, tries>>

-------------------------------------------------------------------------------
Step ==
  \/ Boot \/ Restart
  \/ FirstPass \/ Repeated \/ SetPassword \/ SetHostname \/ SetAutologon \/ EnableRdp
  \/ StartRuncmd \/ SkipRuncmd \/ PrepareGuest \/ Finish
  \/ SkipArc \/ StartArc
  \/ NetworkUp \/ NetworkDown \/ NetworkStaysDown
  \/ Install \/ InstallFails \/ AlreadyConnected \/ OnboardingThrows \/ WriteConfig
  \/ Connect \/ RetryConnect \/ ConnectFails
  \/ WriteMarker \/ ScheduleRestart

Failure ==
  \/ PowerCut \/ TokenExpires
  \/ RemovalFails \/ PasswordFails \/ RenameFails \/ MarkerFails \/ ShutdownFails

Next == Step \/ Failure

(* The guest runs its script and restarts when it has asked to; whether a  *)
(* network, a token or Azure answers is left open.                         *)
Spec == Init /\ [][Next]_vars /\ WF_vars(Step)

-------------------------------------------------------------------------------
(* Properties.                                                             *)

(* Every variable keeps its type.                                          *)
TypeOK ==
  /\ os \in {"linux", "windows"} /\ arc \in {"off", "incomplete", "on"} /\ autologon \in BOOLEAN
  /\ marker \in BOOLEAN /\ runcmd \in {"due", "running", "over"}
  /\ password \in BOOLEAN /\ name \in {"old", "renamed", "new"}
  /\ credential \in BOOLEAN /\ reachable \in BOOLEAN
  /\ script \in BOOLEAN /\ config \in BOOLEAN /\ agent \in BOOLEAN /\ connected \in BOOLEAN
  /\ arcLog \in {"none", "connected", "failed"} /\ token \in BOOLEAN
  /\ pc \in {"off", "boot", "password", "hostname", "autologon", "rdp", "runcmd", "final", "arc",
             "network", "install", "show", "connect", "marker", "restart", "done", "failed"}
  /\ tries \in Nat /\ tries < (IF pc = "network" THEN NetTries ELSE ConnectTries)
  /\ restartDue \in BOOLEAN
  /\ cuts \in 0..MaxCuts /\ faults \in 0..MaxFaults

(* A guest that says its first boot is over has been through all of it,    *)
(* and if it was to onboard it is registered or its log says that it       *)
(* failed, whatever was cut short on Windows before; on Linux, where       *)
(* cloud-init decides what a boot repeats, if nothing was.                 *)
MarkerMeansProvisioned ==
  marker /\ (os = "windows" \/ cuts = 0) =>
    /\ reachable
    /\ os = "windows" => password /\ name # "old"
    /\ arc = "on" => connected \/ arcLog = "failed"

(* Once onboarding is over by itself, nothing of it stays on disk: neither *)
(* the file with the token nor, on Linux, the script that holds it.        *)
NothingLeftBehind ==
  cuts = 0 /\ pc \in {"final", "marker", "restart", "done", "failed"} => ~config /\ ~script

(* A first boot is over when nothing can register the guest any more, or   *)
(* nothing needs to.                                                       *)
Settled ==
  \/ connected
  \/ os = "windows" /\ marker
  \/ os = "linux" /\ (runcmd = "over" \/ ~script)

(* First boot is the one step that LabLifecycle takes it for: repeated     *)
(* passes, retries and power cuts never register a guest whose first boot  *)
(* had ended without.                                                      *)
Guest == INSTANCE GuestBoot WITH asks <- (arc = "on"), registered <- connected, settled <- Settled

GuestSpec == Guest!Spec

(* No chain of restarts, retries and power cuts goes on for ever: in the   *)
(* end the script has ended and no restart is due.                         *)
BootSettles == <>[](pc \in {"done", "failed"} /\ ~restartDue)

(* The password that autologon left in the registry goes again, through    *)
(* the restart and the second boot, unless a command failed.               *)
CredentialGoes == credential ~> (~credential \/ faults > 0)
===============================================================================
