---------------------------- MODULE FirstBootProofs ----------------------------
(***************************************************************************)
(* Proofs about FirstBoot, for any number of tries, power cuts and failing *)
(* commands.                                                               *)
(***************************************************************************)
EXTENDS FirstBoot, WellFoundedInduction, TLAPS

ArcSteps == {"network", "install", "show", "connect"}

(* Each document has its own steps, and only Windows restarts itself.      *)
StepsOfOs ==
  /\ pc \in {"password", "hostname", "autologon", "rdp", "marker", "restart", "failed"} =>
       os = "windows"
  /\ pc \in {"runcmd", "final"} => os = "linux"
  /\ pc \in ArcSteps => arc = "on"
  /\ restartDue => os = "windows"

(* A pass on Windows begins without the marker, and has at each step done  *)
(* what comes before it.                                                   *)
WindowsPass ==
  os = "windows" =>
    /\ pc \in {"password", "hostname", "autologon", "rdp", "arc", "marker"} \cup ArcSteps =>
         ~marker
    /\ pc \in {"hostname", "autologon", "rdp", "arc", "marker", "restart"} \cup ArcSteps =>
         password
    /\ pc \in {"autologon", "rdp", "arc", "marker", "restart"} \cup ArcSteps => name # "old"
    /\ pc \in {"arc", "marker", "restart"} \cup ArcSteps => reachable
    /\ pc \in {"marker", "restart"} /\ arc = "on" => connected \/ arcLog = "failed"

(* Onboarding on Linux runs inside runcmd with the script in place.  With  *)
(* no power cut there is one boot, and it does everything in order.        *)
LinuxPass ==
  os = "linux" =>
    /\ pc \in {"runcmd", "arc"} \cup ArcSteps => runcmd = "running"
    /\ pc \in {"arc"} \cup ArcSteps => script
    /\ cuts = 0 =>
         /\ pc \in {"off", "boot"} => runcmd = "due"
         /\ pc \in {"off", "boot", "runcmd"} => script
         /\ marker => pc = "done"
         /\ pc \in {"arc", "final", "done"} \cup ArcSteps => reachable
         /\ pc \in {"final", "done"} /\ arc = "on" => connected \/ arcLog = "failed"

(* The token's file is there while a connection is tried; the script is    *)
(* Linux's.                                                                *)
Traces ==
  /\ config => pc = "connect"
  /\ script => os = "linux"

IInv ==
  /\ TypeOK
  /\ StepsOfOs
  /\ WindowsPass
  /\ LinuxPass
  /\ MarkerMeansProvisioned
  /\ Traces
  /\ NothingLeftBehind

-------------------------------------------------------------------------------
(* A guest that goes down keeps well-typed values.                         *)
LEMMA DownType ==
  ASSUME TypeOK, GoesDown, cuts' \in 0..MaxCuts
  PROVE  TypeOK'
<1>1. config' \in BOOLEAN /\ restartDue' \in BOOLEAN
  BY Zenon DEF GoesDown
<1>2. QED
  BY <1>1, TriesAssumption DEF TypeOK, GoesDown, setup, linux

(* What leaves the onboarding sets well-typed values.                      *)
LEMMA LeavesType ==
  ASSUME TypeOK, NEW log \in {"none", "connected", "failed"}, Leaves(log),
         agent' \in BOOLEAN, connected' \in BOOLEAN
  PROVE  TypeOK'
<1>1. config' \in BOOLEAN /\ script' \in BOOLEAN
  BY Zenon DEF Leaves
<1>2. QED
  BY <1>1, TriesAssumption DEF TypeOK, Leaves, setup, windows, power

(* Every step keeps the types.                                             *)
LEMMA TypeStep ==
  ASSUME TypeOK, [Next]_vars
  PROVE  TypeOK'
<1> USE TriesAssumption DEF TypeOK, setup, windows, linux, onboard, power
<1>1. CASE PowerCut \/ Restart
  <2>1. cuts' \in 0..MaxCuts
    BY <1>1, BoundsAssumption DEF PowerCut, Restart
  <2>2. QED
    BY <1>1, <2>1, DownType DEF PowerCut, Restart
<1>2. CASE Boot \/ FirstPass \/ StartRuncmd \/ SkipRuncmd \/ PrepareGuest \/ Finish
  <2>1. CASE Boot
    BY <2>1 DEF Boot
  <2>2. CASE FirstPass
    BY <2>2 DEF FirstPass, At
  <2>3. CASE StartRuncmd
    BY <2>3 DEF StartRuncmd, At
  <2>4. CASE SkipRuncmd
    BY <2>4 DEF SkipRuncmd, At
  <2>5. CASE PrepareGuest
    BY <2>5 DEF PrepareGuest, At
  <2>6. CASE Finish
    BY <2>6 DEF Finish, At
  <2>7. QED
    BY <1>2, <2>1, <2>2, <2>3, <2>4, <2>5, <2>6
<1>3. CASE TokenExpires
  <2>1. token' \in BOOLEAN
    BY <1>3, Zenon DEF TokenExpires
  <2>2. QED
    BY <1>3, <2>1 DEF TokenExpires
<1>4. CASE Repeated
  <2>1. credential' \in BOOLEAN
    BY <1>4, Zenon DEF Repeated
  <2>2. QED
    BY <1>4, <2>1 DEF Repeated, At
<1>5. CASE SetPassword \/ SetHostname \/ SetAutologon \/ EnableRdp
  <2>1. CASE SetPassword
    BY <2>1 DEF SetPassword, At
  <2>2. CASE SetHostname
    BY <2>2 DEF SetHostname, At
  <2>3. CASE SetAutologon
    BY <2>3 DEF SetAutologon, At
  <2>4. CASE EnableRdp
    BY <2>4 DEF EnableRdp, At
  <2>5. QED
    BY <1>5, <2>1, <2>2, <2>3, <2>4
<1>6. CASE RemovalFails \/ PasswordFails \/ RenameFails \/ MarkerFails \/ ShutdownFails
  BY <1>6, BoundsAssumption
     DEF RemovalFails, PasswordFails, RenameFails, MarkerFails, ShutdownFails, At, Fault
<1>7. CASE \E log \in {"none", "connected", "failed"} :
             Leaves(log) /\ agent' \in BOOLEAN /\ connected' \in BOOLEAN
  BY <1>7, LeavesType
<1>8. CASE SkipArc \/ InstallFails \/ AlreadyConnected \/ OnboardingThrows
  BY <1>7, <1>8 DEF SkipArc, InstallFails, AlreadyConnected, OnboardingThrows
<1>9. CASE Connect \/ ConnectFails
  BY <1>7, <1>9 DEF Connect, ConnectFails, FailedAttempt
<1>10. CASE StartArc \/ NetworkUp \/ NetworkDown
  BY <1>10 DEF StartArc, NetworkUp, NetworkDown, At, Stays
<1>11. CASE NetworkStaysDown
  <2>1. CASE Leaves("failed") /\ UNCHANGED <<agent, connected>>
    BY <1>7, <2>1
  <2>2. CASE At("network", "install") /\ tries' = 0 /\ UNCHANGED onboard /\ Stays
    BY <2>2 DEF At, Stays
  <2>3. QED
    BY <1>11, <2>1, <2>2 DEF NetworkStaysDown
<1>12. CASE Install \/ WriteConfig \/ RetryConnect
  <2>1. CASE Install
    BY <2>1 DEF Install, At, Stays
  <2>2. CASE WriteConfig
    BY <2>2 DEF WriteConfig, At, Stays
  <2>3. CASE RetryConnect
    BY <2>3 DEF RetryConnect, At, Stays, FailedAttempt
  <2>4. QED
    BY <1>12, <2>1, <2>2, <2>3
<1>13. CASE WriteMarker \/ ScheduleRestart
  <2>1. CASE WriteMarker
    BY <2>1 DEF WriteMarker, At
  <2>2. CASE ScheduleRestart
    BY <2>2 DEF ScheduleRestart
  <2>3. QED
    BY <1>13, <2>1, <2>2
<1>14. CASE UNCHANGED vars
  BY <1>14 DEF vars
<1>15. QED
  BY <1>1, <1>2, <1>3, <1>4, <1>5, <1>6, <1>8, <1>9, <1>10, <1>11, <1>12, <1>13, <1>14
     DEF Next, Step, Failure

(* Every step belongs to its document.                                     *)
LEMMA OsStep ==
  ASSUME TypeOK, StepsOfOs, [Next]_vars
  PROVE  StepsOfOs'
<1> USE DEF TypeOK, StepsOfOs, ArcSteps, setup, windows, linux, onboard, power
<1>1. CASE Boot \/ PowerCut \/ Restart \/ TokenExpires
  BY <1>1 DEF Boot, PowerCut, Restart, TokenExpires, GoesDown
<1>2. CASE FirstPass \/ Repeated \/ RemovalFails \/ SetPassword \/
             PasswordFails
  BY <1>2 DEF FirstPass, Repeated, RemovalFails, SetPassword, PasswordFails,
              At, Fault
<1>3. CASE SetHostname \/ RenameFails \/ SetAutologon \/ EnableRdp
  BY <1>3 DEF SetHostname, RenameFails, SetAutologon, EnableRdp, At, Fault
<1>4. CASE StartRuncmd \/ SkipRuncmd \/ PrepareGuest \/ Finish
  BY <1>4 DEF StartRuncmd, SkipRuncmd, PrepareGuest, Finish, At
<1>5. CASE SkipArc \/ StartArc
  BY <1>5 DEF SkipArc, StartArc, At, Leaves, Stays
<1>6. CASE NetworkUp \/ NetworkDown \/ NetworkStaysDown
  BY <1>6 DEF NetworkUp, NetworkDown, NetworkStaysDown, At, Leaves, Stays
<1>7. CASE Install \/ InstallFails
  BY <1>7 DEF Install, InstallFails, At, Leaves, Stays
<1>8. CASE AlreadyConnected \/ OnboardingThrows \/ WriteConfig
  BY <1>8 DEF AlreadyConnected, OnboardingThrows, WriteConfig, At, Leaves,
              Stays
<1>9. CASE Connect \/ RetryConnect \/ ConnectFails
  BY <1>9 DEF Connect, RetryConnect, ConnectFails, At, FailedAttempt, Leaves,
              Stays
<1>10. CASE WriteMarker \/ MarkerFails \/ ScheduleRestart \/ ShutdownFails
  BY <1>10 DEF WriteMarker, MarkerFails, ScheduleRestart, ShutdownFails, At,
               Fault
<1>11. CASE UNCHANGED vars
  BY <1>11 DEF vars
<1>12. QED
  BY <1>1, <1>2, <1>3, <1>4, <1>5, <1>6, <1>7, <1>8, <1>9, <1>10, <1>11 DEF Next, Step, Failure

(* A pass on Windows keeps its order.                                      *)
LEMMA WindowsStep ==
  ASSUME TypeOK, StepsOfOs, WindowsPass, [Next]_vars
  PROVE  WindowsPass'
<1> USE DEF TypeOK, StepsOfOs, WindowsPass, ArcSteps, setup, windows, linux,
            onboard, power
<1>1. CASE Boot \/ PowerCut \/ Restart \/ TokenExpires
  BY <1>1 DEF Boot, PowerCut, Restart, TokenExpires, GoesDown
<1>2. CASE FirstPass \/ Repeated \/ RemovalFails \/ SetPassword \/
             PasswordFails
  BY <1>2 DEF FirstPass, Repeated, RemovalFails, SetPassword, PasswordFails,
              At, Fault
<1>3. CASE SetHostname \/ RenameFails \/ SetAutologon \/ EnableRdp
  BY <1>3 DEF SetHostname, RenameFails, SetAutologon, EnableRdp, At, Fault
<1>4. CASE StartRuncmd \/ SkipRuncmd \/ PrepareGuest \/ Finish
  BY <1>4 DEF StartRuncmd, SkipRuncmd, PrepareGuest, Finish, At
<1>5. CASE SkipArc \/ StartArc
  BY <1>5 DEF SkipArc, StartArc, At, Leaves, Stays
<1>6. CASE NetworkUp \/ NetworkDown \/ NetworkStaysDown
  BY <1>6 DEF NetworkUp, NetworkDown, NetworkStaysDown, At, Leaves, Stays
<1>7. CASE Install \/ InstallFails
  BY <1>7 DEF Install, InstallFails, At, Leaves, Stays
<1>8. CASE AlreadyConnected \/ OnboardingThrows \/ WriteConfig
  BY <1>8 DEF AlreadyConnected, OnboardingThrows, WriteConfig, At, Leaves,
              Stays
<1>9. CASE Connect \/ RetryConnect \/ ConnectFails
  BY <1>9 DEF Connect, RetryConnect, ConnectFails, At, FailedAttempt, Leaves,
              Stays
<1>10. CASE WriteMarker \/ MarkerFails \/ ScheduleRestart \/ ShutdownFails
  BY <1>10 DEF WriteMarker, MarkerFails, ScheduleRestart, ShutdownFails, At,
               Fault
<1>11. CASE UNCHANGED vars
  BY <1>11 DEF vars
<1>12. QED
  BY <1>1, <1>2, <1>3, <1>4, <1>5, <1>6, <1>7, <1>8, <1>9, <1>10, <1>11 DEF Next, Step, Failure

(* The one boot of an uninterrupted Linux guest keeps its order.           *)
LEMMA LinuxStep ==
  ASSUME TypeOK, StepsOfOs, LinuxPass, [Next]_vars
  PROVE  LinuxPass'
<1> USE DEF TypeOK, StepsOfOs, LinuxPass, ArcSteps, setup, windows, linux,
            onboard, power
<1>1. CASE Boot \/ PowerCut \/ Restart \/ TokenExpires
  BY <1>1 DEF Boot, PowerCut, Restart, TokenExpires, GoesDown
<1>2. CASE FirstPass \/ Repeated \/ RemovalFails \/ SetPassword \/
             PasswordFails
  BY <1>2 DEF FirstPass, Repeated, RemovalFails, SetPassword, PasswordFails,
              At, Fault
<1>3. CASE SetHostname \/ RenameFails \/ SetAutologon \/ EnableRdp
  BY <1>3 DEF SetHostname, RenameFails, SetAutologon, EnableRdp, At, Fault
<1>4. CASE StartRuncmd \/ SkipRuncmd \/ PrepareGuest \/ Finish
  BY <1>4 DEF StartRuncmd, SkipRuncmd, PrepareGuest, Finish, At
<1>5. CASE SkipArc \/ StartArc
  BY <1>5 DEF SkipArc, StartArc, At, Leaves, Stays
<1>6. CASE NetworkUp \/ NetworkDown \/ NetworkStaysDown
  BY <1>6 DEF NetworkUp, NetworkDown, NetworkStaysDown, At, Leaves, Stays
<1>7. CASE Install \/ InstallFails
  BY <1>7 DEF Install, InstallFails, At, Leaves, Stays
<1>8. CASE AlreadyConnected \/ OnboardingThrows \/ WriteConfig
  BY <1>8 DEF AlreadyConnected, OnboardingThrows, WriteConfig, At, Leaves,
              Stays
<1>9. CASE Connect \/ RetryConnect \/ ConnectFails
  BY <1>9 DEF Connect, RetryConnect, ConnectFails, At, FailedAttempt, Leaves,
              Stays
<1>10. CASE WriteMarker \/ MarkerFails \/ ScheduleRestart \/ ShutdownFails
  BY <1>10 DEF WriteMarker, MarkerFails, ScheduleRestart, ShutdownFails, At,
               Fault
<1>11. CASE UNCHANGED vars
  BY <1>11 DEF vars
<1>12. QED
  BY <1>1, <1>2, <1>3, <1>4, <1>5, <1>6, <1>7, <1>8, <1>9, <1>10, <1>11 DEF Next, Step, Failure

(* The marker is written, and stays, over a provisioned guest.             *)
LEMMA MarkerStep ==
  ASSUME TypeOK, StepsOfOs, WindowsPass, LinuxPass, MarkerMeansProvisioned,
         [Next]_vars
  PROVE  MarkerMeansProvisioned'
<1> USE DEF TypeOK, StepsOfOs, WindowsPass, LinuxPass, MarkerMeansProvisioned,
            ArcSteps, setup, windows, linux, onboard, power
<1>1. CASE Boot \/ PowerCut \/ Restart \/ TokenExpires
  <2>1. CASE Boot \/ TokenExpires
    BY <1>1, <2>1 DEF Boot, TokenExpires
  <2>2. CASE PowerCut \/ Restart
    <3>1. /\ UNCHANGED <<os, arc, marker, password, reachable, connected, arcLog>>
          /\ name # "old" => name' # "old"
          /\ cuts' = 0 => cuts = 0
      BY <2>2 DEF PowerCut, Restart, GoesDown
    <3>2. QED
      BY <3>1
  <2>3. QED
    BY <1>1, <2>1, <2>2
<1>2. CASE FirstPass \/ Repeated \/ RemovalFails \/ SetPassword \/
             PasswordFails
  BY <1>2 DEF FirstPass, Repeated, RemovalFails, SetPassword, PasswordFails,
              At, Fault
<1>3. CASE SetHostname \/ RenameFails \/ SetAutologon \/ EnableRdp
  BY <1>3 DEF SetHostname, RenameFails, SetAutologon, EnableRdp, At, Fault
<1>4. CASE StartRuncmd \/ SkipRuncmd \/ PrepareGuest \/ Finish
  BY <1>4 DEF StartRuncmd, SkipRuncmd, PrepareGuest, Finish, At
<1>5. CASE SkipArc \/ StartArc
  BY <1>5 DEF SkipArc, StartArc, At, Leaves, Stays
<1>6. CASE NetworkUp \/ NetworkDown \/ NetworkStaysDown
  BY <1>6 DEF NetworkUp, NetworkDown, NetworkStaysDown, At, Leaves, Stays
<1>7. CASE Install \/ InstallFails
  BY <1>7 DEF Install, InstallFails, At, Leaves, Stays
<1>8. CASE AlreadyConnected \/ OnboardingThrows \/ WriteConfig
  BY <1>8 DEF AlreadyConnected, OnboardingThrows, WriteConfig, At, Leaves,
              Stays
<1>9. CASE Connect \/ RetryConnect \/ ConnectFails
  BY <1>9 DEF Connect, RetryConnect, ConnectFails, At, FailedAttempt, Leaves,
              Stays
<1>10. CASE WriteMarker \/ MarkerFails \/ ScheduleRestart \/ ShutdownFails
  BY <1>10 DEF WriteMarker, MarkerFails, ScheduleRestart, ShutdownFails, At,
               Fault
<1>11. CASE UNCHANGED vars
  BY <1>11 DEF vars
<1>12. QED
  BY <1>1, <1>2, <1>3, <1>4, <1>5, <1>6, <1>7, <1>8, <1>9, <1>10, <1>11 DEF Next, Step, Failure

(* Every way out of the onboarding removes what it wrote.                  *)
LEMMA TracesStep ==
  ASSUME TypeOK, StepsOfOs, LinuxPass, Traces, NothingLeftBehind, [Next]_vars
  PROVE  Traces' /\ NothingLeftBehind'
<1> USE DEF TypeOK, StepsOfOs, LinuxPass, Traces, NothingLeftBehind, ArcSteps, setup, windows,
            linux, onboard, power
<1>1. CASE Boot \/ PowerCut \/ Restart \/ TokenExpires
  BY <1>1 DEF Boot, PowerCut, Restart, TokenExpires, GoesDown
<1>2. CASE FirstPass \/ Repeated \/ RemovalFails \/ SetPassword \/
             PasswordFails
  BY <1>2 DEF FirstPass, Repeated, RemovalFails, SetPassword, PasswordFails,
              At, Fault
<1>3. CASE SetHostname \/ RenameFails \/ SetAutologon \/ EnableRdp
  BY <1>3 DEF SetHostname, RenameFails, SetAutologon, EnableRdp, At, Fault
<1>4. CASE StartRuncmd \/ SkipRuncmd \/ PrepareGuest \/ Finish
  BY <1>4 DEF StartRuncmd, SkipRuncmd, PrepareGuest, Finish, At
<1>5. CASE SkipArc \/ StartArc
  BY <1>5 DEF SkipArc, StartArc, At, Leaves, Stays
<1>6. CASE NetworkUp \/ NetworkDown \/ NetworkStaysDown
  BY <1>6 DEF NetworkUp, NetworkDown, NetworkStaysDown, At, Leaves, Stays
<1>7. CASE Install \/ InstallFails
  BY <1>7 DEF Install, InstallFails, At, Leaves, Stays
<1>8. CASE AlreadyConnected \/ OnboardingThrows \/ WriteConfig
  BY <1>8 DEF AlreadyConnected, OnboardingThrows, WriteConfig, At, Leaves,
              Stays
<1>9. CASE Connect \/ RetryConnect \/ ConnectFails
  BY <1>9 DEF Connect, RetryConnect, ConnectFails, At, FailedAttempt, Leaves,
              Stays
<1>10. CASE WriteMarker \/ MarkerFails \/ ScheduleRestart \/ ShutdownFails
  BY <1>10 DEF WriteMarker, MarkerFails, ScheduleRestart, ShutdownFails, At,
               Fault
<1>11. CASE UNCHANGED vars
  BY <1>11 DEF vars
<1>12. QED
  BY <1>1, <1>2, <1>3, <1>4, <1>5, <1>6, <1>7, <1>8, <1>9, <1>10, <1>11 DEF Next, Step, Failure

-------------------------------------------------------------------------------
(* The theorems.                                                           *)

(* The inductive invariant holds in the first state.                       *)
LEMMA IInvInit == Init => IInv
<1> SUFFICES ASSUME Init PROVE IInv
  OBVIOUS
<1>1. TypeOK
  <2>1. /\ marker \in BOOLEAN /\ password \in BOOLEAN /\ credential \in BOOLEAN
        /\ reachable \in BOOLEAN /\ script \in BOOLEAN /\ config \in BOOLEAN
        /\ agent \in BOOLEAN /\ connected \in BOOLEAN /\ token \in BOOLEAN
        /\ restartDue \in BOOLEAN
    BY Zenon DEF Init
  <2>2. QED
    BY <2>1, TriesAssumption, BoundsAssumption DEF Init, TypeOK
<1>2. /\ StepsOfOs /\ WindowsPass /\ LinuxPass /\ MarkerMeansProvisioned
      /\ Traces /\ NothingLeftBehind
  BY DEF Init, StepsOfOs, WindowsPass, LinuxPass, MarkerMeansProvisioned, ArcSteps, Traces,
     NothingLeftBehind
<1>3. QED
  BY <1>1, <1>2 DEF IInv

(* The inductive invariant is kept by every step.                          *)
LEMMA IInvStep == IInv /\ [Next]_vars => IInv'
BY TypeStep, OsStep, WindowsStep, LinuxStep, MarkerStep, TracesStep DEF IInv

(* The inductive invariant holds throughout.                               *)
LEMMA Invariance == Spec => []IInv
BY IInvInit, IInvStep, PTL DEF Spec

(* Every variable keeps its type, and a loop of tries its bound.           *)
THEOREM BootTypeCorrect == Spec => []TypeOK
<1>1. IInv => TypeOK
  BY DEF IInv
<1>2. QED
  BY <1>1, Invariance, PTL

(* The marker that verify_first_boot.py reads means a provisioned guest,   *)
(* however many power cuts, failing commands and restarts came before it.  *)
THEOREM MarkerCorrect == Spec => []MarkerMeansProvisioned
<1>1. IInv => MarkerMeansProvisioned
  BY DEF IInv
<1>2. QED
  BY <1>1, Invariance, PTL

(* Neither the token's file nor the script that holds the token outlives   *)
(* an onboarding that was not cut short, however it ended: cleanup() on    *)
(* Linux, finally on Windows.                                              *)
THEOREM TracesCorrect == Spec => []NothingLeftBehind
<1>1. IInv => NothingLeftBehind
  BY DEF IInv
<1>2. QED
  BY <1>1, Invariance, PTL

(* A step that registers the guest or ends its first boot does the one     *)
(* thing GuestBoot lets it do.                                             *)
LEMMA GuestStep ==
  ASSUME IInv, [Next]_vars
  PROVE  [Guest!Next]_(Guest!guestVars)
<1> USE DEF IInv, TypeOK, StepsOfOs, WindowsPass, LinuxPass, ArcSteps, setup, windows, linux,
            onboard, power
<1>1. UNCHANGED <<os, arc>>
  <2>1. CASE Boot \/ PowerCut \/ Restart \/ TokenExpires
    BY <2>1 DEF Boot, PowerCut, Restart, TokenExpires, GoesDown
  <2>2. CASE FirstPass \/ Repeated \/ RemovalFails \/ SetPassword \/
               PasswordFails
    BY <2>2 DEF FirstPass, Repeated, RemovalFails, SetPassword, PasswordFails,
                At, Fault
  <2>3. CASE SetHostname \/ RenameFails \/ SetAutologon \/ EnableRdp
    BY <2>3 DEF SetHostname, RenameFails, SetAutologon, EnableRdp, At, Fault
  <2>4. CASE StartRuncmd \/ SkipRuncmd \/ PrepareGuest \/ Finish
    BY <2>4 DEF StartRuncmd, SkipRuncmd, PrepareGuest, Finish, At
  <2>5. CASE SkipArc \/ StartArc
    BY <2>5 DEF SkipArc, StartArc, At, Leaves, Stays
  <2>6. CASE NetworkUp \/ NetworkDown \/ NetworkStaysDown
    BY <2>6 DEF NetworkUp, NetworkDown, NetworkStaysDown, At, Leaves, Stays
  <2>7. CASE Install \/ InstallFails
    BY <2>7 DEF Install, InstallFails, At, Leaves, Stays
  <2>8. CASE AlreadyConnected \/ OnboardingThrows \/ WriteConfig
    BY <2>8 DEF AlreadyConnected, OnboardingThrows, WriteConfig, At, Leaves,
                Stays
  <2>9. CASE Connect \/ RetryConnect \/ ConnectFails
    BY <2>9 DEF Connect, RetryConnect, ConnectFails, At, FailedAttempt, Leaves,
                Stays
  <2>10. CASE WriteMarker \/ MarkerFails \/ ScheduleRestart \/ ShutdownFails
    BY <2>10 DEF WriteMarker, MarkerFails, ScheduleRestart, ShutdownFails, At,
                 Fault
  <2>11. CASE UNCHANGED vars
    BY <2>11 DEF vars
  <2>12. QED
    BY <2>1, <2>2, <2>3, <2>4, <2>5, <2>6, <2>7, <2>8, <2>9, <2>10, <2>11 DEF Next, Step, Failure
<1>2. Settled => Settled' /\ connected' = connected
  <2>1. CASE Boot \/ PowerCut \/ Restart \/ TokenExpires
    BY <2>1 DEF Boot, PowerCut, Restart, TokenExpires, GoesDown, Settled
  <2>2. CASE FirstPass \/ Repeated \/ RemovalFails \/ SetPassword \/
               PasswordFails
    BY <2>2 DEF FirstPass, Repeated, RemovalFails, SetPassword, PasswordFails,
                At, Fault, Settled
  <2>3. CASE SetHostname \/ RenameFails \/ SetAutologon \/ EnableRdp
    BY <2>3 DEF SetHostname, RenameFails, SetAutologon, EnableRdp, At, Fault,
                Settled
  <2>4. CASE StartRuncmd \/ SkipRuncmd \/ PrepareGuest \/ Finish
    BY <2>4 DEF StartRuncmd, SkipRuncmd, PrepareGuest, Finish, At, Settled
  <2>5. CASE SkipArc \/ StartArc
    BY <2>5 DEF SkipArc, StartArc, At, Leaves, Stays, Settled
  <2>6. CASE NetworkUp \/ NetworkDown \/ NetworkStaysDown
    BY <2>6 DEF NetworkUp, NetworkDown, NetworkStaysDown, At, Leaves, Stays,
                Settled
  <2>7. CASE Install \/ InstallFails
    BY <2>7 DEF Install, InstallFails, At, Leaves, Stays, Settled
  <2>8. CASE AlreadyConnected \/ OnboardingThrows \/ WriteConfig
    BY <2>8 DEF AlreadyConnected, OnboardingThrows, WriteConfig, At, Leaves,
                Stays, Settled
  <2>9. CASE Connect \/ RetryConnect \/ ConnectFails
    BY <2>9 DEF Connect, RetryConnect, ConnectFails, At, FailedAttempt, Leaves,
                Stays, Settled
  <2>10. CASE WriteMarker \/ MarkerFails \/ ScheduleRestart \/ ShutdownFails
    BY <2>10 DEF WriteMarker, MarkerFails, ScheduleRestart, ShutdownFails, At,
                 Fault, Settled
  <2>11. CASE UNCHANGED vars
    BY <2>11 DEF vars, Settled
  <2>12. QED
    BY <2>1, <2>2, <2>3, <2>4, <2>5, <2>6, <2>7, <2>8, <2>9, <2>10, <2>11 DEF Next, Step, Failure
<1>3. connected' # connected => connected' /\ arc = "on"
  <2>1. CASE Boot \/ PowerCut \/ Restart \/ TokenExpires
    BY <2>1 DEF Boot, PowerCut, Restart, TokenExpires, GoesDown
  <2>2. CASE FirstPass \/ Repeated \/ RemovalFails \/ SetPassword \/
               PasswordFails
    BY <2>2 DEF FirstPass, Repeated, RemovalFails, SetPassword, PasswordFails,
                At, Fault
  <2>3. CASE SetHostname \/ RenameFails \/ SetAutologon \/ EnableRdp
    BY <2>3 DEF SetHostname, RenameFails, SetAutologon, EnableRdp, At, Fault
  <2>4. CASE StartRuncmd \/ SkipRuncmd \/ PrepareGuest \/ Finish
    BY <2>4 DEF StartRuncmd, SkipRuncmd, PrepareGuest, Finish, At
  <2>5. CASE SkipArc \/ StartArc
    BY <2>5 DEF SkipArc, StartArc, At, Leaves, Stays
  <2>6. CASE NetworkUp \/ NetworkDown \/ NetworkStaysDown
    BY <2>6 DEF NetworkUp, NetworkDown, NetworkStaysDown, At, Leaves, Stays
  <2>7. CASE Install \/ InstallFails
    BY <2>7 DEF Install, InstallFails, At, Leaves, Stays
  <2>8. CASE AlreadyConnected \/ OnboardingThrows \/ WriteConfig
    BY <2>8 DEF AlreadyConnected, OnboardingThrows, WriteConfig, At, Leaves,
                Stays
  <2>9. CASE Connect \/ RetryConnect \/ ConnectFails
    BY <2>9 DEF Connect, RetryConnect, ConnectFails, At, FailedAttempt, Leaves,
                Stays
  <2>10. CASE WriteMarker \/ MarkerFails \/ ScheduleRestart \/ ShutdownFails
    BY <2>10 DEF WriteMarker, MarkerFails, ScheduleRestart, ShutdownFails, At,
                 Fault
  <2>11. CASE UNCHANGED vars
    BY <2>11 DEF vars
  <2>12. QED
    BY <2>1, <2>2, <2>3, <2>4, <2>5, <2>6, <2>7, <2>8, <2>9, <2>10, <2>11 DEF Next, Step, Failure
<1>4. QED
  BY <1>1, <1>2, <1>3
  DEF Settled, Guest!Next, Guest!Onboards, Guest!EndsUnregistered, Guest!guestVars

(* First boot as both documents carry it out implements first boot as      *)
(* LabLifecycle takes it: one step that ends it, registered or not.        *)
THEOREM GuestCorrect == Spec => GuestSpec
<1>1. Init => Guest!Init
  BY DEF Init, Guest!Init, Settled
<1>2. IInv /\ [Next]_vars => [Guest!Next]_(Guest!guestVars)
  BY GuestStep
<1>3. QED
  BY <1>1, <1>2, Invariance, PTL DEF Spec, GuestSpec, Guest!Spec

-------------------------------------------------------------------------------
(* How far first boot is from its end: what may still go wrong, the rungs  *)
(* of the ladder still to climb down, and the tries left on this one.      *)
Budget == (MaxCuts - cuts) + (MaxFaults - faults) + (IF token THEN 1 ELSE 0)

(* A later boot of Windows, which has its marker.                          *)
Again == os = "windows" /\ marker

Rung == [runcmd |-> 14, password |-> 14, hostname |-> 13, autologon |-> 12, rdp |-> 11,
         arc |-> 10, network |-> 9, install |-> 8, show |-> 7, connect |-> 6,
         marker |-> 5, final |-> 5]

(* A pass that could not write its marker restarts to make another.        *)
Ladder ==
  CASE pc = "off" -> IF Again THEN 2 ELSE 16
    [] pc = "boot" -> IF Again THEN 1 ELSE 15
    [] pc = "restart" -> IF marker THEN 4 ELSE 18
    [] pc = "done" -> IF ~restartDue THEN 0 ELSE IF marker THEN 3 ELSE 17
    [] pc = "failed" -> 0
    [] pc \in DOMAIN Rung -> Rung[pc]

TriesLeft == (IF pc = "network" THEN NetTries ELSE ConnectTries) - tries

Distance == <<Budget, <<Ladder, TriesLeft>>>>

Below == OpToRel(<, Nat)
Lower == LexPairOrdering(Below, Below, Nat, Nat)
Closer == LexPairOrdering(Below, Lower, Nat, Nat \X Nat)

(* There is no endless approach.                                           *)
LEMMA BelowWellFounded == IsWellFoundedOn(Below, Nat)
BY NatLessThanWellFounded, Zenon DEF Below

(* Nor in three numbers, of which an earlier one counts for more.          *)
LEMMA CloserWellFounded == IsWellFoundedOn(Closer, Nat \X (Nat \X Nat))
<1>1. IsWellFoundedOn(Lower, Nat \X Nat)
  BY BelowWellFounded, WFLexPairOrdering DEF Lower
<1>2. QED
  BY <1>1, BelowWellFounded, WFLexPairOrdering DEF Closer

(* What it is to be closer.                                                *)
LEMMA CloserFacts ==
  ASSUME NEW a \in Nat, NEW b \in Nat, NEW c \in Nat, NEW d \in Nat, NEW e \in Nat, NEW f \in Nat,
         a < d \/ (a = d /\ (b < e \/ (b = e /\ c < f)))
  PROVE  <<<<a, <<b, c>>>>, <<d, <<e, f>>>>>> \in Closer
<1>1. \A x, y \in Nat : <<x, y>> \in Below <=> x < y
  BY DEF Below, OpToRel
<1>2. a = d => <<<<b, c>>, <<e, f>>>> \in Lower
  BY <1>1 DEF Lower, LexPairOrdering
<1>3. QED
  BY <1>1, <1>2 DEF Closer, LexPairOrdering

(* Only the end of a pass waits for a restart.                             *)
DueAtEnd == restartDue => pc = "done"

(* The order of the places, spelled out.                                    *)
LEMMA RungFacts ==
  /\ DOMAIN Rung = {"runcmd", "password", "hostname", "autologon", "rdp", "arc", "network",
                    "install", "show", "connect", "marker", "final"}
  /\ Rung["runcmd"] = 14 /\ Rung["password"] = 14 /\ Rung["hostname"] = 13
  /\ Rung["autologon"] = 12 /\ Rung["rdp"] = 11 /\ Rung["arc"] = 10 /\ Rung["network"] = 9
  /\ Rung["install"] = 8 /\ Rung["show"] = 7 /\ Rung["connect"] = 6 /\ Rung["marker"] = 5
  /\ Rung["final"] = 5
BY DEF Rung

(* How many steps are left at each place.                                   *)
LEMMA LadderFacts ==
  /\ pc = "off" => Ladder = IF Again THEN 2 ELSE 16
  /\ pc = "boot" => Ladder = IF Again THEN 1 ELSE 15
  /\ pc = "restart" => Ladder = IF marker THEN 4 ELSE 18
  /\ pc = "done" => Ladder = IF ~restartDue THEN 0 ELSE IF marker THEN 3 ELSE 17
  /\ pc = "failed" => Ladder = 0
  /\ pc \in DOMAIN Rung => Ladder = Rung[pc]
<1>1. CASE pc = "off"
  BY <1>1, RungFacts DEF Ladder
<1>2. CASE pc = "boot"
  BY <1>2, RungFacts DEF Ladder
<1>3. CASE pc = "restart"
  BY <1>3, RungFacts DEF Ladder
<1>4. CASE pc = "done"
  BY <1>4, RungFacts DEF Ladder
<1>5. CASE pc = "failed"
  BY <1>5, RungFacts DEF Ladder
<1>6. CASE pc \in DOMAIN Rung
  BY <1>6, RungFacts DEF Ladder
<1>7. QED
  BY <1>1, <1>2, <1>3, <1>4, <1>5, <1>6

(* How far it is, is a triple of numbers.                                  *)
LEMMA DistanceType ==
  TypeOK => Budget \in Nat /\ Ladder \in Nat /\ TriesLeft \in Nat
<1> SUFFICES ASSUME TypeOK
             PROVE  Budget \in Nat /\ Ladder \in Nat /\ TriesLeft \in Nat
  OBVIOUS
<1>1. Budget \in Nat
  BY BoundsAssumption DEF TypeOK, Budget
<1>2. TriesLeft \in Nat
  BY TriesAssumption DEF TypeOK, TriesLeft
<1>3. Ladder \in Nat
  <2>1. CASE pc \in {"off", "boot"}
    BY <2>1, LadderFacts
  <2>2. CASE pc \in {"restart", "done", "failed"}
    BY <2>2, LadderFacts
  <2>3. CASE pc \in DOMAIN Rung
    BY <2>3, LadderFacts, RungFacts
  <2>4. QED
    BY <2>1, <2>2, <2>3, RungFacts DEF TypeOK
<1>4. QED
  BY <1>1, <1>2, <1>3

(* The same after a step.                                                   *)
LEMMA DistanceTypeNext ==
  (TypeOK => Budget \in Nat /\ Ladder \in Nat /\ TriesLeft \in Nat)'
BY DistanceType, PTL

(* The same after a step.                                                   *)
LEMMA LadderFactsNext ==
  (/\ pc = "off" => Ladder = IF Again THEN 2 ELSE 16
   /\ pc = "boot" => Ladder = IF Again THEN 1 ELSE 15
   /\ pc = "restart" => Ladder = IF marker THEN 4 ELSE 18
   /\ pc = "done" => Ladder = IF ~restartDue THEN 0 ELSE IF marker THEN 3 ELSE 17
   /\ pc = "failed" => Ladder = 0
   /\ pc \in DOMAIN Rung => Ladder = Rung[pc])'
BY LadderFacts, PTL

(* Every step keeps that.                                                   *)
LEMMA DueStep ==
  ASSUME DueAtEnd, [Next]_vars
  PROVE  DueAtEnd'
<1> USE DEF DueAtEnd
<1>1. CASE Boot \/ Restart \/ PowerCut \/ TokenExpires \/ ScheduleRestart
  BY <1>1 DEF Boot, Restart, PowerCut, GoesDown, TokenExpires, ScheduleRestart, power
<1>2. CASE \E here, there, log :
             \/ At(here, there) /\ (here = "done" => there = "done")
             \/ Leaves(log) /\ pc # "done"
  BY <1>2 DEF At, Leaves, power
<1>3. CASE \/ FirstPass \/ Repeated \/ SetPassword \/ SetHostname \/ SetAutologon \/ EnableRdp
           \/ StartRuncmd \/ SkipRuncmd \/ PrepareGuest \/ Finish
  BY <1>2, <1>3 DEF FirstPass, Repeated, SetPassword, SetHostname, SetAutologon, EnableRdp,
     StartRuncmd, SkipRuncmd, PrepareGuest, Finish
<1>4. CASE \/ SkipArc \/ StartArc \/ NetworkUp \/ NetworkDown \/ NetworkStaysDown
           \/ Install \/ InstallFails \/ AlreadyConnected \/ OnboardingThrows \/ WriteConfig
  <2>1. CASE SkipArc
    BY <1>2, <2>1 DEF SkipArc
  <2>2. CASE StartArc \/ NetworkUp \/ NetworkDown
    BY <1>2, <2>2 DEF StartArc, NetworkUp, NetworkDown
  <2>3. CASE NetworkStaysDown
    <3>1. CASE At("network", "install")
      BY <1>2, <3>1
    <3>2. CASE Leaves("failed")
      BY <1>2, <2>3, <3>2 DEF NetworkStaysDown
    <3>3. QED
      BY <2>3, <3>1, <3>2 DEF NetworkStaysDown
  <2>4. CASE InstallFails \/ AlreadyConnected \/ OnboardingThrows
    BY <1>2, <2>4 DEF InstallFails, AlreadyConnected, OnboardingThrows
  <2>5. CASE Install \/ WriteConfig
    BY <1>2, <2>5 DEF Install, WriteConfig
  <2>6. QED
    BY <1>4, <2>1, <2>2, <2>3, <2>4, <2>5
<1>5. CASE Connect \/ RetryConnect \/ ConnectFails \/ WriteMarker
  BY <1>2, <1>5 DEF Connect, RetryConnect, ConnectFails, WriteMarker
<1>6. CASE RemovalFails \/ PasswordFails \/ RenameFails \/ MarkerFails \/ ShutdownFails
  BY <1>2, <1>6 DEF RemovalFails, PasswordFails, RenameFails, MarkerFails, ShutdownFails
<1>7. CASE UNCHANGED vars
  BY <1>7 DEF vars, power
<1>8. QED
  BY <1>1, <1>3, <1>4, <1>5, <1>6, <1>7 DEF Next, Step, Failure

(* What goes wrong is paid for; what goes right costs nothing.             *)
LEMMA BudgetStep ==
  ASSUME TypeOK, TypeOK', Next
  PROVE  (Failure /\ Budget' < Budget) \/ (Step /\ Budget' = Budget)
<1>1. cuts \in Nat /\ faults \in Nat /\ MaxCuts \in Nat /\ MaxFaults \in Nat
  BY BoundsAssumption DEF TypeOK
<1> DEFINE Spent == IF token THEN 1 ELSE 0
<1>2. Spent \in {0, 1}
  OBVIOUS
<1>3. CASE PowerCut
  <2>1. cuts' = cuts + 1 /\ faults' = faults /\ token' = token
    BY <1>3 DEF PowerCut, GoesDown
  <2>2. Spent' = Spent
    BY <2>1, Zenon
  <2>3. QED
    BY <1>1, <1>2, <1>3, <2>1, <2>2 DEF Budget, Failure
<1>4. CASE TokenExpires
  <2>1. cuts' = cuts /\ faults' = faults /\ token /\ ~token'
    BY <1>4 DEF TokenExpires, power
  <2>2. Spent = 1 /\ Spent' = 0
    BY <2>1
  <2>3. QED
    BY <1>1, <1>4, <2>1, <2>2 DEF Budget, Failure
<1>5. CASE RemovalFails \/ PasswordFails \/ RenameFails \/ MarkerFails \/ ShutdownFails
  <2>1. cuts' = cuts /\ faults' = faults + 1 /\ token' = token
    BY <1>5 DEF RemovalFails, PasswordFails, RenameFails, MarkerFails, ShutdownFails, At, Fault,
       power
  <2>2. Spent' = Spent
    BY <2>1, Zenon
  <2>3. QED
    BY <1>1, <1>2, <1>5, <2>1, <2>2 DEF Budget, Failure
<1>6. CASE Step
  <2>1. UNCHANGED <<cuts, faults, token>>
    BY <1>6 DEF Step, Boot, Restart, GoesDown, FirstPass, Repeated, SetPassword, SetHostname,
       SetAutologon, EnableRdp, StartRuncmd, SkipRuncmd, PrepareGuest, Finish, SkipArc, StartArc,
       NetworkUp, NetworkDown, NetworkStaysDown, Install, InstallFails, AlreadyConnected,
       OnboardingThrows, WriteConfig, Connect, RetryConnect, ConnectFails, WriteMarker,
       ScheduleRestart, At, Leaves, Stays, power
  <2>2. Spent' = Spent
    BY <2>1, Zenon
  <2>3. QED
    BY <1>6, <2>1, <2>2 DEF Budget
<1>7. QED
  BY <1>3, <1>4, <1>5, <1>6 DEF Next, Failure

(* Each step of the script is one rung down, or a try of those left.       *)
LEMMA LadderStep ==
  ASSUME TypeOK, TypeOK', StepsOfOs, WindowsPass, DueAtEnd, Step
  PROVE  Ladder' < Ladder \/ (Ladder' = Ladder /\ TriesLeft' < TriesLeft)
<1> USE LadderFacts, LadderFactsNext, RungFacts
<1>1. CASE Boot
  <2>1. pc = "off" /\ pc' = "boot" /\ Again' = Again
    BY <1>1 DEF Boot, setup, Again
  <2>2. QED
    BY <2>1
<1>2. CASE Restart
  <2>1. pc = "done" /\ restartDue /\ os = "windows"
    BY <1>2 DEF Restart, DueAtEnd, StepsOfOs
  <2>2. pc' = "off" /\ os' = os /\ marker' = marker
    BY <1>2 DEF Restart, GoesDown, setup
  <2>3. CASE marker
    BY <2>1, <2>2, <2>3 DEF Again
  <2>4. CASE ~marker
    BY <2>1, <2>2, <2>4 DEF Again
  <2>5. QED
    BY <2>3, <2>4
<1>3. CASE FirstPass \/ StartRuncmd \/ SkipRuncmd
  <2>1. pc = "boot" /\ ~Again /\ pc' \in {"password", "runcmd", "final"}
    BY <1>3 DEF FirstPass, StartRuncmd, SkipRuncmd, At, Again
  <2>2. QED
    BY <2>1
<1>4. CASE Repeated
  <2>1. pc = "boot" /\ Again /\ pc' = "done" /\ ~restartDue'
    BY <1>4 DEF Repeated, At, Again, DueAtEnd, power
  <2>2. QED
    BY <2>1
<1>5. CASE Finish
  <2>1. pc = "final" /\ pc' = "done" /\ ~restartDue'
    BY <1>5 DEF Finish, At, DueAtEnd, power
  <2>2. QED
    BY <2>1
<1>6. CASE SetPassword \/ SetHostname \/ SetAutologon \/ EnableRdp \/ PrepareGuest \/ StartArc
  <2>1. <<pc, pc'>> \in {<<"password", "hostname">>, <<"hostname", "autologon">>,
                        <<"autologon", "rdp">>, <<"rdp", "arc">>, <<"runcmd", "arc">>,
                        <<"runcmd", "final">>, <<"arc", "network">>}
    BY <1>6 DEF SetPassword, SetHostname, SetAutologon, EnableRdp, PrepareGuest, StartArc, At
  <2>2. QED
    BY <2>1
<1>7. ASSUME NEW log, Leaves(log), pc \in ArcSteps \cup {"arc"}
      PROVE  Ladder' < Ladder
  BY <1>7 DEF Leaves, ArcSteps
<1>8. CASE \/ SkipArc \/ InstallFails \/ AlreadyConnected \/ OnboardingThrows \/ Connect
           \/ ConnectFails
  BY <1>7, <1>8 DEF SkipArc, InstallFails, AlreadyConnected, OnboardingThrows, Connect,
     ConnectFails, ArcSteps
<1>9. CASE NetworkUp \/ Install \/ WriteConfig
  <2>1. <<pc, pc'>> \in {<<"network", "install">>, <<"install", "show">>, <<"show", "connect">>}
    BY <1>9 DEF NetworkUp, Install, WriteConfig, At
  <2>2. QED
    BY <2>1
<1>10. CASE NetworkStaysDown
  BY <1>7, <1>10 DEF NetworkStaysDown, At, ArcSteps
<1>11. CASE NetworkDown \/ RetryConnect
  <2>1. pc' = pc /\ pc \in {"network", "connect"} /\ tries' = tries + 1
    BY <1>11 DEF NetworkDown, RetryConnect, At
  <2>2. tries \in Nat
    BY DEF TypeOK
  <2>3. Ladder' = Ladder
    BY <2>1
  <2>4. TriesLeft' < TriesLeft
    BY <2>1, <2>2, TriesAssumption DEF TriesLeft
  <2>5. QED
    BY <2>3, <2>4
<1>12. CASE WriteMarker
  <2>1. pc = "marker" /\ pc' = "restart" /\ marker'
    BY <1>12 DEF WriteMarker, At
  <2>2. QED
    BY <2>1
<1>13. CASE ScheduleRestart
  <2>1. pc = "restart" /\ pc' = "done" /\ restartDue' /\ marker' = marker
    BY <1>13 DEF ScheduleRestart
  <2>2. CASE marker
    BY <2>1, <2>2
  <2>3. CASE ~marker
    BY <2>1, <2>3
  <2>4. QED
    BY <2>2, <2>3
<1>14. QED
  BY <1>1, <1>2, <1>3, <1>4, <1>5, <1>6, <1>8, <1>9, <1>10, <1>11, <1>12, <1>13 DEF Step

(* Each step brings the end of first boot closer.                          *)
BootAdvances == [][(<<Distance', Distance>> \in Closer)]_vars

(* Whatever the guest does, and whatever is done to it, brings first boot  *)
(* closer to its end in an order without endless descents: no chain of     *)
(* restarts, retries and power cuts goes on for ever (BootSettles, without *)
(* that the guest takes its steps).                                        *)
THEOREM BootsAdvance == (Spec => BootAdvances) /\ IsWellFoundedOn(Closer, Nat \X (Nat \X Nat))
<1>1. Init => DueAtEnd
  BY DEF Init, DueAtEnd
<1>2. DueAtEnd /\ [Next]_vars => DueAtEnd'
  BY DueStep
<1>3. IInv /\ IInv' /\ DueAtEnd /\ [Next]_vars => [(<<Distance', Distance>> \in Closer)]_vars
  <2> SUFFICES ASSUME IInv, TypeOK', DueAtEnd, Next
               PROVE  <<Distance', Distance>> \in Closer
    BY DEF IInv
  <2>1. Budget \in Nat /\ Ladder \in Nat /\ TriesLeft \in Nat
    BY DistanceType DEF IInv
  <2>2. Budget' \in Nat /\ Ladder' \in Nat /\ TriesLeft' \in Nat
    BY DistanceTypeNext
  <2>3. \/ Budget' < Budget
        \/ /\ Budget' = Budget
           /\ Ladder' < Ladder \/ (Ladder' = Ladder /\ TriesLeft' < TriesLeft)
    BY BudgetStep, LadderStep DEF IInv
  <2>4. QED
    BY <2>1, <2>2, <2>3, CloserFacts DEF Distance
<1>4. Spec => BootAdvances
  BY <1>1, <1>2, <1>3, Invariance, PTL DEF Spec, BootAdvances
<1>5. QED
  BY <1>4, CloserWellFounded

-------------------------------------------------------------------------------
(* The password in the registry.  When no command has failed, a script     *)
(* that has ended without a restart to come has left none there.           *)
CredentialCleared ==
  pc \in {"done", "failed"} /\ ~restartDue /\ faults = 0 => ~credential

(* Only Windows writes it, and a script that stops half way is a fault.    *)
CredentialIInv ==
  /\ os = "linux" => ~credential
  /\ pc = "failed" => faults > 0
  /\ CredentialCleared

(* Every step keeps that: only SetAutologon writes it, and a rest is        *)
(* reached through Repeated or on Linux.                                    *)
LEMMA CredentialStep ==
  ASSUME TypeOK, StepsOfOs, CredentialIInv, [Next]_vars
  PROVE  CredentialIInv'
<1> USE DEF CredentialIInv, CredentialCleared
<1>1. faults \in Nat
  BY BoundsAssumption DEF TypeOK
<1>2. CASE Boot \/ Restart \/ PowerCut \/ TokenExpires
  BY <1>2 DEF Boot, Restart, PowerCut, GoesDown, TokenExpires, setup, windows, power
<1>3. CASE Repeated
  BY <1>3 DEF Repeated, At, setup, power
<1>4. CASE Finish
  BY <1>4 DEF Finish, At, setup, windows, power, StepsOfOs
<1>5. CASE ScheduleRestart
  BY <1>5 DEF ScheduleRestart, setup, windows
<1>6. CASE SetAutologon
  <2>1. pc = "autologon" /\ pc' = "rdp" /\ os = "windows" /\ os' = os
    BY <1>6 DEF SetAutologon, At, setup, StepsOfOs
  <2>2. QED
    BY <2>1
<1>7. CASE RemovalFails \/ PasswordFails \/ RenameFails \/ MarkerFails \/ ShutdownFails
  <2>1. faults' > 0 /\ UNCHANGED <<os, credential>>
    BY <1>1, <1>7 DEF RemovalFails, PasswordFails, RenameFails, MarkerFails, ShutdownFails, At,
       Fault, setup, windows
  <2>2. QED
    BY <2>1
<1>8. ASSUME pc' \notin {"done", "failed"}, UNCHANGED <<os, credential>>
      PROVE  CredentialIInv'
  BY <1>8
<1>9. CASE \/ FirstPass \/ SetPassword \/ SetHostname \/ EnableRdp
           \/ StartRuncmd \/ SkipRuncmd \/ PrepareGuest
  BY <1>8, <1>9 DEF FirstPass, SetPassword, SetHostname, EnableRdp, StartRuncmd, SkipRuncmd,
     PrepareGuest, At, setup, windows
<1>10. CASE \/ SkipArc \/ InstallFails \/ AlreadyConnected \/ OnboardingThrows
            \/ Connect \/ ConnectFails
  BY <1>8, <1>10 DEF SkipArc, InstallFails, AlreadyConnected, OnboardingThrows, Connect,
     ConnectFails, Leaves, setup, windows
<1>11. CASE StartArc \/ NetworkUp \/ NetworkDown \/ Install \/ WriteConfig \/ RetryConnect
  BY <1>8, <1>11 DEF StartArc, NetworkUp, NetworkDown, Install, WriteConfig, RetryConnect, At,
     Stays, setup, windows
<1>12. CASE NetworkStaysDown
  <2>1. UNCHANGED <<os, credential>> /\ pc' \in {"install", "final", "marker"}
    BY <1>12 DEF NetworkStaysDown, At, Leaves, Stays, setup, windows
  <2>2. QED
    BY <1>8, <2>1
<1>13. CASE WriteMarker
  BY <1>8, <1>13 DEF WriteMarker, At, setup, windows
<1>14. CASE UNCHANGED vars
  BY <1>14 DEF vars, setup, windows, power
<1>15. QED
  BY <1>2, <1>3, <1>4, <1>5, <1>6, <1>7, <1>9, <1>10, <1>11, <1>12, <1>13, <1>14
     DEF Next, Step, Failure

(* First boot does not come to rest with the autologon password still in   *)
(* the registry unless a command failed: Remove-AutologonCredential has    *)
(* run by then, whatever was cut short (CredentialGoes, without that the   *)
(* guest comes to rest: for that see BootsAdvance).                        *)
THEOREM CredentialCorrect == Spec => []CredentialCleared
<1>1. Init => CredentialIInv
  BY DEF Init, CredentialIInv, CredentialCleared
<1>2. IInv /\ CredentialIInv /\ [Next]_vars => CredentialIInv'
  BY CredentialStep DEF IInv
<1>3. CredentialIInv => CredentialCleared
  BY DEF CredentialIInv
<1>4. QED
  BY <1>1, <1>2, <1>3, Invariance, PTL DEF Spec
===============================================================================
