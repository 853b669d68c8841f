---------------------------- MODULE PostApplyProofs ----------------------------
(***************************************************************************)
(* Proofs about PostApply, for every inventory, resource group, deadline   *)
(* and number of failures.                                                 *)
(***************************************************************************)
EXTENDS PostApply, FiniteSetTheorems, WellFoundedInduction, TLAPS

(* A step is entered only when its condition held; an apply that is        *)
(* cancelled is over at once; a runner that died does nothing more.        *)
Places ==
  /\ at # "start" => outcome["apply"] = "success"
  /\ at \in {"session", "list", "compare", "report"} => step = "smoke" /\ inventory
  /\ at = "ask" => step = "firstboot"
  /\ step = "apply" => ~cancelled
  /\ died => step = "over"

Ended ==
  CASE step = "apply" -> {}
    [] step = "smoke" -> {"apply"}
    [] step = "firstboot" -> {"apply", "smoke"}
    [] step = "audit" -> {"apply", "smoke", "firstboot"}
    [] step = "converge" -> {"apply", "smoke", "firstboot", "audit"}
    [] step = "remove" -> {"apply"} \cup Checks
    [] step = "over" -> Steps

(* The steps behind the one under way, and no other, have an outcome.      *)
Ordered == ~died => \A s \in Steps : outcome[s] = "none" <=> s \notin Ended

(* While nothing has gone wrong nothing has been skipped.                  *)
AllGreen ==
  /\ outcome["apply"] # "skipped"
  /\ outcome["apply"] = "cancelled" => cancelled
  /\ AllWell => \A s \in Steps : outcome[s] \in {"none", "success"}

SkippedForCause ==
  outcome["apply"] = "success" =>
    /\ \A s \in {"firstboot", "converge"} : outcome[s] # "skipped"
    /\ outcome["audit"] = "skipped" =>
         cancelled \/ "failure" \in {outcome["smoke"], outcome["firstboot"]}

(* What the poll knows at each of its places.                              *)
Polled ==
  /\ step \in {"apply", "smoke"} => warnings = {}
  /\ step = "apply" \/ (step = "smoke" /\ at \in {"start", "session"}) => clock = 0
  /\ at = "list" => clock <= Deadline
  /\ at \in {"list", "compare"} => configured
  /\ at \in {"compare", "report"} /\ configured =>
       /\ present = IF listFailed THEN {} ELSE listed
       /\ Elsewhere \subseteq listed /\ listed \subseteq Azure
  /\ at = "report" /\ configured => Missing = {} \/ clock >= Deadline

(* What a green smoke test has found or has warned of.                     *)
Reported ==
  outcome["smoke"] = "success" =>
    /\ delivered
    /\ configured => \A v \in asking : v \in Azure \/ <<"absent", v>> \in warnings

(* What the first-boot check has found or will warn of, and has.           *)
Asked ==
  /\ at = "ask" => VM \ unread \subseteq booted \cup absent
  /\ outcome["firstboot"] = "success" =>
       \A v \in VM : v \in booted \/ <<"first boot", v>> \in warnings

(* The checks that an apply that did not succeed leaves undone.            *)
OneFailureNotThree ==
  outcome["apply"] \in {"failure", "cancelled"} =>
    \A s \in Checks : outcome[s] \in {"none", "skipped", "cancelled"}

IInv ==
  /\ TypeOK /\ Places /\ Ordered /\ AllGreen
  /\ SkippedForCause /\ OneFailureNotThree /\ WorkspaceClean
  /\ Polled /\ NoHastyAbsence /\ OrphansNamed /\ Reported /\ Asked

-------------------------------------------------------------------------------
(* Which steps change what.                                                *)
LEMMA Writers ==
  ASSUME [Next]_vars
  PROVE  /\ UNCHANGED lab
         /\ UNCHANGED guest \/ Guest
         /\ UNCHANGED poll \/ ListMachines \/ ListFails \/ Sleep
         /\ UNCHANGED inventory \/ WriteOutputs \/ OutputsFail
         /\ UNCHANGED check \/ StartAsking \/ \E v \in VM : ReadMarker(v) \/ AgentErrs(v)
         /\ UNCHANGED warnings \/ Report \/ AllAsked
         /\ \/ UNCHANGED files \/ WriteOutputs \/ OutputsFail \/ ListMachines \/ ListFails
            \/ Converge \/ RemoveFiles
         /\ UNCHANGED faults \/ (faults < MaxFaults /\ faults' = faults + 1)
<1>1. CASE \E s \in Steps : Skip(s)
  BY <1>1 DEF Skip, lab, guest, poll, check
<1>2. CASE Cancel \/ RunnerDies
  BY <1>2 DEF Cancel, RunnerDies, Fault, lab, guest, poll, check
<1>3. CASE ApplySucceeds \/ ApplyFails \/ SessionFails \/ OpenSession \/ NotConfigured
  BY <1>3 DEF ApplySucceeds, ApplyFails, SessionFails, OpenSession, NotConfigured, Fault,
              lab, guest, poll, check
<1>4. CASE WriteOutputs \/ OutputsFail
  BY <1>4 DEF WriteOutputs, OutputsFail, Fault, lab, guest, poll, check
<1>5. CASE ListMachines \/ ListFails \/ Sleep \/ StopPolling
  BY <1>5 DEF ListMachines, ListFails, Sleep, StopPolling, Fault, lab, guest, poll, check
<1>6. CASE Report \/ StartAsking \/ NoInventory \/ ApiUnusable \/ AllAsked
  BY <1>6 DEF Report, StartAsking, NoInventory, ApiUnusable, AllAsked, Fault,
              lab, guest, poll, check
<1>7. CASE \E v \in VM : ReadMarker(v) \/ AgentErrs(v)
  BY <1>7 DEF ReadMarker, AgentErrs, Fault, lab, guest, poll, check
<1>8. CASE Audit \/ Converge \/ RemoveFiles
  BY <1>8 DEF Audit, Converge, RemoveFiles, Fault, lab, guest, poll, check
<1>9. CASE Guest
  BY <1>9 DEF Guest, Registers, FinishesBoot, lab, guest, poll, check
<1>10. CASE UNCHANGED vars
  BY <1>10 DEF vars, lab, guest, poll, check
<1>11. QED
  BY <1>1, <1>2, <1>3, <1>4, <1>5, <1>6, <1>7, <1>8, <1>9, <1>10 DEF Next, JobStep, Failure

(* A step of the job comes to an end, and why.                             *)
Leaves(s, result) ==
  /\ step = s /\ step' = NextStep(s) /\ at' = "start"
  /\ outcome' = [outcome EXCEPT ![s] = result]
  /\ died' = died
  /\ result = "skipped" => ~Runs(s)
  /\ result = "cancelled" => s \notin AlwaysSteps /\ cancelled'
  /\ result \in {"success", "failure"} => (at = "start" => Runs(s))
  /\ result # "cancelled" => cancelled' = cancelled
  /\ s = "remove" => RemoveFiles
  /\ result = "success" => (s = "smoke" => Report) /\ (s = "firstboot" => AllAsked)

(* Or goes on.                                                             *)
Within ==
  \/ WriteOutputs \/ OpenSession \/ NotConfigured
  \/ ListMachines \/ ListFails \/ Sleep \/ StopPolling
  \/ StartAsking \/ (\E v \in VM : ReadMarker(v) \/ AgentErrs(v))
  \/ Guest \/ UNCHANGED vars

(* A move within a step leaves the outcomes alone.                          *)
LEMMA WithinKeeps == Within => UNCHANGED <<step, outcome, cancelled, died>>
<1>1. CASE WriteOutputs \/ OpenSession \/ NotConfigured \/ StartAsking
  BY <1>1 DEF WriteOutputs, OpenSession, NotConfigured, StartAsking, GoesTo
<1>2. CASE ListMachines \/ ListFails \/ Sleep \/ StopPolling
  BY <1>2 DEF ListMachines, ListFails, Sleep, StopPolling, GoesTo
<1>3. CASE \E v \in VM : ReadMarker(v) \/ AgentErrs(v)
  BY <1>3 DEF ReadMarker, AgentErrs, GoesTo
<1>4. CASE Guest \/ UNCHANGED vars
  BY <1>4 DEF Guest, Registers, FinishesBoot, vars, job
<1>5. QED
  BY <1>1, <1>2, <1>3, <1>4 DEF Within

(* What a step may do to the job: go on inside its step, be cancelled in a *)
(* step that says always(), die, or leave the step.                        *)
LEMMA Control ==
  ASSUME [Next]_vars, step \in Steps \cup {"over"}
  PROVE  \/ Within
         \/ /\ step \in AlwaysSteps /\ cancelled' /\ Cancel
            /\ UNCHANGED <<step, at, outcome, died, inventory, files>>
         \/ /\ step # "over" /\ step' = "over" /\ at' = "start" /\ died'
            /\ UNCHANGED <<outcome, cancelled>>
         \/ \E s \in Steps, result \in Finished : Leaves(s, result)
<1> USE DEF Finished, Leaves
<1>1. CASE \E s \in Steps : Skip(s)
  BY <1>1 DEF Skip, EndsAs, Runs
<1>2. CASE Cancel
  BY <1>2 DEF Cancel, AlwaysSteps
<1>3. CASE RunnerDies
  BY <1>3 DEF RunnerDies
<1>4. CASE ApplySucceeds \/ ApplyFails
  BY <1>4 DEF ApplySucceeds, ApplyFails, In, EndsAs, Steps
<1>5. CASE OutputsFail \/ SessionFails \/ Report
  BY <1>5 DEF OutputsFail, SessionFails, Report, In, EndsAs, Steps, Checks
<1>6. CASE NoInventory \/ ApiUnusable \/ AllAsked
  BY <1>6 DEF NoInventory, ApiUnusable, AllAsked, In, EndsAs, Steps, Checks
<1>7. CASE Audit \/ Converge \/ RemoveFiles
  BY <1>7 DEF Audit, Converge, RemoveFiles, In, EndsAs, Steps, Checks
<1>8. QED
  BY <1>1, <1>2, <1>3, <1>4, <1>5, <1>6, <1>7 DEF Next, JobStep, Failure, Within

-------------------------------------------------------------------------------
(* The job: steps, conditions, outcomes.                                   *)

(* A step is entered only when its condition held, and every step keeps     *)
(* that.                                                                    *)
LEMMA PlacesStep ==
  ASSUME TypeOK, Places, Ordered, AllGreen, [Next]_vars
  PROVE  Places'
<1>1. CASE WriteOutputs
  <2>1. outcome["apply"] \in {"none", "success"}
    BY <1>1 DEF WriteOutputs, In, Runs, AllGreen, Steps, AlwaysSteps
  <2>2. outcome["apply"] # "none"
    BY <1>1 DEF WriteOutputs, In, Places, Ordered, Ended, Steps
  <2>3. QED
    BY <1>1, <2>1, <2>2 DEF WriteOutputs, In, GoesTo, Places
<1>2. CASE StartAsking
  BY <1>2 DEF StartAsking, In, Runs, AlwaysSteps, GoesTo, Places
<1>3. CASE OpenSession \/ NotConfigured \/ ListMachines \/ ListFails \/ Sleep \/ StopPolling
  BY <1>3 DEF OpenSession, NotConfigured, ListMachines, ListFails, Sleep, StopPolling, In, GoesTo,
              Places
<1>4. CASE \E v \in VM : ReadMarker(v) \/ AgentErrs(v)
  BY <1>4 DEF ReadMarker, AgentErrs, In, GoesTo, Places
<1>5. CASE Guest \/ UNCHANGED vars
  BY <1>5 DEF Guest, Registers, FinishesBoot, job, vars, Places
<1>6. ASSUME NEW s \in Steps, NEW result \in Finished, Leaves(s, result)
      PROVE  Places'
  BY <1>6 DEF Leaves, Places, NextStep, Steps, Checks
<1>7. CASE step \in AlwaysSteps /\ UNCHANGED <<step, at, outcome, died, inventory>>
  BY <1>7 DEF Places, AlwaysSteps
<1>8. CASE step' = "over" /\ at' = "start"
  BY <1>8 DEF Places
<1>9. QED
  BY <1>1, <1>2, <1>3, <1>4, <1>5, <1>6, <1>7, <1>8, Control DEF Within, TypeOK

(* The step that is left is the first that had no outcome.                 *)
LEMMA OrderedStep ==
  ASSUME TypeOK, Places, Ordered, [Next]_vars
  PROVE  Ordered'
<1>1. CASE UNCHANGED <<step, outcome, died>>
  BY <1>1 DEF Ordered, Ended
<1>2. CASE died'
  BY <1>2 DEF Ordered
<1>3. ASSUME NEW s \in Steps, NEW result \in Finished, Leaves(s, result)
      PROVE  Ordered'
  <2>1. ~died
    BY <1>3 DEF Leaves, Places, Steps, Checks
  <2>2. Ended' = Ended \cup {s}
    BY <1>3 DEF Leaves, Ended, NextStep, Steps, Checks
  <2>3. \A t \in Steps : outcome'[t] = IF t = s THEN result ELSE outcome[t]
    BY <1>3 DEF Leaves, TypeOK
  <2>4. QED
    BY <2>1, <2>2, <2>3 DEF Ordered, Finished
<1>4. QED
  BY <1>1, <1>2, <1>3, Control, WithinKeeps DEF TypeOK

(* While nothing goes wrong nothing is skipped.                             *)
LEMMA AllGreenStep ==
  ASSUME TypeOK, Places, Ordered, AllGreen, [Next]_vars
  PROVE  AllGreen'
<1>1. CASE UNCHANGED outcome /\ (cancelled' = cancelled \/ cancelled')
  BY <1>1 DEF AllGreen, AllWell
<1>2. ASSUME NEW s \in Steps, NEW result \in Finished, Leaves(s, result)
      PROVE  AllGreen'
  <2>1. \A t \in Steps : outcome'[t] = IF t = s THEN result ELSE outcome[t]
    BY <1>2 DEF Leaves, TypeOK
  <2>2. "apply" \in Steps /\ "apply" \notin AlwaysSteps
    BY DEF Steps, AlwaysSteps
  <2>3. ~died /\ (s # "apply" => outcome["apply"] # "none")
    BY <1>2 DEF Leaves, Places, Ordered, Ended, Steps, Checks
  <2>4. outcome[s] = "none"
    BY <1>2, <2>3 DEF Leaves, Ordered, Ended, Steps, Checks
  <2>5. CASE result \in {"success", "failure"}
    BY <1>2, <2>1, <2>2, <2>4, <2>5 DEF Leaves, AllGreen, AllWell
  <2>6. CASE result = "cancelled"
    BY <1>2, <2>1, <2>2, <2>6 DEF Leaves, AllGreen, AllWell
  <2>7. CASE result = "skipped"
    <3>1. ~AllWell
      BY <1>2, <2>2, <2>3, <2>7 DEF Leaves, Runs, AllGreen
    <3>2. s # "apply"
      BY <1>2, <2>3, <2>7, <3>1 DEF Leaves, AllWell, Places, Ordered, Ended
    <3>3. QED
      BY <1>2, <2>1, <2>2, <2>4, <2>7, <3>1, <3>2 DEF Leaves, AllGreen, AllWell
  <2>8. QED
    BY <2>5, <2>6, <2>7 DEF Finished
<1>3. QED
  BY <1>1, <1>2, Control, WithinKeeps DEF TypeOK

(* A check is skipped for a cause only.                                     *)
LEMMA SkippedStep ==
  ASSUME TypeOK, Places, Ordered, SkippedForCause, [Next]_vars
  PROVE  SkippedForCause'
<1>1. CASE UNCHANGED outcome /\ (cancelled' = cancelled \/ cancelled')
  BY <1>1 DEF SkippedForCause
<1>2. ASSUME NEW s \in Steps, NEW result \in Finished, Leaves(s, result)
      PROVE  SkippedForCause'
  <2>1. \A t \in Steps : outcome'[t] = IF t = s THEN result ELSE outcome[t]
    BY <1>2 DEF Leaves, TypeOK
  <2>2. ~died
    BY <1>2 DEF Leaves, Places, Steps, Checks
  <2>3. cancelled => cancelled'
    BY <1>2 DEF Leaves
  <2>4. CASE s = "apply"
    <3>1. \A t \in Checks : outcome'[t] = "none"
      BY <1>2, <2>1, <2>2, <2>4 DEF Leaves, Ordered, Ended, Steps, Checks
    <3>2. QED
      BY <3>1 DEF SkippedForCause, Checks
  <2>5. CASE s = "audit" /\ result = "skipped"
    <3>1. ~AllWell
      BY <1>2, <2>5 DEF Leaves, Runs, AlwaysSteps
    <3>2. cancelled \/ \E t \in {"apply", "smoke", "firstboot"} : outcome[t] = "failure"
      BY <1>2, <2>2, <2>5, <3>1 DEF Leaves, AllWell, Ordered, Ended, Steps, Checks
    <3>3. QED
      BY <2>1, <2>3, <2>5, <3>2 DEF SkippedForCause, Steps, Checks
  <2>6. CASE s \in {"firstboot", "converge"} /\ result = "skipped"
    BY <1>2, <2>1, <2>6 DEF Leaves, Runs, AlwaysSteps, SkippedForCause, Steps, Checks
  <2>7. CASE s # "apply" /\ ~(s \in {"audit", "firstboot", "converge"} /\ result = "skipped")
    <3>1. s \in {"smoke", "firstboot"} => outcome["audit"] = "none"
      BY <1>2, <2>2 DEF Leaves, Ordered, Ended, Steps, Checks
    <3>2. QED
      BY <2>1, <2>3, <2>7, <3>1 DEF SkippedForCause, Steps, Checks
  <2>8. QED
    BY <2>4, <2>5, <2>6, <2>7
<1>3. QED
  BY <1>1, <1>2, Control, WithinKeeps DEF TypeOK

(* After an apply that failed nothing else fails.                           *)
LEMMA OneFailureStep ==
  ASSUME TypeOK, Places, Ordered, AllGreen, OneFailureNotThree, [Next]_vars
  PROVE  OneFailureNotThree'
<1>1. CASE UNCHANGED outcome
  BY <1>1 DEF OneFailureNotThree
<1>2. ASSUME NEW s \in Steps, NEW result \in Finished, Leaves(s, result)
      PROVE  OneFailureNotThree'
  <2>1. \A t \in Steps : outcome'[t] = IF t = s THEN result ELSE outcome[t]
    BY <1>2 DEF Leaves, TypeOK
  <2>2. ~died
    BY <1>2 DEF Leaves, Places, Steps, Checks
  <2>3. CASE s = "apply"
    BY <1>2, <2>1, <2>2, <2>3 DEF Leaves, Ordered, Ended, OneFailureNotThree, Steps, Checks
  <2>4. CASE s # "apply" /\ result \in {"skipped", "cancelled"}
    BY <2>1, <2>4 DEF OneFailureNotThree, Steps, Checks
  <2>5. CASE s \in Checks /\ result \in {"success", "failure"}
    <3>1. outcome["apply"] \notin {"failure", "cancelled"}
      BY <1>2, <2>5 DEF Leaves, Places, Runs, AllWell, AllGreen, Steps, Checks
    <3>2. QED
      BY <2>1, <2>5, <3>1 DEF OneFailureNotThree, Steps, Checks
  <2>6. CASE s = "remove"
    BY <2>1, <2>6 DEF OneFailureNotThree, Steps, Checks
  <2>7. QED
    BY <2>3, <2>4, <2>5, <2>6 DEF Finished, Steps
<1>3. QED
  BY <1>1, <1>2, Control, WithinKeeps DEF TypeOK

(* Only RemoveFiles ends the job of a runner that lives.                   *)
LEMMA CleanStep ==
  ASSUME TypeOK, Places, WorkspaceClean, [Next]_vars
  PROVE  WorkspaceClean'
<1>1. CASE Within
  <2>1. step = "over" => files' = files
    BY Writers DEF WriteOutputs, OutputsFail, ListMachines, ListFails, Converge, RemoveFiles, In
  <2>2. QED
    BY <1>1, <2>1, WithinKeeps DEF WorkspaceClean, Over
<1>2. ASSUME NEW s \in Steps, NEW result \in Finished, Leaves(s, result)
      PROVE  WorkspaceClean'
  <2>1. s = "remove" => files' = {}
    BY <1>2 DEF Leaves, RemoveFiles
  <2>2. s # "remove" => step' # "over"
    BY <1>2 DEF Leaves, NextStep, Steps, Checks
  <2>3. QED
    BY <2>1, <2>2 DEF WorkspaceClean, Over
<1>3. CASE died'
  BY <1>3 DEF WorkspaceClean, Over
<1>4. CASE UNCHANGED <<step, died, files>>
  BY <1>4 DEF WorkspaceClean, Over
<1>5. QED
  BY <1>1, <1>2, <1>3, <1>4, Control DEF TypeOK

-------------------------------------------------------------------------------
(* Types.                                                                  *)

(* Every step keeps the types.                                              *)
LEMMA TypeStep ==
  ASSUME TypeOK, Polled, [Next]_vars
  PROVE  TypeOK'
<1>1. /\ asking' \subseteq VM /\ stale' \subseteq asking'
      /\ configured' \in BOOLEAN /\ delivered' \in BOOLEAN
      /\ asking' = asking /\ stale' = stale
  BY Writers DEF TypeOK, lab
<1>2. registered' \subseteq asking' /\ booted' \subseteq VM
  BY <1>1, Writers DEF TypeOK, guest, Guest, Registers, FinishesBoot
<1>3. /\ step' \in Steps \cup {"over"} /\ outcome' \in [Steps -> {"none"} \cup Finished]
      /\ cancelled' \in BOOLEAN /\ died' \in BOOLEAN
  <2>1. CASE Within
    BY <2>1, WithinKeeps DEF TypeOK
  <2>2. ASSUME NEW s \in Steps, NEW result \in Finished, Leaves(s, result)
        PROVE  <1>3!:
    BY <2>2 DEF Leaves, NextStep, TypeOK, Steps, Checks
  <2>3. QED
    BY <2>1, <2>2, Control, Zenon DEF TypeOK
<1>4. at' \in {"start", "session", "list", "compare", "report", "ask"}
  <2>1. CASE WriteOutputs \/ OpenSession \/ NotConfigured \/ StartAsking
    BY <2>1 DEF WriteOutputs, OpenSession, NotConfigured, StartAsking, GoesTo
  <2>2. CASE ListMachines \/ ListFails \/ Sleep \/ StopPolling
    BY <2>2 DEF ListMachines, ListFails, Sleep, StopPolling, GoesTo
  <2>3. CASE (\E v \in VM : ReadMarker(v) \/ AgentErrs(v)) \/ Guest \/ UNCHANGED vars
    BY <2>3 DEF ReadMarker, AgentErrs, GoesTo, Guest, Registers, FinishesBoot, vars, job, TypeOK
  <2>4. CASE ~Within
    BY <2>4, Control DEF Leaves, TypeOK
  <2>5. QED
    BY <2>1, <2>2, <2>3, <2>4 DEF Within
<1>5. clock' \in 0..(Deadline + 1)
  <2>1. clock \in 0..(Deadline + 1)
    BY DEF TypeOK
  <2>2. CASE ListMachines \/ ListFails
    <3>1. clock' \in {clock, clock + 1} /\ clock <= Deadline
      BY <2>2 DEF ListMachines, ListFails, In, Polled
    <3>2. QED
      BY <2>1, <3>1, DeadlineAssumption
  <2>3. CASE Sleep
    <3>1. clock' = clock + 1 /\ clock < Deadline
      BY <2>3 DEF Sleep, Waits
    <3>2. QED
      BY <2>1, <3>1, DeadlineAssumption
  <2>4. QED
    BY <2>1, <2>2, <2>3, Writers DEF poll
<1>6. present' \subseteq VM \cup Elsewhere /\ listed' \subseteq VM \cup Elsewhere
      /\ listFailed' \in BOOLEAN
  <2>1. Azure \subseteq VM \cup Elsewhere
    BY DEF Azure, TypeOK
  <2>2. QED
    BY <2>1, Writers DEF TypeOK, poll, ListMachines, ListFails, Sleep
<1>7. inventory' \in BOOLEAN /\ unread' \subseteq VM /\ absent' \subseteq VM
  BY Writers DEF TypeOK, check, WriteOutputs, OutputsFail, StartAsking, ReadMarker, AgentErrs
<1>8. warnings' \subseteq {"absent", "orphan", "first boot"} \X (VM \cup Elsewhere)
  <2>1. /\ warnings \subseteq {"absent", "orphan", "first boot"} \X (VM \cup Elsewhere)
        /\ absent \subseteq VM /\ asking \subseteq VM /\ present \subseteq VM \cup Elsewhere
    BY DEF TypeOK
  <2>2. CASE Report
    <3>1. Missing \subseteq VM
      BY <2>1 DEF Missing, Expected
    <3>2. ArcWarnings \subseteq {"absent", "orphan"} \X (VM \cup Elsewhere)
      <4>1. ASSUME NEW w \in ArcWarnings
            PROVE  \/ \E v \in Missing : w = <<"absent", v>>
                   \/ \E n \in present : w = <<"orphan", n>>
        BY DEF ArcWarnings
      <4>2. ASSUME NEW w \in ArcWarnings
            PROVE  w \in {"absent", "orphan"} \X (VM \cup Elsewhere)
        <5>1. CASE \E v \in Missing : w = <<"absent", v>>
          <6>1. PICK v \in Missing : w = <<"absent", v>>
            BY <5>1
          <6>2. v \in VM \cup Elsewhere
            BY <3>1
          <6>3. QED
            BY <6>1, <6>2
        <5>2. CASE \E n \in present : w = <<"orphan", n>>
          <6>1. PICK n \in present : w = <<"orphan", n>>
            BY <5>2
          <6>2. n \in VM \cup Elsewhere
            BY <2>1
          <6>3. QED
            BY <6>1, <6>2
        <5>3. QED
          BY <4>1, <4>2, <5>1, <5>2
      <4>3. QED
        BY <4>2
    <3>3. ASSUME NEW w \in warnings'
          PROVE  w \in {"absent", "orphan", "first boot"} \X (VM \cup Elsewhere)
      BY <2>1, <2>2, <3>2, <3>3 DEF Report
    <3>4. QED
      BY <3>3
  <2>3. CASE AllAsked
    <3>1. ASSUME NEW w \in warnings'
          PROVE  w \in warnings \/ \E v \in absent : w = <<"first boot", v>>
      BY <2>3, <3>1 DEF AllAsked
    <3>2. ASSUME NEW w \in warnings'
          PROVE  w \in {"absent", "orphan", "first boot"} \X (VM \cup Elsewhere)
      <4>1. CASE w \in warnings
        BY <2>1, <4>1
      <4>2. CASE \E v \in absent : w = <<"first boot", v>>
        <5>1. PICK v \in absent : w = <<"first boot", v>>
          BY <4>2
        <5>2. v \in VM \cup Elsewhere
          BY <2>1
        <5>3. QED
          BY <5>1, <5>2
      <4>3. QED
        BY <3>1, <3>2, <4>1, <4>2
    <3>3. QED
      BY <3>2
  <2>4. QED
    BY <2>1, <2>2, <2>3, Writers
<1>9. files' \subseteq {"tfplan", "inventory", "present", "replan"} /\ faults' \in 0..MaxFaults
  <2>1. files' \subseteq {"tfplan", "inventory", "present", "replan"}
    BY Writers DEF TypeOK, WriteOutputs, OutputsFail, ListMachines, ListFails, Converge, RemoveFiles
  <2>2. faults' \in 0..MaxFaults
    <3>1. faults \in 0..MaxFaults
      BY DEF TypeOK
    <3>2. QED
      BY <3>1, Writers, DeadlineAssumption
  <2>3. QED
    BY <2>1, <2>2
<1>10. QED
  BY <1>1, <1>2, <1>3, <1>4, <1>5, <1>6, <1>7, <1>8, <1>9 DEF TypeOK

-------------------------------------------------------------------------------
(* The smoke test and the first-boot check.                                *)

(* Azure only gains machines while the job runs.                           *)
LEMMA AzureGrows ==
  ASSUME [Next]_vars
  PROVE  Azure \subseteq Azure' /\ registered \subseteq registered' /\ booted \subseteq booted'
BY Writers DEF Azure, lab, guest, Guest, Registers, FinishesBoot

(* Each step of the poll leaves it knowing what its next place needs.       *)
LEMMA PolledStep ==
  ASSUME TypeOK, Places, Polled, [Next]_vars
  PROVE  Polled'
<1>0. clock \in Nat
  <2>1. clock \in 0..(Deadline + 1)
    BY DEF TypeOK
  <2>2. QED
    BY <2>1, DeadlineAssumption
<1> USE DeadlineAssumption DEF Polled, Places
<1>1. CASE WriteOutputs \/ OpenSession \/ NotConfigured
  BY <1>1 DEF WriteOutputs, OpenSession, NotConfigured, In, GoesTo, lab, poll, guest
<1>2. CASE ListMachines \/ ListFails
  BY <1>2 DEF ListMachines, ListFails, In, GoesTo, Azure, lab, guest
<1>3. CASE Sleep
  <2>1. clock \in Nat /\ clock' = clock + 1 /\ clock < Deadline
    BY <1>3, <1>0 DEF Sleep, Waits
  <2>2. step = "smoke" /\ at' = "list" /\ step' = step /\ configured' = configured
    BY <1>3 DEF Sleep, In, GoesTo, lab
  <2>3. warnings' = warnings /\ configured
    BY <1>3 DEF Sleep, In
  <2>4. QED
    BY <2>1, <2>2, <2>3
<1>4. CASE StopPolling
  <2>1. Missing = {} \/ clock >= Deadline
    BY <1>4, <1>0 DEF StopPolling, Waits
  <2>2. /\ step = "smoke" /\ at = "compare" /\ at' = "report" /\ step' = step
        /\ UNCHANGED <<lab, guest, poll, inventory, warnings>>
    BY <1>4 DEF StopPolling, In, GoesTo
  <2>3. Azure' = Azure /\ Missing' = Missing
    BY <2>2 DEF Azure, Missing, Expected, lab, guest, poll
  <2>4. QED
    BY <2>1, <2>2, <2>3 DEF lab, poll
<1>5. CASE StartAsking \/ \E v \in VM : ReadMarker(v) \/ AgentErrs(v)
  BY <1>5 DEF StartAsking, ReadMarker, AgentErrs, In, GoesTo
<1>6. CASE Guest
  <2>1. /\ Azure \subseteq Azure' /\ Missing' = Missing
        /\ UNCHANGED <<lab, job, poll, inventory, warnings>>
    <3>1. UNCHANGED <<lab, job, poll, inventory, warnings>>
      BY <1>6 DEF Guest, Registers, FinishesBoot, lab
    <3>2. QED
      BY <3>1, AzureGrows DEF Missing, Expected, lab, poll
  <2>2. QED
    BY <2>1 DEF lab, job, poll
<1>7. CASE UNCHANGED vars
  BY <1>7 DEF vars, lab, guest, job, poll, Missing, Expected, Azure
<1>8. ASSUME NEW s \in Steps, NEW result \in Finished, Leaves(s, result)
      PROVE  Polled'
  <2>1. step' \in {"apply", "smoke"} => s = "apply" /\ warnings' = warnings
    BY <1>8, Writers DEF Leaves, NextStep, Report, AllAsked, In, Steps, Checks
  <2>2. step' \in {"apply", "smoke"} => clock' = clock
    BY <1>8, <2>1, Writers DEF Leaves, poll, ListMachines, ListFails, Sleep, In
  <2>3. QED
    BY <1>8, <2>1, <2>2 DEF Leaves
<1>9. CASE step \in AlwaysSteps /\ UNCHANGED <<step, at>>
  BY <1>9 DEF AlwaysSteps
<1>10. CASE step' = "over" /\ at' = "start"
  BY <1>10
<1>11. QED
  BY <1>1, <1>2, <1>3, <1>4, <1>5, <1>6, <1>7, <1>8, <1>9, <1>10, Control DEF Within, TypeOK

(* A step has a new outcome only when it is left.                          *)
LEMMA NewSuccess ==
  ASSUME TypeOK, [Next]_vars
  PROVE  /\ outcome'["smoke"] = "success" => outcome["smoke"] = "success" \/ Report
         /\ outcome'["firstboot"] = "success" => outcome["firstboot"] = "success" \/ AllAsked
<1>1. ASSUME NEW s \in Steps, NEW result \in Finished, Leaves(s, result)
      PROVE  \A t \in Steps : outcome'[t] = IF t = s THEN result ELSE outcome[t]
  BY <1>1 DEF Leaves, TypeOK
<1>2. "smoke" \in Steps /\ "firstboot" \in Steps
  BY DEF Steps, Checks
<1>3. ASSUME NEW s \in Steps, NEW result \in Finished, Leaves(s, result)
      PROVE  /\ outcome'["smoke"] = "success" => outcome["smoke"] = "success" \/ Report
             /\ outcome'["firstboot"] = "success" => outcome["firstboot"] = "success" \/ AllAsked
  BY <1>1, <1>2, <1>3 DEF Leaves
<1>4. QED
  BY <1>3, Control, WithinKeeps DEF TypeOK

(* The poll is over when the smoke test is.                                *)
LEMMA PollOver ==
  ASSUME TypeOK, Places, Ordered, [Next]_vars
  PROVE  (step \notin {"apply", "smoke"} \/ outcome["smoke"] = "success" \/ Report)
            => UNCHANGED poll
<1>1. CASE ListMachines \/ ListFails \/ Sleep
  <2>1. step = "smoke" /\ outcome["smoke"] = "none" /\ at # "report"
    BY <1>1 DEF ListMachines, ListFails, Sleep, In, Places, Ordered, Ended, Steps, Checks
  <2>2. QED
    BY <2>1 DEF Report, In
<1>2. QED
  BY <1>1, Writers

(* A report of an absent VM comes after the deadline.                       *)
LEMMA HastyStep ==
  ASSUME TypeOK, Places, Ordered, Polled, NoHastyAbsence, [Next]_vars
  PROVE  NoHastyAbsence'
<1>1. CASE Report
  <2>1. warnings = {} /\ UNCHANGED poll
    BY <1>1, PollOver DEF Report, In, Polled
  <2>2. ASSUME NEW v \in VM, <<"absent", v>> \in warnings'
        PROVE  configured /\ v \in Missing
    BY <1>1, <2>1, <2>2 DEF Report, ArcWarnings
  <2>3. Missing # {} /\ configured => clock >= Deadline /\ (~listFailed => present = listed)
    BY <1>1 DEF Report, In, Polled
  <2>4. QED
    BY <2>1, <2>2, <2>3 DEF NoHastyAbsence, Missing, poll
<1>2. CASE ~Report
  <2>1. \A v \in VM : <<"absent", v>> \in warnings' =>
          <<"absent", v>> \in warnings /\ step \notin {"apply", "smoke"}
    <3>1. CASE AllAsked
      BY <3>1 DEF AllAsked, In
    <3>2. CASE UNCHANGED warnings
      BY <3>2 DEF Polled
    <3>3. QED
      BY <1>2, <3>1, <3>2, Writers
  <2>2. QED
    BY <2>1, PollOver DEF NoHastyAbsence, poll
<1>3. QED
  BY <1>1, <1>2

(* A report names every machine nobody claims.                              *)
LEMMA OrphansStep ==
  ASSUME TypeOK, Places, Ordered, Polled, OrphansNamed, [Next]_vars
  PROVE  OrphansNamed'
<1> SUFFICES ASSUME (outcome["smoke"] = "success" /\ configured /\ asking # {} /\ ~listFailed)',
                    NEW n \in Elsewhere
             PROVE  <<"orphan", n>> \in warnings'
  BY DEF OrphansNamed
<1>1. /\ outcome["smoke"] = "success" \/ Report
      /\ configured /\ asking # {} /\ ~listFailed
  <2>1. outcome["smoke"] = "success" \/ Report
    BY NewSuccess
  <2>2. UNCHANGED <<lab, poll>>
    BY <2>1, PollOver, Writers
  <2>3. QED
    BY <2>1, <2>2 DEF lab, poll
<1>2. CASE Report
  <2>1. Elsewhere \subseteq present /\ Expected \subseteq VM /\ Expected = asking
    BY <1>1, <1>2 DEF Report, In, Polled, Places, Expected, TypeOK
  <2>2. QED
    BY <1>1, <1>2, <2>1, NamesAssumption DEF Report, ArcWarnings
<1>3. CASE ~Report
  BY <1>1, <1>3, Writers DEF OrphansNamed, AllAsked
<1>4. QED
  BY <1>2, <1>3

(* No warning is taken back.                                                *)
LEMMA WarningsGrow ==
  ASSUME [Next]_vars
  PROVE  warnings \subseteq warnings'
BY Writers DEF Report, AllAsked

(* A smoke test that ends green has found each asking VM or warned of it.   *)
LEMMA ReportedStep ==
  ASSUME TypeOK, Places, Polled, Reported, [Next]_vars
  PROVE  Reported'
<1> SUFFICES ASSUME outcome'["smoke"] = "success"
             PROVE  /\ delivered
                    /\ configured =>
                         \A v \in asking : v \in Azure' \/ <<"absent", v>> \in warnings'
  BY Writers DEF Reported, lab
<1>1. CASE Report
  <2>1. delivered
    BY <1>1 DEF Report, In, EndsAs, TypeOK, Steps, Checks
  <2>2. ASSUME configured, NEW v \in asking
        PROVE  v \in Azure' \/ <<"absent", v>> \in warnings'
    <3>1. Expected = asking /\ present \subseteq Azure
      BY <1>1, <2>2 DEF Report, In, Polled, Places, Expected
    <3>2. v \in present \/ v \in Missing
      BY <3>1 DEF Missing
    <3>3. QED
      BY <1>1, <2>2, <3>1, <3>2, AzureGrows DEF Report, ArcWarnings
  <2>3. QED
    BY <2>1, <2>2
<1>2. CASE outcome["smoke"] = "success"
  BY <1>2, AzureGrows, WarningsGrow DEF Reported
<1>3. QED
  BY <1>1, <1>2, NewSuccess

(* A first-boot check that ends green has found each VM booted or warned    *)
(* of it.                                                                   *)
LEMMA AskedStep ==
  ASSUME TypeOK, Places, Asked, [Next]_vars
  PROVE  Asked'
<1>1. at' = "ask" => VM \ unread' \subseteq booted' \cup absent'
  <2>1. CASE StartAsking
    BY <2>1 DEF StartAsking
  <2>2. CASE \E v \in VM : ReadMarker(v) \/ AgentErrs(v)
    BY <2>2 DEF ReadMarker, AgentErrs, In, GoesTo, guest, Asked
  <2>3. CASE at' = "ask" /\ ~StartAsking /\ ~\E v \in VM : ReadMarker(v) \/ AgentErrs(v)
    <3>1. at = "ask"
      BY <2>3, Control
         DEF Within, Leaves, WriteOutputs, OpenSession, NotConfigured, ListMachines, ListFails,
             Sleep, StopPolling, GoesTo, Guest, Registers, FinishesBoot, vars, job, TypeOK
    <3>2. QED
      BY <2>3, <3>1, Writers, AzureGrows DEF Asked, check
  <2>4. QED
    BY <2>1, <2>2, <2>3
<1>2. outcome'["firstboot"] = "success" =>
        \A v \in VM : v \in booted' \/ <<"first boot", v>> \in warnings'
  <2>1. CASE AllAsked
    BY <2>1, AzureGrows DEF AllAsked, In, Asked
  <2>2. CASE outcome["firstboot"] = "success"
    BY <2>2, AzureGrows, WarningsGrow DEF Asked
  <2>3. QED
    BY <2>1, <2>2, NewSuccess
<1>3. QED
  BY <1>1, <1>2 DEF Asked

-------------------------------------------------------------------------------
(* The inductive invariant holds throughout.                                *)
LEMMA Invariance == Spec => []IInv
<1>1. Init => IInv
  <2>1. Init => TypeOK
    <3>1. Init => clock \in 0..(Deadline + 1) /\ faults \in 0..MaxFaults
      BY DeadlineAssumption DEF Init
    <3>2. Init => warnings \subseteq {"absent", "orphan", "first boot"} \X (VM \cup Elsewhere)
      BY DEF Init
    <3>3. Init => step \in Steps \cup {"over"} /\ outcome \in [Steps -> {"none"} \cup Finished]
      BY DEF Init, Steps
    <3>4. QED
      BY <3>1, <3>2, <3>3 DEF Init, TypeOK
  <2>2. Init => Places /\ Ordered /\ AllGreen /\ SkippedForCause /\ OneFailureNotThree
    BY DEF Init, Places, Ordered, Ended, AllGreen, AllWell, SkippedForCause, OneFailureNotThree,
           Steps, Checks
  <2>3. Init => WorkspaceClean /\ Polled /\ NoHastyAbsence
    BY DEF Init, WorkspaceClean, Over, Polled, NoHastyAbsence
  <2>4. Init => OrphansNamed /\ Reported /\ Asked
    BY DEF Init, OrphansNamed, Reported, Asked, Steps, Checks
  <2>5. QED
    BY <2>1, <2>2, <2>3, <2>4 DEF IInv
<1>2. IInv /\ [Next]_vars => IInv'
  BY TypeStep, PlacesStep, OrderedStep, AllGreenStep, SkippedStep, OneFailureStep, CleanStep,
     PolledStep, HastyStep, OrphansStep, ReportedStep, AskedStep
     DEF IInv
<1>3. QED
  BY <1>1, <1>2, PTL DEF Spec

(* Every variable keeps its type, and the poll for Arc machines never      *)
(* outlasts its deadline by more than the call under way.                  *)
THEOREM JobTypeCorrect == Spec => []TypeOK
<1>1. IInv => TypeOK
  BY DEF IInv
<1>2. QED
  BY <1>1, Invariance, PTL

(* After an apply that succeeded the first-boot check and the convergence  *)
(* check both have an outcome, and the state audit is given up only for a  *)
(* failure or a cancellation before it; a failed apply is the job's one    *)
(* failure.                                                                *)
THEOREM ChecksCorrect == Spec => []ChecksFollowApply
<1>1. IInv => ChecksFollowApply
  BY DEF IInv, SkippedForCause, OneFailureNotThree, ChecksFollowApply
<1>2. QED
  BY <1>1, Invariance, PTL

(* Nobody is reported absent from Azure before the deadline.               *)
THEOREM AbsenceCorrect == Spec => []NoHastyAbsence
<1>1. IInv => NoHastyAbsence
  BY DEF IInv
<1>2. QED
  BY <1>1, Invariance, PTL

(* Every machine that nobody claims is named.                              *)
THEOREM OrphansCorrect == Spec => []OrphansNamed
<1>1. IInv => OrphansNamed
  BY DEF IInv
<1>2. QED
  BY <1>1, Invariance, PTL

(* A green run without a warning about a machine means a lab that is done. *)
THEOREM SilenceCorrect == Spec => []SilentGreenMeansDone
<1>1. ASSUME IInv, Over, Conclusion = "success", warnings = {}
      PROVE  /\ delivered /\ booted = VM
             /\ configured => asking \subseteq registered \cup stale
  <2>1. \A s \in Steps : outcome[s] # "failure"
    BY <1>1 DEF Conclusion
  <2>2. ~cancelled
    BY <1>1, <2>1 DEF Conclusion
  <2>3. \A s \in Steps : outcome[s] = "success"
    BY <1>1, <2>1, <2>2 DEF IInv, AllGreen, AllWell, Over, Ordered, Ended
  <2>4. outcome["smoke"] = "success" /\ outcome["firstboot"] = "success"
    BY <2>3 DEF Steps, Checks
  <2>5. delivered /\ (configured => asking \subseteq Azure)
    BY <1>1, <2>4 DEF IInv, Reported
  <2>6. VM \subseteq booted
    BY <1>1, <2>4 DEF IInv, Asked
  <2>7. QED
    BY <1>1, <2>5, <2>6, NamesAssumption DEF IInv, TypeOK, Azure
<1>2. IInv => SilentGreenMeansDone
  BY <1>1 DEF SilentGreenMeansDone
<1>3. QED
  BY <1>2, Invariance, PTL

(* The files of a run are removed unless its runner died.                  *)
THEOREM CleanCorrect == Spec => []WorkspaceClean
<1>1. IInv => WorkspaceClean
  BY DEF IInv
<1>2. QED
  BY <1>1, Invariance, PTL

-------------------------------------------------------------------------------
(* How far the job is from its end: the steps to come, and what is left of *)
(* the present one.                                                        *)
Stage == [apply |-> 6, smoke |-> 5, firstboot |-> 4, audit |-> 3, converge |-> 2, remove |-> 1,
          over |-> 0]

RoundsLeft == Deadline + 1 - clock

InStep ==
  CASE at = "start" -> IF step = "smoke" THEN 2 * Deadline + 6 ELSE Cardinality(VM) + 1
    [] at = "session" -> 2 * Deadline + 5
    [] at = "list" -> 2 * RoundsLeft + 2
    [] at = "compare" -> 2 * RoundsLeft + 1
    [] at = "report" -> 0
    [] at = "ask" -> Cardinality(unread)

MayBeCancelled == IF cancelled THEN 0 ELSE 1
Left == InStep + MayBeCancelled
Distance == <<Stage[step], Left>>

Below == OpToRel(<, Nat)
Closer == LexPairOrdering(Below, Below, Nat, Nat)

(* There is no endless approach.                                           *)
LEMMA BelowWellFounded == IsWellFoundedOn(Below, Nat)
BY NatLessThanWellFounded, Zenon DEF Below

(* Nor in two numbers, the first of which counts for more.                 *)
LEMMA CloserWellFounded == IsWellFoundedOn(Closer, Nat \X Nat)
BY BelowWellFounded, WFLexPairOrdering DEF Closer

(* What it is to be closer.                                                *)
LEMMA CloserFacts ==
  ASSUME NEW a \in Nat, NEW b \in Nat, NEW c \in Nat, NEW d \in Nat,
         a < c \/ (a = c /\ b < d)
  PROVE  <<<<a, b>>, <<c, d>>>> \in Closer
<1>1. \A x, y \in Nat : <<x, y>> \in Below <=> x < y
  BY DEF Below, OpToRel
<1>2. QED
  BY <1>1 DEF Closer, LexPairOrdering

(* VMs can be counted.                                                      *)
LEMMA CountType == ASSUME NEW s \in SUBSET VM PROVE IsFiniteSet(s) /\ Cardinality(s) \in Nat
BY NamesAssumption, FS_Subset, FS_CardinalityType

(* The poll's clock never runs past the round after its deadline, so what  *)
(* is left of a step is a number.                                          *)
LEMMA LeftType ==
  TypeOK => /\ Stage[step] \in Nat /\ InStep \in Nat /\ Left \in Nat
            /\ RoundsLeft \in Nat /\ clock \in Nat
<1> SUFFICES ASSUME TypeOK
             PROVE  /\ Stage[step] \in Nat /\ InStep \in Nat /\ Left \in Nat
                    /\ RoundsLeft \in Nat /\ clock \in Nat
  OBVIOUS
<1>1. clock \in 0..(Deadline + 1)
  BY DEF TypeOK
<1>2. RoundsLeft \in Nat /\ clock \in Nat
  BY <1>1, DeadlineAssumption DEF RoundsLeft
<1>3. Cardinality(VM) \in Nat /\ Cardinality(unread) \in Nat
  BY CountType DEF TypeOK
<1>4. InStep \in Nat
  <2>1. CASE at \in {"start", "session"}
    BY <1>3, <2>1, DeadlineAssumption DEF InStep
  <2>2. CASE at \in {"list", "compare"}
    BY <1>2, <2>2 DEF InStep
  <2>3. CASE at \in {"report", "ask"}
    BY <1>3, <2>3 DEF InStep
  <2>4. QED
    BY <2>1, <2>2, <2>3 DEF TypeOK
<1>5. Stage[step] \in Nat
  <2>1. step \in {"apply", "smoke", "firstboot", "audit", "converge", "remove", "over"}
    BY DEF TypeOK, Steps, Checks
  <2>2. QED
    BY <2>1 DEF Stage
<1>6. Left \in Nat
  BY <1>4 DEF Left, MayBeCancelled
<1>7. QED
  BY <1>2, <1>4, <1>5, <1>6

(* The same after a step.                                                   *)
LEMMA LeftTypeNext ==
  (TypeOK => /\ Stage[step] \in Nat /\ InStep \in Nat /\ Left \in Nat
             /\ RoundsLeft \in Nat /\ clock \in Nat)'
BY LeftType, PTL

(* A step that is left brings the next one.                                *)
LEMMA NextStage ==
  ASSUME NEW s \in Steps
  PROVE  Stage[NextStep(s)] < Stage[s]
BY DEF Stage, NextStep, Steps, Checks

(* Going on inside a step leaves less of it.                               *)
LEMMA WithinAdvances ==
  ASSUME TypeOK, TypeOK', Places, Polled, Within, ~UNCHANGED vars
  PROVE  (Guest /\ UNCHANGED <<job, poll, check>>) \/ InStep' < InStep
<1> USE DeadlineAssumption
<1>1. /\ RoundsLeft \in Nat /\ clock \in Nat /\ Cardinality(VM) \in Nat
      /\ Cardinality(unread) \in Nat /\ IsFiniteSet(unread)
  BY LeftType, CountType DEF TypeOK
<1>2. CASE WriteOutputs \/ OpenSession \/ NotConfigured
  BY <1>1, <1>2 DEF WriteOutputs, OpenSession, NotConfigured, In, GoesTo, poll, InStep,
                    RoundsLeft, Polled
<1>3. CASE ListMachines \/ ListFails
  <2>1. at = "list" /\ at' = "compare" /\ clock' \in {clock, clock + 1} /\ clock <= Deadline
    BY <1>3 DEF ListMachines, ListFails, In, GoesTo, Polled
  <2>2. RoundsLeft' <= RoundsLeft /\ RoundsLeft' \in Nat
    <3>1. RoundsLeft \in Nat \ {0}
      BY <1>1, <2>1 DEF RoundsLeft
    <3>2. CASE clock' = clock
      BY <1>1, <3>2 DEF RoundsLeft
    <3>3. CASE clock' = clock + 1
      BY <1>1, <3>1, <3>3 DEF RoundsLeft
    <3>4. QED
      BY <2>1, <3>2, <3>3
  <2>3. QED
    BY <1>1, <2>1, <2>2 DEF InStep
<1>4. CASE Sleep
  <2>1. at = "compare" /\ at' = "list" /\ clock' = clock + 1 /\ clock < Deadline
    BY <1>1, <1>4 DEF Sleep, In, GoesTo, Waits
  <2>2. RoundsLeft' = RoundsLeft - 1 /\ RoundsLeft' \in Nat
    BY <1>1, <2>1 DEF RoundsLeft
  <2>3. QED
    BY <1>1, <2>1, <2>2 DEF InStep
<1>5. CASE StopPolling
  BY <1>1, <1>5 DEF StopPolling, In, GoesTo, InStep
<1>6. CASE StartAsking
  BY <1>1, <1>6 DEF StartAsking, In, GoesTo, InStep
<1>7. CASE \E v \in VM : ReadMarker(v) \/ AgentErrs(v)
  <2>1. PICK v \in unread : unread' = unread \ {v}
    BY <1>7 DEF ReadMarker, AgentErrs
  <2>2. Cardinality(unread') = Cardinality(unread) - 1
    BY <1>1, <2>1, FS_RemoveElement
  <2>3. at = "ask" /\ at' = "ask"
    BY <1>7 DEF ReadMarker, AgentErrs, In, GoesTo
  <2>4. QED
    BY <1>1, <2>2, <2>3 DEF InStep
<1>8. CASE Guest
  BY <1>8 DEF Guest, Registers, FinishesBoot
<1>9. QED
  BY <1>2, <1>3, <1>4, <1>5, <1>6, <1>7, <1>8 DEF Within

(* Every step before the end takes the job closer to it, or is a guest's   *)
(* own and leaves it alone.                                                *)
LEMMA CloserStep ==
  ASSUME TypeOK, TypeOK', Places, Polled, [Next]_vars, ~UNCHANGED vars, step # "over"
  PROVE  <<Distance', Distance>> \in Closer \/ (Guest /\ UNCHANGED <<job, poll, check>>)
<1>1. Stage[step] \in Nat /\ InStep \in Nat /\ Left \in Nat
  BY LeftType
<1>2. Stage[step'] \in Nat /\ InStep' \in Nat /\ Left' \in Nat
  BY LeftTypeNext
<1>3. CASE Stage[step'] < Stage[step]
  BY <1>1, <1>2, <1>3, CloserFacts DEF Distance
<1>4. CASE step' = step /\ Left' < Left
  BY <1>1, <1>2, <1>4, CloserFacts DEF Distance
<1>5. CASE Within
  <2>1. UNCHANGED <<step, cancelled>>
    BY <1>5, WithinKeeps
  <2>2. CASE InStep' < InStep
    <3>1. Left' < Left
      <4>1. MayBeCancelled' = MayBeCancelled
        BY <2>1, Zenon DEF MayBeCancelled
      <4>2. MayBeCancelled \in Nat
        BY DEF MayBeCancelled
      <4>3. Left = InStep + MayBeCancelled /\ Left' = InStep' + MayBeCancelled
        BY <4>1 DEF Left
      <4>4. InStep \in Nat /\ InStep' \in Nat
        BY <1>1, <1>2
      <4>5. \A i, j, n \in Nat : j < i => j + n < i + n
        OBVIOUS
      <4>6. InStep' + MayBeCancelled < InStep + MayBeCancelled
        BY <2>2, <4>2, <4>4, <4>5
      <4>7. QED
        BY <4>3, <4>6
    <3>2. QED
      BY <1>4, <2>1, <3>1
  <2>3. QED
    BY <1>5, <2>2, WithinAdvances
<1>6. CASE ~Within
  <2>1. CASE step \in AlwaysSteps /\ cancelled' /\ Cancel /\ UNCHANGED <<step, at>>
    <3>1. ~cancelled /\ UNCHANGED <<clock, unread>>
      BY <2>1 DEF Cancel, poll, check
    <3>2. InStep' = InStep
      BY <2>1, <3>1 DEF InStep, RoundsLeft
    <3>3. Left' < Left
      BY <1>1, <1>2, <2>1, <3>1, <3>2 DEF Left, MayBeCancelled
    <3>4. QED
      BY <1>4, <2>1, <3>3
  <2>2. CASE step' = "over"
    <3>1. step \in {"apply", "smoke", "firstboot", "audit", "converge", "remove"}
      BY DEF TypeOK, Steps, Checks
    <3>2. Stage[step'] < Stage[step]
      BY <2>2, <3>1 DEF Stage
    <3>3. QED
      BY <1>3, <3>2
  <2>3. ASSUME NEW s \in Steps, NEW outcomeOfS \in Finished, Leaves(s, outcomeOfS)
        PROVE  Stage[step'] < Stage[step]
    BY <2>3, NextStage DEF Leaves
  <2>4. QED
    BY <1>3, <1>6, <2>1, <2>2, <2>3, Control DEF TypeOK
<1>7. QED
  BY <1>5, <1>6

(* The job before its end comes closer to it, and after its end it is left *)
(* alone.                                                                  *)
JobAdvances ==
  [][IF step = "over" THEN UNCHANGED job
     ELSE <<Distance', Distance>> \in Closer \/ (Guest /\ UNCHANGED <<job, poll, check>>)]_vars

(* The poll for Arc machines, and with it the job, runs out of steps: each *)
(* of its own, and each failure, takes the job closer to its end in an     *)
(* order without endless descents, the guests cannot hold it back, and it  *)
(* does not start again.                                                   *)
THEOREM ChecksAdvance == (Spec => JobAdvances) /\ IsWellFoundedOn(Closer, Nat \X Nat)
<1>1. ASSUME TypeOK, [Next]_vars, step = "over" PROVE UNCHANGED job
  <2>1. Within
    BY <1>1, Control DEF AlwaysSteps, Leaves, Steps, Checks
  <2>2. Guest \/ UNCHANGED vars
    BY <1>1, <2>1
       DEF Within, In, WriteOutputs, OpenSession, NotConfigured, ListMachines, ListFails, Sleep,
           StopPolling, StartAsking, ReadMarker, AgentErrs
  <2>3. QED
    BY <2>2 DEF Guest, Registers, FinishesBoot, vars, job
<1>2. IInv /\ IInv' /\ [Next]_vars =>
        [IF step = "over" THEN UNCHANGED job
         ELSE <<Distance', Distance>> \in Closer
                \/ (Guest /\ UNCHANGED <<job, poll, check>>)]_vars
  BY <1>1, CloserStep DEF IInv
<1>3. Spec => JobAdvances
  BY <1>2, Invariance, PTL DEF Spec, JobAdvances
<1>4. QED
  BY <1>3, CloserWellFounded
===============================================================================
