-------------------------------- MODULE Pipeline --------------------------------
(***************************************************************************)
(* How the workflows share the lab: which runs GitHub creates, which it    *)
(* drops, the concurrency groups, the runner, and the state file with its  *)
(* lock.                                                                   *)
(*                                                                         *)
(* Applies and destroys are in one group, a pull request's plans in one of *)
(* its own.  A group has one active run and one pending run, which a later *)
(* one replaces; nothing in progress is cancelled.  Only the state lock    *)
(* keeps a plan of a pull request from reading while an apply writes, and  *)
(* a command that cannot have it gives up after -lock-timeout.             *)
(*                                                                         *)
(* GitHub and Terraform are external.  Terraform's lock is taken to work,  *)
(* and nobody to force it open under a process that is alive.              *)
(*                                                                         *)
(* Bound: MaxCommits pushes to main.                                       *)
(***************************************************************************)
EXTENDS Integers, FiniteSets

CONSTANTS
  PullRequest,
  Runners,     \* self-hosted runners with the label gha-runner-01: one today
  MaxCommits

ASSUME RunnersAssumption == Runners \in Nat \ {0}
ASSUME CommitsAssumption == MaxCommits \in Nat
ASSUME PullRequestAssumption ==
  /\ IsFiniteSet(PullRequest)
  /\ PullRequest \cap {"lab", "other", "nobody", "operator", "reader", "writer", "stuck"} = {}

(* "lab" is terraform-lab-state.  No run is in "other": it serves mutants. *)
Group == {"lab", "other"} \cup PullRequest

(* What runs, for which commit of main, and whether somebody asked for a   *)
(* commit that was no longer the newest.  Only applies count commits.      *)
Commit == 0..MaxCommits
Run == [what : {"plan"}, of : PullRequest, commit : {0}, again : {FALSE}]
         \cup [what : {"apply"}, of : {"main"}, commit : Commit, again : BOOLEAN]
         \cup [what : {"destroy"}, of : {"main"}, commit : {0}, again : {FALSE}]
None == [what |-> "none", of |-> "main", commit |-> 0, again |-> FALSE]

PlanOf(pr) == [what |-> "plan", of |-> pr, commit |-> 0, again |-> FALSE]
ApplyOf(c, again) == [what |-> "apply", of |-> "main", commit |-> c, again |-> again]
Destroy == [what |-> "destroy", of |-> "main", commit |-> 0, again |-> FALSE]

VARIABLES
  main,     \* commits on main
  pending, active,  \* of each group: a run, or None
  at,       \* where the active run is
  up,       \* runners that GitHub can reach
  holder,   \* who holds the state lock: a group's run, an operator at the runner, a
            \* Terraform that outlived its job, "stuck" for a dead one, or nobody
  since,    \* ghost: who has changed the state since the group's run read it
  applied,  \* the newest commit that an apply has finished
  missed    \* ghost: main is not in the lab, for a reason nobody retries

queue == <<pending, active, at, up>>
state == <<holder, since>>
vars  == <<main, queue, state, applied, missed>>

Place == {"none", "queued", "started", "planning", "planned", "applying"}
OnRunner(g) == at[g] \notin {"none", "queued"}
Busy == Cardinality({g \in Group : OnRunner(g)})

Init ==
  /\ main = 0 /\ applied = 0 /\ missed = FALSE
  /\ pending = [g \in Group |-> None] /\ active = [g \in Group |-> None]
  /\ at = [g \in Group |-> "none"] /\ up = Runners
  /\ holder = "nobody" /\ since = [g \in Group |-> "nobody"]

-------------------------------------------------------------------------------
(* GitHub: runs and groups.                                                *)

(* Mutants of GroupOf: the destroy workflow names a group of its own; no   *)
(* group, so that two applies may be under way.                            *)
GroupSplit(run) ==
  CASE run.what = "plan" -> run.of [] run.what = "apply" -> "lab" [] OTHER -> "other"
GroupLoose(run) ==
  CASE run.what = "plan" -> run.of [] run.commit % 2 = 0 -> "lab" [] OTHER -> "other"

GroupOf(run) == IF run.what = "plan" THEN run.of ELSE "lab"

(* A run that is dropped for one that does not bring main to the lab.      *)
Forgets(old, new) ==
  old.what = "apply" /\ (new.what = "destroy" \/ new.commit < old.commit)

(* Mutant: the run that was pending stays, and the new one is dropped.     *)
EnqueueBehind(run) ==
  LET g == GroupOf(run) IN
  /\ pending' = [pending EXCEPT ![g] = IF @ = None THEN run ELSE @]
  /\ missed' = missed
  /\ UNCHANGED <<active, at, up, state, applied>>

Enqueue(run) ==
  LET g == GroupOf(run) IN
  /\ pending' = [pending EXCEPT ![g] = run]
  /\ missed' = (missed \/ Forgets(pending[g], run))
  /\ UNCHANGED <<active, at, up, state, applied>>

Push ==
  /\ main < MaxCommits /\ main' = main + 1
  /\ Enqueue(ApplyOf(main + 1, FALSE))

(* During an outage, or with changes under paths-ignore only.              *)
PushWithoutRun ==
  /\ main < MaxCommits /\ main' = main + 1 /\ missed' = TRUE
  /\ UNCHANGED <<queue, state, applied>>

Dispatch == Enqueue(ApplyOf(main, FALSE)) /\ UNCHANGED main

(* An old run is run again, or dispatched on an old ref.                   *)
RunAgain(c) == c < main /\ Enqueue(ApplyOf(c, TRUE)) /\ UNCHANGED main

ConfirmDestroy == Enqueue(Destroy) /\ UNCHANGED main

Propose(pr) == Enqueue(PlanOf(pr)) /\ UNCHANGED main

Promote(g) ==
  /\ active[g] = None /\ pending[g] # None
  /\ active' = [active EXCEPT ![g] = pending[g]]
  /\ pending' = [pending EXCEPT ![g] = None]
  /\ at' = [at EXCEPT ![g] = "queued"]
  /\ UNCHANGED <<main, up, state, applied, missed>>

Assign(g) ==
  /\ at[g] = "queued" /\ Busy < up
  /\ at' = [at EXCEPT ![g] = "started"]
  /\ UNCHANGED <<main, pending, active, up, state, applied, missed>>

-------------------------------------------------------------------------------
(* A run on its runner.                                                    *)

What(g) == active[g].what

(* Whoever has read the state now has an old view of it.                   *)
Read(g) == at[g] \in {"planning", "planned", "applying"}
MovedBy(by) ==
  [g \in Group |-> IF Read(g) /\ since[g] # "job" THEN by ELSE since[g]]

(* The active run of g is over.  It may have written the state.            *)
Leaves(g, wrote) ==
  /\ active' = [active EXCEPT ![g] = None] /\ at' = [at EXCEPT ![g] = "none"]
  /\ since' = [IF wrote THEN MovedBy("job") ELSE since EXCEPT ![g] = "nobody"]
  /\ UNCHANGED <<main, pending>>

(* One that does not bring main to the lab leaves it behind.               *)
Falls(g) == missed' = (missed \/ What(g) # "plan")

Gets(g) == holder = "nobody" /\ holder' = g

StartPlanning(g) ==
  /\ at[g] = "started" /\ What(g) # "destroy" /\ Gets(g)
  /\ at' = [at EXCEPT ![g] = "planning"]
  /\ UNCHANGED <<main, pending, active, up, since, applied, missed>>

StartDestroying(g) ==
  /\ at[g] = "started" /\ What(g) = "destroy" /\ Gets(g)
  /\ at' = [at EXCEPT ![g] = "applying"]
  /\ UNCHANGED <<main, pending, active, up, since, applied, missed>>

(* Terraform refuses a saved plan whose state has moved.                   *)
StartApplying(g) ==
  /\ at[g] = "planned" /\ since[g] = "nobody" /\ Gets(g)
  /\ at' = [at EXCEPT ![g] = "applying"]
  /\ UNCHANGED <<main, pending, active, up, since, applied, missed>>

RefusesStale(g) ==
  /\ at[g] = "planned" /\ since[g] # "nobody" /\ holder = "nobody"
  /\ Leaves(g, FALSE) /\ Falls(g) /\ UNCHANGED <<up, holder, applied>>

(* -lock-timeout.  Mutant: without limit.                                  *)
WaitsOn(g) == FALSE
GivesUp(g) ==
  /\ at[g] \in {"started", "planned"} /\ holder # "nobody"
  /\ Leaves(g, FALSE) /\ Falls(g) /\ UNCHANGED <<up, holder, applied>>

PlanEnds(g) ==
  /\ at[g] = "planning" /\ holder' = "nobody"
  /\ \/ What(g) = "plan" /\ Leaves(g, FALSE)
     \/ /\ What(g) = "apply" /\ at' = [at EXCEPT ![g] = "planned"]
        /\ UNCHANGED <<main, pending, active, since>>
  /\ UNCHANGED <<up, applied, missed>>

ApplyEnds(g) ==
  /\ at[g] = "applying" /\ What(g) = "apply"
  /\ holder' = "nobody" /\ Leaves(g, TRUE)
  /\ applied' = active[g].commit
  /\ missed' = (active[g].commit # main /\ (missed \/ active[g].again))
  /\ UNCHANGED up

DestroyEnds(g) ==
  /\ at[g] = "applying" /\ What(g) = "destroy"
  /\ holder' = "nobody" /\ Leaves(g, TRUE) /\ Falls(g) /\ UNCHANGED <<up, applied>>

(* A step fails, or the run is cancelled; Terraform releases its lock.     *)
(* Mutant: it does not.                                                    *)
KeepsLock(g) == holder
Released(g) == IF holder = g THEN "nobody" ELSE holder

RunFails(g) ==
  /\ OnRunner(g) /\ holder' = Released(g)
  /\ Leaves(g, at[g] = "applying") /\ Falls(g) /\ UNCHANGED <<up, applied>>

-------------------------------------------------------------------------------
(* GitHub gives a run up whose runner it has lost; a Terraform that held   *)
(* the lock may live on, and read or write until it ends or is killed.     *)
RunnerLost(g) ==
  /\ OnRunner(g) /\ up' = up - 1
  /\ holder' = IF holder # g THEN holder
               ELSE IF at[g] = "applying" THEN "writer" ELSE "reader"
  /\ Leaves(g, FALSE) /\ Falls(g) /\ UNCHANGED applied

RunnerBack ==
  /\ up < Runners /\ up' = up + 1
  /\ UNCHANGED <<main, pending, active, at, state, applied, missed>>

StrayWrites ==
  /\ holder = "writer" /\ since' = MovedBy("job")
  /\ UNCHANGED <<main, queue, holder, applied, missed>>

StrayEnds ==
  /\ holder \in {"reader", "writer"} /\ holder' \in {"nobody", "stuck"}
  /\ UNCHANGED <<main, queue, since, applied, missed>>

(* terraform force-unlock.                                                 *)
ForceUnlock ==
  /\ holder = "stuck" /\ holder' = "nobody"
  /\ UNCHANGED <<main, queue, since, applied, missed>>

(* An operator at the runner: state rm, import, a restore, an apply.       *)
StartByHand ==
  /\ holder = "nobody" /\ holder' = "operator"
  /\ UNCHANGED <<main, queue, since, applied, missed>>

EndByHand ==
  /\ holder = "operator" /\ holder' = "nobody" /\ since' = MovedBy("operator")
  /\ UNCHANGED <<main, queue, applied, missed>>

-------------------------------------------------------------------------------
Advance(g) ==
  \/ StartPlanning(g) \/ StartDestroying(g) \/ StartApplying(g) \/ RefusesStale(g)
  \/ GivesUp(g) \/ PlanEnds(g) \/ ApplyEnds(g) \/ DestroyEnds(g)

Next ==
  \/ Push \/ PushWithoutRun \/ Dispatch \/ ConfirmDestroy
  \/ \E c \in Commit : RunAgain(c)
  \/ \E pr \in PullRequest : Propose(pr)
  \/ \E g \in Group : Promote(g) \/ Assign(g) \/ Advance(g) \/ RunFails(g) \/ RunnerLost(g)
  \/ RunnerBack \/ StrayWrites \/ StrayEnds \/ ForceUnlock \/ StartByHand \/ EndByHand

Spec == Init /\ [][Next]_vars

(* GitHub starts a pending run, and gives a free runner to the job that    *)
(* waited longest; a command that has the lock ends sooner or later; a lost*)
(* runner is brought back.  Nobody has to unlock anything, and GitHub's    *)
(* limit of six hours for a job is not counted on.                         *)
Fairness ==
  /\ WF_vars(RunnerBack)
  /\ \A g \in Group : WF_vars(Promote(g)) /\ SF_vars(Assign(g)) /\ WF_vars(Advance(g))
FairSpec == Spec /\ Fairness

-------------------------------------------------------------------------------
(* Every variable has its type, no more runs are on runners than there are,*)
(* and a run holds the lock exactly while its command uses the state.      *)
TypeOK ==
  /\ main \in Commit /\ applied \in Commit /\ missed \in BOOLEAN
  /\ pending \in [Group -> Run \cup {None}] /\ active \in [Group -> Run \cup {None}]
  /\ at \in [Group -> Place] /\ since \in [Group -> {"nobody", "job", "operator"}]
  /\ holder \in Group \cup {"nobody", "operator", "reader", "writer", "stuck"}
  /\ up \in 0..Runners /\ Busy <= up
  /\ \A g \in Group : holder = g <=> at[g] \in {"planning", "applying"}

(* No other job, dead or alive, changes the state while a plan is made from*)
(* it or, for an apply's saved plan, until it is applied: Terraform never  *)
(* has to refuse one as stale unless somebody worked by hand, however many *)
(* runners there are (terraform-apply.yml:24-36, -lock-timeout).           *)
PlanStillTrue == \A g \in Group : Read(g) => since[g] # "job"

(* The lab goes back to an earlier commit only by the very run with which  *)
(* somebody asked for one, and to the commit asked for: no push and no     *)
(* dispatch takes it back, whatever else is pending or under way           *)
(* (release-process.md: it converges the lab on what main says).           *)
NeverBackwards ==
  [][applied' < applied =>
       \E g \in Group :
         at[g] = "applying" /\ active[g].again /\ applied' = active[g].commit]_vars

(* However pushes coalesce, the lab comes to main, unless main's run was   *)
(* never created, failed, or gave way to a destroy or to an older commit.  *)
LabFollowsMain == []<>(applied = main \/ missed)

(* No run is under way for ever, whoever sits on the lock.                 *)
NoRunWaitsForever == \A g \in Group : active[g] # None ~> active[g] = None
===============================================================================
