---------------------------- MODULE PipelineProofs ----------------------------
(***************************************************************************)
(* Proofs about Pipeline, for any number of pull requests, runners and     *)
(* commits.  Nothing here needs fairness.                                  *)
(***************************************************************************)
EXTENDS Pipeline, FiniteSetTheorems, TLAPS

Types ==
  /\ main \in Commit /\ applied \in Commit /\ missed \in BOOLEAN
  /\ pending \in [Group -> Run \cup {None}] /\ active \in [Group -> Run \cup {None}]
  /\ at \in [Group -> Place] /\ since \in [Group -> {"nobody", "job", "operator"}]
  /\ holder \in Group \cup {"nobody", "operator", "reader", "writer", "stuck"}
  /\ up \in 0..Runners

RunnersSuffice == Busy <= up

LockHeld == \A g \in Group : holder = g <=> at[g] \in {"planning", "applying"}

(* A run is in the group of its kind, and where its kind may be.           *)
InPlace ==
  \A g \in Group :
    /\ pending[g] # None => GroupOf(pending[g]) = g
    /\ active[g] # None => GroupOf(active[g]) = g
    /\ at[g] # "none" => active[g] # None
    /\ at[g] = "planned" => What(g) = "apply"
    /\ at[g] = "applying" => What(g) # "plan"

(* A group whose run has not read the state has nothing to be told of, and *)
(* a Terraform that outlived its job writes beside no saved plan.          *)
Views ==
  /\ \A g \in Group : ~Read(g) => since[g] = "nobody"
  /\ holder = "writer" => at["lab"] # "planned"

(* An apply of what was the newest commit when it was asked for.           *)
Fresh(run) == run.what = "apply" /\ ~run.again

(* Commits come to the lab in their order, old ones that somebody asked    *)
(* for apart.                                                              *)
InSequence ==
  /\ applied <= main
  /\ \A g \in Group : pending[g].commit <= main /\ active[g].commit <= main
  /\ Fresh(pending["lab"]) =>
       applied <= pending["lab"].commit /\ active["lab"].commit <= pending["lab"].commit
  /\ Fresh(active["lab"]) => applied <= active["lab"].commit

IInv ==
  /\ Types /\ RunnersSuffice /\ LockHeld
  /\ InPlace /\ Views /\ PlanStillTrue /\ InSequence

-------------------------------------------------------------------------------
(* What a run is.                                      *)
LEMMA RunKinds ==
  ASSUME NEW run \in Run
  PROVE  /\ run.what \in {"plan", "apply", "destroy"}
         /\ run.what = "plan" => run.of \in PullRequest
         /\ run.commit \in Commit /\ run.again \in BOOLEAN
         /\ run # None
<1>1. 0 \in Commit
  BY CommitsAssumption DEF Commit
<1>2. CASE run \in [what : {"plan"}, of : PullRequest, commit : {0}, again : {FALSE}]
  <2>1. run.again \in BOOLEAN
    BY <1>2, Zenon
  <2>2. run.what = "plan" /\ run.of \in PullRequest /\ run.commit = 0
    BY <1>2
  <2>3. QED
    BY <1>1, <2>1, <2>2 DEF None
<1>3. CASE run \in [what : {"apply"}, of : {"main"}, commit : Commit, again : BOOLEAN]
  BY <1>3 DEF None
<1>4. CASE run \in [what : {"destroy"}, of : {"main"}, commit : {0}, again : {FALSE}]
  <2>1. run.again \in BOOLEAN
    BY <1>4, Zenon
  <2>2. run.what = "destroy" /\ run.of \in {"main"} /\ run.commit = 0
    BY <1>4
  <2>3. QED
    BY <1>1, <2>1, <2>2 DEF None
<1>5. QED
  BY <1>2, <1>3, <1>4 DEF Run

(* No run is an apply of no commit.                                         *)
LEMMA NoneFacts ==
  /\ None.what = "none" /\ None.commit = 0
BY DEF None

(* A run belongs to one group, and all but plans to that of the lab.        *)
LEMMA Groups ==
  ASSUME NEW run \in Run
  PROVE  GroupOf(run) \in Group /\ (GroupOf(run) = "lab" <=> run.what # "plan")
BY RunKinds, PullRequestAssumption DEF GroupOf, Group

(* What is asked for is a run.                                              *)
LEMMA Asks ==
  /\ \A c \in Commit, again \in BOOLEAN : ApplyOf(c, again) \in Run
  /\ \A pr \in PullRequest : PlanOf(pr) \in Run
  /\ Destroy \in Run
BY DEF ApplyOf, PlanOf, Destroy, Run

-------------------------------------------------------------------------------
(* The steps by what they do to the groups.                                *)
Asked ==
  \E run \in Run :
    /\ pending' = [pending EXCEPT ![GroupOf(run)] = run]
    /\ UNCHANGED <<active, at, up, state, applied>>
    /\ main' \in Commit /\ main <= main' /\ run.commit <= main'
    /\ Fresh(run) => run.commit = main'

Starts(g) ==
  /\ at[g] \in {"started", "planned"} /\ Gets(g)
  /\ \E place \in {"planning", "applying"} :
       /\ at' = [at EXCEPT ![g] = place]
       /\ place = "planning" => at[g] = "started"
       /\ place = "applying" => What(g) # "plan"
  /\ UNCHANGED <<main, pending, active, up, since, applied>>

Plans(g) ==
  /\ at[g] = "planning" /\ What(g) = "apply" /\ holder' = "nobody"
  /\ at' = [at EXCEPT ![g] = "planned"]
  /\ UNCHANGED <<main, pending, active, up, since, applied>>

Over(g) ==
  /\ OnRunner(g)
  /\ Leaves(g, FALSE) \/ (at[g] = "applying" /\ Leaves(g, TRUE))
  /\ holder' = IF holder # g THEN holder ELSE holder'
  /\ holder = g => holder' \in {"nobody", "reader", "writer"}
  /\ holder' = "writer" /\ holder # "writer" => at[g] = "applying"
  /\ \/ applied' = applied
     \/ at[g] = "applying" /\ What(g) = "apply" /\ applied' = active[g].commit
  /\ up' = up \/ up' = up - 1

(* That a commit was missed stays a truth value.                            *)
LEMMA MissedType == Types /\ Next => missed' \in BOOLEAN
<1> USE DEF Types, queue, state
<1> SUFFICES ASSUME Types, Next
             PROVE  missed' \in BOOLEAN
  OBVIOUS
<1>1. CASE Push \/ Dispatch \/ ConfirmDestroy \/ (\E c \in Commit : RunAgain(c))
             \/ (\E pr \in PullRequest : Propose(pr))
  BY <1>1, Zenon DEF Push, Dispatch, ConfirmDestroy, RunAgain, Propose, Enqueue
<1>2. CASE PushWithoutRun
  BY <1>2, Zenon DEF PushWithoutRun
<1>3. ASSUME NEW g \in Group, Promote(g) \/ Assign(g) \/ Advance(g) \/ RunFails(g)
                               \/ RunnerLost(g)
      PROVE  missed' \in BOOLEAN
  <2>1. CASE Falls(g)
    BY <2>1, Zenon DEF Falls
  <2>2. CASE UNCHANGED missed
    BY <2>2, Zenon
  <2>3. CASE ApplyEnds(g)
    BY <2>3, Zenon DEF ApplyEnds
  <2>4. QED
    BY <1>3, <2>1, <2>2, <2>3, Zenon DEF Promote, Assign, Advance, RunFails, RunnerLost,
       StartPlanning, StartDestroying, StartApplying, RefusesStale, GivesUp, PlanEnds,
       DestroyEnds
<1>4. CASE RunnerBack \/ StrayWrites \/ StrayEnds \/ ForceUnlock \/ StartByHand \/ EndByHand
  BY <1>4, Zenon DEF RunnerBack, StrayWrites, StrayEnds, ForceUnlock, StartByHand, EndByHand
<1>5. QED
  BY <1>1, <1>2, <1>3, <1>4, Zenon DEF Next

(* Each way of asking for a run puts a run of its kind in the queue.       *)
Queues(run) ==
  /\ pending' = [pending EXCEPT ![GroupOf(run)] = run]
  /\ UNCHANGED <<active, at, up, state, applied>>

(* Whoever asks for a run queues it in its own group, and replaces at       *)
(* most the run pending there.                                              *)
LEMMA AskedFacts ==
  ASSUME Types, Push \/ Dispatch \/ ConfirmDestroy \/ (\E c \in Commit : RunAgain(c))
                  \/ (\E pr \in PullRequest : Propose(pr))
  PROVE  Asked
<1>1. main \in Commit /\ main \in Int /\ MaxCommits \in Int /\ 0 <= main
  BY CommitsAssumption DEF Types, Commit
<1>2. CASE Push
  <2>1. PICK run \in Run : run = ApplyOf(main + 1, FALSE)
    <3>1. main + 1 \in Commit
      BY <1>1, <1>2 DEF Push, Commit
    <3>2. QED
      BY <3>1, Asks
  <2>2. main' = main + 1 /\ Queues(run)
    BY <1>2, <2>1 DEF Push, Enqueue, Queues
  <2>3. run.commit = main'
    BY <2>1, <2>2 DEF ApplyOf
  <2>4. main' \in Commit
    BY <2>3, RunKinds
  <2>5. main' \in Commit /\ main <= main' /\ run.commit <= main'
    BY <1>1, <2>2, <2>3, <2>4
  <2>6. Fresh(run) => run.commit = main'
    BY <1>1, <2>2, <2>3, <2>4, Zenon DEF Fresh
  <2>7. QED
    BY <2>2, <2>5, <2>6, Zenon DEF Asked, Queues
<1>3. CASE Dispatch
  <2>1. PICK run \in Run : run = ApplyOf(main, FALSE)
    BY <1>1, Asks
  <2>2. main' = main /\ Queues(run)
    BY <1>3, <2>1 DEF Dispatch, Enqueue, Queues
  <2>3. run.commit = main'
    BY <2>1, <2>2 DEF ApplyOf
  <2>4. main' \in Commit /\ main <= main' /\ run.commit <= main'
    BY <1>1, <2>2, <2>3
  <2>5. Fresh(run) => run.commit = main'
    BY <1>1, <2>2, <2>3, Zenon DEF Fresh
  <2>6. QED
    BY <2>2, <2>4, <2>5, Zenon DEF Asked, Queues
<1>4. ASSUME NEW c \in Commit, RunAgain(c)
      PROVE  Asked
  <2>1. PICK run \in Run : run = ApplyOf(c, TRUE)
    BY Asks
  <2>2. main' = main /\ Queues(run) /\ c < main
    BY <1>4, <2>1 DEF RunAgain, Enqueue, Queues
  <2>3. run.commit = c
    BY <2>1 DEF ApplyOf
  <2>4. run.again
    BY <2>1, Zenon DEF ApplyOf
  <2>5. c \in Int
    BY DEF Commit
  <2>6. main' \in Commit /\ main <= main' /\ run.commit <= main'
    BY <1>1, <2>2, <2>3, <2>4, <2>5
  <2>7. Fresh(run) => run.commit = main'
    BY <1>1, <2>2, <2>3, <2>4, <2>5, Zenon DEF Fresh
  <2>8. QED
    BY <2>2, <2>6, <2>7, Zenon DEF Asked, Queues
<1>5. CASE ConfirmDestroy
  <2>1. PICK run \in Run : run = Destroy
    BY Asks
  <2>2. main' = main /\ Queues(run)
    BY <1>5, <2>1 DEF ConfirmDestroy, Enqueue, Queues
  <2>3. run.commit = 0 /\ run.what = "destroy"
    BY <2>1 DEF Destroy
  <2>4. main' \in Commit /\ main <= main' /\ run.commit <= main'
    BY <1>1, <2>2, <2>3
  <2>5. Fresh(run) => run.commit = main'
    BY <1>1, <2>2, <2>3, Zenon DEF Fresh
  <2>6. QED
    BY <2>2, <2>4, <2>5, Zenon DEF Asked, Queues
<1>6. ASSUME NEW pr \in PullRequest, Propose(pr)
      PROVE  Asked
  <2>1. PICK run \in Run : run = PlanOf(pr)
    BY Asks
  <2>2. main' = main /\ Queues(run)
    BY <1>6, <2>1 DEF Propose, Enqueue, Queues
  <2>3. run.commit = 0 /\ run.what = "plan"
    BY <2>1 DEF PlanOf
  <2>4. main' \in Commit /\ main <= main' /\ run.commit <= main'
    BY <1>1, <2>2, <2>3
  <2>5. Fresh(run) => run.commit = main'
    BY <1>1, <2>2, <2>3, Zenon DEF Fresh
  <2>6. QED
    BY <2>2, <2>4, <2>5, Zenon DEF Asked, Queues
<1>7. QED
  BY <1>2, <1>3, <1>4, <1>5, <1>6

(* A run that moves on starts to work, plans, or is over.                   *)
LEMMA AdvanceFacts ==
  ASSUME Types, LockHeld, InPlace, NEW g \in Group,
         Advance(g) \/ RunFails(g) \/ RunnerLost(g)
  PROVE  Starts(g) \/ Plans(g) \/ Over(g)
<1> USE DEF OnRunner, state, queue
<1>1. CASE StartPlanning(g) \/ StartDestroying(g) \/ StartApplying(g)
  BY <1>1 DEF StartPlanning, StartDestroying, StartApplying, Starts, InPlace
<1>2. CASE RefusesStale(g) \/ GivesUp(g)
  BY <1>2 DEF RefusesStale, GivesUp, Over, LockHeld
<1>3. CASE PlanEnds(g)
  BY <1>3 DEF PlanEnds, Plans, Over, LockHeld
<1>4. CASE ApplyEnds(g) \/ DestroyEnds(g)
  BY <1>4 DEF ApplyEnds, DestroyEnds, Over, LockHeld
<1>5. CASE RunFails(g)
  BY <1>5 DEF RunFails, Over, LockHeld, Released, Leaves
<1>6. CASE RunnerLost(g)
  BY <1>6 DEF RunnerLost, Over, LockHeld
<1>7. QED
  BY <1>1, <1>2, <1>3, <1>4, <1>5, <1>6 DEF Advance

(* What a run leaves behind in its group and the others.                   *)
LEMMA LeavesFacts ==
  ASSUME Types, NEW g \in Group, NEW wrote \in BOOLEAN, Leaves(g, wrote)
  PROVE  /\ active' \in [Group -> Run \cup {None}] /\ at' \in [Group -> Place]
         /\ since' \in [Group -> {"nobody", "job", "operator"}]
         /\ active'[g] = None /\ at'[g] = "none" /\ since'[g] = "nobody"
         /\ \A h \in Group \ {g} :
              /\ active'[h] = active[h] /\ at'[h] = at[h]
              /\ since'[h] = since[h] \/ (wrote /\ Read(h) /\ since'[h] = "job")
         /\ UNCHANGED <<main, pending>>
<1>1. CASE wrote
  BY <1>1 DEF Types, Leaves, Place, MovedBy
<1>2. CASE ~wrote
  BY <1>2 DEF Types, Leaves, Place
<1>3. QED
  BY <1>1, <1>2

Aside ==
  \/ PushWithoutRun \/ RunnerBack \/ StrayWrites \/ StrayEnds \/ ForceUnlock
  \/ StartByHand \/ EndByHand

(* The kinds of step there are.                                             *)
LEMMA StepKinds ==
  ASSUME Types, LockHeld, InPlace, Next
  PROVE  \/ Asked
         \/ \E g \in Group : Promote(g) \/ Assign(g) \/ Starts(g) \/ Plans(g) \/ Over(g)
         \/ Aside
BY AskedFacts, AdvanceFacts, Zenon DEF Next, Aside

-------------------------------------------------------------------------------
(* The runs that are on runners.                                           *)
On == {g \in Group : OnRunner(g)}

(* The runs on runners can be counted.                                      *)
LEMMA OnFinite == IsFiniteSet(On) /\ Busy = Cardinality(On) /\ Busy \in Nat
<1>1. IsFiniteSet(Group)
  <2>1. IsFiniteSet({"lab", "other"})
    <3>1. {"lab", "other"} = {"lab"} \cup {"other"}
      OBVIOUS
    <3>2. IsFiniteSet({"lab"})
      BY FS_Singleton
    <3>3. IsFiniteSet({"lab"} \cup {"other"})
      BY <3>2, FS_AddElement
    <3>4. QED
      BY <3>1, <3>3
  <2>2. QED
    BY <2>1, FS_Union, PullRequestAssumption DEF Group
<1>2. On \subseteq Group
  BY DEF On
<1>3. QED
  BY <1>1, <1>2, FS_Subset, FS_CardinalityType DEF On, Busy

(* No step takes a runner that is not there.                                *)
LEMMA RunnersStep ==
  ASSUME Types, RunnersSuffice, LockHeld, InPlace, Next
  PROVE  RunnersSuffice' /\ up' \in 0..Runners
<1> USE RunnersAssumption, OnFinite DEF RunnersSuffice
<1>1. up \in Int /\ 0 <= up /\ up <= Runners /\ Runners \in Int
  BY DEF Types
<1>2. On' = {g \in Group : at'[g] \notin {"none", "queued"}} /\ Busy' = Cardinality(On')
  BY DEF On, Busy, OnRunner
<1>3. On = {g \in Group : at[g] \notin {"none", "queued"}}
  BY DEF On, OnRunner
<1>4. CASE On' = On /\ up' \in up..Runners
  BY <1>1, <1>2, <1>4
<1>5. CASE Asked \/ Aside
  <2>1. On' = On
    BY <1>2, <1>3, <1>5 DEF Asked, Aside, PushWithoutRun, RunnerBack, StrayWrites, StrayEnds,
       ForceUnlock, StartByHand, EndByHand, queue
  <2>2. up' \in up..Runners
    BY <1>1, <1>5 DEF Asked, Aside, PushWithoutRun, RunnerBack, StrayWrites, StrayEnds,
       ForceUnlock, StartByHand, EndByHand, queue
  <2>3. QED
    BY <2>1, <2>2, <1>4
<1>6. ASSUME NEW g \in Group, Promote(g) \/ Starts(g) \/ Plans(g)
      PROVE  RunnersSuffice' /\ up' \in 0..Runners
  <2>1. On' = On
    BY <1>2, <1>3, <1>6 DEF Promote, Starts, Plans, Types, InPlace
  <2>2. up' = up
    BY <1>6 DEF Promote, Starts, Plans
  <2>3. QED
    BY <1>1, <2>1, <2>2, <1>4
<1>7. ASSUME NEW g \in Group, Assign(g)
      PROVE  RunnersSuffice' /\ up' \in 0..Runners
  <2>1. On' = On \cup {g} /\ g \notin On
    BY <1>2, <1>3, <1>7 DEF Assign, Types
  <2>2. Cardinality(On') = Cardinality(On) + 1
    BY <2>1, FS_AddElement
  <2>3. QED
    BY <1>1, <1>2, <1>7, <2>2 DEF Assign
<1>8. ASSUME NEW g \in Group, Over(g)
      PROVE  RunnersSuffice' /\ up' \in 0..Runners
  <2>1. On' = On \ {g} /\ g \in On
    <3>1. at'[g] = "none" /\ \A h \in Group \ {g} : at'[h] = at[h]
      BY <1>8, LeavesFacts DEF Over
    <3>2. QED
      BY <1>2, <1>3, <1>8, <3>1 DEF Over, OnRunner
  <2>2. Cardinality(On') = Cardinality(On) - 1
    BY <2>1, FS_RemoveElement
  <2>3. up' = up \/ up' = up - 1
    BY <1>8 DEF Over
  <2>4. Cardinality(On') \in Nat
    BY <2>1, FS_RemoveElement, FS_CardinalityType
  <2>5. QED
    BY <1>1, <1>2, <2>2, <2>3, <2>4
<1>9. QED
  BY <1>5, <1>6, <1>7, <1>8, StepKinds

(* Who holds the lock is who uses the state.                               *)
LEMMA LockStep ==
  ASSUME Types, LockHeld, InPlace, Next
  PROVE  LockHeld'
<1> USE DEF LockHeld
<1>1. CASE Asked
  BY <1>1 DEF Asked, state
<1>2. ASSUME NEW g \in Group, Promote(g) \/ Assign(g)
      PROVE  LockHeld'
  BY <1>2 DEF Promote, Assign, state, Types, InPlace
<1>3. ASSUME NEW g \in Group, Starts(g)
      PROVE  LockHeld'
  <2>1. holder' = g /\ \A h \in Group : at[h] \notin {"planning", "applying"}
    BY <1>3, PullRequestAssumption DEF Starts, Gets, Group
  <2>2. at'[g] \in {"planning", "applying"} /\ \A h \in Group \ {g} : at'[h] = at[h]
    BY <1>3 DEF Starts, Types
  <2>3. QED
    BY <2>1, <2>2
<1>4. ASSUME NEW g \in Group, Plans(g)
      PROVE  LockHeld'
  <2>1. holder = g /\ holder' = "nobody" /\ \A h \in Group : holder' # h
    BY <1>4, PullRequestAssumption DEF Plans, Group
  <2>2. at'[g] = "planned" /\ \A h \in Group \ {g} : at'[h] = at[h]
    BY <1>4 DEF Plans, Types
  <2>3. QED
    BY <2>1, <2>2
<1>5. ASSUME NEW g \in Group, Over(g)
      PROVE  LockHeld'
  <2>1. at'[g] = "none" /\ \A h \in Group \ {g} : at'[h] = at[h]
    BY <1>5, LeavesFacts DEF Over
  <2>2. CASE holder = g
    <3>1. \A h \in Group : holder' # h
      BY <1>5, <2>2, PullRequestAssumption DEF Over, Group
    <3>2. QED
      BY <2>1, <2>2, <3>1
  <2>3. CASE holder # g
    BY <1>5, <2>1, <2>3 DEF Over
  <2>4. QED
    BY <2>2, <2>3
<1>6. CASE Aside
  <2>1. UNCHANGED at
    BY <1>6 DEF Aside, PushWithoutRun, RunnerBack, StrayWrites, StrayEnds, ForceUnlock,
       StartByHand, EndByHand, queue
  <2>2. holder' = holder \/ (holder \notin Group /\ holder' \notin Group)
    BY <1>6, PullRequestAssumption DEF Aside, PushWithoutRun, RunnerBack, StrayWrites,
       StrayEnds, ForceUnlock, StartByHand, EndByHand, state, Group
  <2>3. QED
    BY <2>1, <2>2
<1>7. QED
  BY <1>1, <1>2, <1>3, <1>4, <1>5, <1>6, StepKinds

(* Every step keeps the types.                                              *)
LEMMA TypesStep ==
  ASSUME Types, RunnersSuffice, LockHeld, InPlace, Next
  PROVE  Types'
<1>1. missed' \in BOOLEAN /\ up' \in 0..Runners
  BY MissedType, RunnersStep
<1>2. CASE Asked
  <2>1. PICK run \in Run :
          /\ pending' = [pending EXCEPT ![GroupOf(run)] = run]
          /\ UNCHANGED <<active, at, up, state, applied>>
          /\ main' \in Commit
    BY <1>2, Zenon DEF Asked
  <2>2. pending' \in [Group -> Run \cup {None}]
    BY <2>1, Groups DEF Types
  <2>3. QED
    BY <1>1, <2>1, <2>2 DEF Types, state
<1>3. ASSUME NEW g \in Group, Promote(g) \/ Assign(g)
      PROVE  Types'
  BY <1>1, <1>3 DEF Types, Promote, Assign, state, Place
<1>4. ASSUME NEW g \in Group, Starts(g) \/ Plans(g)
      PROVE  Types'
  BY <1>1, <1>4 DEF Types, Starts, Plans, Gets, Place
<1>5. ASSUME NEW g \in Group, Over(g)
      PROVE  Types'
  <2>1. /\ active' \in [Group -> Run \cup {None}] /\ at' \in [Group -> Place]
        /\ since' \in [Group -> {"nobody", "job", "operator"}]
        /\ UNCHANGED <<main, pending>>
    BY <1>5, LeavesFacts DEF Over
  <2>2. holder' \in Group \cup {"nobody", "operator", "reader", "writer", "stuck"}
    BY <1>5 DEF Over, Types
  <2>3. applied' \in Commit
    <3>1. CASE applied' = applied
      BY <3>1 DEF Types
    <3>2. CASE applied' = active[g].commit /\ What(g) = "apply"
      <4>1. active[g] \in Run
        BY <3>2, NoneFacts DEF Types, What
      <4>2. QED
        BY <3>2, <4>1, RunKinds
    <3>3. QED
      BY <1>5, <3>1, <3>2 DEF Over
  <2>4. QED
    BY <1>1, <2>1, <2>2, <2>3 DEF Types
<1>6. CASE Aside
  <2>1. main' \in Commit
    BY <1>6, CommitsAssumption DEF Types, Commit, Aside, PushWithoutRun, RunnerBack,
       StrayWrites, StrayEnds, ForceUnlock, StartByHand, EndByHand
  <2>2. since' \in [Group -> {"nobody", "job", "operator"}]
    BY <1>6 DEF Types, Aside, PushWithoutRun, RunnerBack, StrayWrites, StrayEnds, ForceUnlock,
       StartByHand, EndByHand, state, MovedBy
  <2>3. QED
    BY <1>1, <1>6, <2>1, <2>2 DEF Types, Aside, PushWithoutRun, RunnerBack, StrayWrites,
       StrayEnds, ForceUnlock, StartByHand, EndByHand, state, queue
<1>7. QED
  BY <1>2, <1>3, <1>4, <1>5, <1>6, StepKinds

-------------------------------------------------------------------------------
(* Runs stay in the group of their kind.                                   *)
LEMMA PlaceStep ==
  ASSUME Types, LockHeld, InPlace, Next
  PROVE  InPlace'
<1>1. CASE Asked
  <2>1. PICK run \in Run :
          /\ pending' = [pending EXCEPT ![GroupOf(run)] = run]
          /\ UNCHANGED <<active, at, up, state, applied>>
    BY <1>1, Zenon DEF Asked
  <2>2. \A g \in Group : pending'[g] # None => GroupOf(pending'[g]) = g
    BY <2>1, Groups DEF Types, InPlace
  <2>3. QED
    BY <2>1, <2>2 DEF InPlace, What
<1>2. ASSUME NEW g \in Group, Promote(g)
      PROVE  InPlace'
  <2>1. /\ pending'[g] = None /\ active'[g] = pending[g] /\ pending[g] # None
        /\ at'[g] = "queued"
        /\ \A h \in Group \ {g} :
             pending'[h] = pending[h] /\ active'[h] = active[h] /\ at'[h] = at[h]
    BY <1>2 DEF Promote, Types
  <2>2. QED
    BY <2>1 DEF InPlace, What
<1>3. ASSUME NEW g \in Group, Assign(g)
      PROVE  InPlace'
  BY <1>3 DEF Assign, InPlace, Types, What
<1>4. ASSUME NEW g \in Group, Starts(g) \/ Plans(g)
      PROVE  InPlace'
  BY <1>4 DEF Starts, Plans, InPlace, Types, What
<1>5. ASSUME NEW g \in Group, Over(g)
      PROVE  InPlace'
  <2>1. /\ active'[g] = None /\ at'[g] = "none" /\ UNCHANGED pending
        /\ \A h \in Group \ {g} : active'[h] = active[h] /\ at'[h] = at[h]
    BY <1>5, LeavesFacts DEF Over
  <2>2. QED
    BY <2>1 DEF InPlace, What
<1>6. CASE Aside
  BY <1>6 DEF InPlace, What, Aside, PushWithoutRun, RunnerBack, StrayWrites, StrayEnds,
     ForceUnlock, StartByHand, EndByHand, queue
<1>7. QED
  BY <1>1, <1>2, <1>3, <1>4, <1>5, <1>6, StepKinds

(* While a run of the lab applies, and while a Terraform that outlived one *)
(* may write, no other group has read the state.                           *)
LEMMA Alone ==
  ASSUME Types, LockHeld, InPlace, Views
  PROVE  /\ \A g, h \in Group : at[g] = "applying" /\ Read(h) => h = g
         /\ holder = "writer" => \A h \in Group : ~Read(h)
<1>1. ASSUME NEW g \in Group, at[g] \in {"planned", "applying"}
      PROVE  g = "lab"
  <2>1. active[g] \in Run /\ What(g) # "plan" /\ GroupOf(active[g]) = g
    BY <1>1 DEF InPlace, Types
  <2>2. QED
    BY <2>1, Groups DEF What
<1>2. ASSUME NEW g \in Group, NEW h \in Group, at[g] = "applying", Read(h)
      PROVE  h = g
  <2>1. CASE at[h] = "planned"
    BY <1>1, <1>2, <2>1
  <2>2. CASE at[h] \in {"planning", "applying"}
    BY <1>2, <2>2 DEF LockHeld
  <2>3. QED
    BY <1>2, <2>1, <2>2 DEF Read
<1>3. ASSUME NEW h \in Group, holder = "writer", Read(h)
      PROVE  FALSE
  <2>1. at[h] = "planned"
    BY <1>3, PullRequestAssumption DEF Read, LockHeld, Group
  <2>2. QED
    BY <1>1, <1>3, <2>1 DEF Views
<1>4. QED
  BY <1>2, <1>3

(* No step changes the state under a run that has looked at it.             *)
LEMMA ViewsStep ==
  ASSUME Types, LockHeld, InPlace, Views, PlanStillTrue, Next
  PROVE  Views' /\ PlanStillTrue'
<1> USE DEF Views, PlanStillTrue, Read
<1>1. CASE Asked
  BY <1>1 DEF Asked, state
<1>2. ASSUME NEW g \in Group, Promote(g) \/ Assign(g)
      PROVE  Views' /\ PlanStillTrue'
  <2>1. /\ at'[g] \in {"queued", "started"} /\ at[g] \in {"none", "queued"}
        /\ \A h \in Group \ {g} : at'[h] = at[h]
        /\ UNCHANGED state
    BY <1>2 DEF Promote, Assign, Types, InPlace
  <2>2. "lab" \in Group
    BY DEF Group
  <2>3. QED
    BY <2>1, <2>2 DEF state
<1>3. ASSUME NEW g \in Group, Starts(g)
      PROVE  Views' /\ PlanStillTrue'
  <2>1. holder' = g /\ g # "writer" /\ UNCHANGED since
    BY <1>3, PullRequestAssumption DEF Starts, Gets, Group
  <2>2. /\ at'[g] \in {"planning", "applying"} /\ at[g] \in {"started", "planned"}
        /\ \A h \in Group \ {g} : at'[h] = at[h]
    BY <1>3 DEF Starts, Types
  <2>3. QED
    BY <2>1, <2>2
<1>4. ASSUME NEW g \in Group, Plans(g)
      PROVE  Views' /\ PlanStillTrue'
  <2>1. /\ at'[g] = "planned" /\ at[g] = "planning" /\ holder' = "nobody" /\ UNCHANGED since
        /\ \A h \in Group \ {g} : at'[h] = at[h]
    BY <1>4 DEF Plans, Types
  <2>2. QED
    BY <2>1
<1>5. ASSUME NEW g \in Group, Over(g)
      PROVE  Views' /\ PlanStillTrue'
  <2>1. /\ at'[g] = "none" /\ since'[g] = "nobody"
        /\ \A h \in Group \ {g} : at'[h] = at[h]
    BY <1>5, LeavesFacts DEF Over
  <2>2. ASSUME NEW h \in Group \ {g}
        PROVE  since'[h] = since[h]
    <3>1. since'[h] = since[h] \/ (at[g] = "applying" /\ Read(h))
      BY <1>5, LeavesFacts DEF Over
    <3>2. QED
      BY <3>1, Alone
  <2>3. "lab" \in Group /\ (holder' = "writer" /\ holder # "writer" => g = "lab")
    <3>1. at[g] = "applying" => g = "lab"
      <4>1. ASSUME at[g] = "applying"
            PROVE  active[g] \in Run /\ What(g) # "plan" /\ GroupOf(active[g]) = g
        BY <4>1 DEF InPlace, Types
      <4>2. QED
        BY <4>1, Groups DEF What
    <3>2. QED
      BY <1>5, <3>1 DEF Over, Group
  <2>4. QED
    BY <2>1, <2>2, <2>3
<1>6. CASE Aside
  <2>1. UNCHANGED at
    BY <1>6 DEF Aside, PushWithoutRun, RunnerBack, StrayWrites, StrayEnds, ForceUnlock,
       StartByHand, EndByHand, queue
  <2>2. holder' = "writer" => holder = "writer"
    BY <1>6 DEF Aside, PushWithoutRun, RunnerBack, StrayWrites, StrayEnds, ForceUnlock,
       StartByHand, EndByHand, state
  <2>3. CASE StrayWrites
    <3>1. \A h \in Group : since'[h] = since[h]
      BY <2>3, Alone DEF StrayWrites, MovedBy
    <3>2. QED
      BY <2>1, <2>2, <3>1
  <2>4. CASE EndByHand
    <3>1. \A h \in Group : since'[h] = since[h] \/ (Read(h) /\ since'[h] = "operator")
      BY <2>4 DEF EndByHand, MovedBy
    <3>2. QED
      BY <2>1, <2>2, <3>1
  <2>5. CASE ~StrayWrites /\ ~EndByHand
    <3>1. UNCHANGED since
      BY <1>6, <2>5 DEF Aside, PushWithoutRun, RunnerBack, StrayEnds, ForceUnlock,
         StartByHand, state
    <3>2. QED
      BY <2>1, <2>2, <3>1
  <2>6. QED
    BY <2>3, <2>4, <2>5
<1>7. QED
  BY <1>1, <1>2, <1>3, <1>4, <1>5, <1>6, StepKinds

-------------------------------------------------------------------------------
(* Commits are numbers.                                                     *)
LEMMA Numbers ==
  ASSUME Types
  PROVE  /\ main \in Int /\ applied \in Int
         /\ \A g \in Group : pending[g].commit \in Int /\ active[g].commit \in Int
                               /\ 0 <= pending[g].commit /\ 0 <= active[g].commit
<1>1. ASSUME NEW run \in Run \cup {None}
      PROVE  run.commit \in Int /\ 0 <= run.commit
  BY RunKinds, NoneFacts, CommitsAssumption DEF Commit
<1>2. QED
  BY <1>1, CommitsAssumption DEF Types, Commit

(* Only the group of the lab applies.                                       *)
LEMMA ApplyIsLabs ==
  ASSUME Types, InPlace, NEW g \in Group, at[g] = "applying"
  PROVE  g = "lab"
<1>1. active[g] \in Run /\ What(g) # "plan" /\ GroupOf(active[g]) = g
  BY DEF InPlace, Types
<1>2. QED
  BY <1>1, Groups DEF What

(* Runs that nobody asked for again keep the order of their commits.        *)
LEMMA SequenceStep ==
  ASSUME Types, LockHeld, InPlace, InSequence, Next
  PROVE  InSequence'
<1> USE Numbers DEF InSequence
<1>1. "lab" \in Group /\ ~Fresh(None)
  BY NoneFacts DEF Group, Fresh
<1>2. CASE Asked
  <2>1. PICK run \in Run :
          /\ pending' = [pending EXCEPT ![GroupOf(run)] = run]
          /\ UNCHANGED <<active, at, up, state, applied>>
          /\ main' \in Commit /\ main <= main' /\ run.commit <= main'
          /\ Fresh(run) => run.commit = main'
    BY <1>2, Zenon DEF Asked
  <2>2. main' \in Int /\ run.commit \in Int
    BY <2>1, RunKinds, CommitsAssumption DEF Commit
  <2>3. \A g \in Group : pending'[g] = IF g = GroupOf(run) THEN run ELSE pending[g]
    BY <2>1, Groups DEF Types
  <2>4. \A g \in Group : pending'[g].commit <= main' /\ active'[g].commit <= main'
    BY <2>1, <2>2, <2>3
  <2>5. CASE GroupOf(run) = "lab"
    BY <1>1, <2>1, <2>2, <2>3, <2>4, <2>5
  <2>6. CASE GroupOf(run) # "lab"
    BY <1>1, <2>1, <2>2, <2>3, <2>4, <2>6
  <2>7. QED
    BY <2>5, <2>6
<1>3. ASSUME NEW g \in Group, Promote(g)
      PROVE  InSequence'
  <2>1. /\ pending'[g] = None /\ active'[g] = pending[g] /\ active[g] = None
        /\ \A h \in Group \ {g} : pending'[h] = pending[h] /\ active'[h] = active[h]
        /\ UNCHANGED <<main, applied>>
    BY <1>3 DEF Promote, Types
  <2>2. 0 <= main
    BY CommitsAssumption DEF Types, Commit
  <2>3. QED
    BY <1>1, <2>1, <2>2, NoneFacts
<1>4. ASSUME NEW g \in Group, Assign(g) \/ Starts(g) \/ Plans(g)
      PROVE  InSequence'
  BY <1>4 DEF Assign, Starts, Plans
<1>5. ASSUME NEW g \in Group, Over(g)
      PROVE  InSequence'
  <2>1. /\ active'[g] = None /\ UNCHANGED <<main, pending>>
        /\ \A h \in Group \ {g} : active'[h] = active[h]
    BY <1>5, LeavesFacts DEF Over
  <2>2. applied' = applied \/ (g = "lab" /\ applied' = active[g].commit)
    BY <1>5, ApplyIsLabs DEF Over
  <2>3. 0 <= main
    BY CommitsAssumption DEF Types, Commit
  <2>4. QED
    BY <1>1, <2>1, <2>2, <2>3, NoneFacts
<1>6. CASE Aside
  BY <1>6 DEF Aside, PushWithoutRun, RunnerBack, StrayWrites, StrayEnds, ForceUnlock,
     StartByHand, EndByHand, queue
<1>7. QED
  BY <1>2, <1>3, <1>4, <1>5, <1>6, StepKinds

(* The inductive invariant holds at the start,                              *)
LEMMA InitIInv == Init => IInv
<1> SUFFICES ASSUME Init
             PROVE  IInv
  OBVIOUS
<1> USE DEF Init
<1>1. Types
  <2>1. main \in Commit /\ applied \in Commit /\ up \in 0..Runners
    BY CommitsAssumption, RunnersAssumption DEF Commit
  <2>2. missed \in BOOLEAN
    BY Zenon
  <2>3. QED
    BY <2>1, <2>2 DEF Types, Place
<1>2. LockHeld /\ InPlace /\ Views /\ PlanStillTrue
  BY PullRequestAssumption DEF LockHeld, InPlace, Views, PlanStillTrue, Read, Group
<1>3. RunnersSuffice
  <2>1. On = {}
    BY DEF On, OnRunner
  <2>2. QED
    BY <2>1, OnFinite, FS_EmptySet, RunnersAssumption DEF RunnersSuffice
<1>4. InSequence
  BY NoneFacts DEF InSequence, Fresh, Group
<1>5. QED
  BY <1>1, <1>2, <1>3, <1>4 DEF IInv

(* and every step keeps it,                                                 *)
LEMMA StepIInv == IInv /\ [Next]_vars => IInv'
<1> SUFFICES ASSUME IInv, [Next]_vars
             PROVE  IInv'
  OBVIOUS
<1>1. CASE Next
  BY <1>1, TypesStep, RunnersStep, LockStep, PlaceStep, ViewsStep, SequenceStep DEF IInv
<1>2. CASE UNCHANGED vars
  <2>1. UNCHANGED <<main, pending, active, at, up, holder, since, applied, missed>>
    BY <1>2 DEF vars, queue, state
  <2>2. QED
    BY <2>1 DEF IInv, Types, RunnersSuffice, Busy, OnRunner, LockHeld, InPlace, What, Views,
       Read, PlanStillTrue, InSequence
<1>3. QED
  BY <1>1, <1>2

(* so that it holds throughout: types, runners, lock, places, views and     *)
(* the order of commits.                                                    *)
THEOREM Inductive == Spec => []IInv
BY InitIInv, StepIInv, PTL DEF Spec

-------------------------------------------------------------------------------
(* Every variable keeps its type, no more runs are on runners than there   *)
(* are, and the lock is held by the run that uses the state, if any.       *)
THEOREM PipelineTypeCorrect == Spec => []TypeOK
<1>1. IInv => TypeOK
  BY DEF IInv, Types, RunnersSuffice, LockHeld, TypeOK
<1>2. QED
  BY <1>1, Inductive, PTL

(* No job changes the state under a plan that another has made, whatever   *)
(* the number of pull requests and runners: the one group of applies and   *)
(* destroys, and Terraform's lock, are enough (terraform-apply.yml:24-36). *)
THEOREM PlansCorrect == Spec => []PlanStillTrue
BY Inductive, PTL DEF IInv

(* A run takes the lab back to an earlier commit only if it is itself one  *)
(* with which somebody asked for that commit; pushes and dispatches do not,*)
(* however many there are and whichever run is active beside them.         *)
THEOREM ForwardCorrect == Spec => NeverBackwards
<1> DEFINE OnPurpose ==
      \E g \in Group :
        at[g] = "applying" /\ active[g].again /\ applied' = active[g].commit
<1>1. ASSUME IInv, Next, applied' < applied
      PROVE  OnPurpose
  <2>1. main \in Int /\ applied \in Int
    BY <1>1, Numbers DEF IInv
  <2>2. PICK g \in Group : Over(g)
    <3>1. CASE Asked
      BY <1>1, <2>1, <3>1 DEF Asked
    <3>2. CASE Aside
      BY <1>1, <2>1, <3>2 DEF Aside, PushWithoutRun, RunnerBack, StrayWrites, StrayEnds,
         ForceUnlock, StartByHand, EndByHand
    <3>3. ASSUME NEW g \in Group, Promote(g) \/ Assign(g) \/ Starts(g) \/ Plans(g)
          PROVE  FALSE
      BY <1>1, <2>1, <3>3 DEF Promote, Assign, Starts, Plans
    <3>4. QED
      BY <1>1, <3>1, <3>2, <3>3, StepKinds DEF IInv
  <2>3. at[g] = "applying" /\ What(g) = "apply" /\ applied' = active[g].commit
    BY <1>1, <2>1, <2>2 DEF Over
  <2>4. g = "lab" /\ active[g].commit \in Int
    BY <1>1, <2>3, ApplyIsLabs, Numbers DEF IInv
  <2>5. ~Fresh(active[g])
    BY <1>1, <2>1, <2>3, <2>4 DEF IInv, InSequence
  <2>6. active[g].again
    BY <2>3, <2>5, Zenon DEF Fresh, What
  <2>7. QED
    BY <2>3, <2>6
<1>2. IInv /\ [Next]_vars => [applied' < applied => OnPurpose]_vars
  BY <1>1, Zenon
<1>3. QED
  BY <1>2, Inductive, PTL DEF Spec, NeverBackwards

-------------------------------------------------------------------------------
(* What LabFollowsMain rests on, without fairness: as long as main is not  *)
(* in the lab, and nothing has gone wrong, a run that brings it is pending *)
(* or under way.                                                           *)
BringsMain(run) == run.what = "apply" /\ run.commit = main

NothingForgotten ==
  applied = main \/ missed \/ BringsMain(active["lab"]) \/ BringsMain(pending["lab"])

(* The lab has a group, and it is no pull request's.                        *)
LEMMA LabIsGroup == "lab" \in Group /\ \A pr \in PullRequest : pr # "lab"
BY PullRequestAssumption DEF Group

(* A run on its runner in the group of applies and destroys is not a plan. *)
LEMMA LabRuns ==
  ASSUME Types, InPlace, at["lab"] # "none"
  PROVE  active["lab"] \in Run /\ What("lab") \in {"apply", "destroy"}
<1>1. active["lab"] \in Run /\ GroupOf(active["lab"]) = "lab"
  BY LabIsGroup DEF Types, InPlace
<1>2. QED
  BY <1>1, Groups, RunKinds DEF What

(* What leaves the queue, main and the lab alone forgets nothing.           *)
LEMMA StaysKnown ==
  ASSUME NothingForgotten, missed => missed', UNCHANGED <<main, applied>>,
         active'["lab"] = active["lab"], pending'["lab"] = pending["lab"]
  PROVE  NothingForgotten'
BY Zenon DEF NothingForgotten, BringsMain

(* A request for a run drops the pending one, which is counted if it was   *)
(* the one to bring main.                                                  *)
LEMMA AskingForgetsNothing ==
  ASSUME Types, InSequence, NothingForgotten,
         \/ Push \/ Dispatch \/ ConfirmDestroy \/ (\E c \in Commit : RunAgain(c))
         \/ \E pr \in PullRequest : Propose(pr)
  PROVE  NothingForgotten'
<1> USE DEF Types
<1>1. main \in Int /\ applied \in Int /\ "lab" \in Group
  BY Numbers, LabIsGroup
<1>2. CASE Push
  <2>1. pending'["lab"] = ApplyOf(main + 1, FALSE) /\ main' = main + 1
    BY <1>1, <1>2 DEF Push, Enqueue, GroupOf, ApplyOf
  <2>2. QED
    BY <2>1 DEF NothingForgotten, BringsMain, ApplyOf
<1>3. CASE Dispatch
  <2>1. pending'["lab"] = ApplyOf(main, FALSE) /\ main' = main
    BY <1>1, <1>3 DEF Dispatch, Enqueue, GroupOf, ApplyOf
  <2>2. QED
    BY <2>1 DEF NothingForgotten, BringsMain, ApplyOf
<1>4. ASSUME NEW run, Enqueue(run), main' = main, run.what = "destroy" \/ run.commit < main,
             GroupOf(run) = "lab"
      PROVE  NothingForgotten'
  <2>1. UNCHANGED <<active, applied>>
    BY <1>4 DEF Enqueue
  <2>2. missed' <=> missed \/ Forgets(pending["lab"], run)
    BY <1>4, Zenon DEF Enqueue
  <2>3. BringsMain(pending["lab"]) => Forgets(pending["lab"], run)
    BY <1>4 DEF BringsMain, Forgets
  <2>4. QED
    BY <1>4, <2>1, <2>2, <2>3, Zenon DEF NothingForgotten, BringsMain
<1>5. ASSUME NEW c \in Commit, RunAgain(c) PROVE NothingForgotten'
  BY <1>4, <1>5 DEF RunAgain, ApplyOf, GroupOf
<1>6. CASE ConfirmDestroy
  BY <1>4, <1>6 DEF ConfirmDestroy, Destroy, GroupOf
<1>7. ASSUME NEW pr \in PullRequest, Propose(pr) PROVE NothingForgotten'
  <2>1. GroupOf(PlanOf(pr)) = pr /\ pr # "lab"
    BY LabIsGroup DEF GroupOf, PlanOf
  <2>2. pending'["lab"] = pending["lab"] /\ UNCHANGED <<main, active, applied>>
    BY <1>1, <1>7, <2>1 DEF Propose, Enqueue
  <2>3. missed => missed'
    BY <1>7, Zenon DEF Propose, Enqueue
  <2>4. QED
    BY <2>2, <2>3, StaysKnown
<1>8. QED
  BY <1>2, <1>3, <1>5, <1>6, <1>7

(* A run that ends brings main, is counted, or was not to bring it.        *)
LEMMA EndingForgetsNothing ==
  ASSUME Types, LockHeld, InPlace, InSequence, NothingForgotten, NEW g \in Group,
         Advance(g) \/ RunFails(g) \/ RunnerLost(g)
  PROVE  NothingForgotten'
<1>1. "lab" \in Group
  BY LabIsGroup
<1>2. CASE StartPlanning(g) \/ StartDestroying(g) \/ StartApplying(g)
  BY <1>2, StaysKnown DEF StartPlanning, StartDestroying, StartApplying
<1>3. CASE g # "lab"
  <2>1. at[g] # "applying"
    BY <1>3, ApplyIsLabs
  <2>2. UNCHANGED <<main, pending, applied>> /\ active'["lab"] = active["lab"]
    <3>1. CASE Over(g)
      <4>1. Leaves(g, FALSE) /\ applied' = applied
        BY <2>1, <3>1 DEF Over
      <4>2. QED
        BY <1>1, <1>3, <4>1 DEF Leaves, Types
    <3>2. CASE Starts(g) \/ Plans(g)
      BY <3>2 DEF Starts, Plans
    <3>3. QED
      BY <3>1, <3>2, AdvanceFacts
  <2>3. missed => missed'
    <3>1. CASE Falls(g)
      BY <3>1, Zenon DEF Falls
    <3>2. CASE UNCHANGED missed
      BY <3>2, Zenon
    <3>3. QED
      BY <2>1, <3>1, <3>2, Zenon
         DEF Advance, RunFails, RunnerLost, StartPlanning, StartDestroying, StartApplying,
             RefusesStale, GivesUp, PlanEnds, ApplyEnds, DestroyEnds
  <2>4. QED
    BY <2>2, <2>3, StaysKnown
<1>4. CASE g = "lab" /\ ~ApplyEnds(g) /\ ~PlanEnds(g)
  <2>1. CASE Falls(g)
    <3>1. at["lab"] # "none"
      <4>1. CASE StartPlanning(g) \/ StartDestroying(g) \/ StartApplying(g)
        BY <1>4, <4>1 DEF StartPlanning, StartDestroying, StartApplying
      <4>2. CASE RefusesStale(g) \/ GivesUp(g) \/ DestroyEnds(g)
        BY <1>4, <4>2 DEF RefusesStale, GivesUp, DestroyEnds
      <4>3. CASE RunFails(g) \/ RunnerLost(g)
        BY <1>4, <4>3 DEF RunFails, RunnerLost, OnRunner
      <4>4. QED
        BY <1>4, <4>1, <4>2, <4>3 DEF Advance
    <3>2. What(g) # "plan"
      BY <1>4, <3>1, LabRuns
    <3>3. missed'
      BY <2>1, <3>2, Zenon DEF Falls
    <3>4. QED
      BY <3>3, Zenon DEF NothingForgotten
  <2>2. QED
    BY <1>2, <1>4, <2>1, Zenon
       DEF Advance, RunFails, RunnerLost, RefusesStale, GivesUp, DestroyEnds
<1>5. CASE g = "lab" /\ PlanEnds(g)
  <2>1. What("lab") # "plan"
    BY <1>5, LabRuns DEF PlanEnds
  <2>2. UNCHANGED <<main, pending, active, applied, missed>>
    BY <1>5, <2>1 DEF PlanEnds
  <2>3. QED
    BY <2>2, StaysKnown
<1>6. CASE g = "lab" /\ ApplyEnds(g)
  <2> DEFINE run == active["lab"]
  <2>1. /\ run.commit \in Int /\ main \in Int /\ applied \in Int /\ run.commit <= main
        /\ Fresh(run) => applied <= run.commit
    BY <1>1, Numbers DEF InSequence
  <2>2. /\ run.what = "apply" /\ applied' = run.commit /\ UNCHANGED <<main, pending>>
        /\ missed' = (run.commit # main /\ (missed \/ run.again))
    BY <1>6, Zenon DEF ApplyEnds, Leaves, What
  <2>3. CASE run.commit = main
    BY <2>2, <2>3 DEF NothingForgotten
  <2>4. CASE run.commit # main /\ (missed \/ run.again)
    BY <2>2, <2>4, Zenon DEF NothingForgotten
  <2>5. CASE run.commit # main /\ ~missed /\ ~run.again
    <3>1. Fresh(run)
      BY <2>2, <2>5, Zenon DEF Fresh
    <3>2. applied # main
      BY <2>1, <2>5, <3>1
    <3>3. BringsMain(pending["lab"])
      BY <2>5, <3>2, Zenon DEF NothingForgotten, BringsMain
    <3>4. QED
      BY <2>2, <3>3 DEF NothingForgotten, BringsMain
  <2>6. QED
    BY <2>3, <2>4, <2>5
<1>7. QED
  BY <1>3, <1>4, <1>5, <1>6

(* No step forgets a push.                                                  *)
LEMMA ForgottenStep ==
  ASSUME Types, LockHeld, InPlace, InSequence, NothingForgotten, Next
  PROVE  NothingForgotten'
<1>1. "lab" \in Group
  BY LabIsGroup
<1>2. CASE PushWithoutRun
  <2>1. missed'
    BY <1>2, Zenon DEF PushWithoutRun
  <2>2. QED
    BY <2>1, Zenon DEF NothingForgotten
<1>3. ASSUME NEW g \in Group, Promote(g) PROVE NothingForgotten'
  <2>1. UNCHANGED <<main, applied, missed>>
    BY <1>3 DEF Promote
  <2>2. CASE g = "lab"
    <3>1. active["lab"] = None /\ active'["lab"] = pending["lab"]
      BY <1>1, <1>3, <2>2 DEF Promote, Types
    <3>2. ~BringsMain(active["lab"])
      BY <3>1, NoneFacts DEF BringsMain
    <3>3. QED
      BY <2>1, <3>1, <3>2, Zenon DEF NothingForgotten, BringsMain
  <2>3. CASE g # "lab"
    <3>1. active'["lab"] = active["lab"] /\ pending'["lab"] = pending["lab"]
      BY <1>1, <1>3, <2>3 DEF Promote, Types
    <3>2. QED
      BY <2>1, <3>1, StaysKnown
  <2>4. QED
    BY <2>2, <2>3
<1>4. ASSUME NEW g \in Group, Assign(g) PROVE NothingForgotten'
  BY <1>4, StaysKnown DEF Assign
<1>5. CASE \/ RunnerBack \/ StrayWrites \/ StrayEnds \/ ForceUnlock \/ StartByHand \/ EndByHand
  BY <1>5, StaysKnown DEF RunnerBack, StrayWrites, StrayEnds, ForceUnlock, StartByHand,
     EndByHand, queue
<1>6. QED
  BY <1>2, <1>3, <1>4, <1>5, AskingForgetsNothing, EndingForgetsNothing, Zenon DEF Next

(* No push is forgotten: main is in the lab, or on its way there, or its   *)
(* loss is one of those that LabFollowsMain names.                         *)
THEOREM NothingForgottenCorrect == Spec => []NothingForgotten
<1>1. Init => NothingForgotten
  BY DEF Init, NothingForgotten
<1>2. IInv /\ NothingForgotten /\ [Next]_vars => NothingForgotten'
  <2>1. CASE UNCHANGED vars
    BY <2>1, Zenon DEF vars, queue, NothingForgotten, BringsMain
  <2>2. QED
    BY <2>1, ForgottenStep DEF IInv
<1>3. QED
  BY <1>1, <1>2, Inductive, PTL DEF Spec

(* Only the one run of terraform-lab-state writes, it has the lock when it *)
(* does, and nobody else has a view of the state then: LabLifecycle models *)
(* applies and destroys as one job at a time.                              *)
WriterAlone ==
  \A g \in Group : at[g] = "applying" =>
    /\ g = "lab" /\ holder = "lab"
    /\ \A h \in Group \ {"lab"} : ~Read(h)

(* Who applies is alone with the state, for any number of pull requests     *)
(* and runners: the one group of applies and destroys, and the lock.        *)
THEOREM OneWriter == Spec => []WriterAlone
<1>1. IInv => WriterAlone
  BY Alone, ApplyIsLabs DEF IInv, LockHeld, WriterAlone
<1>2. QED
  BY <1>1, Inductive, PTL

(* A run that is under way goes forward through its places and is over     *)
(* after five steps at most, whatever others do; nothing sends it back.    *)
Rank == [none |-> 0, applying |-> 1, planned |-> 2, planning |-> 3, started |-> 4, queued |-> 5]

RunsAdvance ==
  [][\A g \in Group : active[g] # None =>
       \/ UNCHANGED <<active[g], at[g]>>
       \/ /\ Rank[at[g]'] < Rank[at[g]]
          /\ active[g]' = IF at[g]' = "none" THEN None ELSE active[g]]_vars

(* The places, spelled out.                                                 *)
LEMMA RankFacts ==
  /\ Rank["queued"] = 5 /\ Rank["started"] = 4 /\ Rank["planning"] = 3
  /\ Rank["planned"] = 2 /\ Rank["applying"] = 1 /\ Rank["none"] = 0
BY DEF Rank

(* Whatever others do, a run goes forward through its places until it is    *)
(* over (NoRunWaitsForever, without that it is given a runner and the       *)
(* lock).                                                                   *)
THEOREM RunsAdvanceCorrect == Spec => RunsAdvance
<1>1. ASSUME IInv, Next, NEW g \in Group, active[g] # None
      PROVE  \/ UNCHANGED <<active[g], at[g]>>
             \/ /\ Rank[at[g]'] < Rank[at[g]]
                /\ active[g]' = IF at[g]' = "none" THEN None ELSE active[g]
  <2> USE RankFacts DEF IInv, Types
  <2>1. CASE Asked \/ Aside
    BY <2>1 DEF Asked, Aside, PushWithoutRun, RunnerBack, StrayWrites, StrayEnds, ForceUnlock,
       StartByHand, EndByHand, queue
  <2> DEFINE Stays == UNCHANGED <<active[g], at[g]>>
             Forward == /\ Rank[at[g]'] < Rank[at[g]]
                        /\ active[g]' = IF at[g]' = "none" THEN None ELSE active[g]
  <2>2. ASSUME NEW h \in Group, Promote(h) PROVE Stays
    BY <1>1, <2>2 DEF Promote
  <2>3. ASSUME NEW h \in Group, Assign(h) PROVE Stays \/ Forward
    <3>1. CASE h = g
      <4>1. at[g] = "queued" /\ at'[g] = "started" /\ active' = active
        BY <1>1, <2>3, <3>1 DEF Assign
      <4>2. QED
        BY <4>1
    <3>2. CASE h # g
      BY <1>1, <2>3, <3>2 DEF Assign
    <3>3. QED
      BY <3>1, <3>2
  <2>4. ASSUME NEW h \in Group, Starts(h) \/ Plans(h) PROVE Stays \/ Forward
    <3>1. CASE h = g
      <4>1. /\ <<at[g], at'[g]>> \in {<<"started", "planning">>, <<"started", "applying">>,
                                     <<"planned", "applying">>, <<"planning", "planned">>}
            /\ active' = active
        BY <1>1, <2>4, <3>1 DEF Starts, Plans
      <4>2. QED
        BY <4>1
    <3>2. CASE h # g
      BY <1>1, <2>4, <3>2 DEF Starts, Plans
    <3>3. QED
      BY <3>1, <3>2
  <2>5. ASSUME NEW h \in Group, Over(h) PROVE Stays \/ Forward
    <3>1. CASE h = g
      <4>1. active'[g] = None /\ at'[g] = "none" /\ at[g] \in Place \ {"none"}
        BY <1>1, <2>5, <3>1, LeavesFacts DEF Over, OnRunner
      <4>2. QED
        BY <4>1 DEF Place
    <3>2. CASE h # g
      <4>1. PICK wrote \in BOOLEAN : Leaves(h, wrote)
        BY <2>5, Zenon DEF Over
      <4>2. active'[g] = active[g] /\ at'[g] = at[g]
        BY <1>1, <3>2, <4>1 DEF Leaves
      <4>3. QED
        BY <4>2
    <3>3. QED
      BY <3>1, <3>2
  <2>6. QED
    BY <1>1, <2>1, <2>2, <2>3, <2>4, <2>5, StepKinds
<1>2. IInv /\ [Next]_vars =>
        [\A g \in Group : active[g] # None =>
           \/ UNCHANGED <<active[g], at[g]>>
           \/ /\ Rank[at[g]'] < Rank[at[g]]
              /\ active[g]' = IF at[g]' = "none" THEN None ELSE active[g]]_vars
  BY <1>1
<1>3. QED
  BY <1>2, Inductive, PTL DEF Spec, RunsAdvance
===============================================================================
