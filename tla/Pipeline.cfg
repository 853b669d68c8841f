CONSTANTS
  PullRequest = {"pr1"}
  Runners = 2
  MaxCommits = 2
SPECIFICATION FairSpec
INVARIANTS
  TypeOK
  PlanStillTrue
PROPERTIES
  NeverBackwards
  LabFollowsMain
  NoRunWaitsForever
