\* Three jobs and two runners.
CONSTANTS
  MAX_JOBS = 3
  MAX_RUNNERS = 2
  MaxForks = 3
SPECIFICATION Spec
INVARIANTS
  RunnersAccounted
  NoIdleRunner
  QuitLeavesNothing
PROPERTY
  JobLife
