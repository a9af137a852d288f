\* Two rows, each with a runner, and three runners in all.
CONSTANTS
  MAX_JOBS = 2
  MAX_RUNNERS = 2
  MaxForks = 3
SPECIFICATION FairSpec
PROPERTIES
  EndNoticed
  FiniReturns
