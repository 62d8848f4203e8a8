SPECIFICATION PoolSpec
CONSTANTS
  NumWorkers = 3
  NumJobs = 3
INVARIANTS ReturnMeansDone EnoughTerminates
PROPERTIES JobsStart DropEnds
