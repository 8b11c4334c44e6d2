SPECIFICATION FairSpec
CONSTANTS
  w1 = w1
  w2 = w2
  w3 = w3
  j1 = j1
  j2 = j2
  j3 = j3
  NoJob = NoJob
  Worker <- MCWorker
  Job <- MCJob
  MaxQueueArg = 2
CHECK_DEADLOCK FALSE
INVARIANTS
  JobsConserved
  NoLostWakeup
  StopIsLossless
  Bookkeeping
PROPERTIES
  ImplementsJobQueue
  EveryJobRuns
  StopTerminates
