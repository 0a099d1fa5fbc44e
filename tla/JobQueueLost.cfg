CONSTANTS
  j1 = j1
  j2 = j2
  j3 = j3
  j4 = j4
  Jobs <- ThreeJobs
  MaxWorkers = 1
  QueueMax = 2
  MaxCallers = 1
SPECIFICATION FairSpec
PROPERTIES EveryJobFinishes
