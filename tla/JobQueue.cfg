CONSTANTS
  j1 = j1
  j2 = j2
  j3 = j3
  j4 = j4
  Jobs <- MCJobs
  MaxWorkers = 1
  QueueMax = 2
  MaxCallers = 2
SPECIFICATION FairSpec
INVARIANTS TypeOK CancelledNeverRuns RunningIffExecuting QueueBounded
PROPERTIES ImplementsContract  RegisteredJobFinishes
