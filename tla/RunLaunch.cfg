CONSTANTS
  p1 = p1
  p2 = p2
  q1 = q1
  q2 = q2
  r1 = r1
  r2 = r2
  Profiles <- OneProfile
  Scheduled <- NoneScheduled
  Runs <- TwoRuns
  Requests <- MCRequests
  MaxParallel = 2
  NoProfile = NoProfile
  Free = Free
SPECIFICATION FairSpec
INVARIANTS OneChildPerProfile
PROPERTIES ImplementsLease DeadChildFreesSlot LaunchAnswered
