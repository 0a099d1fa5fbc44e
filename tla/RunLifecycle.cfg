CONSTANTS
  p1 = p1
  p2 = p2
  q1 = q1
  q2 = q2
  r1 = r1
  r2 = r2
  Profiles <- MCProfiles
  Scheduled <- MCProfiles
  Runs <- TwoRuns
  Requests <- MCRequests
  MaxParallel = 1
  NoProfile = NoProfile
  Free = Free
SPECIFICATION Spec
INVARIANTS LiveChildHasSlot ChildrenBounded FreedSlotHasClosedRow
SYMMETRY Symmetry
