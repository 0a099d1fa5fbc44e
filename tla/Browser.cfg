CONSTANTS
  r1 = r1
  r2 = r2
  a = a
  ab = ab
  Procs = {r1, r2}
  ByPath = {r1}
  Dirs = {a, ab}
  Matches <- MCMatches
  Places <- MCPlaces
  Free = Free
  Attempts = 2
  MaxFrights = 1
  Generations = 2
  KillAfter = 3
  q1 = q1
  q2 = q2
  mine = mine
  target = target
  other = other
  Flows <- MCFlows
  Legacies <- MCLegacies
  Queries <- MCQueries
  Ads = {mine, target, other}
  Mine = {mine}
  Targets = {target}
  Answer <- MCAnswer
  Captcha = {q2}
  Conds <- MCConds
  Bodies <- MCBodies
  Meaning <- MCMeaning
  Rounds <- MCRounds
  OldRun <- MCOldRun
  None = None
  t1 = t1
  t2 = t2
  Threads = {t1, t2}
  MaxLines = 3
  Ring = 2
  QueueCap = 2
  MaxBreaks = 2
  Nothing = Nothing
  p1 = p1
  MaxScripts = 2
  Profiles = {p1}
  Slots = {t1, t2}
  MaxEdits = 1
  MaxClock = 1
  MaxRequests = 3
  Absent = Absent
SPECIFICATION Spec
INVARIANTS    NoIdleBeat FlowFollowsText  LinesOnce OverlapOnly  SavesSeen
PROPERTIES WedgeEnds StruckOut
CHECK_DEADLOCK FALSE
