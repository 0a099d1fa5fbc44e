CONSTANTS
  p1 = p1
  Gone = Gone
  DayLen = 3
  Days = 2
  Settings <- MCSettings
  Target = 2
  MaxFails = 2
  Pool = 2
  Window = 2
  MaxToday = 3
  Tasks = {1}
  Profiles = {p1}
  Crons <- MCCrons
  Horizon = 2
  Lookahead = 3
  SkewLimit = 1
  MaxFaults = 1
SPECIFICATION Spec
PROPERTIES SurvivesBadTicks
