CONSTANTS
  h1 = h1
  h2 = h2
  s1 = s1
  s2 = s2
  s3 = s3
  Handlers <- TwoHandlers
  Pids <- MCPids
  NoPid = NoPid
SPECIFICATION Spec
INVARIANTS AtMostOneScheduler
