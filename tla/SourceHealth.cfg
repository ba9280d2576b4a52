SPECIFICATION FairSpec
CONSTANTS
  s1 = s1
  s2 = s2
  server = server
  request = request
  command = command
  None = None
  Sources = {s1, s2}
  Servers = {server}
  Requests = {request}
  Commands = {command}
  MaxParallel = 1
  RunOnStartup = FALSE
  MaxTroubles = 1
INVARIANTS
  HealthTypeOK
  OrphansBounded
PROPERTIES
  ResultStays
  StrandedSuperseded
CHECK_DEADLOCK FALSE
