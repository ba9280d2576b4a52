SPECIFICATION ClusterSpec
CONSTANTS
  a1 = a1
  a2 = a2
  a3 = a3
  p1 = p1
  w1 = w1
  w2 = w2
  cut = cut
  fed = fed
  ACME = ACME
  banks = banks
  title = title
  None = None
  Articles = {a1, a2, a3}
  Procs = {p1}
  Slots = {w1, w2}
  Answer <- OneEvent
  CandidateLimit = 50
  MaxAttempts = 1
  Backoffs <- NoBackoff
  ZoneOffset = 0
  MaxDbErrors = 1
  MaxStops = 1
  MaxRetries = 0
  LongRest = 0
  MaxFaults = 1
  MaxTroubles = 1
INVARIANTS
  ClusterTypeOK
  OneEventPerArticle
  ClusteringAccounted
  TwinsBounded
PROPERTY
  DrivesQueue
SYMMETRY AlikeWorkers
CHECK_DEADLOCK FALSE
