SPECIFICATION FairSpec
CONSTANTS
  a1 = a1
  a2 = a2
  p1 = p1
  p2 = p2
  s1 = s1
  s2 = s2
  None = None
  Articles = {a1, a2}
  Procs = {p1, p2}
  Slots = {s1}
  MaxAttempts = 2
  Backoffs <- ShortBackoffs
  ZoneOffset = 0
  MaxDbErrors = 1
  MaxStops = 1
  MaxRetries = 1
  LongRest = 2
INVARIANTS
  TypeOK
  SoleOwner
  NoCallAfterAnalysis
  AnalysisAndJobAgree
  AttemptsBounded
  RepeatedAnswersPaid
  OrphansAccounted
PROPERTIES
  BackoffRespected
  ImplementsLedger
  JobsSettleOrOrphan
CHECK_DEADLOCK FALSE
