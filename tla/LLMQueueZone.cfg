SPECIFICATION Spec
CONSTANTS
  a1 = a1
  a2 = a2
  p1 = p1
  p2 = p2
  s1 = s1
  s2 = s2
  None = None
  Articles = {a1}
  Procs = {p1}
  Slots = {s1}
  MaxAttempts = 2
  Backoffs <- ShortBackoffs
  ZoneOffset <- WestOfGreenwich
  MaxDbErrors = 0
  MaxStops = 0
  MaxRetries = 0
  LongRest = 2
PROPERTY
  BackoffRespected
CHECK_DEADLOCK FALSE
