SPECIFICATION IntakeSpec
CONSTANTS
  u1 = u1
  u2 = u2
  u3 = u3
  u4 = u4
  p1 = p1
  p2 = p2
  w1 = w1
  h1 = h1
  h2 = h2
  wire = wire
  rates = rates
  menu = menu
  text = text
  more = more
  None = None
  Articles = {u1, u2, u3, u4}
  Procs = {p1}
  Slots = {w1}
  Crawlers = {h1}
  Items <- Revised
  MaxAttempts = 1
  Backoffs <- OneTick
  ZoneOffset = 0
  MaxDbErrors = 0
  MaxStops = 0
  MaxRetries = 0
  LongRest = 1
  Navigation = {menu}
  FullText = {wire}
  MinWords = 20
  Horizon = 2
  MaxFetches = 2
  MaxFaults = 0
  MaxTroubles = 0
INVARIANT
  UpdatesKept
CHECK_DEADLOCK FALSE
