SPECIFICATION FairSpec
CONSTANTS
  s1 = s1
  s2 = s2
  s3 = s3
  s4 = s4
  command = command
  Process = command
  Sources = {s1, s2, s3, s4}
  Selected = {s1, s2, s3}
  Supported = {s1, s2}
  MaxParallel = 2
INVARIANTS
  TypeOK
  NoSendAfterClose
  SendHasRoom
  NoSourceLeftBehind
PROPERTIES
  KeepsHealth
  CrawlReturns
