SPECIFICATION SourceSpec
CONSTANTS
  u1 = u1
  u2 = u2
  c1 = c1
  c2 = c2
  None = None
  Sources <- FilingSources
  Pages <- SmallPages
  LinkedPages <- SmallLinked
  Feeds <- SmallFeeds
  Companies = {c1, c2}
  Urls = {u1, u2}
  Dates = {1, 2}
  Since = 2
  LastWindow = 3
  DefaultItems = 2
INVARIANT
  FailuresMarked
