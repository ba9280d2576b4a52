SPECIFICATION Spec
CONSTANTS
  None = None
  Articles = {1, 2, 3, 4, 5}
  SizesAsked = {None, 0, 50}
  SizeDefault = 1
  SizeMax = 2
  MaxRows = 3
  MaxMoves = 3
INVARIANTS
  TypeOK
  MissedBounded
  TotalHonest
CHECK_DEADLOCK FALSE
