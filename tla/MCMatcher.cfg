CONSTANTS
  a = a
  x = x
  Empty = Empty
  Star = Star
  Literals = {a}
  Segments = {a, x}
  Rules = {1}
  DENIED_RULE = 1
  DEFAULT_RULE = 9
  MaxDepth = 2
  MaxPatterns = 3
  MaxPath = 3
  Views <- MCViews
  Requests <- MCRequests
SPECIFICATION Spec
INVARIANTS
  ClaimsBestMatch
  NothingGivenUp
PROPERTIES
  ImplementsLookup
CHECK_DEADLOCK FALSE
