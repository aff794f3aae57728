CONSTANTS
  a = a
  x = x
  Empty = Empty
  Star = Star
  Literals = {a}
  Segments = {a, x}
  Rules = {1, 2}
  DENIED_RULE = 2
  DEFAULT_RULE = 9
  MaxDepth = 2
  MaxPatterns = 3
  MaxAnchor = 2
  MaxRemainder = 2
  Views <- MCViews
  Anchors <- MCAnchors
  Remainders <- MCRemainders
SPECIFICATION Spec
INVARIANTS
  CoverAgrees
  WalkCollects
  NoRuleOutsideCover
PROPERTIES
  Terminates
CHECK_DEADLOCK FALSE
