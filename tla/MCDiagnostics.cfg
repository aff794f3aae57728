CONSTANTS
  a = a
  b = b
  x = x
  Structured = Structured
  Upper = Upper
  Bad = Bad
  c1 = c1
  c2 = c2
  GET = GET
  POST = POST
  EXT = EXT
  Empty = Empty
  Star = Star
  All = All
  Other = Other
  Segments = {a, b, x, c1, c2, Structured, Upper}
  StructuralLiterals = {Structured}
  UppercaseLiterals = {Upper}
  Methods = {GET, POST, EXT}
  Malformed = {Bad}
  DENIED_RULE = 4
  DEFAULT_RULE = 9
  Rules = {0, 1, 2, 3, 4}
  MaxDepth = 2
  MaxPath = 3
  Standard <- MCStandard
  Captures <- MCCaptures
  Builds <- BuiltOrLinted
  Requests <- MCRequests
SPECIFICATION DSpec
INVARIANTS
  BuildsExactly
  ContinuationAgrees
  ExclusiveOwnsTail
  RuleIdsResolve
  BlamesOffender
  GapsAreReal
  OverlapsRepresented
CHECK_DEADLOCK FALSE
