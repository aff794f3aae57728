CONSTANTS
  a = a
  b = b
  x = x
  Structured = Structured
  Upper = Upper
  GET = GET
  POST = POST
  Bad = Bad
  Empty = Empty
  Star = Star
  All = All
  Other = Other
  Segments = {a, b, x, Structured, Upper}
  StructuralLiterals = {Structured}
  UppercaseLiterals = {Upper}
  Methods = {GET, POST}
  Malformed = {Bad}
  DENIED_RULE = 4
  DEFAULT_RULE = 9
  Rules = {0, 1, 2, 3, 4}
  MaxDepth = 2
  MaxPath = 3
  Builds <- MCBuilds
  Requests <- MCRequests
SPECIFICATION Spec
INVARIANTS
  MethodBlind
CHECK_DEADLOCK FALSE
