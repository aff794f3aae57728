CONSTANTS
  a = a
  b = b
  x = x
  GET = GET
  Empty = Empty
  Star = Star
  All = All
  Other = Other
  Segments = {a, b, x}
  StructuralLiterals = {}
  UppercaseLiterals = {}
  Methods = {GET}
  Malformed = {}
  DENIED_RULE = 4
  DEFAULT_RULE = 9
  Rules = {0, 1, 2, 3, 4}
  MaxPath = 2
  MaxDrafts = 2
  MaxCalls = 3
  Subtrees <- MCSubtrees
  Added <- MCAdded
  Lists <- MCLists
  KeyLists <- MCKeyLists
  Builds <- MCBuilds
  Requests <- MCRequests
SPECIFICATION BSpec
INVARIANTS
  AnswersAsCalled
CHECK_DEADLOCK FALSE
