CONSTANTS
  Lengths = {4}
  MaxCalls = 4
  NoOffset = 1000
  Rules = {1, 2, 8}
  DENIED_RULE = 8
  DEFAULT_RULE = 9
  Empty <- MCEmpty
  Star <- MCStar
  Segments <- MCSegments
  Tables <- MCTables
  Requests <- MCRequests
SPECIFICATION Spec
INVARIANTS
  ReadsAsWritten
PROPERTIES
  AddingOnlyDenies
CHECK_DEADLOCK FALSE
