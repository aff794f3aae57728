CONSTANTS
  Vocabulary = {"slash", "..", "semi", "back", "a", "b", "A", "nul", "%2f", "%2e", "%61", "%2561", "%3f", "wide.", "%"}
  MaxTokens = 3
  NoOffset = 1000
  Rules = {1, 2, 8}
  DENIED_RULE = 8
  DEFAULT_RULE = 9
  Empty <- MCEmpty
  Star <- MCStar
  Segments <- MCSegments
  Tables <- MCTables
  Configs <- MCConfigs
  Requests <- MCRequests
SPECIFICATION ESpec
INVARIANTS
  StricterOnlyDenies
  PlainPasses
  ProbesComeLast
  RawMatchAgrees
  ExplanationTellsWhy
PROPERTIES
  ImplementsGate
CHECK_DEADLOCK FALSE
