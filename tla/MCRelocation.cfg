CONSTANTS
  Vocabulary = {"slash", "a", "A", "%61"}
  MaxTokens = 3
  Climbing = {}
  MaxClimbing = 0
  Spelled = {}
  MaxSpelled = 0
  NoOffset = 1000
  Rules = {1, 2, 8}
  DENIED_RULE = 8
  DEFAULT_RULE = 9
  Empty <- MCEmpty
  Star <- MCStar
  Segments <- MCSegments
  Tables <- MCTables
  Configs <- BackendConfigs
  Requests <- BackendRequests
SPECIFICATION BackendSpec
INVARIANTS
  DeniesEveryModeledRelocation
CHECK_DEADLOCK FALSE
