CONSTANTS
  Vocabulary = {"slash", "..", "semi", "back", "a", "b", "A", "nul", "%2f", "%2e", "%61", "%2561", "%3f", "wide."}
  MaxTokens = 3
  Climbing = {"slash", "..", "a", "%2f"}
  MaxClimbing = 4
  Spelled = {"slash", "a", "%61", "%5c", "wideback"}
  MaxSpelled = 3
  NoOffset = 1000
  Rules = {1, 2, 8}
  DENIED_RULE = 8
  DEFAULT_RULE = 9
  Empty <- MCEmpty
  Star <- MCStar
  Segments <- MCSegments
  Tables <- BackendTables
  Configs <- BackendConfigs
  Requests <- BackendRequests
SPECIFICATION BackendSpec
INVARIANTS
  NoRelocation
  AnchorSurvives
  CanonicalUntouched
CHECK_DEADLOCK FALSE
