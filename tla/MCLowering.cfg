CONSTANTS
  GrammarBytes = {47, 123, 125, 42, 97}
  MaxBytes = 6
  Vocabulary = {"slash", "..", "semi", "?", "a", "A", "%2f", "%25", "2f", "%61", "{A}", "wide."}
  MaxTokens = 3
  NoOffset = 1000
  Rules = {1}
  DENIED_RULE = 1
  DEFAULT_RULE = 9
  Empty <- MCEmpty
  Star <- MCStar
  Segments <- MCSegments
  Texts <- MCTexts
  Configs <- MCConfigs
  Requests <- MCRequests
SPECIFICATION FairSpec
INVARIANTS
  AcceptsExactly
  LoweringInverts
  SubtreeCovers
  AcceptedIsReachable
PROPERTIES
  ReadingEnds
CHECK_DEADLOCK FALSE
