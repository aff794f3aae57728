CONSTANTS
  Vocabulary = {"slash", "dot", "semi", "a", "back", "%2f", "%2e", "%3f", "%25", "2e", "%c0%ae", "%c0%af", "wide;", "wide."}
  MaxTokens = 3
  NoOffset = 1000
  Views <- MCViews
  Configs <- MCConfigs
SPECIFICATION Spec
INVARIANTS
  EarliestAgrees
  PopsAgree
  ScansEverything
  Monotone
PROPERTIES
  Terminates
CHECK_DEADLOCK FALSE
