SPECIFICATION Spec
CONSTANTS
  Width = 24
  Shown = {"anthropic", "chatgpt"}
  Configs <- MCConfigs
  Catalogue <- MCCatalogue
  Env <- MCEnv
  Typed = 2000000
  MaxClicks = 3
  MaxFaults = 1
INVARIANTS EndpointOfKind SuggestionsFit
PROPERTIES PollEnds
CHECK_DEADLOCK FALSE
