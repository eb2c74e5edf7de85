SPECIFICATION Spec
CONSTANTS
  Wires = {"anthropic", "openai_compat", "chatgpt", "mock"}
  Scripts <- MCScripts
  MaxToolTurns = 1
  MaxTexts = 1
  MaxCalls = 2
  MaxPieces = 2
INVARIANTS
  RepliesAreTrue
  RequestIsWhole
