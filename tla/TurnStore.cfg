SPECIFICATION Spec
CONSTANTS
  Sessions = {s1, s2}
  Writers = {w1, w2}
  Nowhere = Nowhere
  Words = {x1, x2}
  MaxTurns = 3
  MaxExpanded = 1
  MaxHistory = 5
  ReplayFull = 1
  ReplayMaxFull = 1
  SearchLimit = 2
SYMMETRY Symmetry
INVARIANTS
  EveryAnswerIsFound
  ReplayKeepsNewest
PROPERTIES
  ImplementsConversation
CHECK_DEADLOCK FALSE
