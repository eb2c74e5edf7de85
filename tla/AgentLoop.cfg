SPECIFICATION Spec
CONSTANTS
  Calls = {c1, c2, c3}
  MaxUses = 2
  Sizes = {1, 2, 5}
  RefusalSize = 1
  MaxToolTurns = 5
  ResultChars = 3
  TurnChars = 4
  Floor = 1
  Pending = Pending
INVARIANTS
  BudgetHolds
  NoIdleRounds
CHECK_DEADLOCK FALSE
