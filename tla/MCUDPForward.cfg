SPECIFICATION Spec
CONSTANTS
  Sources = {a, b}
  NoSource = NoSource
  MaxMade = 3
  MaxConns = 1
  QueueCap = 1
  Budget = 2
SYMMETRY Symm
CHECK_DEADLOCK FALSE
INVARIANTS TableOK BudgetExact NothingLeft NeverStalls GoesOn
