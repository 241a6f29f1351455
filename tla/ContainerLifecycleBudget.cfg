CONSTANTS
  Sessions = {s1, s2}
  Names = {n1, n2}
  Gone = Gone
  NoEntry = NoEntry
  Est <- UnitEst
  Budget = 1
  MaxEvictRounds = 1
  MaxArrivals = 1
  MaxFaults = 1
SYMMETRY Symmetry
SPECIFICATION Spec
INVARIANT BudgetRespected
CHECK_DEADLOCK FALSE
