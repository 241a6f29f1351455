CONSTANTS
  Sessions = {s1}
  Names = {n1, n2}
  Gone = Gone
  NoEntry = NoEntry
  Est <- UnitEst
  Budget = 1
  MaxEvictRounds = 1
  MaxArrivals = 1
  MaxFaults = 2
SYMMETRY Symmetry
SPECIFICATION Spec
INVARIANT OneContainerPerSession
CHECK_DEADLOCK FALSE
