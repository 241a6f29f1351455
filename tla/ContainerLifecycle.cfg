CONSTANTS
  Sessions = {s1, s2}
  Names = {n1, n2}
  Gone = Gone
  NoEntry = NoEntry
  Est <- UnitEst
  Budget = 1
  MaxEvictRounds = 1
  MaxArrivals = 2
  MaxFaults = 2
SPECIFICATION FairSpec
INVARIANT TypeOK EveryContainerIsTracked TrackedContainerIsServed
PROPERTY ContainersTakeTurns DueMessageIsClaimed
CHECK_DEADLOCK FALSE
