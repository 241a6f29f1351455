CONSTANTS
  Conns = {c1, c2}
  NoConn = NoConn
  Payloads = {good, bad}
  Rejected = {bad}
  Retention = 1
  MaxUp = 2
  MaxDown = 2
  MaxFaults = 2
SPECIFICATION FairSpec
INVARIANTS
  TypeOK
  OnlyRejectedEventsAreNacked
  ReadyMeansComplete
  OneDurableAtATime
  NobodyWaits
PROPERTIES
  UpIsOrderedJournal
  DownIsOrderedJournal
  EventuallyDrained
CHECK_DEADLOCK FALSE
