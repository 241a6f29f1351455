CONSTANTS
  N = 3
  Drains = {d1, d2}
  Bounced = {1, 2}
  MaxAttempts = 2
  MaxBounceBacks = 1
  MaxFailures = 2
  MaxFaults = 1
SPECIFICATION FairSpec
INVARIANT TypeOK ReceiptIsEarned HintIsNotLost
PROPERTY ImplementsOutbox DueMessageSettles
CHECK_DEADLOCK FALSE
