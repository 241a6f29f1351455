CONSTANTS
  Msgs = {m1}
  MaxTries = 2
  MaxCrashes = 2
  MaxFaults = 3
SPECIFICATION FairSpec
INVARIANT TypeOK TriesAreEarned HintIsNotLost
PROPERTY CompletionsStick EveryMessageSettles
CHECK_DEADLOCK FALSE
