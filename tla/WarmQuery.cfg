SPECIFICATION FairSpec
CONSTANTS
    Providers = {"opencode", "claude", "native"}
    MaxTurns = 2
INVARIANTS
    TypeOK
    NoRetryAfterTools
    IdleBetweenTurns
    NoticeOnlyWithoutReply
    SilenceIsChosen
PROPERTIES
    TurnsAreSettledOnce
    EveryTurnSettles
CHECK_DEADLOCK FALSE
