SPECIFICATION Spec
CONSTANTS
    Providers = {"opencode", "claude", "native"}
    MaxTurns = 2
INVARIANT NoUnexplainedSilence
CHECK_DEADLOCK FALSE
