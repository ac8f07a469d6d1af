CONSTANTS
    Tasks = {t1}
    Requests = {"full", "partial"}
    Complete = {"full"}
    Documents = {"base", "more", "rival"}
    Initial = {"base"}
    Rivals = {{"base", "rival"}}
    Costs = {0, 1}
    MaxCalls = 1
    MaxTokens = 1
    MaxRetries = 0
    MaxToolRounds = 0
    MaxAttempts = 1
    MaxCrashes = 0
SPECIFICATION PlanningSpec
INVARIANT NoSilentSelection
CHECK_DEADLOCK FALSE
