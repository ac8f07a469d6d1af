CONSTANTS
    Tasks = {t1, t2}
    Requests = {"full", "partial"}
    Complete = {"full"}
    Documents = {"base", "more", "rival"}
    Initial = {"base"}
    Rivals = {{"base", "rival"}}
    Costs = {0, 1}
    MaxCalls = 2
    MaxTokens = 1
    MaxRetries = 1
    MaxToolRounds = 1
    MaxAttempts = 2
    MaxCrashes = 1
SPECIFICATION PlanningSpec
INVARIANTS
    StatusMatchesAttempt
    EvidenceIsDated
    BudgetKept
PROPERTY
    PreparedIsLatestResult
    PlanningAdvances
SYMMETRY TaskSymmetry
CHECK_DEADLOCK FALSE
