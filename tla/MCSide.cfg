SPECIFICATION LiveSpec
CONSTANTS
    Steps = {1, 2, 3}
    DependsOn <- Side
    Compensable = {1, 3}
    Protected = {2, 3}
    Effectful = {1, 2, 3}
    Idempotent <- AllProbed
    MaxAttempts <- Twice
    Concurrency = 2
    LateEffects = FALSE
    LiveRecovery = FALSE
    MaxFaults = 1
    MaxBinding = 1
INVARIANTS
    ApprovalBarrier
PROPERTY
    ProtectedStartsApproved
    DependentsCompensatedFirst
    AlwaysRests
