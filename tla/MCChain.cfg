SPECIFICATION Spec
CONSTANTS
    Steps = {1, 2, 3}
    DependsOn <- Chain
    Compensable = {1, 2}
    Protected = {2}
    Effectful = {1, 2}
    Idempotent <- AllProbed
    MaxAttempts <- Twice
    Concurrency = 1
    LateEffects = FALSE
    LiveRecovery = TRUE
    MaxFaults = 2
    MaxBinding = 1
INVARIANTS
    TypeOK
    DependencyOrder
    OneForwardAttempt
    CompensatedUndoesAll
    FailedLeavesNothing
PROPERTY
    KeepsContract
