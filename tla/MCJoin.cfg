SPECIFICATION Spec
CONSTANTS
    Steps = {1, 2, 3}
    DependsOn <- Join
    Compensable = {1, 2}
    Protected = {3}
    Effectful = {1, 2, 3}
    Idempotent <- NotProbed2
    MaxAttempts <- Twice
    Concurrency = 2
    LateEffects = TRUE
    LiveRecovery = FALSE
    MaxFaults = 2
    MaxBinding = 0
INVARIANTS
    AtMostOnceEffect
    OutcomeFindsItsAttempt
    RecoveryLeavesNothing
    CompensationHasWork
