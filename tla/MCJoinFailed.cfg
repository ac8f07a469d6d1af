SPECIFICATION Spec
CONSTANTS
    Steps = {1, 2, 3}
    DependsOn <- Join
    Compensable = {1, 2}
    Protected = {}
    Effectful = {1, 2, 3}
    Idempotent <- AllProbed
    MaxAttempts <- Once
    Concurrency = 2
    LateEffects = FALSE
    LiveRecovery = FALSE
    MaxFaults = 0
    MaxBinding = 0
INVARIANT FailedLeavesNothing
