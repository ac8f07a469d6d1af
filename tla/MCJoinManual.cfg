SPECIFICATION Spec
CONSTANTS
    Steps = {1, 2, 3}
    DependsOn <- Join
    Compensable = {1, 2}
    Protected = {}
    Effectful = {1, 2, 3}
    Idempotent <- NotProbed2
    MaxAttempts <- Once
    Concurrency = 2
    LateEffects = FALSE
    LiveRecovery = FALSE
    MaxFaults = 1
    MaxBinding = 0
INVARIANT ManualLeavesNothingUnknown
