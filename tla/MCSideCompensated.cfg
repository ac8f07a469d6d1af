SPECIFICATION Spec
CONSTANTS
    Steps = {1, 2, 3}
    DependsOn <- Side
    Compensable = {1, 3}
    Protected = {}
    Effectful = {1, 2, 3}
    Idempotent <- AllProbed
    MaxAttempts <- Once
    Concurrency = 2
    LateEffects = FALSE
    LiveRecovery = FALSE
    MaxFaults = 1
    MaxBinding = 0
INVARIANT CompensatedUndoesAll
