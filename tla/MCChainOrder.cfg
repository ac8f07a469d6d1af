SPECIFICATION Spec
CONSTANTS
    Steps = {1, 2, 3, 4}
    DependsOn <- Chain
    Compensable = {1, 3}
    Protected = {}
    Effectful = {1, 3}
    Idempotent <- AllProbed
    MaxAttempts <- Once
    Concurrency = 1
    LateEffects = FALSE
    LiveRecovery = FALSE
    MaxFaults = 1
    MaxBinding = 0
PROPERTY ReverseDependencyOrder
