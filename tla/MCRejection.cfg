SPECIFICATION Spec
CONSTANTS
    Steps = {1, 2, 3}
    DependsOn <- Chain
    Compensable = {1, 2}
    Protected = {2}
    Effectful = {1, 2}
    Idempotent <- AllProbed
    MaxAttempts <- Once
    Concurrency = 1
    LateEffects = FALSE
    LiveRecovery = FALSE
    MaxFaults = 1
    MaxBinding = 0
PROPERTY RejectionCompensates
