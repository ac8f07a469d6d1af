SPECIFICATION UpgradeSpec
CONSTANTS
    Steps = {1, 2, 3, 4}
    DependsOn <- Chain
    Compensable = {2, 3}
    Protected = {2}
    Effectful = {2, 3}
    Idempotent <- EffectsProbed
    MaxAttempts <- Once
    Concurrency = 2
    LateEffects = FALSE
    LiveRecovery = TRUE
    MaxFaults = 1
    MaxBinding = 0
    Tool <- UpgradeTool
    Clients = {}
INVARIANT NotFoundMeansNoEffect
