SPECIFICATION UpgradeSpec
CONSTANTS
    Steps = {1, 2, 3, 4}
    DependsOn <- Chain
    Compensable = {2, 3}
    Protected = {2}
    Effectful = {2, 3}
    Idempotent <- EffectsProbed
    MaxAttempts <- Once
    Concurrency = 2
    LateEffects = FALSE
    LiveRecovery = TRUE
    MaxFaults = 2
    MaxBinding = 1
    Tool <- UpgradeTool
    Clients = {"standard", "express"}
INVARIANTS
    ServiceNeverAheadOfSchema
    CompensatedRestoresBaseline
    SucceededIsUpgraded
    LedgerTellsTheWorld
    RejectedIsCancelled
    StagesAreTrue
PROPERTY
    PrioritiesKept
