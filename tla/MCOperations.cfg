SPECIFICATION OpsLiveSpec
CONSTANTS
    Requests = {1, 2}
    Usable = {1}
    Limit = 3
    MaxFaults = 2
INVARIANTS
    PlanReadyWasDriven
    ApprovedIsKnown
    RefusedRecoveryChangesNothing
PROPERTY
    OperationsEnd
CHECK_DEADLOCK FALSE
