CONSTANTS
    PlanSteps = {1, 2, 3}
    Strangers = {0}
    Claims <- MCClaims
    Tools <- MCTools
    DescriptorRisk <- MCDescriptorRisk
    Policies <- MCPolicies
    Retrieved = {"runbook", "note", "rival"}
    Trusted = {"runbook", "rival"}
    Conflicted = {"rival"}
    MaxSteps = 3
    MaxEdges = 2
SPECIFICATION ValidationSpec
INVARIANTS
    CycleFound
    PreparedIsGoverned
PROPERTY
    ReadyIsPrepared
CHECK_DEADLOCK FALSE
