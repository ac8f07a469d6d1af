SPECIFICATION OpsSpec
CONSTANTS
    Requests = {1, 2}
    Usable = {1}
    Limit = 3
    MaxFaults = 0
INVARIANT
    ConflictsChangeNothing
CHECK_DEADLOCK FALSE
