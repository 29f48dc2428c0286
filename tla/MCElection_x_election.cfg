\* Two clients start at once; nothing fails.
CONSTANTS
    Clients = {c1, c2}
    MaxLeaders = 2
    MaxInodes = 2
    MaxFaults = 0
    Outdated = {}
    Relaunchable = {}
    Nobody = Nobody
SPECIFICATION Spec
CHECK_DEADLOCK FALSE
INVARIANTS
    ServingReachable
