\* Two clients, a leader of the day and one that is outdated, one fault.
CONSTANTS
    Clients = {c1, c2}
    MaxLeaders = 2
    MaxInodes = 2
    MaxFaults = 1
    Outdated = {2}
    Relaunchable = {2}
    Nobody = Nobody
SPECIFICATION Spec
CHECK_DEADLOCK FALSE
INVARIANTS
    TypeOK
    PidHolds
    ServingLocked
    OneLeaderPerFile
PROPERTIES
    LetsGo
