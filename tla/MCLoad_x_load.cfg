\* A client is attached, another one loads; nothing fails.
CONSTANTS
    Clients = {c1, c2}
    Residents = {c1}
    MaxEvents = 2
    MaxBuffer = 3
    MaxTimeouts = 0
    MaxFaults = 0
    NoClient = NoClient
SPECIFICATION Spec
CHECK_DEADLOCK FALSE
INVARIANT NoBlackout
