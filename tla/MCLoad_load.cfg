\* A client that created the session and one that loads it: timeouts of
\* both its flushes, a full live buffer, clients that leave, a load that fails.
CONSTANTS
    Clients = {c1, c2}
    Residents = {c1}
    MaxEvents = 2
    MaxBuffer = 1
    MaxTimeouts = 2
    MaxFaults = 2
    NoClient = NoClient
SPECIFICATION Spec
CHECK_DEADLOCK FALSE
INVARIANTS
    TypeOK
    RoutesLive
    
    
    
    ModalAgreement
PROPERTIES
    LoadAnswered
    GateReopens
