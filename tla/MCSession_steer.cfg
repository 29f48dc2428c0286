\* One prompt, one interjection, a plan resumption and a cancel.
CONSTANTS
    None = None
    Clients = {c1, c2}
    c1 = c1
    c2 = c2
    Owner <- MCOwner
    Users = {u1}
    Steers = {s1}
    Tasks = {}
    Plans = {p1}
    Goals = {}
    Batches = {}
    Crons = {}
    Monitors = {}
    GoalEnabled = FALSE
    DebugAssertions = FALSE
    McpPending = FALSE
    MaxVersion = 0
    MaxCancels = 1
    MaxInjects = 0
    NotificationCap = 1
SPECIFICATION Spec
CHECK_DEADLOCK FALSE
INVARIANTS
    FrontIsRunning
    PinAgreement
    Accounted
    NothingStranded
    LiveTurns
    TerminalOnce
PROPERTIES
    OneAnswer
    
