\* Send-now prompts and an interjection stacked behind a goal turn.
CONSTANTS
    None = None
    Clients = {c1, c2}
    c1 = c1
    c2 = c2
    Owner <- MCOwner
    Users = {u1, u2}
    Steers = {s1}
    Tasks = {}
    Plans = {}
    Goals = {}
    Batches = {}
    Crons = {}
    Monitors = {}
    GoalEnabled = TRUE
    DebugAssertions = FALSE
    McpPending = TRUE
    MaxVersion = 0
    MaxCancels = 0
    MaxInjects = 0
    NotificationCap = 1
SPECIFICATION Spec
CHECK_DEADLOCK FALSE
INVARIANTS
    FrontIsRunning
PROPERTIES
    SendNowFifo
