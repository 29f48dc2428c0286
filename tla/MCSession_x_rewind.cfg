\* A rewind of a turn that prompt_index does not count yet.
CONSTANTS
    None = None
    Clients = {c1, c2}
    c1 = c1
    c2 = c2
    Owner <- MCOwner
    Users = {u1, u2}
    Steers = {}
    Tasks = {}
    Plans = {}
    Goals = {}
    Batches = {}
    Crons = {}
    Monitors = {}
    GoalEnabled = FALSE
    DebugAssertions = FALSE
    McpPending = TRUE
    MaxVersion = 0
    MaxCancels = 1
    MaxInjects = 0
    NotificationCap = 1
SPECIFICATION Spec
CHECK_DEADLOCK FALSE
PROPERTIES
    RewindOwnPrompt
