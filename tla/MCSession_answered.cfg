\* Every prompt and interjection is answered under fairness.
CONSTANTS
    None = None
    Clients = {c1, c2}
    c1 = c1
    c2 = c2
    Owner <- MCOwner
    Users = {u1}
    Steers = {s1}
    Tasks = {}
    Plans = {}
    Goals = {}
    Batches = {}
    Crons = {}
    Monitors = {}
    GoalEnabled = FALSE
    DebugAssertions = FALSE
    McpPending = TRUE
    MaxVersion = 0
    MaxCancels = 1
    MaxInjects = 0
    NotificationCap = 1
SPECIFICATION FairSpec
CHECK_DEADLOCK FALSE
PROPERTIES
    EveryPromptAnswered
