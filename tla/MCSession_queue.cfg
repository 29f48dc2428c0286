\* Two clients' prompts, queue edits and one cancel, with an MCP release in any window.
CONSTANTS
    None = None
    Clients = {c1, c2}
    c1 = c1
    c2 = c2
    Owner <- MCOwner
    Users = {u1, u2}
    Steers = {}
    Tasks = {}
    Plans = {}
    Goals = {}
    Batches = {}
    Crons = {}
    Monitors = {}
    GoalEnabled = FALSE
    DebugAssertions = FALSE
    McpPending = TRUE
    MaxVersion = 1
    MaxCancels = 1
    MaxInjects = 0
    NotificationCap = 1
SPECIFICATION Spec
CHECK_DEADLOCK FALSE
INVARIANTS
    TypeOK
    FrontIsRunning
    SpawnedOnce
    Accounted
    TerminalOnce
    RunsLatestText
PROPERTIES
    AnsweredByOwnTurn
    ImplementsService
