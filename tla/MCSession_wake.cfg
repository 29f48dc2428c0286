\* A background task's wake, a scheduled prompt and a goal around one client prompt.
CONSTANTS
    None = None
    Clients = {c1, c2}
    c1 = c1
    c2 = c2
    Owner <- MCOwner
    Users = {u1}
    Steers = {}
    Tasks = {t1}
    Plans = {}
    Goals = {g1}
    Batches = {}
    Crons = {k1}
    Monitors = {}
    GoalEnabled = TRUE
    DebugAssertions = FALSE
    McpPending = FALSE
    MaxVersion = 0
    MaxCancels = 0
    MaxInjects = 0
    NotificationCap = 1
SPECIFICATION Spec
CHECK_DEADLOCK FALSE
INVARIANTS
    SpawnedOnce
    LiveTurns
