\* Monitor events around turns that may be cancelled; a goal may drop some.
CONSTANTS
    None = None
    Clients = {c1, c2}
    c1 = c1
    c2 = c2
    Owner <- MCOwner
    Users = {}
    Steers = {}
    Tasks = {m1}
    Plans = {}
    Goals = {}
    Batches = {b1, b2}
    Crons = {}
    Monitors = {m1}
    GoalEnabled = TRUE
    DebugAssertions = FALSE
    McpPending = TRUE
    MaxVersion = 0
    MaxCancels = 1
    MaxInjects = 2
    NotificationCap = 1
SPECIFICATION FairSpec
CHECK_DEADLOCK FALSE
PROPERTIES
    NotificationsDrained
