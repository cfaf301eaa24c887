SPECIFICATION Spec
CONSTANTS
    GoalIds = {}
    Priorities = {50}
    NWorkshops = 1
    Routes = {"capability"}
    ResearchNeeded = TRUE
    MaxTasks = 3
    MaxStops = 1
    MaxCrashes = 0
PROPERTIES
    ShutdownKeepsWaiting
CHECK_DEADLOCK FALSE
