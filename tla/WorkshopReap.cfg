SPECIFICATION Spec
CONSTANTS
    GoalIds = {}
    Priorities = {50}
    NWorkshops = 1
    Routes = {"capability"}
    ResearchNeeded = TRUE
    MaxTasks = 3
    MaxStops = 0
    MaxCrashes = 0
PROPERTIES
    ReapingKeepsWaiting
CHECK_DEADLOCK FALSE
