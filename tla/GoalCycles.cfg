SPECIFICATION CycleSpec
CONSTANTS
    GoalIds = {1}
    Priorities = {1}
    Clients = {c1}
    MaxTasks = 3
    Progress = {}
    ChildRequests <- MCChildRequests
    Requests <- MCRequests
    LegacyRows <- MCLegacyRows
    GoalPriority <- MCGoalPriority
PROPERTY NewCycleOutlivesOld
CHECK_DEADLOCK FALSE
