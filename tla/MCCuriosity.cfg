SPECIFICATION MCSpec
CONSTANTS
    GoalIds = {1}
    GoalType <- MCGoalType
    Priorities = {5, 50, 100}
    Terminals = {home, terminal}
    Home = home
    Idle = 1
    Interval = 1
    Day = 4
    Daily = 2
    MaxClock = 4
    MaxTasks = 4
    MaxEvents = 2
INVARIANTS
    SessionLimits
    OneSession
    OvertakenOnce
    SweepsReach
CHECK_DEADLOCK FALSE
