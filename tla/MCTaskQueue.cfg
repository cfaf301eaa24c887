SPECIFICATION FairSpec
CONSTANTS
    GoalIds = {1}
    Priorities = {1}
    Clients = {c1}
    MaxTasks = 3
    Progress = {"planning"}
    ChildRequests <- MCChildRequests
    Requests <- MCRequests
    LegacyRows <- MCLegacyRows
    GoalPriority <- MCGoalPriority
INVARIANTS
    TypeOK
    QueuedIsClaimable
    NoReplay
    CompletedUncancelled
    OneTaskPerGoal
    CancelReachesChildren
    GoalEvidence
PROPERTIES
    GoalStaysStopped
    ImplementsTaskLife
    EveryTaskEnds
CHECK_DEADLOCK FALSE
