SPECIFICATION Spec
CONSTANTS
    Owners = {owner}
    Runners = {runner}
    MaxCalls = 3
    MaxDeaths = 1
    WorkerLanes = {"conversation", "reflection", "research"}
    Terminals = {"home"}
    Top = 4
    Default = 2
    GoalIds = {}
    Priorities = {50}
    Requests = 4
    Bytes = 4
    PageLimit = 3
    Chunk = 2
    Hops = 3
    Urls = 2
    Steps = 3
    Limit = 9
    Reserve = 3
    LineLimit = 3
    Marker = 2
    Omitted = 2
    Summary = 3
    Growth = 2
    MaxChunks = 3
    Capture = 3
    MaxWritten = 5
    Openers = {p1, p2, p3}
    MaxFaults = 2
    Work <- MCWork
    Changes <- MCChanges
    Chunks <- MCChunks
INVARIANTS
    TypeOK
    RunsOnEvidence
    OwnerDisableStands
    UpdatesSurvive
    BudgetsHold
    CancelHeeded
    LogKeepsSummary
    MigratedOnce
PROPERTIES
    FailsClosed
CHECK_DEADLOCK FALSE
