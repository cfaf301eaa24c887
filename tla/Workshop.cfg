SPECIFICATION FairSpec
CONSTANTS
    GoalIds = {}
    Priorities = {50}
    NWorkshops = 1
    Routes = {"build", "tool", "capability"}
    ResearchNeeded = TRUE
    MaxTasks = 12
    MaxStops = 1
    MaxCrashes = 1
INVARIANTS
    CheckpointHolds
    OneStageAtATime
    CompletedOnEvidence
    JournalOncePerCrash
PROPERTIES
    NoStageAfterCancel
    NoStageOfEndedWorkshop
    WorkshopsEnd
CHECK_DEADLOCK FALSE
