SPECIFICATION FairSpec
CONSTANTS
    Model <- WorkshopModel
    None = "-"
    DispatchName = {"x", "y"}
    CompletionName = {"hsm/final", "hsm/error"}
    Client = {}
    Free = Free
    Startup = Startup
    Process = Process
    TaskId = {t1, t2}
    CleanupDispatches = TRUE
    ParentMayEnd = FALSE
    MaxEvents = 2
    MaxFaults = 0
PROPERTY CancelledActivityEnds
CHECK_DEADLOCK FALSE
