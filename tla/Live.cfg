SPECIFICATION FairSpec
CONSTANTS
    Model <- FragileModel
    None = "-"
    DispatchName = {"x", "y"}
    CompletionName = {"hsm/final", "hsm/error"}
    Client = {c1}
    Free = Free
    Startup = Startup
    Process = Process
    TaskId = {t1, t2}
    CleanupDispatches = TRUE
    ParentMayEnd = TRUE
    MaxEvents = 3
    MaxFaults = 1
PROPERTY DispatchAnswered
PROPERTY MutexReleased
PROPERTY StopCompletes
PROPERTY StopFinishes
CHECK_DEADLOCK FALSE
