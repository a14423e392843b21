SPECIFICATION Spec
CONSTANTS
    Model <- FragileModel
    None = "-"
    DispatchName = {"x", "y"}
    CompletionName = {"hsm/final", "hsm/error"}
    Client = {}
    Free = Free
    Startup = Startup
    Process = Process
    TaskId = {t1}
    CleanupDispatches = FALSE
    ParentMayEnd = FALSE
    MaxEvents = 2
    MaxFaults = 1
INVARIANT DeferredNeverLost
CHECK_DEADLOCK FALSE
