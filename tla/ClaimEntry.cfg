SPECIFICATION Spec
CONSTANTS
    Model <- GatewayModel
    None = "-"
    DispatchName = {"x"}
    CompletionName = {"hsm/final", "hsm/error"}
    Client = {}
    Free = Free
    Startup = Startup
    Process = Process
    TaskId = {t1}
    CleanupDispatches = FALSE
    ParentMayEnd = FALSE
    MaxEvents = 2
    MaxFaults = 0
INVARIANT EntryActionsRun
CHECK_DEADLOCK FALSE
