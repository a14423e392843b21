SPECIFICATION Spec
CONSTANTS
    Model <- WorkshopModel
    None = "-"
    DispatchName = {"x", "y"}
    CompletionName = {"hsm/final", "hsm/error"}
    Client = {c1, c2}
    Free = Free
    Startup = Startup
    Process = Process
    TaskId = {t1, t2, t3}
    CleanupDispatches = TRUE
    ParentMayEnd = FALSE
    MaxEvents = 2
    MaxFaults = 0
INVARIANT NoLostWakeup
INVARIANT OneOwner
INVARIANT ActivityScope
INVARIANT OnlyAwaitedCancelled
INVARIANT StoppedIsQuiet
CHECK_DEADLOCK FALSE
